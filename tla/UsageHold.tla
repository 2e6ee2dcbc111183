------------------------------ MODULE UsageHold ------------------------------
(***************************************************************************)
(* One account of the usage-hold registry (internal/usagehold), and the    *)
(* turns a hold pauses: background spawns (tools/spawn_usage_hold.go) and  *)
(* background work in a session of its own (agent/                         *)
(* usage_hold_background.go).  The registry keeps the usage windows that   *)
(* hold the account; whichever goroutine moves its phase away from open    *)
(* then calls every agent, outside the registry's lock, to interrupt the   *)
(* turns registered with it (usage_hold_interrupt.go).  An interrupted     *)
(* turn waits for the lift and goes on.  Windows and the records of paused *)
(* work survive a crash.                                                   *)
(***************************************************************************)
EXTENDS Naturals, FiniteSets

CONSTANTS Windows,      \* the account's usage windows
          Agents,       \* the agents on the account, all subscribed
          Observers,    \* goroutines that report usage or tick
          Spawns,       \* background spawns, one step each and its resumes
          Works,        \* background-work turns
          AgentOf,      \* [Spawns \cup Works -> Agents]
          Reports,      \* the usage reports that come
          MaxReports,   \* bound: how many
          MaxCrashes    \* bound: how often the process ends

Turns == Spawns \cup Works
Goroutines == Observers \cup Turns

ASSUME HoldAssumption ==
    /\ Spawns \cap Works = {} /\ Observers \cap Turns = {}
    /\ AgentOf \in [Turns -> Agents]
    /\ Reports \subseteq {"reached", "high", "endless", "low", "unclear"}
    /\ MaxReports \in Nat /\ MaxCrashes \in Nat

VARIABLES
    windows,     \* account.windows: what each window's entry says
    due,         \* entries whose reset time has passed
    phase,       \* account.phase
    epoch,       \* account.epoch
    stored,      \* the windows in the Store
    calls,       \* each goroutine: the agents it still has to call, and the
                 \* epoch of the hold start it calls them for
    pc,          \* where each turn's owner is
    registered,  \* usageHold.turns of the agents
    since,       \* the epoch a turn registered in
    hit,         \* holdTurn.hit
    paused,      \* usageHold.paused of the agents
    record,      \* Works with a PausedBackground record
    stopped,     \* Spawns whose context ended
    fate,        \* how a turn ended
    reports, crashes

vars == <<windows, due, phase, epoch, stored, calls, pc, registered, since, hit,
          paused, record, stopped, fate, reports, crashes>>
account == <<windows, due, phase, epoch, stored, calls>>
marks == <<registered, since, hit>>
bounds == <<reports, crashes>>

Entry == {"none", "high", "endless", "reached"}
Waiting == {"wait", "sleep", "lifted"}

TypeOK ==
    /\ windows \in [Windows -> Entry] /\ stored \in [Windows -> Entry]
    /\ due \subseteq {w \in Windows : windows[w] \in {"high", "reached"}}
    /\ phase \in {"open", "hold", "stop"} /\ epoch \in 0..(MaxReports + 1)
    /\ calls \in [Goroutines -> [left : SUBSET Agents, epoch : 0..(MaxReports + 1)]]
    /\ pc \in [Turns -> {"idle", "check", "register", "gate", "run", "ended", "save",
                         "pause", "over"} \cup Waiting]
    /\ registered \subseteq Turns /\ hit \subseteq Turns /\ paused \subseteq Turns
    /\ since \in [Turns -> 0..(MaxReports + 1)]
    /\ record \subseteq Works /\ stopped \subseteq Spawns
    /\ fate \in [Turns -> {"none", "ran", "refused", "stopped", "cold", "lost"}]
    /\ reports \in 0..MaxReports /\ crashes \in 0..MaxCrashes

\* phaseOf
PhaseOf(ws) ==
    IF \E w \in Windows : ws[w] = "reached" THEN "stop"
    ELSE IF \E w \in Windows : ws[w] # "none" THEN "hold" ELSE "open"

NoCall == [left |-> {}, epoch |-> 0]

Init ==
    /\ windows = [w \in Windows |-> "none"] /\ stored = windows
    /\ due = {} /\ phase = "open" /\ epoch = 0
    /\ calls = [g \in Goroutines |-> NoCall]
    /\ pc = [t \in Turns |-> "idle"] /\ fate = [t \in Turns |-> "none"]
    /\ registered = {} /\ hit = {} /\ since = [t \in Turns |-> 0]
    /\ paused = {} /\ record = {} /\ stopped = {}
    /\ reports = 0 /\ crashes = 0

------------------------------------------------------------------------------
(* The registry.                                                           *)

\* A goroutine runs the callbacks of a change before it does anything else.
Quiet(g) == calls[g].left = {}

\* Mutation: only the change to a hold interrupts, not the one to a stop.
SettleHoldOnly(g, ws, past, changed) ==
    LET now == [w \in Windows |-> IF w \in past THEN "none" ELSE ws[w]]
        start == phase = "open" /\ PhaseOf(now) # "open"
    IN
    /\ windows' = now /\ due' = {}
    /\ phase' = PhaseOf(now)
    /\ stored' = IF changed \/ now # ws THEN now ELSE stored
    /\ epoch' = IF start THEN epoch + 1 ELSE epoch
    /\ calls' = IF start /\ PhaseOf(now) = "hold"
                THEN [calls EXCEPT ![g] = [left |-> Agents, epoch |-> epoch + 1]]
                ELSE calls

\* settleLocked: entries past their reset go, the phase follows, a change is
\* saved, and g has the subscribers to call.  (What they do on another change
\* than a hold's start is left out.)
Settle(g, ws, past, changed) ==
    LET now == [w \in Windows |-> IF w \in past THEN "none" ELSE ws[w]]
        start == phase = "open" /\ PhaseOf(now) # "open"
    IN
    /\ windows' = now /\ due' = {}
    /\ phase' = PhaseOf(now)
    /\ stored' = IF changed \/ now # ws THEN now ELSE stored
    /\ epoch' = IF start THEN epoch + 1 ELSE epoch
    /\ calls' = IF start THEN [calls EXCEPT ![g] = [left |-> Agents, epoch |-> epoch + 1]]
                         ELSE calls

\* State, called by g.
ReadState(g) == Settle(g, windows, due, FALSE)

\* Observe of a report on w.  A report without a use, or with a past reset,
\* changes no entry.
Observe(g, w, report) ==
    /\ Quiet(g) /\ reports < MaxReports
    /\ reports' = reports + 1
    /\ LET ws == CASE report = "low" -> [windows EXCEPT ![w] = "none"]
                   [] report = "unclear" -> windows
                   [] OTHER -> [windows EXCEPT ![w] = report]
       IN  Settle(g, ws, IF report = "unclear" THEN due ELSE due \ {w}, TRUE)
    /\ UNCHANGED <<pc, marks, paused, record, stopped, fate, crashes>>

\* Tick, by an agent's periodic tick.
Tick(g) ==
    /\ Quiet(g) /\ due # {}
    /\ ReadState(g)
    /\ UNCHANGED <<pc, marks, paused, record, stopped, fate, bounds>>

\* Time passes an entry's reset.
ResetPasses(w) ==
    /\ windows[w] \in {"high", "reached"} /\ w \notin due
    /\ due' = due \cup {w}
    /\ UNCHANGED <<windows, phase, epoch, stored, calls, pc, marks, paused, record, stopped,
                   fate, bounds>>

\* onUsageHoldChange at a hold's start: interruptForUsageHold hits every turn
\* registered with the agent and puts it into the paused set.
Interrupt(g, a) ==
    LET mine == {t \in registered : AgentOf[t] = a} IN
    /\ a \in calls[g].left
    /\ calls' = [calls EXCEPT ![g].left = @ \ {a}]
    /\ hit' = hit \cup mine /\ paused' = paused \cup mine
    /\ UNCHANGED <<windows, due, phase, epoch, stored, pc, registered, since, record,
                   stopped, fate, bounds>>

------------------------------------------------------------------------------
(* The owner of a turn.                                                    *)

Step(t, at) == Quiet(t) /\ pc[t] = at
Goto(t, at) == pc' = [pc EXCEPT ![t] = at]

\* A spawn starts; the scheduler starts a background turn.
Begin(t) ==
    /\ Step(t, "idle")
    /\ Goto(t, IF t \in Spawns THEN "check" ELSE "register")
    /\ UNCHANGED <<account, marks, paused, record, stopped, fate, bounds>>

\* runSpawnStep: UsageHoldActive before the step.
Check(t) ==
    /\ Step(t, "check")
    /\ ReadState(t)
    /\ Goto(t, IF phase' = "open" THEN "register" ELSE "pause")
    /\ UNCHANGED <<marks, paused, record, stopped, fate, bounds>>

\* UsageHoldTurn
Register(t) ==
    /\ Step(t, "register")
    /\ registered' = registered \cup {t} /\ hit' = hit \ {t}
    /\ since' = [since EXCEPT ![t] = epoch]
    /\ Goto(t, IF t \in Works THEN "gate" ELSE "run")
    /\ UNCHANGED <<account, paused, record, stopped, fate, bounds>>

\* usageHoldRefusesTurn of background work: it starts only while the account
\* is open.
Gate(t) ==
    /\ Step(t, "gate")
    /\ ReadState(t)
    /\ \/ /\ phase' = "open"
          /\ Goto(t, "run") /\ UNCHANGED fate
       \/ /\ phase' # "open"
          /\ Goto(t, "ended") /\ fate' = [fate EXCEPT ![t] = "refused"]
    /\ UNCHANGED <<marks, paused, record, stopped, bounds>>

\* The turn ends: by itself, or because its context did.
TurnEnds(t) ==
    /\ Step(t, "run")
    /\ Goto(t, "ended") /\ fate' = [fate EXCEPT ![t] = "ran"]
    /\ UNCHANGED <<account, marks, paused, record, stopped, bounds>>

\* Mutation: a spawn that was stopped stays in the paused set.
DoneKeeping(t) ==
    /\ Step(t, "ended")
    /\ registered' = registered \ {t}
    /\ \/ /\ t \notin hit
          /\ Goto(t, "over") /\ record' = record \ {t} /\ UNCHANGED fate
       \/ /\ t \in hit \cap stopped
          /\ Goto(t, "over") /\ fate' = [fate EXCEPT ![t] = "stopped"]
          /\ UNCHANGED record
       \/ /\ t \in hit \ stopped
          /\ Goto(t, IF t \in Works THEN "save" ELSE "pause")
          /\ fate' = [fate EXCEPT ![t] = "none"]
          /\ UNCHANGED record
    /\ UNCHANGED <<account, since, hit, paused, stopped, bounds>>

\* The registration's done, and what the owner makes of it: a turn that was
\* not hit is over (its record goes, forgetPausedBackground), one that was hit
\* pauses unless it was stopped.
Done(t) ==
    /\ Step(t, "ended")
    /\ registered' = registered \ {t}
    /\ \/ /\ t \notin hit
          /\ Goto(t, "over") /\ record' = record \ {t} /\ UNCHANGED <<paused, fate>>
       \/ /\ t \in hit \cap stopped
          /\ Goto(t, "over") /\ paused' = paused \ {t}
          /\ fate' = [fate EXCEPT ![t] = "stopped"]
          /\ UNCHANGED record
       \/ /\ t \in hit \ stopped
          /\ Goto(t, IF t \in Works THEN "save" ELSE "pause")
          /\ fate' = [fate EXCEPT ![t] = "none"]
          /\ UNCHANGED <<record, paused>>
    /\ UNCHANGED <<account, since, hit, stopped, bounds>>

\* savePausedBackground
Save(t) ==
    /\ Step(t, "save")
    /\ record' = record \cup {t}
    /\ Goto(t, "pause")
    /\ UNCHANGED <<account, marks, paused, stopped, fate, bounds>>

\* waitHoldLift and waitPausedBackground put the turn into the paused set.
Pause(t) ==
    /\ Step(t, "pause")
    /\ paused' = paused \cup {t}
    /\ Goto(t, "wait")
    /\ UNCHANGED <<account, marks, record, stopped, fate, bounds>>

\* WaitUsageLift: UsageHoldActive.
LookAgain(t) ==
    /\ Step(t, "wait")
    /\ ReadState(t)
    /\ Goto(t, IF phase' = "open" THEN "lifted" ELSE "sleep")
    /\ UNCHANGED <<marks, paused, record, stopped, fate, bounds>>

\* Mutation: WaitUsageLift has no poll; it waits for the lift only.
WakeAtLift(t) ==
    /\ Step(t, "sleep") /\ phase = "open"
    /\ Goto(t, "wait")
    /\ UNCHANGED <<account, marks, paused, record, stopped, fate, bounds>>

\* WaitUsageLift: the change channel, or the poll that makes up for it.
Wake(t) ==
    /\ Step(t, "sleep")
    /\ Goto(t, "wait")
    /\ UNCHANGED <<account, marks, paused, record, stopped, fate, bounds>>

\* WaitUsageLift returns: the turn leaves the paused set; background work goes
\* on; a spawn starts its step, or, when it was hit, goes on if its cache is
\* still warm.
Resume(t) ==
    /\ Step(t, "lifted")
    /\ paused' = paused \ {t}
    /\ \/ /\ t \in Works \/ t \notin hit
          /\ Goto(t, "register") /\ UNCHANGED <<hit, fate>>
       \/ /\ t \in Spawns \cap hit
          /\ Goto(t, "check") /\ hit' = hit \ {t} /\ UNCHANGED fate
       \/ /\ t \in Spawns \cap hit
          /\ Goto(t, "over") /\ fate' = [fate EXCEPT ![t] = "cold"] /\ UNCHANGED hit
    /\ UNCHANGED <<account, registered, since, record, stopped, bounds>>

\* A stop ends the spawn's context; in a wait, that ends the wait.
Stop(t) ==
    /\ t \in Spawns \ stopped /\ pc[t] \notin {"idle", "over"}
    /\ stopped' = stopped \cup {t}
    /\ UNCHANGED <<account, pc, marks, paused, record, fate, bounds>>

WaitStopped(t) ==
    /\ Step(t, "sleep") /\ t \in stopped
    /\ paused' = paused \ {t}
    /\ Goto(t, "over") /\ fate' = [fate EXCEPT ![t] = "stopped"]
    /\ UNCHANGED <<account, marks, record, stopped, bounds>>

------------------------------------------------------------------------------
\* The process ends and starts again: accountLocked loads the windows,
\* RestorePausedBackground has the recorded work wait for the lift.  (Spawns
\* are restored by their tracker, which is not modelled.)
Crash ==
    /\ crashes < MaxCrashes /\ crashes' = crashes + 1
    /\ windows' = stored /\ phase' = PhaseOf(stored)
    /\ due' = due \cap {w \in Windows : stored[w] # "none"}
    /\ epoch' = IF PhaseOf(stored) = "open" THEN 0 ELSE 1
    /\ calls' = [g \in Goroutines |-> NoCall]
    /\ pc' = [t \in Turns |-> IF t \in record THEN "pause"
                             ELSE IF pc[t] = "idle" THEN "idle" ELSE "over"]
    /\ fate' = [t \in Turns |-> IF t \in record THEN "none"
                               ELSE IF pc[t] \in {"idle", "over"} THEN fate[t] ELSE "lost"]
    /\ registered' = {} /\ hit' = {} /\ paused' = {}
    /\ since' = [t \in Turns |-> 0]
    /\ UNCHANGED <<stored, record, stopped, reports>>

Owner(t) ==
    \/ Check(t) \/ Register(t) \/ Gate(t) \/ TurnEnds(t) \/ Done(t) \/ Save(t)
    \/ Pause(t) \/ LookAgain(t) \/ Wake(t) \/ Resume(t) \/ WaitStopped(t)

Next ==
    \/ \E g \in Observers : \/ Tick(g)
                            \/ \E w \in Windows, r \in Reports : Observe(g, w, r)
    \/ \E w \in Windows : ResetPasses(w)
    \/ \E g \in Goroutines, a \in Agents : Interrupt(g, a)
    \/ \E t \in Turns : Begin(t) \/ Owner(t) \/ Stop(t)
    \/ Crash

Spec == Init /\ [][Next]_vars

\* Time passes, goroutines go on, turns end.  No report, tick, start or stop
\* need come.
FairSpec ==
    /\ Spec
    /\ \A w \in Windows : WF_vars(ResetPasses(w))
    /\ \A g \in Goroutines : WF_vars(\E a \in Agents : Interrupt(g, a))
    /\ \A t \in Turns : WF_vars(Owner(t))

------------------------------------------------------------------------------
\* The paused set, which keepalive warms, has exactly the turns that are
\* interrupted or wait for the lift: whatever order hold starts, ends of turns
\* and stops come in, none is left behind and none is missing.
PausedExact ==
    paused = {t \in Turns : \/ pc[t] \in Waiting
                            \/ t \in hit /\ (t \in registered \/ pc[t] \in {"save", "pause"})}

\* A hold's start interrupts every turn that was registered when it came: one
\* that has not been hit is about to be, by the goroutine that moved the phase.
InterruptCovers ==
    \A t \in registered \ hit :
        since[t] < epoch =>
        \E g \in Goroutines : /\ AgentOf[t] \in calls[g].left
                              /\ calls[g].epoch > since[t]

\* Paused background work is resumed and comes to its end, across holds that
\* follow each other and across crashes, even if nobody reports or ticks; only
\* a window with no reset time can keep it waiting.
WorkResumes ==
    \A t \in Works :
        t \in record ~> \/ t \notin record
                        \/ \E w \in Windows : windows[w] = "endless"

\* The comment on usageHoldRefusesTurn: a resume "never meets it (it runs after
\* the lift)"; here, no paused work ends refused.
ResumeNotRefused ==
    [][\A t \in record \ record' : fate[t] # "refused"]_vars

\* The comment on runSpawnStep: "A step never starts while the account holds".
StepNotHeld ==
    [][\A t \in Spawns : pc[t] = "register" /\ pc'[t] = "run" => phase = "open"]_vars

==============================================================================
