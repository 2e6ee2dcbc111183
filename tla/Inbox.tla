-------------------------------- MODULE Inbox --------------------------------
(***************************************************************************)
(* One session's inbox as a whole: the worker of InboxWorker.tla, the      *)
(* goroutines that enqueue, stop and drain (Enqueue, CancelSession,        *)
(* DrainDeferredInjects, RestoreUsageHeld), and the events the worker      *)
(* reacts to.  Events chooses which kinds of events happen in a model.     *)
(***************************************************************************)
EXTENDS InboxWorker

Event(e) == e \in Events

\* An event that closes a gate or ends the process uses up one of MaxEvents.
Spend == out.events > 0
Spent == [out EXCEPT !.events = @ - 1]

-----------------------------------------------------------------------------
(* Enqueue.                                                                *)

\* The push onto the session's channel; a full channel refuses.  Every push
\* takes a number; the code numbers user messages only, and compares only
\* theirs.
Push(m, refusal) ==
    /\ IF Len(ch) < ChanSize
         THEN ch' = Append(ch, m) /\ UNCHANGED fate
         ELSE fate' = Ended({m}, refusal) /\ UNCHANGED ch
    /\ numbers' = [numbers EXCEPT !.of[m] = numbers.last + 1, !.last = @ + 1]

\* A system turn is running (SystemTurnInFlight): it is never steered.
SystemTurn == w.pc = "inject" \/ env.silent

\* sessionTurnActive
SessionTurnActive == w.active \/ (Delegated /\ (env.adopted \/ SystemTurn))

\* trySteer's conditions.
SteerEligible(m) ==
    /\ m \in Steerable /\ SessionTurnActive /\ ~env.compacting
    /\ ~(Delegated /\ SystemTurn)

\* The backend has a turn a steer can fold into.
FoldLands == (w.pc = "drive" /\ w.active) \/ env.adopted

\* trySteer and, when it declines, the push.  In API mode (or when the backend
\* lookup fails) the text goes to the steer buffer in a later step; a fold
\* into a backend lands only while the turn runs.
SteerOrPush(m, refusal, rest) ==
    \/ /\ SteerEligible(m) /\ (~Delegated \/ Event("lookup"))
       /\ out' = [rest EXCEPT !.steering = @ \cup {m}]
       /\ UNCHANGED <<ch, numbers, fate>>
    \/ /\ SteerEligible(m) /\ Delegated /\ FoldLands
       /\ fate' = Ended({m}, "consumed")
       /\ out' = rest
       /\ UNCHANGED <<ch, numbers>>
    \/ /\ SteerEligible(m) => Delegated
       /\ Push(m, refusal)
       /\ out' = rest

\* A user message that Enqueue takes for something else than a message: the
\* login code, feedback on a plan, the answer to the ask on screen.
Divert(m) ==
    /\ m \in Typed
    /\ \/ /\ ReloginHoldClosed /\ Event("capture")
       \/ /\ ~ReloginHoldClosed /\ ~UsageHoldsUser /\ SessionTurnActive
          /\ env.ask # Nothing \/ (Delegated /\ Event("plan"))

EnqueueUser(m) ==
    /\ m \in Users \cap out.unsent
    /\ LET rest == [out EXCEPT !.unsent = @ \ {m}]
       IN  \/ /\ Divert(m)
              /\ fate' = Ended({m}, "consumed")
              /\ out' = rest
              /\ UNCHANGED <<ch, numbers>>
           \/ /\ ReloginHoldClosed \/ UsageHoldsUser
              /\ Push(m, "rejected")
              /\ out' = rest
           \/ /\ ~ReloginHoldClosed /\ ~UsageHoldsUser
              /\ m \in Typed => ~(SessionTurnActive /\ env.ask # Nothing)
              /\ SteerOrPush(m, "rejected", rest)
    /\ UNCHANGED <<pending, held, deferred, usageHeld, stored, steer, w, wake, env, clock>>

\* enqueueInjection
EnqueueInjection(i, refusal, rest) ==
    IF i \in Answers /\ ~ReloginHoldClosed THEN SteerOrPush(i, refusal, rest)
    ELSE Push(i, refusal) /\ out' = rest

EnqueueInject(i) ==
    /\ i \in Injects \cap out.unsent
    /\ EnqueueInjection(i, "rejected", [out EXCEPT !.unsent = @ \ {i}])
    /\ UNCHANGED <<pending, held, deferred, usageHeld, stored, steer, w, wake, env, clock>>

\* appendSteer, after the turn was seen active.
AppendSteer(m) ==
    /\ m \in out.steering
    /\ steer' = Append(steer, m)
    /\ out' = [out EXCEPT !.steering = @ \ {m}]
    /\ UNCHANGED <<ch, pending, held, deferred, usageHeld, stored, numbers, w, wake,
                   env, clock, fate>>

\* requeueDeferred: the released injections are enqueued again; one that a
\* full channel refuses is refused to its producer.
Requeue ==
    /\ out.requeue # <<>>
    /\ EnqueueInjection(Head(out.requeue), "refused", [out EXCEPT !.requeue = Tail(@)])
    /\ UNCHANGED <<pending, held, deferred, usageHeld, stored, steer, w, wake, env, clock>>

\* RestoreUsageHeld at startup: each stored input is enqueued, and never
\* steers; one the inbox refuses stays stored.
Restore ==
    /\ out.restore # <<>>
    /\ Push(Head(out.restore), "rejected")
    /\ out' = [out EXCEPT !.restore = Tail(@)]
    /\ UNCHANGED <<pending, held, deferred, usageHeld, stored, steer, w, wake, env, clock>>

-----------------------------------------------------------------------------
(* The other goroutines.                                                   *)

\* CancelSession with a batch waiting for a slot.  With a running turn it only
\* makes the turn end early, with neither it does nothing.
CancelSession ==
    /\ Event("stop")
    /\ w.waitCancel # "none"
    /\ numbers' = [numbers EXCEPT !.stop = numbers.last]
    /\ w' = [w EXCEPT !.waitCancel = "fired"]
    /\ UNCHANGED <<ch, pending, held, deferred, usageHeld, stored, steer, wake, env,
                   clock, out, fate>>

\* The Acquire goroutine gets a slot.
Grant ==
    /\ w.grant = "asked"
    /\ w' = [w EXCEPT !.grant = "given"]
    /\ UNCHANGED <<ch, pending, held, deferred, usageHeld, stored, steer, numbers,
                   wake, env, clock, out, fate>>

\* One wait of the held watch ends: its entry's own hold reads open.
WatchInjectGate ==
    /\ ~wake.hint
    /\ \E i \in wake.watch : ~InjectHeld(i)
    /\ wake' = [wake EXCEPT !.hint = TRUE]
    /\ UNCHANGED <<ch, pending, held, deferred, usageHeld, stored, steer, numbers, w,
                   env, clock, out, fate>>

\* DrainDeferredInjects for a resolved ask, or for the login.
DrainDeferredInjects(by) ==
    /\ by \in out.due
    /\ deferred' = NotHeldBy(by)
    /\ out' = [out EXCEPT !.due = @ \ {by}, !.requeue = @ \o HeldBy(by)]
    /\ UNCHANGED <<ch, pending, held, usageHeld, stored, steer, numbers, w, wake, env,
                   clock, fate>>

\* The limit of a hold on a waiting injection runs out.
HoldAges(i) ==
    /\ fate[i] = <<>>
    /\ \/ /\ i \in clock.parked \ clock.aged
          /\ clock' = [clock EXCEPT !.aged = @ \cup {i}]
       \/ /\ i \in clock.asked \ clock.askAged
          /\ clock' = [clock EXCEPT !.askAged = @ \cup {i}]
    /\ UNCHANGED <<ch, pending, held, deferred, usageHeld, stored, steer, numbers, w,
                   wake, env, out, fate>>

\* releaseExpiredAskHolds, from the timer armed for i.
ReleaseExpiredAskHolds(i) ==
    /\ i \in clock.timers \cap clock.askAged
    /\ LET expired == {d \in ToSet(deferred) : d.by # Login /\ d.msg \in clock.askAged}
       IN  /\ deferred' = Kept(deferred, ToSet(deferred) \ expired)
           /\ out' = [out EXCEPT !.requeue = @ \o MessagesOf(Kept(deferred, expired))]
    /\ clock' = [clock EXCEPT !.timers = @ \ {i}]
    /\ UNCHANGED <<ch, pending, held, usageHeld, stored, steer, numbers, w, wake, env, fate>>

-----------------------------------------------------------------------------
(* Events.                                                                 *)

\* A turn that delivers nowhere, a compaction, background work or an adopted
\* run begins.
Close(field) ==
    /\ Event(field) /\ Spend /\ ~env[field]
    /\ env' = [env EXCEPT ![field] = TRUE]
    /\ out' = Spent
    /\ UNCHANGED <<ch, pending, held, deferred, usageHeld, stored, steer, numbers, w,
                   wake, clock, fate>>

\* ... and ends.
Open(field) ==
    /\ env[field]
    /\ env' = [env EXCEPT ![field] = FALSE]
    /\ UNCHANGED <<ch, pending, held, deferred, usageHeld, stored, steer, numbers, w,
                   wake, clock, out, fate>>

\* onUsageHoldChange wakes whoever waits on the changed channel.
PhaseSignal == IF wake.usage = "live" THEN "closed" ELSE wake.usage

\* The account is held or stopped.  A hold that starts interrupts the turn the
\* worker runs: a user batch always, an injection's turn by its kind.
UsageHoldStarts(p) ==
    /\ Event("usage") /\ Delegated /\ Spend /\ env.phase # p
    /\ env' = [env EXCEPT !.phase = p]
    /\ \/ /\ env.phase = "Open" /\ Busy /\ ~env.compacting
          /\ out.fresh # {}
          /\ wake' = [wake EXCEPT !.usage = PhaseSignal, !.resume = TRUE, !.kick = TRUE]
       \/ /\ (env.phase = "Open" /\ ~env.compacting) => w.pc # "drive"
          /\ wake' = [wake EXCEPT !.usage = PhaseSignal]
    /\ out' = Spent
    /\ UNCHANGED <<ch, pending, held, deferred, usageHeld, stored, steer, numbers, w,
                   clock, fate>>

UsageLifts ==
    /\ env.phase # "Open"
    /\ env' = [env EXCEPT !.phase = "Open"]
    /\ wake' = [wake EXCEPT !.usage = PhaseSignal]
    /\ UNCHANGED <<ch, pending, held, deferred, usageHeld, stored, steer, numbers, w,
                   clock, out, fate>>

\* relogin.Gate: Start, Complete (the login succeeded), Release.
ReloginStart ==
    /\ Event("relogin") /\ Delegated /\ Spend /\ ~env.relogin
    /\ env' = [env EXCEPT !.relogin = TRUE, !.login = TRUE, !.attempt = @ + 1]
    /\ out' = Spent
    /\ UNCHANGED <<ch, pending, held, deferred, usageHeld, stored, steer, numbers, w,
                   wake, clock, fate>>

ReloginComplete ==
    /\ env.relogin /\ env.login
    /\ env' = [env EXCEPT !.login = FALSE]
    /\ out' = [out EXCEPT !.due = @ \cup {Login}]
    /\ UNCHANGED <<ch, pending, held, deferred, usageHeld, stored, steer, numbers, w,
                   wake, clock, fate>>

ReloginRelease ==
    /\ env.relogin
    /\ env' = [env EXCEPT !.relogin = FALSE]
    /\ UNCHANGED <<ch, pending, held, deferred, usageHeld, stored, steer, numbers, w,
                   wake, clock, out, fate>>

\* A foci_ask goes on screen; it is resolved, and its drain falls due.
AskShown(a) ==
    /\ Event("ask") /\ Spend /\ env.ask = Nothing
    /\ env' = [env EXCEPT !.ask = a]
    /\ out' = Spent
    /\ UNCHANGED <<ch, pending, held, deferred, usageHeld, stored, steer, numbers, w,
                   wake, clock, fate>>

AskResolved ==
    /\ env.ask # Nothing
    /\ env' = [env EXCEPT !.ask = Nothing]
    /\ out' = [out EXCEPT !.due = @ \cup {env.ask}]
    /\ UNCHANGED <<ch, pending, held, deferred, usageHeld, stored, steer, numbers, w,
                   wake, clock, fate>>

\* BeginShutdown, and the end of the inbox's context (StopInbox).
BeginShutdown ==
    /\ Event("shutdown") /\ ~env.shutting
    /\ env' = [env EXCEPT !.shutting = TRUE]
    /\ UNCHANGED <<ch, pending, held, deferred, usageHeld, stored, steer, numbers, w,
                   wake, clock, out, fate>>

StopInbox ==
    /\ Event("cancel") /\ ~env.done
    /\ env' = [env EXCEPT !.done = TRUE]
    /\ UNCHANGED <<ch, pending, held, deferred, usageHeld, stored, steer, numbers, w,
                   wake, clock, out, fate>>

\* What a process holds in memory.
InMemory ==
    ToSet(ch \o pending \o held \o usageHeld \o steer \o w.batch \o out.requeue \o out.restore)
    \cup {d.msg : d \in ToSet(deferred)} \cup out.steering \cup ({w.cur} \ {Nothing})

\* The process dies and starts again: only the stored input comes back.
Crash ==
    /\ Event("crash") /\ Spend
    /\ fate' = Ended(InMemory \ ToSet(stored), "lost")
    /\ ch' = <<>> /\ pending' = <<>> /\ held' = <<>> /\ deferred' = <<>>
    /\ usageHeld' = <<>> /\ steer' = <<>>
    /\ numbers' = [of |-> [m \in Messages |-> 0], last |-> 0, stop |-> 0]
    /\ w' = [pc |-> "top", cur |-> Nothing, batch |-> <<>>, walk |-> 0, slots |-> 0,
             grant |-> "none", waitCancel |-> "none", active |-> FALSE,
             head |-> Nothing, attempt |-> 0, ask |-> Nothing]
    /\ wake' = [watch |-> {}, hint |-> FALSE, usage |-> "off", resume |-> FALSE, kick |-> FALSE]
    /\ env' = [delegated |-> Delegated, phase |-> env.phase, relogin |-> FALSE,
               login |-> FALSE, attempt |-> 0, ask |-> Nothing, silent |-> FALSE,
               compacting |-> FALSE, work |-> FALSE, adopted |-> FALSE,
               shutting |-> FALSE, done |-> FALSE]
    /\ clock' = [parked |-> {}, aged |-> {}, asked |-> {}, askAged |-> {}, timers |-> {}]
    /\ out' = [Spent EXCEPT !.steering = {}, !.due = {}, !.requeue = <<>>, !.restore = stored,
                            !.restored = @ \cup ToSet(stored)]
    /\ UNCHANGED stored

Next ==
    \/ WorkerStep \/ PrimaryWritten \/ DrainSteerTexts
    \/ \E m \in Users : EnqueueUser(m)
    \/ \E i \in Injects : EnqueueInject(i)
    \/ \E m \in Messages : AppendSteer(m)
    \/ Requeue \/ Restore \/ CancelSession \/ Grant \/ WatchInjectGate
    \/ \E by \in Asks \cup {Login} : DrainDeferredInjects(by)
    \/ \E i \in Injects : HoldAges(i) \/ ReleaseExpiredAskHolds(i)
    \/ \E f \in {"silent", "compacting", "work", "adopted"} : Close(f) \/ Open(f)
    \/ \E p \in {"Hold", "Stop"} : UsageHoldStarts(p)
    \/ UsageLifts \/ ReloginStart \/ ReloginComplete \/ ReloginRelease
    \/ \E a \in Asks : AskShown(a)
    \/ AskResolved \/ BeginShutdown \/ StopInbox \/ Crash

Spec == Init /\ [][Next]_vars
-----------------------------------------------------------------------------
(* Properties.                                                             *)

Occurs(m, s) == Cardinality({k \in DOMAIN s : s[k] = m})

\* How many places of the program hold m.  An entry of the held list that the
\* walk is about to run is still on the list.
One(b) == IF b THEN 1 ELSE 0
Places(m) ==
    Occurs(m, ch \o pending \o held \o usageHeld \o steer \o w.batch \o out.requeue
              \o out.restore \o MessagesOf(deferred))
    + One(m \in out.unsent) + One(m \in out.fresh) + One(m \in out.steering)
    + One(w.cur = m /\ ~(w.walk > 0 /\ w.pc = "ready"))

\* Nothing is lost or duplicated: whatever the order of drains, joins, parks,
\* deferrals, releases and refusals, a message is in one place until it ends,
\* and it ends once: run, folded, dropped by a /stop, or refused to its
\* producer, never two of these (#2233 F1: a double Refused closes a channel
\* twice).  (Input that came back after a restart: see RunsOnce.)
ExactlyOnce == \A m \in Messages \ out.restored : Places(m) + Len(fate[m]) = 1

\* m begins to run in this step.
Starts(m) == Len(fate'[m]) > Len(fate[m]) /\ Last(fate'[m]) = "ran"

\* Run order (#2362): a user message may pass an injection queued before it
\* only in a turn that a message queued before that injection starts.
HeadOfLine ==
    [][\A u \in Users, i \in Injects :
          /\ Starts(u)
          /\ i \in ToSet(pending \o ch)
          /\ numbers.of[i] < numbers.of[u]
          => \E v \in Users \cup Lines : Starts(v) /\ numbers.of[v] < numbers.of[i]]_vars

\* A /stop that dropped a waiting batch also covers every message accepted
\* before it (#2337): none of them runs afterwards.
StopCovers == [][\A u \in Users : Starts(u) => ~StoppedQueued(u)]_vars

\* Injections of one class run in the order they were queued, however the
\* gate flickers while they park, wait and are released (#2233 F1); one that
\* an ask defers has left the line.  This is for an inbox without a turn limit,
\* the default: an injection served inline in a slot wait may pass one that
\* waits in the worker's queue behind a user message.
ClassFIFO ==
    \A i, j \in Injects \ (Answers \cup Wakes) :
        /\ i \in Keepalives <=> j \in Keepalives
        /\ 0 < numbers.of[i] /\ numbers.of[i] < numbers.of[j]
        /\ fate[j] = <<"ran">>
        => fate[i] # <<>> \/ i \in {d.msg : d \in ToSet(deferred)} \cup ToSet(out.requeue)

\* No lost wakeup: while the worker waits for a message or for a slot, every
\* parked injection has a watch on its own hold, or a signal is pending.
WatchCovers ==
    w.pc \in {"select", "slot"} => wake.hint \/ ToSet(held) \subseteq wake.watch

\* Slots and cancel handles are held only where the code says: no slot is
\* parked through a gate or kept by the idle worker, the two cancel handles
\* never overlap, and no Acquire goroutine outlives its wait.
SlotDiscipline ==
    LET waiting == w.pc \in {"take", "slot", "claim"}
                   \/ (w.batch # <<>> /\ w.waitCancel # "none")
        driving == w.pc \in {"recheck", "batch", "drive", "after", "inactive"}
    IN  /\ w.slots > 0 => waiting \/ driving
        /\ w.waitCancel # "none" => waiting /\ ~driving
        /\ w.grant # "none" => w.waitCancel # "none" /\ w.pc \notin {"take", "claim"}
        /\ w.pc \in {"batch", "drive", "after", "inactive"} => w.slots = Limiters

\* An injection paused for a login is never stranded (#2384): the login is
\* still owed, its drain is due, or the worker is about to look again.
LoginNotStranded ==
    \A k \in DOMAIN deferred :
        deferred[k].by = Login => env.login \/ Login \in out.due \/ w.pc = "paused"

\* Held input survives a restart (#2491): whatever the usage hold has parked
\* is in the restart store.
HeldStored == ToSet(usageHeld) \subseteq ToSet(stored)

\* m has been handed to the inbox.
Accepted(m) == m \notin out.unsent \cup out.fresh

\* Every accepted user message is eventually run, folded or dropped by a
\* /stop, although background work may go on for ever (#2233: a held
\* injection never blocks the session).
UserServed == \A u \in Users : Accepted(u) ~> fate[u] # <<>>

\* Every proactive injection runs, although background work may hold it for
\* ever (#2792), the ask that defers it is never answered (#2828), and the
\* watch on the held list is spent by spurious hints.
ProactiveServed ==
    \A i \in Injects : (AskOf[i] = Nothing /\ Accepted(i)) ~> fate[i] # <<>>

\* Once the inbox's context ends the worker exits, whatever it waits for.
WorkerExits == env.done ~> w.pc = "exited"

-----------------------------------------------------------------------------
(* What comments of the source promise and the code does not keep.         *)

\* "Messages queued after the /stop are numbered above it and run": a /stop
\* drops only what it covered.
StopSparesLater ==
    [][\A u \in Users :
          Len(fate'[u]) > Len(fate[u]) /\ Last(fate'[u]) = "stopped"
          => numbers.of[u] <= numbers.stop]_vars

\* "An ungated inject always ran inline": an accepted injection ends although
\* the batch's slot never comes (checked without fairness of Grant).
InjectServed == \A i \in Injects : Accepted(i) ~> fate[i] # <<>>

\* "at lift, releases what waited": a message the usage hold parked is
\* eventually released.
UsageReleased ==
    \A u \in Users : (u \in ToSet(usageHeld)) ~> (u \notin ToSet(usageHeld))

\* Steering is "never a place to lose input": what entered the steer buffer
\* is folded or runs as a follow-up.
SteerDelivered == \A u \in Users : (u \in ToSet(steer)) ~> fate[u] # <<>>

\* Deferred injections are "re-enqueued when THAT ask resolves": the ask is
\* still on screen, its drain is due, or a release timer is armed.
AskNotStranded ==
    \A k \in DOMAIN deferred :
        deferred[k].by \in Asks =>
            \/ env.ask = deferred[k].by \/ deferred[k].by \in out.due
            \/ deferred[k].msg \in clock.timers

\* The resume line of an interrupted turn is stored "so a restart keeps it too".
ResumeSurvives == \A l \in Lines : "lost" \notin ToSet(fate[l])

\* A restored message "runs as its own turn, which takes it off the restart
\* store": no input runs twice.
RunsOnce == \A m \in Messages : Occurs("ran", fate[m]) <= 1

\* "one resume line per session": the store never holds two.
OneResumeStored == Cardinality(ToSet(stored) \cap Lines) <= 1

\* Injections still queued at the worker's exit "are refused like held ones".
ExitRefuses ==
    [][w.pc = "exit" /\ w'.pc = "exited" =>
          \A i \in Injects : i \in ToSet(ch) => fate'[i] # <<>>]_vars

\* A login is over "if this user turn ends with no new attempt started": the
\* worker ends it only after the turn ran.
LoginEndsWithTurn ==
    [][w.pc = "settle" /\ w'.pc = "top" /\ env.login /\ ~env'.login
       => "ran" \in ToSet(fate[w.head])]_vars

-----------------------------------------------------------------------------
\* What the code's scheduling guarantees: goroutines keep running, turns
\* return, timers fire, a granted slot arrives, and every hold but background
\* work, an open ask and an owed login ends.
FairnessButSlots ==
    /\ WF_vars(WorkerStep) /\ WF_vars(WatchInjectGate)
    /\ WF_vars(Requeue) /\ WF_vars(Restore)
    /\ \A by \in Asks \cup {Login} : WF_vars(DrainDeferredInjects(by))
    /\ \A i \in Injects : WF_vars(HoldAges(i)) /\ WF_vars(ReleaseExpiredAskHolds(i))
    /\ \A m \in Users \cup Injects : WF_vars(AppendSteer(m))
    /\ \A f \in {"silent", "compacting", "adopted"} : WF_vars(Open(f))
    /\ WF_vars(UsageLifts) /\ WF_vars(ReloginRelease)

Fairness == FairnessButSlots /\ WF_vars(Grant)

FairSpec == Spec /\ Fairness

\* The worker runs and turns return, but no hold ever ends by itself.
ClosedSpec == Spec /\ WF_vars(WorkerStep)

\* No slot need ever come free: whoever holds the slots may wait for us.
SlotlessSpec == Spec /\ FairnessButSlots
=============================================================================
