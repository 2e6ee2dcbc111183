----------------------------- MODULE LiveSessions -----------------------------
(***************************************************************************)
(* The live delegated backends of the gateway: DelegatedManager's          *)
(* get/getOrCreate and its closers (internal/agent/delegated_manager.go)   *)
(* and the live-session caps they go through (live_sessions.go).  A caller *)
(* is one turn that asks for its session's backend, uses it and ends; the  *)
(* managedBackend a caller creates carries the caller's name.  Every       *)
(* critical section of a manager's m.mu and of the limiter's l.mu is one   *)
(* step, and what a backend does by itself (dying, getting ready, working  *)
(* in the background) happens between them.                                *)
(***************************************************************************)
EXTENDS LivePlaces

CONSTANTS NoOne,      \* no backend
          Events,     \* the kinds of outside events that happen
          MaxEvents   \* bound: how many of them, in all

EventKinds == {"die", "reset", "bounce", "reap", "finished", "cancel",
               "fail", "work", "shutdown"}

ASSUME SessionsAssumption ==
    /\ NoOne \notin Callers
    /\ Events \subseteq EventKinds /\ MaxEvents \in Nat

VARIABLES
    lim,       \* LiveSessionLimiter
    place,     \* each managedBackend's livePlace
    backends,  \* DelegatedManager.backends, of every manager
    proc,      \* the process behind mb.be
    creating,  \* mb.creating
    uses,      \* mb.lastActive, as the number of times it moved
    resume,    \* keys with a saved resume ID
    resumed,   \* getOrCreate's resumeID, for the caller that runs it
    retried,   \* the backends relaunched after dying during init
    pc,        \* where each caller is
    got,       \* the backend a caller was given
    scan,      \* evictLRU: of a caller's acquire, later of its place's trim
    trim,      \* the trim goroutine a backend's release started
    finish,    \* CloseFinishedSession between its scan and its close
    removed,   \* unmapped backends whose closeRemoved is still to run
    stop,      \* how far each manager's shutdown has come
    work,      \* backends with background work or a pending prompt
    events     \* how many outside events have happened

vars == <<lim, place, backends, proc, creating, uses, resume, resumed,
          retried, pc, got, scan, trim, finish, removed, stop, work, events>>

manager == <<backends, proc, creating, uses, resume, removed>>
outside == <<finish, stop, work, events>>

\* Callers in getOrCreate: the singleflight call of their key.
Flight == {"lead", "refuse", "acquire", "evict", "settle", "wait", "leave",
           "giveup", "start", "map", "ready", "relaunch", "remap", "ready2",
           "fail"}
PC == {"idle", "miss", "joined", "using", "done"} \cup Flight

Candidate == [mb : Callers, seen : Nat]
NoScan == [at |-> "off", scope |-> {}, cands |-> {}, victim |-> NoOne]

TypeOK ==
    /\ lim \in Limiter
    /\ place \in [Callers -> {"none", "held", "freed"}]
    /\ backends \in [Keys -> Callers \cup {NoOne}]
    /\ proc \in [Callers -> {"none", "live", "dead"}]
    /\ creating \in [Callers -> BOOLEAN]
    /\ uses \in [Callers -> Nat]
    /\ resume \subseteq Keys
    /\ resumed \subseteq Callers
    /\ retried \subseteq Callers
    /\ pc \in [Callers -> PC]
    /\ got \in [Callers -> Callers \cup {NoOne}]
    /\ scan \in [Callers ->
                   [at : {"off", "scan", "try"},
                    scope : SUBSET Agents, cands : SUBSET Candidate,
                    victim : Callers \cup {NoOne}]]
    /\ trim \in [Callers -> {"off", "top", "evict"}]
    /\ finish \in Candidate \cup {NoOne}
    /\ removed \subseteq Callers
    /\ stop \in [Agents -> {"run", "refusing", "refused", "closed"}]
    /\ work \subseteq Callers
    /\ events \in 0..MaxEvents

Init ==
    /\ lim = NoPlaces
    /\ place = [p \in Callers |-> "none"]
    /\ backends = [k \in Keys |-> NoOne]
    /\ proc = [p \in Callers |-> "none"]
    /\ creating = [p \in Callers |-> FALSE]
    /\ uses = [p \in Callers |-> 0]
    /\ resume \in {{}, Keys}
    /\ resumed = {} /\ retried = {}
    /\ pc = [p \in Callers |-> "idle"]
    /\ got = [p \in Callers |-> NoOne]
    /\ scan = [p \in Callers |-> NoScan]
    /\ trim = [p \in Callers |-> "off"]
    /\ finish = NoOne
    /\ removed = {}
    /\ stop = [a \in Agents |-> "run"]
    /\ work = {}
    /\ events = 0

Goto(p, l) == pc' = [pc EXCEPT ![p] = l]

Event(kind) ==
    /\ kind \in Events /\ events < MaxEvents
    /\ events' = events + 1

ShuttingDown(a) == stop[a] \in {"refused", "closed"}
NoNewBackends(a) == stop[a] # "run"

\* The backend mapped for p's key runs.
Running(p) ==
    LET b == backends[KeyOf[p]] IN b # NoOne /\ proc[b] = "live"

Touch(b) == uses' = [uses EXCEPT ![b] = @ + 1]

\* Unmap b, which the caller of the action then closes outside m.mu.
Unmap(k) ==
    /\ backends' = [backends EXCEPT ![k] = NoOne]
    /\ removed' = removed \cup {backends[k]}

------------------------------------------------------------------------------
\* get: the fast path, or a miss.
Get(p) ==
    /\ pc[p] = "idle"
    /\ \/ /\ Running(p)
          /\ LET b == backends[KeyOf[p]] IN
             Touch(b) /\ got' = [got EXCEPT ![p] = b]
          /\ Goto(p, "using")
       \/ /\ ~Running(p)
          /\ Goto(p, "miss")
          /\ UNCHANGED <<uses, got>>
    /\ UNCHANGED <<lim, place, backends, proc, creating, resume, resumed,
                   retried, scan, trim, removed, outside>>

\* Mutation: creations of one key are not serialised.
DoAlone(p) ==
    /\ pc[p] = "miss"
    /\ Goto(p, "lead")
    /\ UNCHANGED <<lim, place, manager, resumed, retried, got, scan, trim,
                   outside>>

\* createGroup.Do: joins the key's call in flight, or starts it.
Do(p) ==
    /\ pc[p] = "miss"
    /\ Goto(p, IF \E q \in Callers : KeyOf[q] = KeyOf[p] /\ pc[q] \in Flight
               THEN "joined" ELSE "lead")
    /\ UNCHANGED <<lim, place, manager, resumed, retried, got, scan, trim,
                   outside>>

\* getOrCreate returns b, or an error, to p and to everyone who joined.
Return(p, b) ==
    LET all == {p} \cup {q \in Callers : KeyOf[q] = KeyOf[p]
                                         /\ pc[q] = "joined"}
    IN  /\ got' = [q \in Callers |-> IF q \in all THEN b ELSE got[q]]
        /\ pc' = [q \in Callers |-> IF q \notin all THEN pc[q]
                                    ELSE IF b = NoOne THEN "done" ELSE "using"]

\* getOrCreate's first critical section.  A dead backend is unmapped here and
\* closed before anything else (scan[p].victim).
LookUp(p) ==
    LET k == KeyOf[p]
        b == backends[k]
        dead == b # NoOne /\ proc[b] # "live"
    IN
    /\ pc[p] = "lead"
    /\ \/ /\ Running(p)
          /\ Touch(b) /\ Return(p, b)
          /\ UNCHANGED <<backends, resume, resumed, scan, removed>>
       \/ /\ ~Running(p)
          /\ IF dead THEN Unmap(k) ELSE UNCHANGED <<backends, removed>>
          /\ resume' = IF dead THEN resume \cup {k} ELSE resume
          /\ resumed' = IF k \in resume' THEN resumed \cup {p} ELSE resumed
          /\ scan' = [scan EXCEPT ![p].victim = b]
          /\ Goto(p, IF NoNewBackends(Agent(p)) THEN "refuse" ELSE "acquire")
          /\ UNCHANGED <<uses, got>>
    /\ UNCHANGED <<lim, place, proc, creating, retried, trim, outside>>

\* What p unmapped itself is closed and its place is free.
Buried(p) == scan[p].victim \notin removed

\* getOrCreate refuses: the manager is shutting down.
Refuse(p) ==
    /\ pc[p] = "refuse" /\ Buried(p)
    /\ Return(p, NoOne)
    /\ UNCHANGED <<lim, place, manager, resumed, retried, scan, trim, outside>>

------------------------------------------------------------------------------
\* acquire's loop, first critical section: shutdown, a grant, a free place, or
\* a full cap (the eviction scope is the agent when its own cap is full).
Acquire(p) ==
    LET a == Agent(p)
        blocked == p \in Users /\ BlockedByEarlier(lim, p)
    IN
    /\ pc[p] = "acquire" /\ Buried(p)
    /\ \/ /\ ShuttingDown(a)
          /\ Goto(p, "giveup")
          /\ scan' = [scan EXCEPT ![p] = NoScan]
          /\ UNCHANGED <<lim, place>>
       \/ /\ ~ShuttingDown(a) /\ p \in lim.granted
          /\ lim' = [lim EXCEPT !.granted = @ \ {p}]
          /\ place' = [place EXCEPT ![p] = "held"]
          /\ Goto(p, "leave")
          /\ scan' = [scan EXCEPT ![p] = NoScan]
       \/ /\ ~ShuttingDown(a) /\ p \notin lim.granted
          /\ ~Full(lim, a) /\ ~blocked
          /\ lim' = Reserve(lim, a)
          /\ place' = [place EXCEPT ![p] = "held"]
          /\ Goto(p, IF Queued(lim, p) THEN "leave" ELSE "start")
          /\ scan' = [scan EXCEPT ![p] = NoScan]
       \/ /\ ~ShuttingDown(a) /\ p \notin lim.granted
          /\ Full(lim, a)
          /\ Goto(p, "evict")
          /\ scan' = [scan EXCEPT ![p] = [NoScan EXCEPT !.at = "scan",
                        !.scope = IF AgentFull(lim, a) THEN {a} ELSE Agents]]
          /\ UNCHANGED <<lim, place>>
       \/ /\ ~ShuttingDown(a) /\ p \notin lim.granted
          /\ ~Full(lim, a) /\ blocked
          /\ Goto(p, "settle")
          /\ scan' = [scan EXCEPT ![p] = NoScan]
          /\ UNCHANGED <<lim, place>>
    /\ UNCHANGED <<manager, resumed, retried, got, trim, outside>>

\* acquire's second critical section, nothing evicted: a system creation goes
\* over the cap, a user creation queues.
Settle(p) ==
    /\ pc[p] = "settle"
    /\ \/ /\ p \in lim.granted
          /\ Goto(p, "acquire")
          /\ UNCHANGED <<lim, place>>
       \/ /\ p \notin lim.granted /\ p \notin Users
          /\ lim' = Reserve(lim, Agent(p))
          /\ place' = [place EXCEPT ![p] = "held"]
          /\ Goto(p, "start")
       \/ /\ p \notin lim.granted /\ p \in Users
          /\ lim' = IF Queued(lim, p) THEN lim ELSE JoinQueue(lim, p)
          /\ Goto(p, "wait")
          /\ UNCHANGED place
    /\ UNCHANGED <<manager, resumed, retried, got, scan, trim, outside>>

\* The wait ends by a broadcast or by the poll timer.
Wake(p) ==
    /\ pc[p] = "wait"
    /\ Goto(p, "acquire")
    /\ UNCHANGED <<lim, place, manager, resumed, retried, got, scan, trim,
                   outside>>

\* The wait ends with ctx's error.
Cancel(p) ==
    /\ pc[p] = "wait"
    /\ Event("cancel")
    /\ Goto(p, "giveup")
    /\ UNCHANGED <<lim, place, manager, resumed, retried, got, scan, trim,
                   finish, stop, work>>

\* acquire's deferred function, with a place (to Start) or with an error.
Leave(p) ==
    /\ pc[p] \in {"leave", "giveup"}
    /\ lim' = IF Queued(lim, p) THEN LeaveQueue(lim, p) ELSE lim
    /\ \/ pc[p] = "leave" /\ Goto(p, "start") /\ UNCHANGED got
       \/ pc[p] = "giveup" /\ Return(p, NoOne)
    /\ UNCHANGED <<place, manager, resumed, retried, scan, trim, outside>>

------------------------------------------------------------------------------
\* SessionBusy: a turn of the key is in flight.
SessionBusy(k) == \E p \in Callers : KeyOf[p] = k /\ pc[p] \notin {"idle", "done"}

\* evictable.
Evictable(k, b) == proc[b] = "live" /\ b \notin work /\ ~SessionBusy(k)

\* Mutation: a Get since the scan is not noticed.
ExactStale(k, c) == backends[k] = c.mb /\ ~creating[c.mb]

\* closeIdleExact's check.
Exact(k, c) ==
    backends[k] = c.mb /\ ~creating[c.mb] /\ uses[c.mb] = c.seen

\* idleCandidates: the mapped backends in scope that are not being created
\* and are idle, with their lastActive.  (It is read under m.mu, the idle check
\* is made right after; only the close that follows looks at it again.)
IdleCandidates(p) ==
    /\ scan[p].at = "scan"
    /\ LET keys == {k \in Keys : /\ AgentOf[k] \in scan[p].scope
                                 /\ backends[k] # NoOne
                                 /\ ~creating[backends[k]]
                                 /\ Evictable(k, backends[k])}
       IN  scan' = [scan EXCEPT ![p].at = "try", ![p].cands =
                      {[mb |-> backends[k], seen |-> uses[backends[k]]]
                          : k \in keys}]
    /\ UNCHANGED <<lim, place, manager, resumed, retried, pc, got, trim,
                   outside>>

\* evictLRU returns to p's acquire, or to the trim of p's place.
EvictReturns(p, found) ==
    IF trim[p] = "evict"
    THEN /\ trim' = [trim EXCEPT ![p] = IF found THEN "top" ELSE "off"]
         /\ UNCHANGED pc
    ELSE /\ Goto(p, IF found THEN "acquire" ELSE "settle")
         /\ UNCHANGED trim

\* evictLRU tries the candidates.  Their order is by last activity, which the
\* backend's own events move too, so any of them may come first.
TryEvict(p) ==
    /\ scan[p].at = "try"
    /\ \/ /\ scan[p].cands = {}
          /\ scan' = [scan EXCEPT ![p] = NoScan]
          /\ EvictReturns(p, FALSE)
          /\ UNCHANGED <<backends, removed, resume>>
       \/ \E c \in scan[p].cands :
             LET k == KeyOf[c.mb] IN
             IF Exact(k, c)
             THEN /\ Unmap(k)
                  /\ resume' = resume \cup {k}
                  /\ scan' = [scan EXCEPT ![p] = [NoScan EXCEPT
                                !.victim = c.mb]]
                  /\ EvictReturns(p, TRUE)
             ELSE /\ scan' = [scan EXCEPT ![p].cands = @ \ {c}]
                  /\ UNCHANGED <<backends, removed, resume, pc, trim>>
    /\ UNCHANGED <<lim, place, proc, creating, uses, resumed, retried, got,
                   outside>>

------------------------------------------------------------------------------
\* livePlace.release: once; a count still over its cap starts a trim.
Release(b) ==
    IF place[b] = "held"
    THEN /\ lim' = Free(lim, Agent(b))
         /\ place' = [place EXCEPT ![b] = "freed"]
         /\ trim' = IF OverCap(lim') THEN [trim EXCEPT ![b] = "top"] ELSE trim
    ELSE UNCHANGED <<lim, place, trim>>

\* closeRemoved, or the same closing steps of closeIdle, Close and getOrCreate.
CloseRemoved(b) ==
    /\ b \in removed
    /\ proc' = [proc EXCEPT ![b] = "dead"]
    /\ removed' = removed \ {b}
    /\ work' = work \ {b}
    /\ Release(b)
    /\ UNCHANGED <<backends, creating, uses, resume, resumed, retried, pc,
                   got, scan, finish, stop, events>>

\* One round of trim: a cap that is over and one eviction under it.
Trim(b) ==
    LET over == {a \in Agents : AgentOver(lim, a)} IN
    /\ trim[b] = "top" /\ scan[b].victim \notin removed
    /\ \/ /\ OverCap(lim)
          /\ \E s \in (IF over = {} THEN {Agents} ELSE {{a} : a \in over}) :
                scan' = [scan EXCEPT ![b] = [NoScan EXCEPT
                           !.at = "scan", !.scope = s]]
          /\ trim' = [trim EXCEPT ![b] = "evict"]
       \/ /\ ~OverCap(lim)
          /\ trim' = [trim EXCEPT ![b] = "off"]
          /\ scan' = [scan EXCEPT ![b] = NoScan]
    /\ UNCHANGED <<lim, place, manager, resumed, retried, pc, got, outside>>

------------------------------------------------------------------------------
\* Start, with its fallback from a stale resume ID to a fresh session: the
\* process runs, or the creation fails.
Start(p) ==
    /\ pc[p] = "start"
    /\ creating' = [creating EXCEPT ![p] = TRUE]
    /\ \/ /\ proc' = [proc EXCEPT ![p] = "live"]
          /\ Goto(p, "map")
          /\ UNCHANGED events
       \/ /\ Event("fail")
          /\ Goto(p, "fail")
          /\ UNCHANGED proc
    /\ UNCHANGED <<lim, place, backends, uses, resume, removed, resumed,
                   retried, got, scan, trim, finish, stop, work>>

\* Mutation: a shutdown that began during Start is not noticed.
MapAnyway(p) ==
    /\ pc[p] = "map"
    /\ backends' = [backends EXCEPT ![KeyOf[p]] = p]
    /\ Goto(p, "ready")
    /\ UNCHANGED <<lim, place, proc, creating, uses, resume, removed, resumed,
                   retried, got, scan, trim, outside>>

\* The started backend enters the map, unless shutdown began meanwhile.
Map(p) ==
    /\ pc[p] = "map"
    /\ IF NoNewBackends(Agent(p))
       THEN /\ proc' = [proc EXCEPT ![p] = "dead"]
            /\ Goto(p, "fail")
            /\ UNCHANGED backends
       ELSE /\ backends' = [backends EXCEPT ![KeyOf[p]] = p]
            /\ Goto(p, "ready")
            /\ UNCHANGED proc
    /\ UNCHANGED <<lim, place, creating, uses, resume, removed, resumed,
                   retried, got, scan, trim, outside>>

\* WaitReady returns: ready (OnSessionReady saves the ID), timed out, or the
\* process is dead.  A dead one that was resumed is relaunched.
WaitReady(p) ==
    /\ pc[p] = "ready"
    /\ \/ /\ proc[p] = "live" \/ p \notin resumed
          /\ creating' = [creating EXCEPT ![p] = FALSE]
          /\ resume' = IF proc[p] = "live" THEN resume \cup {KeyOf[p]}
                                           ELSE resume
          /\ Return(p, p)
          /\ UNCHANGED retried
       \/ /\ proc[p] = "dead" /\ p \in resumed
          /\ resume' = resume \ {KeyOf[p]}
          /\ retried' = retried \cup {p}
          /\ Goto(p, "relaunch")
          /\ UNCHANGED <<creating, got>>
    /\ UNCHANGED <<lim, place, backends, proc, uses, removed, resumed, scan,
                   trim, outside>>

\* The relaunch of a backend that died during init.
Relaunch(p) ==
    /\ pc[p] = "relaunch"
    /\ \/ /\ proc' = [proc EXCEPT ![p] = "live"]
          /\ Goto(p, "remap")
          /\ UNCHANGED events
       \/ /\ Event("fail")
          /\ Goto(p, "fail")
          /\ UNCHANGED proc
    /\ UNCHANGED <<lim, place, backends, creating, uses, resume, removed,
                   resumed, retried, got, scan, trim, finish, stop, work>>

\* The relaunched backend is put back in the map, whatever happened to it there.
Remap(p) ==
    /\ pc[p] = "remap"
    /\ backends' = [backends EXCEPT ![KeyOf[p]] = p]
    /\ Goto(p, "ready2")
    /\ UNCHANGED <<lim, place, proc, creating, uses, resume, removed, resumed,
                   retried, got, scan, trim, outside>>

\* The second WaitReady, whose outcome does not matter.
WaitReadyAgain(p) ==
    /\ pc[p] = "ready2"
    /\ creating' = [creating EXCEPT ![p] = FALSE]
    /\ resume' = IF proc[p] = "live" THEN resume \cup {KeyOf[p]} ELSE resume
    /\ Return(p, p)
    /\ UNCHANGED <<lim, place, backends, proc, uses, removed, resumed, retried,
                   scan, trim, outside>>

\* getOrCreate's deferred function after an error.
Fail(p) ==
    /\ pc[p] = "fail"
    /\ Release(p)
    /\ creating' = [creating EXCEPT ![p] = FALSE]
    /\ Return(p, NoOne)
    /\ UNCHANGED <<backends, proc, uses, resume, removed, resumed, retried,
                   scan, outside>>

\* The caller's turn ends, perhaps leaving background work behind.
EndTurn(p) ==
    /\ pc[p] = "using"
    /\ Goto(p, "done")
    /\ got' = [got EXCEPT ![p] = NoOne]
    /\ \/ UNCHANGED <<work, events>>
       \/ /\ proc[got[p]] = "live" /\ Event("work")
          /\ work' = work \cup {got[p]}
    /\ UNCHANGED <<lim, place, manager, resumed, retried, scan, trim,
                   finish, stop>>

------------------------------------------------------------------------------
\* Background work ends, or the pending prompt is answered.
WorkEnds(b) ==
    /\ b \in work
    /\ work' = work \ {b}
    /\ UNCHANGED <<lim, place, manager, resumed, retried, pc, got, scan, trim,
                   finish, stop, events>>

\* A backend process dies.
Die(b) ==
    /\ proc[b] = "live"
    /\ Event("die")
    /\ proc' = [proc EXCEPT ![b] = "dead"]
    /\ work' = work \ {b}
    /\ UNCHANGED <<lim, place, backends, creating, uses, resume, removed,
                   resumed, retried, pc, got, scan, trim, finish, stop>>

\* ResetSession (the resume ID goes) or BounceSession (it stays).
Close(k) ==
    /\ backends[k] # NoOne
    /\ Unmap(k)
    /\ \/ Event("reset") /\ resume' = resume \ {k}
       \/ Event("bounce") /\ UNCHANGED resume
    /\ UNCHANGED <<lim, place, proc, creating, uses, resumed, retried, pc, got,
                   scan, trim, finish, stop, work>>

\* closeIdle: whichever backends of the agent have been silent for the whole
\* idle timeout, which is longer than a creation may take.
CloseIdle(a) ==
    /\ stop[a] # "closed"
    /\ Event("reap")
    /\ \E ks \in SUBSET {k \in Keys : /\ AgentOf[k] = a /\ backends[k] # NoOne
                                      /\ ~creating[backends[k]]} :
          /\ ks # {}
          /\ backends' = [k \in Keys |-> IF k \in ks THEN NoOne ELSE backends[k]]
          /\ removed' = removed \cup {backends[k] : k \in ks}
          /\ resume' = resume \cup ks
    /\ UNCHANGED <<lim, place, proc, creating, uses, resumed, retried, pc, got,
                   scan, trim, finish, stop, work>>

\* CloseFinishedSession: the scan and the idle check, then closeIdleExact.
FinishScan(k) ==
    /\ Event("finished")
    /\ finish = NoOne /\ backends[k] # NoOne
    /\ LET b == backends[k] IN
       /\ ~creating[b] /\ Evictable(k, b)
       /\ finish' = [mb |-> b, seen |-> uses[b]]
    /\ UNCHANGED <<lim, place, manager, resumed, retried, pc, got, scan, trim,
                   stop, work>>

FinishClose ==
    /\ finish # NoOne
    /\ LET k == KeyOf[finish.mb] IN
       IF Exact(k, finish) THEN Unmap(k) /\ resume' = resume \cup {k}
                           ELSE UNCHANGED <<backends, removed, resume>>
    /\ finish' = NoOne
    /\ UNCHANGED <<lim, place, proc, creating, uses, resumed, retried, pc, got,
                   scan, trim, stop, work, events>>

\* refuseNewBackends: the latch under m.mu, then the flag the waits read.
BeginShutdown(a) ==
    /\ stop[a] = "run"
    /\ Event("shutdown")
    /\ stop' = [stop EXCEPT ![a] = "refusing"]
    /\ UNCHANGED <<lim, place, manager, resumed, retried, pc, got, scan, trim,
                   finish, work>>

RefuseWaits(a) ==
    /\ stop[a] = "refusing"
    /\ stop' = [stop EXCEPT ![a] = "refused"]
    /\ UNCHANGED <<lim, place, manager, resumed, retried, pc, got, scan, trim,
                   finish, work, events>>

\* The manager's Close, as the gateway's shutdown calls it.
CloseAll(a) ==
    LET mapped == {k \in Keys : AgentOf[k] = a /\ backends[k] # NoOne} IN
    /\ stop[a] = "refused"
    /\ stop' = [stop EXCEPT ![a] = "closed"]
    /\ backends' = [k \in Keys |-> IF k \in mapped THEN NoOne ELSE backends[k]]
    /\ removed' = removed \cup {backends[k] : k \in mapped}
    /\ resume' = resume \cup mapped
    /\ UNCHANGED <<lim, place, proc, creating, uses, resumed, retried, pc, got,
                   scan, trim, finish, work, events>>

------------------------------------------------------------------------------
\* getOrCreate and acquire, as the caller's goroutine runs them.
Caller(p) ==
    \/ Get(p) \/ Do(p) \/ LookUp(p) \/ Refuse(p)
    \/ Acquire(p) \/ Settle(p) \/ Wake(p) \/ Leave(p)
    \/ Start(p) \/ Map(p) \/ WaitReady(p) \/ Relaunch(p) \/ Remap(p)
    \/ WaitReadyAgain(p) \/ Fail(p) \/ EndTurn(p)

Scan(p) == IdleCandidates(p) \/ TryEvict(p)

Next ==
    \/ \E p \in Callers : Caller(p) \/ Scan(p) \/ Trim(p) \/ CloseRemoved(p)
    \/ \E p \in Callers : Cancel(p) \/ WorkEnds(p) \/ Die(p)
    \/ \E k \in Keys : Close(k) \/ FinishScan(k)
    \/ FinishClose
    \/ \E a \in Agents :
          CloseIdle(a) \/ BeginShutdown(a) \/ RefuseWaits(a) \/ CloseAll(a)

Spec == Init /\ [][Next]_vars

\* Goroutines run, a turn ends, a process closes in bounded time and
\* background work finishes; nothing is promised of the outside events.
FairSpec ==
    /\ Spec
    /\ \A p \in Callers : WF_vars(Caller(p)) /\ WF_vars(Scan(p))
                          /\ WF_vars(Trim(p)) /\ WF_vars(CloseRemoved(p))
                          /\ WF_vars(WorkEnds(p))
    /\ WF_vars(FinishClose)
    /\ \A a \in Agents : WF_vars(RefuseWaits(a)) /\ WF_vars(CloseAll(a))

------------------------------------------------------------------------------
\* The counts are exact: every unit of a count is a place some backend holds
\* or a grant some waiter has not picked up yet, whichever way creations end
\* (release once per place, the deferred give-back of acquire).
PlacesExact ==
    LET charged == {p \in Callers : place[p] = "held"} IN
    /\ lim.live = Cardinality(charged) + Cardinality(lim.granted)
    /\ \A a \in Agents :
          lim.perAgent[a] = Cardinality({p \in charged : Agent(p) = a})
                            + Cardinality({p \in lim.granted : Agent(p) = a})

Mapped(b) == backends[KeyOf[b]] = b

\* "A backend holds a place from the moment its creation starts until it leaves
\* its manager's map": no process runs and no backend is mapped without one.
\* The relaunch after a death during init is the exception the code makes.
ProcessCounted ==
    \A b \in Callers \ retried :
        proc[b] = "live" \/ Mapped(b) => place[b] = "held"

\* A running process is always somebody's: in the map, about to be closed, or
\* in the hands of the call that creates it.
NoOrphan ==
    \A b \in Callers : proc[b] = "live" =>
        Mapped(b) \/ b \in removed \/ pc[b] \in {"map", "remap"}

\* After the shutdown Close no process of the manager is left but those being
\* closed and those a creation is about to tear down (getOrCreate's check of
\* noNewBackends before the map); relaunches apart, which are not checked.
NothingOutlives ==
    \A b \in Callers \ retried :
        stop[Agent(b)] = "closed" /\ proc[b] = "live"
            => b \in removed \/ pc[b] = "map"

\* The comment on noNewBackends: it "refuses every backend creation and
\* respawn", so nothing outlives the manager, relaunched backends included.
RespawnRefused ==
    \A b \in Callers :
        stop[Agent(b)] = "closed" /\ proc[b] = "live"
            => b \in removed \/ pc[b] \in {"map", "remap"}

\* A user creation in acquire that has no place yet.
Waiting(p) ==
    /\ p \notin lim.granted
    /\ Queued(lim, p) /\ pc[p] \in {"acquire", "evict", "settle", "wait"}

\* No place is left idle while a user creation waits: a waiter is short of a
\* cap (every release and every give-back offers what it frees to the queue).
NoIdlePlace == \A p \in Callers : Waiting(p) => Full(lim, Agent(p))

\* p takes a place in this step, by a grant or at its own hand.
Takes(p) ==
    \/ p \in lim'.granted \ lim.granted
    \/ place[p] = "none" /\ place'[p] = "held" /\ p \notin lim.granted

\* A user creation never takes a count above its cap, however many places one
\* release hands out; only a system creation goes over.
UserUnderCap ==
    [][\A p \in Users : Takes(p) =>
          /\ ~GlobalOver(lim') /\ ~AgentOver(lim', Agent(p))]_vars

\* "Waiters for the same cap are served FIFO": a user creation that takes a
\* place of a capped agent passes no earlier one that still waits for it.
NoOvertaking ==
    [][\A p \in Users : Takes(p) /\ AgentCap[Agent(p)] > 0 =>
          \A i \in Ahead(lim, p) :
              LET q == lim.waiters[i] IN
              Agent(q) = Agent(p) /\ Waiting(q) => q \in lim'.granted]_vars

\* A backend a turn holds is never closed as idle: neither by an eviction nor
\* by CloseFinishedSession, though both look at it without the lock.
UsedNotEvicted ==
    [][\A b \in Callers :
          /\ Mapped(b) /\ ~Mapped(b)'
          /\ \/ \E p \in Callers : scan[p].at = "try" /\ scan'[p].victim = b
             \/ finish # NoOne /\ finish' = NoOne
          => ~\E p \in Callers : pc[p] = "using" /\ got[p] = b]_vars

\* Every call for a backend returns, with a backend or an error: a user creation
\* gets its place once something under its cap is idle, and nobody who joined
\* a creation is left behind.  A backend that died and was not asked for again
\* is the exception: it keeps its place and, not running, is no candidate for
\* eviction, so a waiter may sit behind it until the idle reaper comes.
GetReturns ==
    \A p \in Callers :
        pc[p] = "miss" ~> \/ pc[p] \in {"using", "done"}
                          \/ \E b \in Callers : Mapped(b) /\ proc[b] = "dead"

===============================================================================
