----------------------------- MODULE InboxEvict -----------------------------
(***************************************************************************)
(* Idle eviction of one session's inbox (internal/agent/inbox_evict.go,    *)
(* #2283).  Producers find the session's inbox in a.inboxes, pin it with a *)
(* read lock and write; the worker, asked by the reaper, checks that the   *)
(* inbox is idle and empty, locks it, marks it evicted and drops it from   *)
(* the map.  What the worker does with a message is Inbox.tla's matter.    *)
(***************************************************************************)
EXTENDS Naturals, Sequences, FiniteSets, SequencesExt

CONSTANTS
    Senders,   \* Enqueue calls, one message each
    Marks,     \* parkUsageResume calls of a usage hold that starts
    Boxes,     \* the inboxes the session can ever have
    ChanSize,  \* inboxChanSize
    None       \* no inbox, no message

ASSUME EvictAssumption ==
    Senders \cap Marks = {} /\ None \notin Senders \cup Marks \cup Boxes /\ ChanSize \in Nat \ {0}

Callers == Senders \cup Marks

VARIABLES
    entry,  \* a.inboxes[sk]
    box,    \* the inboxes
    w,      \* their workers: where each is, and the message it runs
    c,      \* the callers: where each is, and the inbox in hand
    turn,   \* a turn runs on the session outside the worker (a voice call)
    fate    \* ghost: how each message ended

vars == <<entry, box, w, c, turn, fate>>

Box == [ch : Seq(Senders),
        readers : SUBSET Callers,  \* evictMu, read side
        writer : BOOLEAN,          \* evictMu, write side
        evicted : BOOLEAN,
        idle : BOOLEAN,            \* lastUsed is inboxIdleAfter ago
        req : BOOLEAN,             \* evictReq
        resume : BOOLEAN,          \* usageResume
        held : BOOLEAN]            \* usageHeld is not empty

\* A worker: "none" (no such inbox yet), "top", "select", "turn", and inside
\* tryEvictInbox "checked", "locked", "evicted"; "exited".
TypeOK ==
    /\ entry \in Boxes \cup {None}
    /\ box \in [Boxes -> Box]
    /\ \A i \in Boxes : Len(box[i].ch) <= ChanSize
    /\ w \in [Boxes -> [pc : {"none", "top", "select", "turn", "checked", "locked",
                              "evicted", "exited"},
                        cur : Senders \cup {None}]]
    /\ c \in [Callers -> [pc : {"out", "seen", "found", "pinned", "written", "done"},
                          box : Boxes \cup {None}]]
    /\ turn \in BOOLEAN
    /\ fate \in [Senders -> {"none", "ran", "rejected"}]

Init ==
    /\ entry = None
    /\ box = [i \in Boxes |-> [ch |-> <<>>, readers |-> {}, writer |-> FALSE,
                               evicted |-> FALSE, idle |-> FALSE, req |-> FALSE,
                               resume |-> FALSE, held |-> FALSE]]
    /\ w = [i \in Boxes |-> [pc |-> "none", cur |-> None]]
    /\ c = [x \in Callers |-> [pc |-> "out", box |-> None]]
    /\ turn = FALSE
    /\ fate = [x \in Senders |-> "none"]

Goto(x, pc, i) == c' = [c EXCEPT ![x] = [pc |-> pc, box |-> i]]
At(i, pc) == w' = [w EXCEPT ![i].pc = pc]

-----------------------------------------------------------------------------
(* The callers.                                                            *)

\* interruptForUsageHold sees the turn that runs outside the worker.
SeeTurn(x) ==
    /\ x \in Marks /\ c[x].pc = "out" /\ turn
    /\ Goto(x, "seen", None)
    /\ UNCHANGED <<entry, box, w, turn, fate>>

\* getOrCreateInbox, of Enqueue and of parkUsageResume.
GetOrCreateInbox(x) ==
    /\ c[x].pc = IF x \in Marks THEN "seen" ELSE "out"
    /\ \/ /\ entry # None
          /\ Goto(x, "found", entry)
          /\ UNCHANGED <<entry, w>>
       \/ /\ entry = None
          /\ \E i \in Boxes :
                /\ w[i].pc = "none"
                /\ entry' = i
                /\ At(i, "top")
                /\ Goto(x, "found", i)
    /\ UNCHANGED <<box, turn, fate>>

\* Mutation: the pin does not look whether the inbox was evicted meanwhile.
PinUnchecked(x) ==
    /\ c[x].pc = "found" /\ ~box[c[x].box].writer
    /\ box' = [box EXCEPT ![c[x].box].readers = @ \cup {x}]
    /\ Goto(x, "pinned", c[x].box)
    /\ UNCHANGED <<entry, w, turn, fate>>

\* pinInbox: the read lock, or another round for an inbox found evicted.
PinInbox(x) ==
    /\ c[x].pc = "found" /\ ~box[c[x].box].writer
    /\ IF box[c[x].box].evicted
         THEN /\ Goto(x, IF x \in Marks THEN "seen" ELSE "out", None)
              /\ UNCHANGED box
         ELSE /\ box' = [box EXCEPT ![c[x].box].readers = @ \cup {x}]
              /\ Goto(x, "pinned", c[x].box)
    /\ UNCHANGED <<entry, w, turn, fate>>

\* Enqueue writes the pinned inbox, or its channel is full ...
Enqueue(x) ==
    /\ x \in Senders /\ c[x].pc = "pinned"
    /\ LET i == c[x].box
       IN  IF Len(box[i].ch) < ChanSize
             THEN /\ box' = [box EXCEPT ![i].ch = Append(@, x)]
                  /\ Goto(x, "written", i)
                  /\ UNCHANGED fate
             ELSE /\ box' = [box EXCEPT ![i].readers = @ \ {x}]
                  /\ Goto(x, "done", None)
                  /\ fate' = [fate EXCEPT ![x] = "rejected"]
    /\ UNCHANGED <<entry, w, turn>>

\* ... touches it and unpins it.
Unpin(x) ==
    /\ x \in Senders /\ c[x].pc = "written"
    /\ box' = [box EXCEPT ![c[x].box].idle = FALSE, ![c[x].box].readers = @ \ {x}]
    /\ Goto(x, "done", None)
    /\ UNCHANGED <<entry, w, turn, fate>>

\* parkUsageResume marks the pinned inbox, and unpins it.
ParkUsageResume(x) ==
    /\ x \in Marks /\ c[x].pc = "pinned"
    /\ box' = [box EXCEPT ![c[x].box].resume = TRUE, ![c[x].box].readers = @ \ {x}]
    /\ Goto(x, "done", None)
    /\ UNCHANGED <<entry, w, turn, fate>>

-----------------------------------------------------------------------------
(* The worker.                                                             *)

\* The loop top: the mark becomes the parked resume line.
TakeUsageResume(i) ==
    /\ w[i].pc = "top"
    /\ box' = [box EXCEPT ![i].held = @ \/ box[i].resume, ![i].resume = FALSE]
    /\ At(i, "select")
    /\ UNCHANGED <<entry, c, turn, fate>>

\* The hold lifts or parkUsageResume's kick arrives: the loop top again, which
\* runs the parked resume line.
Wake(i) ==
    /\ w[i].pc = "select" /\ (box[i].held \/ box[i].resume)
    /\ box' = [box EXCEPT ![i].held = FALSE, ![i].idle = @ /\ ~box[i].held]
    /\ At(i, "top")
    /\ UNCHANGED <<entry, c, turn, fate>>

Take(i) ==
    /\ w[i].pc = "select" /\ box[i].ch # <<>>
    /\ box' = [box EXCEPT ![i].ch = Tail(@)]
    /\ w' = [w EXCEPT ![i] = [pc |-> "turn", cur |-> Head(box[i].ch)]]
    /\ UNCHANGED <<entry, c, turn, fate>>

\* handleDequeued returns, and the worker touches the inbox.
HandleDequeued(i) ==
    /\ w[i].pc = "turn"
    /\ fate' = [fate EXCEPT ![w[i].cur] = "ran"]
    /\ w' = [w EXCEPT ![i] = [pc |-> "top", cur |-> None]]
    /\ box' = [box EXCEPT ![i].idle = FALSE]
    /\ UNCHANGED <<entry, c, turn>>

\* tryEvictInbox: first what only the worker writes, and the resume mark ...
TryEvictInbox(i) ==
    /\ w[i].pc = "select" /\ box[i].req
    /\ box' = [box EXCEPT ![i].req = FALSE]
    /\ At(i, IF box[i].held \/ box[i].resume THEN "top" ELSE "checked")
    /\ UNCHANGED <<entry, c, turn, fate>>

\* ... then evictMu.TryLock, which gives up on a pinned inbox ...
TryLock(i) ==
    /\ w[i].pc = "checked"
    /\ IF box[i].readers = {}
         THEN At(i, "locked") /\ box' = [box EXCEPT ![i].writer = TRUE]
         ELSE At(i, "top") /\ UNCHANGED box
    /\ UNCHANGED <<entry, c, turn, fate>>

\* Mutation: the channel is not looked at.
BusyReasonNoChannel(i) ==
    /\ w[i].pc = "locked"
    /\ IF box[i].idle /\ ~turn
         THEN At(i, "evicted") /\ box' = [box EXCEPT ![i].evicted = TRUE]
         ELSE At(i, "top") /\ box' = [box EXCEPT ![i].writer = FALSE]
    /\ UNCHANGED <<entry, c, turn, fate>>

\* Mutation: the entry leaves the map although the inbox turned out busy.
BusyReasonDropped(i) ==
    /\ w[i].pc = "locked"
    /\ IF box[i].idle /\ box[i].ch = <<>> /\ ~turn
         THEN At(i, "evicted") /\ box' = [box EXCEPT ![i].evicted = TRUE] /\ UNCHANGED entry
         ELSE At(i, "top") /\ box' = [box EXCEPT ![i].writer = FALSE] /\ entry' = None
    /\ UNCHANGED <<c, turn, fate>>

\* ... then inboxBusyReason under the lock: an idle and empty inbox is marked
\* evicted ...
InboxBusyReason(i) ==
    /\ w[i].pc = "locked"
    /\ IF box[i].idle /\ box[i].ch = <<>> /\ ~turn
         THEN At(i, "evicted") /\ box' = [box EXCEPT ![i].evicted = TRUE]
         ELSE At(i, "top") /\ box' = [box EXCEPT ![i].writer = FALSE]
    /\ UNCHANGED <<entry, c, turn, fate>>

\* ... dropped from the map, and unlocked; the worker exits.
Evict(i) ==
    /\ w[i].pc = "evicted"
    /\ entry' = IF entry = i THEN None ELSE entry
    /\ box' = [box EXCEPT ![i].writer = FALSE]
    /\ At(i, "exited")
    /\ UNCHANGED <<c, turn, fate>>

-----------------------------------------------------------------------------
(* The reaper and the clock.                                               *)

\* inboxIdleAfter passes without use.
Idle(i) ==
    /\ w[i].pc \notin {"none", "exited"} /\ ~box[i].idle
    /\ box' = [box EXCEPT ![i].idle = TRUE]
    /\ UNCHANGED <<entry, w, c, turn, fate>>

\* requestIdleEvictions; a busy worker sees the request later.  Boxes bounds the
\* evictions: the last inbox is not asked.
RequestIdleEvictions(i) ==
    /\ entry = i /\ box[i].idle /\ ~box[i].req
    /\ \E j \in Boxes : w[j].pc = "none"
    /\ box' = [box EXCEPT ![i].req = TRUE]
    /\ UNCHANGED <<entry, w, c, turn, fate>>

\* A turn on the session that the worker does not run begins or ends.
OutsideTurn ==
    /\ turn' = ~turn
    /\ UNCHANGED <<entry, box, w, c, fate>>

CallerStep(x) ==
    GetOrCreateInbox(x) \/ PinInbox(x) \/ Enqueue(x) \/ Unpin(x) \/ ParkUsageResume(x)

WorkerStep(i) ==
    \/ TakeUsageResume(i) \/ Wake(i) \/ Take(i) \/ HandleDequeued(i)
    \/ TryEvictInbox(i) \/ TryLock(i) \/ InboxBusyReason(i) \/ Evict(i)

Next ==
    \/ \E x \in Callers : SeeTurn(x) \/ CallerStep(x)
    \/ \E i \in Boxes : WorkerStep(i) \/ Idle(i) \/ RequestIdleEvictions(i)
    \/ OutsideTurn

Spec == Init /\ [][Next]_vars

\* Callers and workers keep running; a writer that unlocks an RWMutex lets the
\* waiting readers in; and the select of a worker that is asked to evict again and
\* again still takes a waiting message.
FairSpec ==
    /\ Spec
    /\ \A x \in Callers : WF_vars(CallerStep(x)) /\ SF_vars(PinInbox(x))
    /\ \A i \in Boxes : WF_vars(WorkerStep(i)) /\ SF_vars(Take(i))

-----------------------------------------------------------------------------
(* Properties.                                                             *)

\* No message is written to, or left in, an inbox that nobody reads any more.
NothingStranded ==
    \A i \in Boxes : w[i].pc \in {"evicted", "exited"} => box[i].ch = <<>> /\ box[i].readers = {}

\* The session never has two inboxes at work: whatever is not evicted is the
\* one producers find.
OneInbox ==
    \A i \in Boxes : w[i].pc # "none" /\ ~box[i].evicted => entry = i

\* An inbox in use is not evicted: since its last message a full idle period
\* has passed.
EvictedIdle ==
    [][\A i \in Boxes : ~box[i].evicted /\ box'[i].evicted =>
          box[i].idle /\ ~turn /\ \A x \in Callers : c[x].box = i => c[x].pc = "found"]_vars

\* Every accepted message runs, although the inbox its sender found may be
\* evicted under it any number of times.
MessageRuns == \A x \in Senders : c[x].pc = "found" ~> fate[x] # "none"

-----------------------------------------------------------------------------
(* What a comment of the source promises and the code does not keep.       *)

\* parkUsageResume: "its inbox worker parks the hidden resume line": the mark
\* is never left on an evicted inbox.
MarkTaken == \A i \in Boxes : box[i].evicted => ~box[i].resume
=============================================================================
