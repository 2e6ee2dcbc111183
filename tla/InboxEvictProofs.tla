-------------------------- MODULE InboxEvictProofs --------------------------
(***************************************************************************)
(* Idle eviction, for any producers, usage holds, inboxes and channel      *)
(* size: nothing is stranded in an evicted inbox, the session has one      *)
(* inbox at work, and only an idle one is evicted.                         *)
(*                                                                         *)
(* NothingStranded is kept because an inbox is marked evicted under the    *)
(* write side of evictMu, which no reader shares (LockExcludes), because a *)
(* producer writes only while it is counted a reader (ReadersExact), and   *)
(* because the mark never goes away (EvictedExact), so that every later    *)
(* pin turns back.  OneInbox needs that the map never names an inbox whose *)
(* worker has exited (EntryLives).                                         *)
(***************************************************************************)
EXTENDS InboxEvict, SequenceTheorems, TLAPS

\* Whoever has found an inbox has found one that exists, and the readers of an
\* inbox are the producers between their pin and their unpin.
ReadersExact ==
    /\ \A x \in Callers : c[x].pc \in {"found", "pinned", "written"} =>
          c[x].box \in Boxes /\ w[c[x].box].pc # "none"
    /\ \A x \in Callers : c[x].pc \in {"out", "seen", "done"} => c[x].box = None
    /\ \A x \in Callers, i \in Boxes :
          x \in box[i].readers <=> c[x].pc \in {"pinned", "written"} /\ c[x].box = i

\* The write side of evictMu is held by the worker from its TryLock on, and
\* excludes the readers.
LockExcludes ==
    \A i \in Boxes : /\ box[i].writer <=> w[i].pc \in {"locked", "evicted"}
                     /\ box[i].writer => box[i].readers = {}

\* The mark is set once, when the worker decides, and stays.
EvictedExact == \A i \in Boxes : box[i].evicted <=> w[i].pc \in {"evicted", "exited"}

\* A worker in a turn has a message in hand.
InTurn == \A i \in Boxes : w[i].pc = "turn" => w[i].cur \in Senders

\* The map never names an inbox without a worker.
EntryLives == entry # None => w[entry].pc \notin {"none", "exited"}

IInv ==
    /\ TypeOK /\ ReadersExact /\ LockExcludes /\ EvictedExact /\ InTurn /\ EntryLives
    /\ NothingStranded /\ OneInbox

------------------------------------------------------------------------------
\* What a producer changes of an inbox leaves it an inbox.
LEMMA BoxFields ==
    ASSUME NEW r \in Box, NEW x \in Callers
    PROVE  /\ r.readers \cup {x} \in SUBSET Callers /\ r.readers \ {x} \in SUBSET Callers
           /\ [r EXCEPT !.readers = @ \cup {x}] \in Box
           /\ [r EXCEPT !.readers = @ \ {x}] \in Box
           /\ [r EXCEPT !.idle = FALSE, !.readers = @ \ {x}] \in Box
           /\ [r EXCEPT !.resume = TRUE, !.readers = @ \ {x}] \in Box
  <1>1. r.readers \cup {x} \in SUBSET Callers /\ r.readers \ {x} \in SUBSET Callers
    BY DEF Box
  <1> QED BY <1>1 DEF Box

LEMMA InitIInv == Init => IInv
  <1> SUFFICES ASSUME Init PROVE IInv
    OBVIOUS
  <1> USE EvictAssumption DEF Init
  <1>1. TypeOK
    <2>1. [ch |-> <<>>, readers |-> {}, writer |-> FALSE, evicted |-> FALSE, idle |-> FALSE,
           req |-> FALSE, resume |-> FALSE, held |-> FALSE] \in Box
      BY DEF Box
    <2>2. box \in [Boxes -> Box] /\ \A i \in Boxes : Len(box[i].ch) <= ChanSize
      BY <2>1
    <2>3. /\ entry \in Boxes \cup {None} /\ turn \in BOOLEAN
          /\ fate \in [Senders -> {"none", "ran", "rejected"}]
      OBVIOUS
    <2>4. /\ w \in [Boxes -> [pc : {"none", "top", "select", "turn", "checked", "locked",
                                    "evicted", "exited"},
                              cur : Senders \cup {None}]]
          /\ c \in [Callers -> [pc : {"out", "seen", "found", "pinned", "written", "done"},
                                box : Boxes \cup {None}]]
      OBVIOUS
    <2> QED BY <2>2, <2>3, <2>4 DEF TypeOK
  <1>2. ReadersExact /\ LockExcludes /\ EvictedExact /\ InTurn /\ EntryLives
    BY DEF ReadersExact, LockExcludes, EvictedExact, InTurn, EntryLives
  <1>3. NothingStranded /\ OneInbox
    BY DEF NothingStranded, OneInbox
  <1> QED BY <1>1, <1>2, <1>3 DEF IInv

LEMMA SeeTurnPreserves ==
    ASSUME IInv, NEW x \in Callers, SeeTurn(x)
    PROVE  IInv'
  <1> USE EvictAssumption DEF IInv, SeeTurn, Goto
  <1>1. TypeOK'
    BY DEF TypeOK
  <1>2. ReadersExact'
    BY DEF TypeOK, ReadersExact
  <1>3. (LockExcludes /\ EvictedExact /\ InTurn /\ EntryLives /\ NothingStranded /\ OneInbox)'
    BY DEF LockExcludes, EvictedExact, InTurn, EntryLives, NothingStranded, OneInbox
  <1> QED BY <1>1, <1>2, <1>3

LEMMA GetOrCreatePreserves ==
    ASSUME IInv, NEW x \in Callers, GetOrCreateInbox(x)
    PROVE  IInv'
  <1> USE EvictAssumption DEF IInv
  <1>1. CASE entry # None /\ Goto(x, "found", entry) /\ UNCHANGED <<entry, w, box, turn, fate>>
    <2>1. TypeOK'
      BY <1>1 DEF TypeOK, Goto
    <2>2. ReadersExact'
      BY <1>1 DEF TypeOK, ReadersExact, EntryLives, GetOrCreateInbox, Goto
    <2>3. (LockExcludes /\ EvictedExact /\ InTurn /\ EntryLives /\ NothingStranded /\ OneInbox)'
      BY <1>1 DEF LockExcludes, EvictedExact, InTurn, EntryLives, NothingStranded, OneInbox
    <2> QED BY <2>1, <2>2, <2>3
  <1>2. ASSUME NEW i \in Boxes, entry = None, w[i].pc = "none", entry' = i, At(i, "top"),
               Goto(x, "found", i), UNCHANGED <<box, turn, fate>>
        PROVE  IInv'
    <2> USE <1>2
    <2>1. TypeOK'
      BY DEF TypeOK, Goto, At
    <2>2. ReadersExact'
      BY DEF TypeOK, ReadersExact, GetOrCreateInbox, Goto, At
    <2>3. (LockExcludes /\ EvictedExact /\ InTurn)'
      BY DEF TypeOK, LockExcludes, EvictedExact, InTurn, At
    <2>4. (EntryLives /\ NothingStranded /\ OneInbox)'
      BY DEF TypeOK, EntryLives, EvictedExact, NothingStranded, OneInbox, At
    <2> QED BY <2>1, <2>2, <2>3, <2>4
  <1> QED BY <1>1, <1>2 DEF GetOrCreateInbox

LEMMA PinPreserves ==
    ASSUME IInv, NEW x \in Callers, PinInbox(x)
    PROVE  IInv'
  <1> USE EvictAssumption DEF IInv
  <1>a. PICK i \in Boxes : i = c[x].box /\ w[i].pc # "none"
    BY DEF PinInbox, ReadersExact
  <1>b. c[x].pc = "found" /\ ~box[i].writer /\ UNCHANGED <<entry, w, turn, fate>>
    BY <1>a DEF PinInbox
  <1>1. CASE box[i].evicted
    <2> DEFINE back == IF x \in Marks THEN "seen" ELSE "out"
    <2>0. Goto(x, back, None) /\ UNCHANGED box
      BY <1>a, <1>1 DEF PinInbox
    <2>1. TypeOK'
      BY <1>b, <2>0 DEF TypeOK, Goto
    <2>2. ReadersExact'
      BY <1>b, <2>0 DEF TypeOK, ReadersExact, Goto
    <2>3. (LockExcludes /\ EvictedExact /\ InTurn /\ EntryLives /\ NothingStranded /\ OneInbox)'
      BY <1>b, <2>0
         DEF LockExcludes, EvictedExact, InTurn, EntryLives, NothingStranded,
             OneInbox
    <2> QED BY <2>1, <2>2, <2>3
  <1>2. CASE ~box[i].evicted
    <2>0. /\ box' = [box EXCEPT ![i].readers = @ \cup {x}]
          /\ c' = [c EXCEPT ![x] = [pc |-> "pinned", box |-> i]]
      BY <1>a, <1>2 DEF PinInbox, Goto
    <2>t. box[i] \in Box /\ \A j \in Boxes : box'[j].ch = box[j].ch
      BY <2>0 DEF TypeOK, Box
    <2>1. TypeOK'
      BY <1>b, <2>0, <2>t, BoxFields DEF TypeOK
    <2>2. ReadersExact'
      BY <1>a, <1>b, <2>0 DEF TypeOK, Box, ReadersExact
    <2>3. (LockExcludes /\ EvictedExact /\ InTurn /\ EntryLives)'
      BY <1>b, <2>0 DEF TypeOK, Box, LockExcludes, EvictedExact, InTurn, EntryLives
    <2>4. (NothingStranded /\ OneInbox)'
      BY <1>b, <1>2, <2>0 DEF TypeOK, Box, EvictedExact, NothingStranded, OneInbox
    <2> QED BY <2>1, <2>2, <2>3, <2>4
  <1> QED BY <1>1, <1>2

\* A writing producer is a reader of its inbox, which is therefore not evicted.
LEMMA ReaderOfLive ==
    ASSUME IInv, NEW x \in Callers, c[x].pc \in {"pinned", "written"}
    PROVE  /\ c[x].box \in Boxes /\ x \in box[c[x].box].readers
           /\ ~box[c[x].box].evicted
  BY DEF IInv, ReadersExact, LockExcludes, EvictedExact, NothingStranded

LEMMA EnqueuePreserves ==
    ASSUME IInv, NEW x \in Callers, Enqueue(x)
    PROVE  IInv'
  <1> USE EvictAssumption DEF IInv
  <1>a. PICK i \in Boxes : i = c[x].box /\ x \in box[i].readers /\ ~box[i].evicted
    BY ReaderOfLive DEF Enqueue
  <1>b. x \in Senders /\ c[x].pc = "pinned" /\ UNCHANGED <<entry, w, turn>>
    BY DEF Enqueue
  <1>1. CASE Len(box[i].ch) < ChanSize
    <2>0. /\ box' = [box EXCEPT ![i].ch = Append(@, x)]
          /\ c' = [c EXCEPT ![x] = [pc |-> "written", box |-> i]]
          /\ UNCHANGED fate
      BY <1>a, <1>1 DEF Enqueue, Goto
    <2>1. TypeOK'
      <3>1. box[i] \in Box /\ Append(box[i].ch, x) \in Seq(Senders)
        BY <1>b DEF TypeOK, Box
      <3>2. [box[i] EXCEPT !.ch = Append(@, x)] \in Box
        BY <3>1 DEF Box
      <3>3. \A j \in Boxes : box'[j].ch = IF j = i THEN Append(box[i].ch, x) ELSE box[j].ch
        BY <2>0 DEF TypeOK, Box
      <3>4. Len(Append(box[i].ch, x)) <= ChanSize
        BY <1>1, <1>b DEF TypeOK, Box
      <3>5. box' \in [Boxes -> Box] /\ \A j \in Boxes : Len(box'[j].ch) <= ChanSize
        BY <2>0, <3>2, <3>3, <3>4 DEF TypeOK
      <3> QED BY <1>b, <2>0, <3>5 DEF TypeOK
    <2>2. ReadersExact'
      BY <1>a, <1>b, <2>0 DEF TypeOK, Box, ReadersExact
    <2>3. (LockExcludes /\ EvictedExact /\ InTurn /\ EntryLives)'
      BY <1>b, <2>0 DEF TypeOK, Box, LockExcludes, EvictedExact, InTurn, EntryLives
    <2>4. (NothingStranded /\ OneInbox)'
      BY <1>a, <1>b, <2>0 DEF TypeOK, Box, EvictedExact, NothingStranded, OneInbox
    <2> QED BY <2>1, <2>2, <2>3, <2>4
  <1>2. CASE ~(Len(box[i].ch) < ChanSize)
    <2>0. /\ box' = [box EXCEPT ![i].readers = @ \ {x}]
          /\ c' = [c EXCEPT ![x] = [pc |-> "done", box |-> None]]
          /\ fate' = [fate EXCEPT ![x] = "rejected"]
      BY <1>a, <1>2 DEF Enqueue, Goto
    <2>t. box[i] \in Box /\ \A j \in Boxes : box'[j].ch = box[j].ch
      BY <2>0 DEF TypeOK, Box
    <2>1. TypeOK'
      BY <1>b, <2>0, <2>t, BoxFields DEF TypeOK
    <2>2. ReadersExact'
      BY <1>a, <1>b, <2>0 DEF TypeOK, Box, ReadersExact
    <2>3. (LockExcludes /\ EvictedExact /\ InTurn /\ EntryLives)'
      BY <1>b, <2>0 DEF TypeOK, Box, LockExcludes, EvictedExact, InTurn, EntryLives
    <2>4. (NothingStranded /\ OneInbox)'
      BY <1>a, <1>b, <2>0 DEF TypeOK, Box, EvictedExact, NothingStranded, OneInbox
    <2> QED BY <2>1, <2>2, <2>3, <2>4
  <1> QED BY <1>1, <1>2

\* The two ways a producer unpins.
LEMMA UnpinPreserves ==
    ASSUME IInv, NEW x \in Callers, Unpin(x) \/ ParkUsageResume(x)
    PROVE  IInv'
  <1> USE EvictAssumption DEF IInv
  <1>a. PICK i \in Boxes : i = c[x].box /\ x \in box[i].readers /\ ~box[i].evicted
    BY ReaderOfLive DEF Unpin, ParkUsageResume
  <1>b. /\ c[x].pc \in {"pinned", "written"} /\ UNCHANGED <<entry, w, turn, fate>>
        /\ c' = [c EXCEPT ![x] = [pc |-> "done", box |-> None]]
    BY DEF Unpin, ParkUsageResume, Goto
  <1>c. PICK r \in Box :
          /\ box' = [box EXCEPT ![i] = r]
          /\ r.ch = box[i].ch /\ r.writer = box[i].writer /\ r.evicted = box[i].evicted
          /\ r.readers = box[i].readers \ {x}
    <2>0. box[i] \in Box /\ box \in [Boxes -> Box]
      BY DEF TypeOK
    <2>1. CASE Unpin(x)
      <3> DEFINE r == [box[i] EXCEPT !.idle = FALSE, !.readers = @ \ {x}]
      <3>1. r \in Box /\ box' = [box EXCEPT ![i] = r]
        BY <1>a, <2>0, <2>1, BoxFields DEF Unpin
      <3>2. /\ r.ch = box[i].ch /\ r.writer = box[i].writer /\ r.evicted = box[i].evicted
            /\ r.readers = box[i].readers \ {x}
        BY <2>0 DEF Box
      <3> QED BY <3>1, <3>2
    <2>2. CASE ParkUsageResume(x)
      <3> DEFINE r == [box[i] EXCEPT !.resume = TRUE, !.readers = @ \ {x}]
      <3>1. r \in Box /\ box' = [box EXCEPT ![i] = r]
        BY <1>a, <2>0, <2>2, BoxFields DEF ParkUsageResume
      <3>2. /\ r.ch = box[i].ch /\ r.writer = box[i].writer /\ r.evicted = box[i].evicted
            /\ r.readers = box[i].readers \ {x}
        BY <2>0 DEF Box
      <3> QED BY <3>1, <3>2
    <2> QED BY <2>1, <2>2
  <1>d. box' \in [Boxes -> Box]
    BY <1>c DEF TypeOK
  <1>e. \A j \in Boxes : /\ box'[j].ch = box[j].ch /\ box'[j].writer = box[j].writer
                          /\ box'[j].evicted = box[j].evicted
    BY <1>c DEF TypeOK
  <1>f. \A j \in Boxes, y \in Callers :
          y \in box'[j].readers <=> y \in box[j].readers /\ ~(j = i /\ y = x)
    BY <1>c DEF TypeOK
  <1>g. \A j \in Boxes : box[j].readers = {} => box'[j].readers = {}
    BY <1>c DEF TypeOK
  <1>1. TypeOK'
    BY <1>b, <1>d, <1>e DEF TypeOK
  <1>2. ReadersExact'
    BY <1>a, <1>b, <1>f DEF TypeOK, ReadersExact
  <1>3. (LockExcludes /\ EvictedExact /\ InTurn /\ EntryLives)'
    BY <1>b, <1>e, <1>g DEF LockExcludes, EvictedExact, InTurn, EntryLives
  <1>4. (NothingStranded /\ OneInbox)'
    BY <1>b, <1>e, <1>g DEF NothingStranded, OneInbox
  <1> QED BY <1>1, <1>2, <1>3, <1>4

------------------------------------------------------------------------------
\* A step of worker i that touches neither the readers, nor the lock, nor the
\* mark, nor the map: it loops, takes a message or answers the reaper.
LEMMA WorkerLoopPreserves ==
    ASSUME IInv, NEW i \in Boxes, UNCHANGED <<entry, c, turn>>,
           NEW r \in Box, box' = [box EXCEPT ![i] = r], Len(r.ch) <= ChanSize,
           r.readers = box[i].readers, r.writer = box[i].writer, r.evicted = box[i].evicted,
           NEW pc \in {"top", "select", "turn", "checked"}, NEW cur \in Senders \cup {None},
           w' = [w EXCEPT ![i] = [pc |-> pc, cur |-> cur]],
           pc = "turn" => cur \in Senders,
           w[i].pc \in {"top", "select", "turn", "checked"},
           fate' \in [Senders -> {"none", "ran", "rejected"}]
    PROVE  IInv'
  <1> USE EvictAssumption DEF IInv
  <1>1. TypeOK'
    BY DEF TypeOK
  <1>2. \A j \in Boxes : /\ box'[j].readers = box[j].readers
                         /\ box'[j].writer = box[j].writer
                         /\ box'[j].evicted = box[j].evicted
                         /\ j # i => box'[j].ch = box[j].ch
    BY DEF TypeOK
  <1>3. \A j \in Boxes : w'[j].pc = IF j = i THEN pc ELSE w[j].pc
    BY DEF TypeOK
  <1>4. ReadersExact'
    BY <1>2, <1>3 DEF ReadersExact
  <1>5. (LockExcludes /\ EvictedExact)'
    BY <1>2, <1>3 DEF LockExcludes, EvictedExact
  <1>6. InTurn'
    BY DEF TypeOK, InTurn
  <1>7. (EntryLives /\ NothingStranded /\ OneInbox)'
    BY <1>2, <1>3 DEF TypeOK, EntryLives, NothingStranded, OneInbox
  <1> QED BY <1>1, <1>4, <1>5, <1>6, <1>7

\* At changes the worker's place and leaves its message.
LEMMA AtIs ==
    ASSUME TypeOK, NEW i \in Boxes, NEW pc, At(i, pc)
    PROVE  /\ w' = [w EXCEPT ![i] = [pc |-> pc, cur |-> w[i].cur]]
           /\ w[i].cur \in Senders \cup {None}
  <1>1. w[i] \in [pc : {"none", "top", "select", "turn", "checked", "locked", "evicted", "exited"},
                  cur : Senders \cup {None}]
    BY DEF TypeOK
  <1>2. [w[i] EXCEPT !.pc = pc] = [pc |-> pc, cur |-> w[i].cur]
    BY <1>1
  <1> QED BY <1>1, <1>2 DEF At

LEMMA LoopStepPreserves ==
    ASSUME IInv, NEW i \in Boxes,
           TakeUsageResume(i) \/ Wake(i) \/ TryEvictInbox(i)
    PROVE  IInv'
  <1> USE EvictAssumption
  <1>0. box[i] \in Box /\ box \in [Boxes -> Box] /\ Len(box[i].ch) <= ChanSize /\ TypeOK
    BY DEF IInv, TypeOK
  <1>a. UNCHANGED <<entry, c, turn>> /\ fate' \in [Senders -> {"none", "ran", "rejected"}]
    BY <1>0 DEF TypeOK, TakeUsageResume, Wake, TryEvictInbox
  <1>1. CASE TakeUsageResume(i)
    <2> DEFINE r == [box[i] EXCEPT !.held = @ \/ box[i].resume, !.resume = FALSE]
    <2>1. r \in Box
      BY <1>0 DEF Box
    <2>2. box' = [box EXCEPT ![i] = r] /\ At(i, "select") /\ w[i].pc = "top"
      BY <1>0, <1>1 DEF TakeUsageResume
    <2>3. /\ r.ch = box[i].ch /\ r.readers = box[i].readers
          /\ r.writer = box[i].writer /\ r.evicted = box[i].evicted
      BY <1>0 DEF Box
    <2> HIDE DEF r
    <2> QED BY <1>0, <1>a, <2>1, <2>2, <2>3, AtIs, WorkerLoopPreserves
  <1>2. CASE Wake(i)
    <2> DEFINE r == [box[i] EXCEPT !.held = FALSE, !.idle = @ /\ ~box[i].held]
    <2>1. r \in Box
      BY <1>0 DEF Box
    <2>2. box' = [box EXCEPT ![i] = r] /\ At(i, "top") /\ w[i].pc = "select"
      BY <1>0, <1>2 DEF Wake
    <2>3. /\ r.ch = box[i].ch /\ r.readers = box[i].readers
          /\ r.writer = box[i].writer /\ r.evicted = box[i].evicted
      BY <1>0 DEF Box
    <2> HIDE DEF r
    <2> QED BY <1>0, <1>a, <2>1, <2>2, <2>3, AtIs, WorkerLoopPreserves
  <1>3. CASE TryEvictInbox(i)
    <2> DEFINE r == [box[i] EXCEPT !.req = FALSE]
    <2>1. r \in Box
      BY <1>0 DEF Box
    <2>2. box' = [box EXCEPT ![i] = r] /\ (At(i, "top") \/ At(i, "checked")) /\ w[i].pc = "select"
      BY <1>0, <1>3 DEF TryEvictInbox
    <2>3. /\ r.ch = box[i].ch /\ r.readers = box[i].readers
          /\ r.writer = box[i].writer /\ r.evicted = box[i].evicted
      BY <1>0 DEF Box
    <2> HIDE DEF r
    <2> QED BY <1>0, <1>a, <2>1, <2>2, <2>3, AtIs, WorkerLoopPreserves
  <1> QED BY <1>1, <1>2, <1>3

LEMMA TakePreserves ==
    ASSUME IInv, NEW i \in Boxes, Take(i) \/ HandleDequeued(i)
    PROVE  IInv'
  <1> USE EvictAssumption
  <1>0. box[i] \in Box /\ box \in [Boxes -> Box] /\ Len(box[i].ch) <= ChanSize /\ TypeOK
    BY DEF IInv, TypeOK
  <1>1. CASE Take(i)
    <2> DEFINE r == [box[i] EXCEPT !.ch = Tail(@)]
    <2>0. box[i].ch \in Seq(Senders) /\ box[i].ch # <<>>
      BY <1>0, <1>1 DEF Take, Box
    <2>t. Tail(box[i].ch) \in Seq(Senders) /\ Len(Tail(box[i].ch)) <= ChanSize
      BY <1>0, <2>0
    <2>h. Head(box[i].ch) \in Senders
      BY <2>0
    <2>1. r \in Box
      BY <1>0, <2>t DEF Box
    <2>2. /\ box' = [box EXCEPT ![i] = r] /\ w[i].pc = "select"
          /\ w' = [w EXCEPT ![i] = [pc |-> "turn", cur |-> Head(box[i].ch)]]
          /\ UNCHANGED <<entry, c, turn>> /\ fate' \in [Senders -> {"none", "ran", "rejected"}]
      BY <1>0, <1>1 DEF Take, TypeOK
    <2>3. /\ Len(r.ch) <= ChanSize /\ r.readers = box[i].readers
          /\ r.writer = box[i].writer /\ r.evicted = box[i].evicted
      BY <1>0, <2>t DEF Box
    <2> HIDE DEF r
    <2> QED BY <2>h, <2>1, <2>2, <2>3, WorkerLoopPreserves
  <1>2. CASE HandleDequeued(i)
    <2> DEFINE r == [box[i] EXCEPT !.idle = FALSE]
    <2>1. r \in Box
      BY <1>0 DEF Box
    <2>2. /\ box' = [box EXCEPT ![i] = r] /\ w[i].pc = "turn"
          /\ w' = [w EXCEPT ![i] = [pc |-> "top", cur |-> None]]
          /\ UNCHANGED <<entry, c, turn>>
      BY <1>0, <1>2 DEF HandleDequeued
    <2>3. fate' \in [Senders -> {"none", "ran", "rejected"}]
      BY <1>2 DEF HandleDequeued, IInv, InTurn, TypeOK
    <2>4. /\ r.ch = box[i].ch /\ r.readers = box[i].readers
          /\ r.writer = box[i].writer /\ r.evicted = box[i].evicted
      BY <1>0 DEF Box
    <2> HIDE DEF r
    <2> QED BY <1>0, <2>1, <2>2, <2>3, <2>4, WorkerLoopPreserves
  <1> QED BY <1>1, <1>2

------------------------------------------------------------------------------
\* A step of the worker inside the eviction, or a change of an inbox's marks
\* and clock: r is what the inbox becomes, pc where its worker is then.
LEMMA EvictionFrame ==
    ASSUME IInv, NEW i \in Boxes, UNCHANGED <<c, fate>>, turn' \in BOOLEAN,
           NEW r \in Box, box' = [box EXCEPT ![i] = r],
           r.ch = box[i].ch, r.readers = box[i].readers,
           NEW pc \in {"none", "top", "select", "turn", "checked", "locked", "evicted", "exited"},
           w' = [w EXCEPT ![i] = [pc |-> pc, cur |-> w[i].cur]],
           w[i].pc = "none" <=> pc = "none",
           pc = "turn" => w[i].pc = "turn",
           r.writer <=> pc \in {"locked", "evicted"},
           r.writer => r.readers = {},
           r.evicted <=> pc \in {"evicted", "exited"},
           r.evicted => box[i].evicted \/ (r.ch = <<>> /\ r.readers = {}),
           ~r.evicted /\ pc # "none" => w[i].pc # "none" /\ ~box[i].evicted,
           \/ entry' = entry /\ (pc \in {"none", "exited"} => w[i].pc = pc \/ entry # i)
           \/ entry' = None /\ r.evicted /\ entry = i
    PROVE  IInv'
  <1> USE EvictAssumption DEF IInv
  <1>0. w[i].cur \in Senders \cup {None}
    BY DEF TypeOK
  <1>1. \A j \in Boxes : j # i => box'[j] = box[j] /\ w'[j] = w[j]
    BY DEF TypeOK
  <1>2. box'[i] = r /\ w'[i].pc = pc /\ w'[i].cur = w[i].cur
    BY DEF TypeOK
  <1>3. TypeOK'
    <2>1. box' \in [Boxes -> Box] /\ \A j \in Boxes : Len(box'[j].ch) <= ChanSize
      BY <1>1, <1>2 DEF TypeOK
    <2> QED BY <1>0, <2>1 DEF TypeOK
  <1>4. ReadersExact'
    <2>1. \A j \in Boxes : box'[j].readers = box[j].readers /\ (w[j].pc # "none" => w'[j].pc # "none" \/ j = i)
      BY <1>1, <1>2
    <2>2. \A x \in Callers : c[x].pc \in {"found", "pinned", "written"} /\ c[x].box = i => pc # "none"
      BY <1>2 DEF ReadersExact
    <2> QED BY <1>2, <2>1, <2>2 DEF ReadersExact
  <1>5. (LockExcludes /\ EvictedExact)'
    BY <1>1, <1>2 DEF LockExcludes, EvictedExact
  <1>6. InTurn'
    BY <1>1, <1>2 DEF InTurn
  <1>7. EntryLives'
    BY <1>1, <1>2 DEF TypeOK, EntryLives
  <1>8. NothingStranded'
    BY <1>1, <1>2 DEF EvictedExact, NothingStranded
  <1>9. OneInbox'
    BY <1>1, <1>2 DEF OneInbox
  <1> QED BY <1>3, <1>4, <1>5, <1>6, <1>7, <1>8, <1>9

LEMMA TryLockPreserves ==
    ASSUME IInv, NEW i \in Boxes, TryLock(i)
    PROVE  IInv'
  <1> USE EvictAssumption
  <1>0. box[i] \in Box /\ box \in [Boxes -> Box] /\ TypeOK /\ turn \in BOOLEAN
    BY DEF IInv, TypeOK
  <1>a. w[i].pc = "checked" /\ ~box[i].writer /\ ~box[i].evicted
    BY DEF IInv, LockExcludes, EvictedExact, TryLock
  <1>1. CASE box[i].readers = {}
    <2> DEFINE r == [box[i] EXCEPT !.writer = TRUE]
    <2>1. r \in Box /\ box' = [box EXCEPT ![i] = r] /\ At(i, "locked") /\ UNCHANGED <<entry, c, turn, fate>>
      BY <1>0, <1>1 DEF Box, TryLock
    <2>2. /\ r.ch = box[i].ch /\ r.readers = box[i].readers
          /\ r.writer = TRUE /\ r.evicted = box[i].evicted
      BY <1>0 DEF Box
    <2> HIDE DEF r
    <2> QED BY <1>0, <1>a, <1>1, <2>1, <2>2, AtIs, EvictionFrame
  <1>2. CASE box[i].readers # {}
    <2>1. box' = [box EXCEPT ![i] = box[i]] /\ At(i, "top") /\ UNCHANGED <<entry, c, turn, fate>>
      BY <1>0, <1>2 DEF TryLock
    <2> QED BY <1>0, <1>a, <2>1, AtIs, EvictionFrame
  <1> QED BY <1>1, <1>2

LEMMA BusyReasonPreserves ==
    ASSUME IInv, NEW i \in Boxes, InboxBusyReason(i)
    PROVE  IInv'
  <1> USE EvictAssumption
  <1>0. box[i] \in Box /\ box \in [Boxes -> Box] /\ TypeOK /\ turn \in BOOLEAN
    BY DEF IInv, TypeOK
  <1>a. w[i].pc = "locked" /\ box[i].writer /\ box[i].readers = {} /\ ~box[i].evicted
    BY DEF IInv, LockExcludes, EvictedExact, InboxBusyReason
  <1>1. CASE box[i].idle /\ box[i].ch = <<>> /\ ~turn
    <2> DEFINE r == [box[i] EXCEPT !.evicted = TRUE]
    <2>1. r \in Box /\ box' = [box EXCEPT ![i] = r] /\ At(i, "evicted") /\ UNCHANGED <<entry, c, turn, fate>>
      BY <1>0, <1>1 DEF Box, InboxBusyReason
    <2>2. /\ r.ch = box[i].ch /\ r.readers = box[i].readers
          /\ r.writer = box[i].writer /\ r.evicted = TRUE
      BY <1>0 DEF Box
    <2> HIDE DEF r
    <2> QED BY <1>0, <1>a, <1>1, <2>1, <2>2, AtIs, EvictionFrame
  <1>2. CASE ~(box[i].idle /\ box[i].ch = <<>> /\ ~turn)
    <2> DEFINE r == [box[i] EXCEPT !.writer = FALSE]
    <2>1. r \in Box /\ box' = [box EXCEPT ![i] = r] /\ At(i, "top") /\ UNCHANGED <<entry, c, turn, fate>>
      BY <1>0, <1>2 DEF Box, InboxBusyReason
    <2>2. /\ r.ch = box[i].ch /\ r.readers = box[i].readers
          /\ r.writer = FALSE /\ r.evicted = box[i].evicted
      BY <1>0 DEF Box
    <2> HIDE DEF r
    <2> QED BY <1>0, <1>a, <2>1, <2>2, AtIs, EvictionFrame
  <1> QED BY <1>1, <1>2

LEMMA EvictPreserves ==
    ASSUME IInv, NEW i \in Boxes, Evict(i)
    PROVE  IInv'
  <1> USE EvictAssumption
  <1>0. box[i] \in Box /\ box \in [Boxes -> Box] /\ TypeOK /\ turn \in BOOLEAN
    BY DEF IInv, TypeOK
  <1>a. w[i].pc = "evicted" /\ box[i].evicted /\ box[i].ch = <<>> /\ box[i].readers = {}
    BY DEF IInv, EvictedExact, NothingStranded, Evict
  <1> DEFINE r == [box[i] EXCEPT !.writer = FALSE]
  <1>1. r \in Box /\ box' = [box EXCEPT ![i] = r] /\ At(i, "exited") /\ UNCHANGED <<c, turn, fate>>
    BY <1>0 DEF Box, Evict
  <1>2. /\ r.ch = box[i].ch /\ r.readers = box[i].readers
        /\ r.writer = FALSE /\ r.evicted = box[i].evicted
    BY <1>0 DEF Box
  <1> HIDE DEF r
  <1>b. /\ w' = [w EXCEPT ![i] = [pc |-> "exited", cur |-> w[i].cur]]
        /\ w[i].cur \in Senders \cup {None}
    BY <1>0, <1>1, AtIs
  <1>3. CASE entry = i
    <2>1. entry' = None
      BY <1>3 DEF Evict
    <2> QED BY <1>0, <1>a, <1>b, <1>1, <1>2, <1>3, <2>1, EvictionFrame
  <1>4. CASE entry # i
    <2>1. entry' = entry
      BY <1>4 DEF Evict
    <2> QED BY <1>0, <1>a, <1>b, <1>1, <1>2, <1>4, <2>1, EvictionFrame
  <1> QED BY <1>3, <1>4

LEMMA ClockPreserves ==
    ASSUME IInv, NEW i \in Boxes, Idle(i) \/ RequestIdleEvictions(i)
    PROVE  IInv'
  <1> USE EvictAssumption
  <1>0. box[i] \in Box /\ box \in [Boxes -> Box] /\ TypeOK /\ turn \in BOOLEAN
    BY DEF IInv, TypeOK
  <1>a. UNCHANGED <<entry, w, c, turn, fate>>
    BY DEF Idle, RequestIdleEvictions
  <1>b. /\ w' = [w EXCEPT ![i] = [pc |-> w[i].pc, cur |-> w[i].cur]]
        /\ w[i].pc \in {"none", "top", "select", "turn", "checked", "locked", "evicted", "exited"}
    BY <1>0, <1>a DEF TypeOK
  <1>c. PICK r \in Box : /\ box' = [box EXCEPT ![i] = r] /\ r.ch = box[i].ch
                         /\ r.readers = box[i].readers /\ r.writer = box[i].writer
                         /\ r.evicted = box[i].evicted
    <2>1. CASE Idle(i)
      <3>1. [box[i] EXCEPT !.idle = TRUE] \in Box
        BY <1>0 DEF Box
      <3> QED BY <1>0, <2>1, <3>1 DEF Idle, Box
    <2>2. CASE RequestIdleEvictions(i)
      <3>1. [box[i] EXCEPT !.req = TRUE] \in Box
        BY <1>0 DEF Box
      <3> QED BY <1>0, <2>2, <3>1 DEF RequestIdleEvictions, Box
    <2> QED BY <2>1, <2>2
  <1>d. /\ r.writer <=> w[i].pc \in {"locked", "evicted"}
        /\ r.writer => r.readers = {}
        /\ r.evicted <=> w[i].pc \in {"evicted", "exited"}
    BY <1>c DEF IInv, LockExcludes, EvictedExact
  <1> QED BY <1>0, <1>a, <1>b, <1>c, <1>d, EvictionFrame

LEMMA OtherPreserves ==
    ASSUME IInv, OutsideTurn \/ UNCHANGED vars
    PROVE  IInv'
  <1>1. UNCHANGED <<entry, box, w, c, fate>> /\ turn' \in BOOLEAN
    BY DEF IInv, TypeOK, OutsideTurn, vars
  <1>2. TypeOK'
    BY <1>1 DEF IInv, TypeOK
  <1>3. (ReadersExact /\ LockExcludes /\ EvictedExact /\ InTurn /\ EntryLives)'
    BY <1>1 DEF IInv, ReadersExact, LockExcludes, EvictedExact, InTurn, EntryLives
  <1>4. (NothingStranded /\ OneInbox)'
    BY <1>1 DEF IInv, NothingStranded, OneInbox
  <1> QED BY <1>2, <1>3, <1>4 DEF IInv

------------------------------------------------------------------------------
LEMMA NextPreserves == IInv /\ [Next]_vars => IInv'
  <1> SUFFICES ASSUME IInv, [Next]_vars PROVE IInv'
    OBVIOUS
  <1>1. ASSUME NEW x \in Callers, SeeTurn(x) \/ CallerStep(x) PROVE IInv'
    BY <1>1, SeeTurnPreserves, GetOrCreatePreserves, PinPreserves, EnqueuePreserves,
       UnpinPreserves DEF CallerStep
  <1>2. ASSUME NEW i \in Boxes, WorkerStep(i) PROVE IInv'
    BY <1>2, LoopStepPreserves, TakePreserves, TryLockPreserves, BusyReasonPreserves,
       EvictPreserves DEF WorkerStep
  <1>3. ASSUME NEW i \in Boxes, Idle(i) \/ RequestIdleEvictions(i) PROVE IInv'
    BY <1>3, ClockPreserves
  <1> QED BY <1>1, <1>2, <1>3, OtherPreserves DEF Next

\* Every step of a producer, a hold, a worker and the reaper keeps the inductive
\* invariant.
THEOREM EvictInductive == Spec => []IInv
  BY InitIInv, NextPreserves, PTL DEF Spec

\* The state of callers, inboxes and workers keeps its type; in particular no
\* channel holds more than inboxChanSize messages.
THEOREM EvictTypeOK == Spec => []TypeOK
  <1>1. IInv => TypeOK
    BY DEF IInv
  <1> QED BY <1>1, EvictInductive, PTL

\* No message is written to, or left in, an inbox whose worker has decided to
\* exit (tryEvictInbox against pinInbox and Enqueue).
THEOREM EvictNothingStranded == Spec => []NothingStranded
  <1>1. IInv => NothingStranded
    BY DEF IInv
  <1> QED BY <1>1, EvictInductive, PTL

\* Two workers of one session are never at work: whatever inbox is not
\* evicted is the one getOrCreateInbox returns.
THEOREM EvictOneInbox == Spec => []OneInbox
  <1>1. IInv => OneInbox
    BY DEF IInv
  <1> QED BY <1>1, EvictInductive, PTL

\* An inbox is evicted only after a full idle period, with no turn running and
\* no producer between its pin and its unpin.
THEOREM EvictEvictedIdle == Spec => EvictedIdle
  <1> DEFINE A == \A i \in Boxes : ~box[i].evicted /\ box'[i].evicted =>
          box[i].idle /\ ~turn /\ \A x \in Callers : c[x].box = i => c[x].pc = "found"
  <1>1. IInv /\ [Next]_vars => [A]_vars
    <2> SUFFICES ASSUME IInv, Next, NEW i \in Boxes, ~box[i].evicted, box'[i].evicted
                 PROVE  box[i].idle /\ ~turn /\ \A x \in Callers : c[x].box = i => c[x].pc = "found"
      OBVIOUS
    <2>0. box \in [Boxes -> Box]
      BY DEF IInv, TypeOK
    \* Nothing but inboxBusyReason sets the mark.
    <2>1. InboxBusyReason(i)
      <3>1. ASSUME NEW x \in Callers, SeeTurn(x) \/ CallerStep(x) PROVE FALSE
        <4>1. CASE SeeTurn(x)
          BY <4>1 DEF SeeTurn
        <4>2. CASE GetOrCreateInbox(x)
          BY <2>0, <4>2 DEF Box, GetOrCreateInbox
        <4>3. CASE PinInbox(x)
          BY <2>0, <4>3 DEF Box, PinInbox
        <4>4. CASE Enqueue(x)
          BY <2>0, <4>4 DEF Box, Enqueue
        <4>5. CASE Unpin(x)
          BY <2>0, <4>5 DEF Box, Unpin
        <4>6. CASE ParkUsageResume(x)
          BY <2>0, <4>6 DEF Box, ParkUsageResume
        <4> QED BY <3>1, <4>1, <4>2, <4>3, <4>4, <4>5, <4>6 DEF CallerStep
      <3>2. ASSUME NEW j \in Boxes, WorkerStep(j) PROVE InboxBusyReason(i)
        <4>1. CASE TakeUsageResume(j) \/ Wake(j) \/ Take(j) \/ HandleDequeued(j)
          <5>1. CASE TakeUsageResume(j)
            BY <2>0, <5>1 DEF Box, TakeUsageResume
          <5>2. CASE Wake(j)
            BY <2>0, <5>2 DEF Box, Wake
          <5>3. CASE Take(j) \/ HandleDequeued(j)
            BY <2>0, <5>3 DEF Box, Take, HandleDequeued
          <5> QED BY <4>1, <5>1, <5>2, <5>3
        <4>2. CASE TryEvictInbox(j) \/ TryLock(j) \/ Evict(j)
          BY <2>0, <4>2 DEF Box, TryEvictInbox, TryLock, Evict
        <4>3. CASE InboxBusyReason(j)
          <5>1. j = i
            BY <2>0, <4>3 DEF Box, InboxBusyReason
          <5> QED BY <4>3, <5>1
        <4> QED BY <3>2, <4>1, <4>2, <4>3 DEF WorkerStep
      <3>3. ASSUME NEW j \in Boxes, Idle(j) \/ RequestIdleEvictions(j) PROVE FALSE
        BY <2>0, <3>3 DEF Box, Idle, RequestIdleEvictions
      <3> QED BY <3>1, <3>2, <3>3 DEF Next, OutsideTurn
    <2>2. box[i].idle /\ ~turn
      BY <2>0, <2>1 DEF Box, InboxBusyReason
    <2>3. box[i].readers = {}
      BY <2>1 DEF InboxBusyReason, IInv, LockExcludes
    <2>4. ASSUME NEW x \in Callers, c[x].box = i PROVE c[x].pc = "found"
      BY <2>3, <2>4, EvictAssumption DEF IInv, TypeOK, ReadersExact
    <2> QED BY <2>2, <2>4
  <1> QED BY <1>1, EvictInductive, PTL DEF Spec, EvictedIdle

=============================================================================
