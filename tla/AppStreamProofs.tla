--------------------------- MODULE AppStreamProofs ---------------------------
(***************************************************************************)
(* The frames of a conversation, for any senders, devices and sockets and  *)
(* any sizes of the queues, the buffer, the pages and the bounds.          *)
(*                                                                         *)
(* NumInv carries the numbers across restarts: the binding's number is     *)
(* rebuilt from the store and the recorded high-water, so what is stored   *)
(* or has expired must never be above them (NumbersBelow), and a frame     *)
(* must be stored, on its way there, lost with its process or expired      *)
(* (Kept); with it a number comes back only for a lost frame (Unique).     *)
(*                                                                         *)
(* GapInv carries NoGap through the stages of a resume.  Between the       *)
(* snapshot of the buffer and the store's range a wanted frame is covered, *)
(* in the snapshot or below it; after the range it is covered or to be     *)
(* pushed.  That needs the buffer to be the top of what was sent, without  *)
(* holes (BufferTop), and numbers of earlier runs to be below those of     *)
(* this one (OldBelow).                                                    *)
(***************************************************************************)
EXTENDS AppStream, FiniteSetTheorems, WellFoundedInduction, TLAPS

\* Every nonempty set of natural numbers has a least element.
LEMMA LeastNat ==
    ASSUME NEW S \in SUBSET Nat, S # {}
    PROVE  \E n \in S : \A m \in S : n <= m
  <1>1. PICK n \in S : \A m \in S : ~(<<m, n>> \in OpToRel(<, Nat))
    BY NatLessThanWellFounded, WFMin
  <1>2. \A m \in S : ~(m < n)
    BY <1>1 DEF OpToRel
  <1> QED BY <1>2

\* A nonempty bounded set of natural numbers has a greatest one: the least of
\* its bounds.
LEMMA GreatestNat ==
    ASSUME NEW S \in SUBSET Nat, S # {}, NEW b \in Nat, \A n \in S : n <= b
    PROVE  /\ Max(S) \in S
           /\ \A n \in S : n <= Max(S)
  <1> DEFINE B == {n \in Nat : \A m \in S : m <= n}
  <1>1. PICK n \in B : \A m \in B : n <= m
    <2>1. B \in SUBSET Nat /\ b \in B
      OBVIOUS
    <2> HIDE DEF B
    <2> QED BY <2>1, LeastNat
  <1>2. n \in S
    <2> SUFFICES ASSUME n \notin S PROVE FALSE
      OBVIOUS
    <2>1. \A m \in S : m < n
      BY <1>1
    <2>2. n \in Nat /\ n - 1 \in Nat
      <3>1. PICK m \in S : m < n
        BY <2>1
      <3> QED BY <3>1, <1>1
    <2>3. \A m \in S : m <= n - 1
      BY <2>1, <2>2
    <2>4. n - 1 \in B
      BY <2>2, <2>3
    <2> QED BY <1>1, <2>2, <2>4
  <1>3. \E x \in S : \A y \in S : x >= y
    BY <1>1, <1>2
  <1>4. Max(S) \in S /\ \A y \in S : Max(S) >= y
    BY <1>3 DEF Max
  <1> QED BY <1>4

------------------------------------------------------------------------------
(* Numbers: what the senders, the write queue and the store hold.          *)

Snd == [at : {"idle", "append", "push"}, f : Frame \cup {NoFrame}, to : SUBSET Socks]
HasSent(p) == snd[p].at # "idle"

NumType ==
    /\ life \in 0..MaxEnds /\ seq \in 0..MaxSeq /\ hw \in 0..MaxSeq
    /\ store \subseteq Frame /\ writeQ \in Seq(Frame) /\ lost \subseteq Frame /\ expired \subseteq Frame
    /\ snd \in [Senders -> Snd]

\* Every sender sends once, so there are enough numbers for all of them.
EnoughNumbers == seq <= Cardinality({p \in Senders : HasSent(p)})

\* A sender has a frame once it has sent: one of this run of the process, with a
\* number that was handed out, or of an earlier one.
SentPast ==
    \A p \in Senders : /\ snd[p].f = NoFrame <=> ~HasSent(p)
                       /\ HasSent(p) => snd[p].f.life <= life
                       /\ HasSent(p) /\ snd[p].f.life = life => snd[p].f.seq <= seq

\* What waits for the writer was sent by this run of the process.
WaitsNow ==
    /\ \A p \in Senders : snd[p].at = "append" => snd[p].f.life = life
    /\ \A i \in 1..Len(writeQ) : /\ writeQ[i].life = life
                                 /\ \E p \in Senders : snd[p].f = writeQ[i] /\ HasSent(p)

\* MaxSeq of the store is never above the binding's number, and what expired is
\* never above the recorded high-water.
NumbersBelow ==
    /\ hw <= seq
    /\ \A f \in store : f.seq <= seq
    /\ \A f \in expired : f.seq <= hw

\* Recoverable and SeqUnique, sender by sender.
Kept ==
    \A p \in Senders : HasSent(p) => \/ snd[p].f \in store \cup lost \cup expired
                                     \/ snd[p].at = "append"
                                     \/ \E i \in 1..Len(writeQ) : snd[p].f = writeQ[i]
Unique ==
    \A p, q \in Senders : /\ HasSent(p) /\ HasSent(q) /\ snd[p].f.seq = snd[q].f.seq
                          /\ snd[p].f.life < snd[q].f.life
                          => snd[p].f \in lost

NumInv == NumType /\ EnoughNumbers /\ SentPast /\ WaitsNow /\ NumbersBelow /\ Kept /\ Unique

LEMMA MaxSeqNat == MaxSeq \in Nat /\ MaxEnds \in Nat
  BY StreamAssumption, FS_CardinalityType DEF MaxSeq

LEMMA FrameIs == \A f, g \in Frame : f.seq = g.seq /\ f.life = g.life => f = g
  BY DEF Frame

LEMMA NoFrameIsNone == NoFrame \notin Frame
  BY MaxSeqNat DEF Frame, NoFrame

LEMMA SentIsFrame ==
    ASSUME NumInv, NEW p \in Senders, HasSent(p)
    PROVE  snd[p].f \in Frame
  BY DEF NumInv, NumType, SentPast, Snd

LEMMA NumInit == Init => NumInv
  <1> SUFFICES ASSUME Init PROVE NumInv
    OBVIOUS
  <1> USE DEF Init
  <1>1. \A p \in Senders : snd[p] = [at |-> "idle", f |-> NoFrame, to |-> {}]
    OBVIOUS
  <1>2. [at |-> "idle", f |-> NoFrame, to |-> {}] \in Snd
    BY DEF Snd
  <1>3. NumType
    BY <1>2, MaxSeqNat DEF NumType
  <1>4. EnoughNumbers
    <2>1. {p \in Senders : HasSent(p)} = {}
      BY <1>1 DEF HasSent
    <2>2. Cardinality({p \in Senders : HasSent(p)}) = 0
      BY <2>1, FS_EmptySet
    <2>3. seq = 0
      OBVIOUS
    <2> QED BY <2>2, <2>3 DEF EnoughNumbers
  <1>5. SentPast /\ WaitsNow /\ NumbersBelow /\ Kept /\ Unique
    BY <1>1 DEF HasSent, SentPast, WaitsNow, NumbersBelow, Kept, Unique
  <1> QED BY <1>3, <1>4, <1>5 DEF NumInv

\* The frames stay with their senders, and no frame is numbered.
LEMMA NumSame ==
    ASSUME NumInv, UNCHANGED <<life, seq, hw, store, writeQ, lost, expired>>,
           snd' \in [Senders -> Snd],
           \A p \in Senders : snd'[p].at = snd[p].at /\ snd'[p].f = snd[p].f
    PROVE  NumInv'
  <1>1. \A p \in Senders : HasSent(p)' <=> HasSent(p)
    BY DEF HasSent
  <1>2. {p \in Senders : HasSent(p)}' = {p \in Senders : HasSent(p)}
    BY <1>1
  <1>3. NumType' /\ EnoughNumbers'
    BY <1>2 DEF NumInv, NumType, EnoughNumbers
  <1>4. SentPast' /\ NumbersBelow'
    BY <1>1 DEF NumInv, SentPast, NumbersBelow
  <1>5. WaitsNow'
    BY <1>1 DEF NumInv, WaitsNow
  <1>6. Kept' /\ Unique'
    BY <1>1 DEF NumInv, Kept, Unique
  <1> QED BY <1>3, <1>4, <1>5, <1>6 DEF NumInv

\* What a sender's step to another place does, and what a push to one target does.
LEMMA SndAt ==
    ASSUME snd \in [Senders -> Snd], NEW p \in Senders, snd' = [snd EXCEPT ![p].at = "push"]
    PROVE  /\ snd' \in [Senders -> Snd] /\ snd'[p].at = "push"
           /\ \A q \in Senders : snd'[q].f = snd[q].f /\ snd'[q].to = snd[q].to
           /\ \A q \in Senders \ {p} : snd'[q].at = snd[q].at
  <1>1. snd[p] \in Snd
    OBVIOUS
  <1>2. snd' = [snd EXCEPT ![p] = [snd[p] EXCEPT !.at = "push"]]
    OBVIOUS
  <1>3. [snd[p] EXCEPT !.at = "push"] = [at |-> "push", f |-> snd[p].f, to |-> snd[p].to]
    BY <1>1 DEF Snd
  <1>4. [at |-> "push", f |-> snd[p].f, to |-> snd[p].to] \in Snd
    BY <1>1 DEF Snd
  <1> QED BY <1>2, <1>3, <1>4

LEMMA SndTo ==
    ASSUME snd \in [Senders -> Snd], NEW p \in Senders, NEW s,
           snd' = [snd EXCEPT ![p].to = @ \ {s}]
    PROVE  /\ snd' \in [Senders -> Snd] /\ snd'[p].to = snd[p].to \ {s}
           /\ \A q \in Senders : snd'[q].f = snd[q].f /\ snd'[q].at = snd[q].at
           /\ \A q \in Senders \ {p} : snd'[q].to = snd[q].to
  <1>1. snd[p] \in Snd
    OBVIOUS
  <1>2. snd' = [snd EXCEPT ![p] = [snd[p] EXCEPT !.to = snd[p].to \ {s}]]
    OBVIOUS
  <1>3. [snd[p] EXCEPT !.to = snd[p].to \ {s}] =
        [at |-> snd[p].at, f |-> snd[p].f, to |-> snd[p].to \ {s}]
    BY <1>1, SMTT(30) DEF Snd
  <1>4. [at |-> snd[p].at, f |-> snd[p].f, to |-> snd[p].to \ {s}] \in Snd
    BY <1>1 DEF Snd
  <1> QED BY <1>2, <1>3, <1>4

\* sendThen gives out the next number.  A frame that has it already, from an
\* earlier run, is in no place that numbering starts from: it was lost.
LEMMA SendNum ==
    ASSUME NumInv, NEW p \in Senders, Send(p), clients \subseteq Socks
    PROVE  /\ NumInv' /\ seq' = seq + 1 /\ snd'[p].f = [seq |-> seq + 1, life |-> life]
           /\ [seq |-> seq + 1, life |-> life] \in Frame /\ snd'[p].to = clients
           /\ snd'[p].at = "append" /\ snd[p].at = "idle"
           /\ \A q \in Senders \ {p} : snd'[q] = snd[q]
  <1> DEFINE f == [seq |-> seq + 1, life |-> life]
             S == {q \in Senders : HasSent(q)}
  <1>1. /\ snd[p].at = "idle" /\ seq' = seq + 1
        /\ snd' = [snd EXCEPT ![p] = [at |-> "append", f |-> f, to |-> clients]]
        /\ UNCHANGED <<life, hw, store, writeQ, lost, expired>>
    BY DEF Send, process, storage, past
  <1>2. NumType
    BY DEF NumInv
  <1>3. IsFiniteSet(S) /\ Cardinality(S) \in Nat /\ Cardinality(S) + 1 <= MaxSeq
        /\ IsFiniteSet(S \cup {p}) /\ Cardinality(S \cup {p}) = Cardinality(S) + 1
    <2>1. p \notin S /\ S \subseteq Senders /\ S \cup {p} \subseteq Senders
      BY <1>1 DEF HasSent
    <2>2. IsFiniteSet(S) /\ IsFiniteSet(S \cup {p}) /\ Cardinality(S \cup {p}) <= MaxSeq
      BY <2>1, FS_Subset, StreamAssumption DEF MaxSeq
    <2>3. Cardinality(S \cup {p}) = Cardinality(S) + 1
      BY <2>1, <2>2, FS_AddElement
    <2> QED BY <2>2, <2>3, FS_CardinalityType
  <1>4. seq \in Nat /\ MaxSeq \in Nat /\ seq + 1 <= Cardinality(S) + 1 /\ seq + 1 \in 1..MaxSeq
    BY <1>2, <1>3, MaxSeqNat DEF NumInv, NumType, EnoughNumbers
  <1>5. f \in Frame /\ f.seq = seq + 1 /\ f.life = life
    BY <1>2, <1>4 DEF NumType, Frame
  <1> HIDE DEF f
  <1>6. [at |-> "append", f |-> f, to |-> clients] \in Snd
    BY <1>5 DEF Snd
  <1>7. /\ snd' \in [Senders -> Snd]
        /\ snd'[p].at = "append" /\ snd'[p].f = f /\ snd'[p].to = clients
        /\ \A q \in Senders \ {p} : snd'[q] = snd[q]
    BY <1>1, <1>2, <1>6 DEF NumType
  <1>8. HasSent(p)' /\ ~HasSent(p) /\ \A q \in Senders \ {p} : HasSent(q)' <=> HasSent(q)
    BY <1>1, <1>7 DEF HasSent
  <1>9. NumType'
    BY <1>1, <1>2, <1>4, <1>7 DEF NumType
  <1>10. EnoughNumbers'
    <2>1. {q \in Senders : HasSent(q)}' = S \cup {p}
      BY <1>8
    <2> HIDE DEF S
    <2> QED BY <2>1, <1>1, <1>3, <1>4 DEF EnoughNumbers
  <1>11. SentPast'
    <2> SUFFICES ASSUME NEW q \in Senders
                 PROVE  /\ snd'[q].f = NoFrame <=> ~HasSent(q)'
                        /\ HasSent(q)' => snd'[q].f.life <= life'
                        /\ HasSent(q)' /\ snd'[q].f.life = life' => snd'[q].f.seq <= seq'
      BY DEF SentPast
    <2>1. CASE q = p
      BY <1>1, <1>2, <1>4, <1>5, <1>7, <1>8, <2>1, NoFrameIsNone, MaxSeqNat DEF NumType
    <2>2. CASE q # p
      <3>1. HasSent(q) => snd[q].f \in Frame
        BY SentIsFrame
      <3>2. HasSent(q) /\ snd[q].f.life = life => snd[q].f.seq <= seq /\ snd[q].f.seq \in Nat
        BY <3>1 DEF NumInv, SentPast, Frame
      <3>3. HasSent(q) /\ snd[q].f.life = life => snd[q].f.seq <= seq + 1
        BY <3>2, <1>4
      <3> QED BY <1>1, <1>7, <1>8, <2>2, <3>3 DEF NumInv, SentPast
    <2> QED BY <2>1, <2>2
  <1>12. WaitsNow'
    <2>1. \A q \in Senders : snd'[q].at = "append" => snd'[q].f.life = life'
      BY <1>1, <1>5, <1>7 DEF NumInv, WaitsNow
    <2>2. ASSUME NEW i \in 1..Len(writeQ')
          PROVE  writeQ'[i].life = life' /\ \E q \in Senders : snd'[q].f = writeQ'[i] /\ HasSent(q)'
      <3>1. PICK q \in Senders : snd[q].f = writeQ[i] /\ HasSent(q) /\ writeQ[i].life = life
        BY <1>1 DEF NumInv, WaitsNow
      <3>2. q # p
        BY <3>1, <1>8
      <3> QED BY <1>1, <1>7, <1>8, <3>1, <3>2
    <2> QED BY <2>1, <2>2 DEF WaitsNow
  <1>13. NumbersBelow'
    <2>1. \A g \in store : g.seq \in Nat /\ g.seq <= seq + 1
      BY <1>2, <1>4 DEF NumInv, NumType, NumbersBelow, Frame
    <2>2. hw <= seq + 1
      BY <1>2, <1>4 DEF NumInv, NumType, NumbersBelow
    <2> QED BY <1>1, <2>1, <2>2 DEF NumInv, NumbersBelow
  <1>14. Kept'
    BY <1>1, <1>7, <1>8 DEF NumInv, Kept
  <1>15. Unique'
    <2> SUFFICES ASSUME NEW q \in Senders, NEW r \in Senders, HasSent(q)', HasSent(r)',
                        snd'[q].f.seq = snd'[r].f.seq, snd'[q].f.life < snd'[r].f.life
                 PROVE  snd'[q].f \in lost
      BY <1>1 DEF Unique
    <2>1. CASE q # p /\ r # p
      BY <1>7, <1>8, <2>1 DEF NumInv, Unique
    <2>2. CASE q = p
      \* Nothing is of a later run than the new frame.
      <3>1. snd'[r].f.life <= life /\ snd'[r].f.life \in Nat /\ life \in Nat
        <4>1. CASE r = p
          BY <4>1, <1>2, <1>5, <1>7, MaxSeqNat DEF NumType
        <4>2. CASE r # p
          <5>1. HasSent(r) /\ snd[r].f \in Frame /\ snd'[r] = snd[r]
            BY <1>7, <1>8, <4>2, SentIsFrame
          <5> QED BY <5>1, <1>2, MaxSeqNat DEF NumInv, NumType, SentPast, Frame
        <4> QED BY <4>1, <4>2
      <3> QED BY <3>1, <2>2, <1>5, <1>7
    <2>3. CASE q # p /\ r = p
      <3>1. HasSent(q) /\ snd[q].f \in Frame /\ snd'[q] = snd[q]
        BY <1>7, <1>8, <2>3, SentIsFrame
      <3>2. snd[q].f.seq = seq + 1 /\ snd[q].f.life < life
        BY <1>5, <1>7, <2>3, <3>1
      <3>3. snd[q].f \notin store /\ snd[q].f \notin expired
        <4>1. \A g \in store \cup expired : g.seq \in Nat /\ g.seq <= seq
          BY <1>2, <1>4 DEF NumInv, NumType, NumbersBelow, Frame
        <4> QED BY <4>1, <3>2, <1>4
      <3>4. snd[q].f.life # life
        BY <3>1, <3>2, <1>2 DEF NumType, Frame
      <3>5. snd[q].at # "append" /\ \A i \in 1..Len(writeQ) : snd[q].f # writeQ[i]
        BY <3>4 DEF NumInv, WaitsNow
      <3> QED BY <3>1, <3>3, <3>5 DEF NumInv, Kept
    <2> QED BY <2>1, <2>2, <2>3
  <1>16. NumInv'
    BY <1>9, <1>10, <1>11, <1>12, <1>13, <1>14, <1>15 DEF NumInv
  <1> QED BY <1>1, <1>5, <1>7, <1>16 DEF f

\* A row that an insert replaces is one that an earlier run of the process lost,
\* or the same frame.
LEMMA Replaced ==
    ASSUME NumInv, NEW h \in Frame, h.life = life, NEW r \in Senders, HasSent(r), snd[r].f = h,
           NEW p \in Senders, HasSent(p), snd[p].f.seq = h.seq
    PROVE  snd[p].f = h \/ snd[p].f \in lost
  <1>1. snd[p].f \in Frame /\ snd[p].f.life <= life
    BY SentIsFrame DEF NumInv, SentPast
  <1>2. CASE snd[p].f.life = life
    BY <1>1, <1>2, FrameIs
  <1>3. CASE snd[p].f.life # life
    <2>1. snd[p].f.life < snd[r].f.life
      BY <1>1, <1>3, MaxSeqNat DEF NumInv, NumType, Frame
    <2> QED BY <2>1 DEF NumInv, Unique
  <1> QED BY <1>2, <1>3

LEMMA InsertKeeps ==
    ASSUME NumInv, NEW h \in Frame, h.life = life, NEW r \in Senders, HasSent(r), snd[r].f = h
    PROVE  /\ Insert(store, h) \subseteq Frame /\ h \in Insert(store, h)
           /\ \A g \in Insert(store, h) : g.seq <= seq
           /\ \A p \in Senders : HasSent(p) /\ snd[p].f \in store
                                   => snd[p].f \in Insert(store, h) \cup lost
  <1>1. Insert(store, h) \subseteq Frame /\ h \in Insert(store, h)
    BY DEF Insert, NumInv, NumType
  <1>2. h.seq <= seq
    BY DEF NumInv, SentPast
  <1>3. \A g \in Insert(store, h) : g.seq <= seq
    BY <1>2 DEF Insert, NumInv, NumbersBelow
  <1>4. ASSUME NEW p \in Senders, HasSent(p), snd[p].f \in store
        PROVE  snd[p].f \in Insert(store, h) \cup lost
    BY <1>4, Replaced DEF Insert
  <1> QED BY <1>1, <1>3, <1>4

\* Storing and losing frames, with the senders' frames and the numbers as they
\* are: what has to be shown of a step of AppendThen or of the writer.
LEMMA StoreNum ==
    ASSUME NumInv, UNCHANGED <<life, seq, hw, expired>>,
           snd' \in [Senders -> Snd],
           \A p \in Senders : snd'[p].f = snd[p].f /\ (HasSent(p)' <=> HasSent(p)),
           \A p \in Senders : snd'[p].at = "append" => snd[p].at = "append",
           writeQ' \in Seq(Frame), store' \subseteq Frame, lost' \subseteq Frame,
           \A g \in store' : g.seq <= seq,
           \A f \in lost : f \in lost',
           \A i \in 1..Len(writeQ') : /\ writeQ'[i].life = life
                                      /\ \E p \in Senders : snd[p].f = writeQ'[i] /\ HasSent(p),
           Kept'
    PROVE  NumInv'
  <1>1. {p \in Senders : HasSent(p)}' = {p \in Senders : HasSent(p)}
    OBVIOUS
  <1>2. NumType' /\ EnoughNumbers'
    BY <1>1 DEF NumInv, NumType, EnoughNumbers
  <1>3. SentPast' /\ NumbersBelow'
    BY DEF NumInv, SentPast, NumbersBelow
  <1>4. WaitsNow'
    BY DEF NumInv, WaitsNow
  <1>5. Unique'
    BY DEF NumInv, Unique
  <1> QED BY <1>2, <1>3, <1>4, <1>5 DEF NumInv

LEMMA AppendNum ==
    ASSUME NumInv, NEW p \in Senders, AppendThen(p)
    PROVE  NumInv'
  <1>1. NumType
    BY DEF NumInv
  <1>2. /\ snd[p].at = "append" /\ snd' = [snd EXCEPT ![p].at = "push"]
        /\ UNCHANGED <<life, seq, hw, expired>>
    BY DEF AppendThen, process, binding
  <1>3. /\ snd' \in [Senders -> Snd] /\ snd'[p].at = "push"
        /\ \A q \in Senders : snd'[q].f = snd[q].f /\ snd'[q].to = snd[q].to
        /\ \A q \in Senders \ {p} : snd'[q].at = snd[q].at
    BY <1>1, <1>2, SndAt DEF NumType
  <1>4. /\ \A q \in Senders : snd'[q].f = snd[q].f /\ (HasSent(q)' <=> HasSent(q))
        /\ \A q \in Senders : snd'[q].at = "append" => snd[q].at = "append" /\ q # p
        /\ HasSent(p)
    BY <1>2, <1>3 DEF HasSent
  <1>5. snd[p].f \in Frame /\ snd[p].f.life = life
    BY <1>2, <1>4, SentIsFrame DEF NumInv, WaitsNow
  <1>6. CASE writeQ' = Append(writeQ, snd[p].f) /\ UNCHANGED <<store, lost>>
    <2>1. /\ writeQ' \in Seq(Frame) /\ Len(writeQ') = Len(writeQ) + 1 /\ Len(writeQ) \in Nat
          /\ \A i \in 1..Len(writeQ) : writeQ'[i] = writeQ[i]
          /\ writeQ'[Len(writeQ) + 1] = snd[p].f
      BY <1>1, <1>5, <1>6 DEF NumType
    <2>2. \A i \in 1..Len(writeQ') : i \in 1..Len(writeQ) \/ i = Len(writeQ) + 1
      BY <2>1
    <2>3. \A i \in 1..Len(writeQ') : /\ writeQ'[i].life = life
                                     /\ \E q \in Senders : snd[q].f = writeQ'[i] /\ HasSent(q)
      BY <1>4, <1>5, <2>1, <2>2 DEF NumInv, WaitsNow
    <2>4. Kept'
      <3> SUFFICES ASSUME NEW q \in Senders, HasSent(q)'
                   PROVE  \/ snd[q].f \in store \cup lost \cup expired
                          \/ snd'[q].at = "append"
                          \/ \E i \in 1..Len(writeQ') : snd[q].f = writeQ'[i]
        BY <1>2, <1>3, <1>6 DEF Kept
      <3>1. CASE q = p
        BY <2>1, <3>1
      <3>2. CASE q # p
        <4>1. \A i \in 1..Len(writeQ) : i \in 1..Len(writeQ')
          BY <2>1
        <4> QED BY <1>3, <1>4, <2>1, <3>2, <4>1 DEF NumInv, Kept
      <3> QED BY <3>1, <3>2
    <2>5. store' \subseteq Frame /\ lost' \subseteq Frame
          /\ (\A g \in store' : g.seq <= seq) /\ (\A f \in lost : f \in lost')
      BY <1>1, <1>6 DEF NumInv, NumType, NumbersBelow
    <2> QED BY <1>2, <1>3, <1>4, <2>1, <2>3, <2>4, <2>5, StoreNum
  <1>7. CASE writeQ' = writeQ /\ store' = Insert(store, snd[p].f) /\ lost' = lost
    <2>1. /\ store' \subseteq Frame /\ snd[p].f \in store' /\ \A g \in store' : g.seq <= seq
          /\ \A q \in Senders : HasSent(q) /\ snd[q].f \in store => snd[q].f \in store' \cup lost
      BY <1>4, <1>5, <1>7, InsertKeeps
    <2>2. Kept'
      BY <1>2, <1>3, <1>4, <1>7, <2>1 DEF NumInv, Kept
    <2>3. \A i \in 1..Len(writeQ') : /\ writeQ'[i].life = life
                                     /\ \E q \in Senders : snd[q].f = writeQ'[i] /\ HasSent(q)
      BY <1>7 DEF NumInv, WaitsNow
    <2>4. writeQ' \in Seq(Frame) /\ lost' \subseteq Frame /\ (\A f \in lost : f \in lost')
      BY <1>1, <1>7 DEF NumType
    <2> QED BY <1>2, <1>3, <1>4, <2>1, <2>2, <2>3, <2>4, StoreNum
  <1>8. CASE writeQ' = writeQ /\ lost' = lost \cup {snd[p].f} /\ store' = store
    <2>1. Kept'
      BY <1>2, <1>3, <1>4, <1>8 DEF NumInv, Kept
    <2>2. \A i \in 1..Len(writeQ') : /\ writeQ'[i].life = life
                                     /\ \E q \in Senders : snd[q].f = writeQ'[i] /\ HasSent(q)
      BY <1>8 DEF NumInv, WaitsNow
    <2>3. writeQ' \in Seq(Frame) /\ lost' \subseteq Frame /\ (\A f \in lost : f \in lost')
      BY <1>1, <1>5, <1>8 DEF NumType
    <2>4. store' \subseteq Frame /\ \A g \in store' : g.seq <= seq
      BY <1>1, <1>8 DEF NumInv, NumType, NumbersBelow
    <2> QED BY <1>2, <1>3, <1>4, <2>1, <2>2, <2>3, <2>4, StoreNum
  <1> QED BY <1>6, <1>7, <1>8 DEF AppendThen

LEMMA WriteNum ==
    ASSUME NumInv, Write
    PROVE  NumInv'
  <1> DEFINE h == Head(writeQ)
  <1>1. NumType
    BY DEF NumInv
  <1>2. /\ writeQ # <<>> /\ store' = Insert(store, h) /\ writeQ' = Tail(writeQ)
        /\ UNCHANGED <<life, seq, hw, expired, lost, snd>>
    BY DEF Write, process, binding, past
  <1>3. /\ writeQ' \in Seq(Frame) /\ Len(writeQ') = Len(writeQ) - 1 /\ Len(writeQ) \in Nat \ {0}
        /\ \A i \in 1..Len(writeQ') : writeQ'[i] = writeQ[i + 1] /\ i + 1 \in 1..Len(writeQ)
        /\ h = writeQ[1] /\ h \in Frame /\ 1 \in 1..Len(writeQ)
    BY <1>1, <1>2 DEF NumType
  <1>4. PICK r \in Senders : HasSent(r) /\ snd[r].f = h /\ h.life = life
    BY <1>3 DEF NumInv, WaitsNow
  <1> HIDE DEF h
  <1>5. /\ store' \subseteq Frame /\ h \in store' /\ \A g \in store' : g.seq <= seq
        /\ \A q \in Senders : HasSent(q) /\ snd[q].f \in store => snd[q].f \in store' \cup lost
    BY <1>2, <1>3, <1>4, InsertKeeps
  <1>6. \A i \in 1..Len(writeQ') : /\ writeQ'[i].life = life
                                   /\ \E q \in Senders : snd[q].f = writeQ'[i] /\ HasSent(q)
    BY <1>3 DEF NumInv, WaitsNow
  <1>7. \A p \in Senders : HasSent(p)' <=> HasSent(p)
    BY <1>2 DEF HasSent
  <1>8. Kept'
    <2> SUFFICES ASSUME NEW q \in Senders, HasSent(q)
                 PROVE  \/ snd[q].f \in store' \cup lost \cup expired
                        \/ snd[q].at = "append"
                        \/ \E i \in 1..Len(writeQ') : snd[q].f = writeQ'[i]
      BY <1>2, <1>7 DEF Kept
    <2>1. ASSUME NEW i \in 1..Len(writeQ), snd[q].f = writeQ[i]
          PROVE  snd[q].f \in store' \/ \E j \in 1..Len(writeQ') : snd[q].f = writeQ'[j]
      <3>1. CASE i = 1
        BY <1>3, <1>5, <2>1, <3>1
      <3>2. CASE i # 1
        <4>1. i - 1 \in 1..Len(writeQ') /\ (i - 1) + 1 = i
          BY <1>3, <3>2
        <4> QED BY <1>3, <2>1, <4>1
      <3> QED BY <3>1, <3>2
    <2> QED BY <1>5, <2>1 DEF NumInv, Kept
  <1> QED BY <1>1, <1>2, <1>3, <1>5, <1>6, <1>7, <1>8, StoreNum DEF NumType

\* MaxSeq of the store: not below any number it has or had, not above the
\* binding's.
LEMMA StoreMax ==
    ASSUME NumInv
    PROVE  /\ Max(Seqs(store) \cup {hw}) \in 0..MaxSeq
           /\ Max(Seqs(store) \cup {hw}) <= seq
           /\ hw <= Max(Seqs(store) \cup {hw})
           /\ \A f \in store : f.seq <= Max(Seqs(store) \cup {hw})
  <1> DEFINE N == Seqs(store) \cup {hw}
  <1>1. seq \in Nat /\ MaxSeq \in Nat /\ seq <= MaxSeq /\ hw \in Nat
    BY MaxSeqNat DEF NumInv, NumType
  <1>2. \A f \in store : f.seq \in N /\ f.seq \in Nat /\ f.seq <= seq
    BY <1>1 DEF NumInv, NumType, NumbersBelow, Frame, Seqs
  <1>3. N \in SUBSET Nat /\ hw \in N /\ \A n \in N : n <= seq
    BY <1>1, <1>2 DEF Seqs, NumInv, NumbersBelow
  <1> HIDE DEF N
  <1>4. Max(N) \in N /\ \A n \in N : n <= Max(N)
    BY <1>1, <1>3, GreatestNat
  <1>5. Max(N) \in Nat /\ Max(N) <= seq
    BY <1>3, <1>4
  <1>6. Max(N) \in 0..MaxSeq
    BY <1>1, <1>5
  <1>7. hw <= Max(N) /\ \A f \in store : f.seq <= Max(N)
    BY <1>2, <1>3, <1>4
  <1> QED BY <1>5, <1>6, <1>7 DEF N

LEMMA TrimNum ==
    ASSUME NumInv, TrimOlderThan
    PROVE  NumInv'
  <1>1. NumType
    BY DEF NumInv
  <1>2. PICK old \in SUBSET store : store' = store \ old /\ expired' = expired \cup old
    BY DEF TrimOlderThan
  <1>3. hw' = Max(Seqs(store) \cup {hw}) /\ UNCHANGED <<life, seq, writeQ, snd, lost>>
    BY DEF TrimOlderThan, process, binding
  <1>4. \A p \in Senders : HasSent(p)' <=> HasSent(p)
    BY <1>3 DEF HasSent
  <1>5. {p \in Senders : HasSent(p)}' = {p \in Senders : HasSent(p)}
    BY <1>4
  <1>6. NumType' /\ EnoughNumbers'
    BY <1>1, <1>2, <1>3, <1>5, StoreMax DEF NumInv, NumType, EnoughNumbers
  <1>7. SentPast' /\ WaitsNow' /\ Unique'
    BY <1>3, <1>4 DEF NumInv, SentPast, WaitsNow, Unique
  <1>8. NumbersBelow'
    <2>1. ASSUME NEW f \in expired PROVE f.seq <= hw'
      <3>1. f.seq \in Nat /\ f.seq <= hw /\ hw \in Nat /\ hw <= hw' /\ hw' \in Nat
        BY <1>1, <1>3, StoreMax DEF NumInv, NumType, NumbersBelow, Frame
      <3> QED BY <3>1
    <2>2. \A f \in old : f.seq <= hw'
      BY <1>2, <1>3, StoreMax
    <2> QED BY <1>2, <1>3, <2>1, <2>2, StoreMax DEF NumInv, NumbersBelow
  <1>9. Kept'
    BY <1>2, <1>3, <1>4 DEF NumInv, Kept
  <1> QED BY <1>6, <1>7, <1>8, <1>9 DEF NumInv

\* The drain of the writer's queue at Hub.Close.
LEMMA InsertAllKeeps ==
    ASSUME NumInv
    PROVE  /\ InsertAll(store, writeQ) \subseteq Frame
           /\ \A g \in InsertAll(store, writeQ) : g.seq <= seq
           /\ \A p \in Senders : HasSent(p) /\ snd[p].f \in store
                                   => snd[p].f \in InsertAll(store, writeQ) \cup lost
           /\ \A i \in 1..Len(writeQ) : writeQ[i] \in InsertAll(store, writeQ)
  <1> DEFINE last == {writeQ[i] : i \in {j \in DOMAIN writeQ :
                          \A k \in DOMAIN writeQ : k > j => writeQ[k].seq # writeQ[j].seq}}
  <1>1. NumType /\ Len(writeQ) \in Nat /\ DOMAIN writeQ = 1..Len(writeQ)
    BY DEF NumInv, NumType
  <1>2. \A i \in 1..Len(writeQ) : writeQ[i] \in Frame /\ writeQ[i].life = life
    BY <1>1 DEF NumInv, NumType, WaitsNow
  <1>3. InsertAll(store, writeQ) = {g \in store : g.seq \notin Seqs(Queued(writeQ))} \cup last
    BY DEF InsertAll
  <1>4. ASSUME NEW i \in 1..Len(writeQ) PROVE writeQ[i] \in last
    <2> DEFINE same == {j \in 1..Len(writeQ) : writeQ[j].seq = writeQ[i].seq}
    <2>1. same \in SUBSET Nat /\ i \in same /\ \A j \in same : j <= Len(writeQ)
      BY <1>1
    <2>2. PICK j \in same : \A k \in same : k <= j
      <3> HIDE DEF same
      <3> QED BY <1>1, <2>1, GreatestNat
    <2>3. writeQ[j] = writeQ[i]
      BY <1>2, <2>2, FrameIs
    <2>4. \A k \in DOMAIN writeQ : k > j => writeQ[k].seq # writeQ[j].seq
      BY <1>1, <2>2
    <2> QED BY <1>1, <2>2, <2>3, <2>4
  <1>5. \A g \in last : \E i \in 1..Len(writeQ) : g = writeQ[i]
    BY <1>1
  <1> HIDE DEF last
  <1>6. \A g \in last : g \in Frame /\ g.seq <= seq
    BY <1>2, <1>5 DEF NumInv, WaitsNow, SentPast
  <1>7. ASSUME NEW p \in Senders, HasSent(p), snd[p].f \in store
        PROVE  snd[p].f \in InsertAll(store, writeQ) \cup lost
    <2>1. CASE snd[p].f.seq \notin Seqs(Queued(writeQ))
      BY <1>3, <1>7, <2>1
    <2>2. CASE snd[p].f.seq \in Seqs(Queued(writeQ))
      <3>1. PICK i \in 1..Len(writeQ) : writeQ[i].seq = snd[p].f.seq
        BY <1>1, <2>2 DEF Seqs, Queued, ToSet
      <3>2. PICK r \in Senders : HasSent(r) /\ snd[r].f = writeQ[i]
        BY DEF NumInv, WaitsNow
      <3>3. snd[p].f = writeQ[i] \/ snd[p].f \in lost
        BY <1>2, <1>7, <3>1, <3>2, Replaced
      <3> QED BY <1>3, <1>4, <3>3
    <2> QED BY <2>1, <2>2
  <1> QED BY <1>1, <1>3, <1>4, <1>6, <1>7 DEF NumInv, NumType, NumbersBelow

LEMMA HubCloseNum ==
    ASSUME NumInv, HubClose
    PROVE  NumInv'
  <1>1. /\ store' = InsertAll(store, writeQ) /\ writeQ' = <<>>
        /\ UNCHANGED <<life, seq, hw, expired, lost, snd>>
    BY DEF HubClose, binding, past
  <1>2. \A p \in Senders : HasSent(p)' <=> HasSent(p)
    BY <1>1 DEF HasSent
  <1>3. Kept'
    BY <1>1, <1>2, InsertAllKeeps DEF NumInv, Kept
  <1>4. writeQ' \in Seq(Frame) /\ Len(writeQ') = 0
    BY <1>1
  <1>5. \A i \in 1..Len(writeQ') : FALSE
    BY <1>4
  <1> QED BY <1>1, <1>2, <1>3, <1>4, <1>5, InsertAllKeeps, StoreNum DEF NumInv, NumType

\* ensureBinding numbers on from MaxSeq of the store; what had not reached it is
\* lost.
LEMMA RestartNum ==
    ASSUME NumInv, Restart
    PROVE  NumInv'
  <1>1. NumType
    BY DEF NumInv
  <1>2. /\ life < MaxEnds /\ life' = life + 1
        /\ seq' = Max(Seqs(store) \cup {hw}) /\ writeQ' = <<>>
        /\ lost' = lost \cup Queued(writeQ) \cup InHand
        /\ UNCHANGED <<store, hw, expired>>
    BY DEF Restart
  <1>3. \A p \in Senders : snd'[p] = IF snd[p].at = "idle" THEN snd[p]
                                     ELSE [at |-> "push", f |-> snd[p].f, to |-> {}]
    BY DEF Restart
  <1>4. ASSUME NEW p \in Senders
        PROVE  /\ snd'[p] \in Snd /\ snd'[p].f = snd[p].f
               /\ snd'[p].at = IF snd[p].at = "idle" THEN "idle" ELSE "push"
    <2>1. snd[p] \in Snd
      BY <1>1 DEF NumType
    <2>2. [at |-> "push", f |-> snd[p].f, to |-> {}] \in Snd
      BY <2>1 DEF Snd
    <2> QED BY <1>3, <2>1, <2>2
  <1>5. snd' \in [Senders -> Snd]
    <2>1. snd' = [p \in Senders |-> snd'[p]]
      BY DEF Restart
    <2> QED BY <1>4, <2>1
  <1>6. \A p \in Senders : snd'[p].f = snd[p].f /\ (HasSent(p)' <=> HasSent(p)) /\ snd'[p].at # "append"
    BY <1>4 DEF HasSent
  <1>7. {p \in Senders : HasSent(p)}' = {p \in Senders : HasSent(p)}
    BY <1>6
  <1>8. \A f : f \in lost' <=> \/ f \in lost \/ \E i \in 1..Len(writeQ) : f = writeQ[i]
                               \/ \E p \in Senders : snd[p].at = "append" /\ f = snd[p].f
    BY <1>1, <1>2 DEF NumType, Queued, ToSet, InHand
  <1>9. lost' \subseteq Frame
    <2>1. \A p \in Senders : snd[p].at = "append" => snd[p].f \in Frame
      BY SentIsFrame DEF HasSent
    <2>2. \A i \in 1..Len(writeQ) : writeQ[i] \in Frame
      BY <1>1 DEF NumType
    <2>3. \A f \in lost : f \in Frame
      BY <1>1 DEF NumType
    <2> QED BY <1>8, <2>1, <2>2, <2>3
  <1>10. writeQ' \in Seq(Frame) /\ Len(writeQ') = 0 /\ \A i \in 1..Len(writeQ') : FALSE
    BY <1>2
  <1>11. life \in Nat /\ life' \in 0..MaxEnds /\ life' > life
    BY <1>1, <1>2, MaxSeqNat DEF NumType
  <1>12. seq' \in 0..MaxSeq /\ seq' <= seq /\ seq \in Nat /\ seq' \in Nat
    BY <1>1, <1>2, StoreMax, MaxSeqNat DEF NumType
  <1>13. NumType'
    BY <1>1, <1>2, <1>5, <1>9, <1>10, <1>11, <1>12 DEF NumType
  <1>14. EnoughNumbers'
    <2>1. seq <= Cardinality({p \in Senders : HasSent(p)})
      BY DEF NumInv, EnoughNumbers
    <2>2. Cardinality({p \in Senders : HasSent(p)}) \in Nat
      <3>1. {p \in Senders : HasSent(p)} \subseteq Senders
        OBVIOUS
      <3> QED BY <3>1, FS_Subset, FS_CardinalityType, StreamAssumption
    <2>3. seq' <= Cardinality({p \in Senders : HasSent(p)})
      BY <2>1, <2>2, <1>12
    <2> QED BY <2>3, <1>7 DEF EnoughNumbers
  <1>15. SentPast'
    <2>1. \A p \in Senders : HasSent(p) => snd[p].f.life \in Nat /\ snd[p].f.life <= life
      BY SentIsFrame DEF NumInv, SentPast, Frame
    <2>2. \A p \in Senders : HasSent(p) => snd[p].f.life <= life' /\ snd[p].f.life # life'
      BY <2>1, <1>11, <1>2
    <2> QED BY <2>2, <1>6 DEF NumInv, SentPast
  <1>16. WaitsNow'
    BY <1>6, <1>10 DEF WaitsNow
  <1>17. NumbersBelow'
    BY <1>2, StoreMax DEF NumInv, NumbersBelow
  <1>18. Kept'
    BY <1>2, <1>6, <1>8 DEF NumInv, Kept
  <1>19. Unique'
    BY <1>6, <1>8 DEF NumInv, Unique
  <1> QED BY <1>13, <1>14, <1>15, <1>16, <1>17, <1>18, <1>19 DEF NumInv

------------------------------------------------------------------------------
(* The buffer and the sockets.                                             *)

Stages == {"new", "hello", "attach", "bind", "snap", "range", "push", "live"}

SockType ==
    /\ up \in {"up", "closing"} /\ buffer \subseteq Frame
    /\ sock \in [Socks -> Stages]
    /\ done \subseteq Socks /\ removed \subseteq Socks /\ cut \subseteq Socks
    /\ clients \subseteq Socks /\ bound \subseteq Socks
    /\ ackHW \in [Socks -> 0..MaxSeq]
    /\ queue \in [Socks -> Seq(Frame)]
    /\ \A s \in Socks : Len(queue[s]) <= QueueCap
    /\ replay \in [Socks -> [from : 0..MaxSeq, todo : SUBSET Frame]]
    /\ short \subseteq Socks
    /\ held \in [Devices -> SUBSET Frame]
    /\ pull \in [Devices -> 0..NoPull]
    /\ events \in 0..MaxEvents

\* What earlier runs of the process stored is below every number of this one.
OldBelow ==
    /\ \A e \in store \cup expired : e.life <= life
    /\ \A e \in store \cup expired, p \in Senders :
          e.life < life /\ HasSent(p) /\ snd[p].f.life = life => e.seq < snd[p].f.seq

BufferNow == IsFiniteSet(buffer) /\ \A f \in buffer : f.life = life /\ f.seq <= seq

\* The buffer is the top of what this run has sent: neither its depth nor the
\* acks make a hole.
BufferTop ==
    \A p \in Senders : HasSent(p) /\ snd[p].f.life = life =>
        \/ snd[p].f \in buffer
        \/ \A f \in buffer : snd[p].f.seq < f.seq

\* The frames a socket must not miss.
Wanted(p) == HasSent(p) /\ snd[p].f.life = life /\ snd[p].f \notin lost \cup expired

Covered(s, p) ==
    \/ snd[p].f.seq \in Seqs(held[DeviceOf[s]])
    \/ snd[p].f.seq \in Seqs(Queued(queue[s]))
    \/ s \in snd[p].to

\* NoGap, stage by stage: after the snapshot a frame is covered, in the
\* snapshot, or below it; after the store's range it is covered or to be pushed.
GapAt(s) ==
    /\ sock[s] = "range" =>
         \A p \in Senders : Wanted(p) => \/ Covered(s, p) \/ snd[p].f \in replay[s].todo
                                         \/ \A g \in replay[s].todo : snd[p].f.seq < g.seq
    /\ sock[s] = "push" /\ s \notin short =>
         \A p \in Senders : Wanted(p) /\ snd[p].f.seq > replay[s].from
                               => Covered(s, p) \/ snd[p].f \in replay[s].todo
    /\ sock[s] = "live" /\ s \notin short =>
         \A p \in Senders : Wanted(p) /\ snd[p].f.seq > replay[s].from => Covered(s, p)

GapInv == \A s \in clients \ done : GapAt(s)

IInv == NumInv /\ SockType /\ OldBelow /\ BufferNow /\ BufferTop /\ GapInv

LEMMA InitIInv == Init => IInv
  <1> SUFFICES ASSUME Init PROVE IInv
    OBVIOUS
  <1>1. NumInv
    BY NumInit
  <1> USE DEF Init
  <1>2. SockType
    <2>1. 0 \in 0..MaxSeq /\ NoPull \in 0..NoPull /\ MaxEvents \in Nat /\ QueueCap \in Nat
      BY MaxSeqNat, StreamAssumption DEF NoPull
    <2>2. NoReplay \in [from : 0..MaxSeq, todo : SUBSET Frame]
      BY <2>1 DEF NoReplay
    <2>3. queue \in [Socks -> Seq(Frame)] /\ \A s \in Socks : Len(queue[s]) = 0
      OBVIOUS
    <2>4. \A s \in Socks : Len(queue[s]) <= QueueCap
      BY <2>1, <2>3
    <2> QED BY <2>1, <2>2, <2>3, <2>4 DEF SockType, Stages
  <1>3. \A p \in Senders : ~HasSent(p)
    BY DEF HasSent
  <1>4. OldBelow /\ BufferNow /\ BufferTop /\ GapInv
    BY <1>3, FS_EmptySet DEF OldBelow, BufferNow, BufferTop, GapInv
  <1> QED BY <1>1, <1>2, <1>4 DEF IInv

\* A step of the sockets: the senders' frames, the numbers, the store and the
\* buffer are left alone.
LEMMA QuietStep ==
    ASSUME IInv, UNCHANGED <<life, seq, hw, store, writeQ, lost, expired, buffer>>,
           snd' \in [Senders -> Snd],
           \A p \in Senders : snd'[p].at = snd[p].at /\ snd'[p].f = snd[p].f
    PROVE  /\ NumInv' /\ OldBelow' /\ BufferNow' /\ BufferTop'
           /\ \A p \in Senders : Wanted(p)' <=> Wanted(p)
  <1>1. \A p \in Senders : HasSent(p)' <=> HasSent(p)
    BY DEF HasSent
  <1>2. NumInv'
    BY NumSame DEF IInv
  <1>3. OldBelow' /\ BufferNow' /\ BufferTop'
    BY <1>1 DEF IInv, OldBelow, BufferNow, BufferTop
  <1>4. \A p \in Senders : Wanted(p)' <=> Wanted(p)
    BY <1>1 DEF Wanted
  <1> QED BY <1>2, <1>3, <1>4

LEMMA SndSame ==
    ASSUME IInv, snd' = snd
    PROVE  /\ snd' \in [Senders -> Snd]
           /\ \A p \in Senders : snd'[p].at = snd[p].at /\ snd'[p].f = snd[p].f
  BY DEF IInv, NumInv, NumType

\* A step of the store: frames of this run may be added, frames may expire.
LEMMA StoreStep ==
    ASSUME IInv, UNCHANGED <<life, seq, buffer>>,
           \A p \in Senders : snd'[p].f = snd[p].f /\ (HasSent(p)' <=> HasSent(p)),
           \A e \in store' \cup expired' : e \in store \cup expired \/ e.life = life,
           \A f \in lost \cup expired : f \in lost' \cup expired'
    PROVE  /\ OldBelow' /\ BufferNow' /\ BufferTop'
           /\ \A p \in Senders : Wanted(p)' => Wanted(p)
  <1>1. life \in Nat
    BY MaxSeqNat DEF IInv, NumInv, NumType
  <1>2. OldBelow'
    BY <1>1 DEF IInv, OldBelow
  <1>3. BufferNow' /\ BufferTop'
    BY DEF IInv, BufferNow, BufferTop
  <1>4. \A p \in Senders : Wanted(p)' => Wanted(p)
    BY DEF Wanted
  <1> QED BY <1>2, <1>3, <1>4

\* A socket that stays where it is misses nothing new.
LEMMA GapKeeps ==
    ASSUME IInv, NEW s \in Socks, GapAt(s),
           sock'[s] = sock[s], replay'[s] = replay[s], s \in short => s \in short',
           \A p \in Senders : Wanted(p)' => \/ Covered(s, p)'
                                            \/ /\ Wanted(p) /\ snd'[p].f = snd[p].f
                                               /\ ~Covered(s, p)
    PROVE  GapAt(s)'
  <1>1. CASE sock[s] = "range"
    BY <1>1 DEF GapAt
  <1>2. CASE sock[s] = "push"
    BY <1>2 DEF GapAt
  <1>3. CASE sock[s] = "live"
    BY <1>3 DEF GapAt
  <1>4. CASE sock[s] \notin {"range", "push", "live"}
    BY <1>4 DEF GapAt
  <1> QED BY <1>1, <1>2, <1>3, <1>4

LEMMA GapFrame ==
    ASSUME IInv,
           \A s \in clients' \ done' :
              \/ sock'[s] \notin {"range", "push", "live"}
              \/ /\ s \in clients \ done
                 /\ sock'[s] = sock[s] /\ replay'[s] = replay[s] /\ (s \in short => s \in short')
                 /\ \A p \in Senders : Wanted(p)' => \/ Covered(s, p)'
                                                     \/ /\ Wanted(p) /\ snd'[p].f = snd[p].f
                                                        /\ ~Covered(s, p)
    PROVE  GapInv'
  <1> SUFFICES ASSUME NEW s \in clients', s \notin done' PROVE GapAt(s)'
    BY DEF GapInv
  <1>1. CASE sock'[s] \notin {"range", "push", "live"}
    BY <1>1 DEF GapAt
  <1>2. CASE /\ s \in clients \ done
             /\ sock'[s] = sock[s] /\ replay'[s] = replay[s] /\ (s \in short => s \in short')
             /\ \A p \in Senders : Wanted(p)' => \/ Covered(s, p)'
                                                 \/ /\ Wanted(p) /\ snd'[p].f = snd[p].f
                                                    /\ ~Covered(s, p)
    <2>1. s \in Socks /\ GapAt(s)
      BY <1>2 DEF IInv, SockType, GapInv
    <2> QED BY <1>2, <2>1, GapKeeps
  <1> QED BY <1>1, <1>2

\* A step of the store, for the sockets: they are left alone.
LEMMA StoreSockets ==
    ASSUME IInv, NumInv', UNCHANGED <<life, seq, buffer>>,
           \A p \in Senders : /\ snd'[p].f = snd[p].f /\ snd'[p].to = snd[p].to
                              /\ HasSent(p)' <=> HasSent(p),
           \A e \in store' \cup expired' : e \in store \cup expired \/ e.life = life,
           \A f \in lost \cup expired : f \in lost' \cup expired',
           UNCHANGED <<up, conn, attached, outbound, device>>, events' \in 0..MaxEvents
    PROVE  IInv'
  <1>1. /\ OldBelow' /\ BufferNow' /\ BufferTop'
        /\ \A p \in Senders : Wanted(p)' => Wanted(p)
    BY StoreStep
  <1>2. SockType'
    BY DEF IInv, SockType, conn, attached, outbound, device
  <1>3. \A s \in Socks, p \in Senders : Covered(s, p)' <=> Covered(s, p)
    BY DEF Covered, conn, attached, outbound, device
  <1>4. GapInv'
    <2>1. /\ clients' = clients /\ done' = done /\ clients \subseteq Socks
          /\ sock' = sock /\ replay' = replay /\ short' = short
      BY DEF conn, attached, outbound, IInv, SockType
    <2> QED BY <1>1, <1>3, <2>1, GapFrame
  <1> QED BY <1>1, <1>2, <1>4 DEF IInv

LEMMA AppendPreserves ==
    ASSUME IInv, NEW p \in Senders, AppendThen(p)
    PROVE  IInv'
  <1>1. NumInv /\ NumType
    BY DEF IInv, NumInv
  <1>2. NumInv'
    BY <1>1, AppendNum
  <1>3. /\ snd[p].at = "append" /\ snd' = [snd EXCEPT ![p].at = "push"]
        /\ UNCHANGED <<life, seq, buffer, hw, expired>>
        /\ UNCHANGED <<up, conn, attached, outbound, device>> /\ events' = events
    BY DEF AppendThen, process, binding
  <1>4. /\ snd'[p].at = "push"
        /\ \A q \in Senders : snd'[q].f = snd[q].f /\ snd'[q].to = snd[q].to
        /\ \A q \in Senders \ {p} : snd'[q].at = snd[q].at
    BY <1>1, <1>3, SndAt DEF NumType
  <1>5. \A q \in Senders : HasSent(q)' <=> HasSent(q)
    BY <1>3, <1>4 DEF HasSent
  <1>6. snd[p].f.life = life
    BY <1>1, <1>3 DEF NumInv, WaitsNow
  <1>7. \A e \in store' : e \in store \/ e = snd[p].f
    BY DEF AppendThen, Insert
  <1>8. \A f \in lost : f \in lost'
    BY DEF AppendThen
  <1>9. events' \in 0..MaxEvents
    BY <1>3 DEF IInv, SockType
  <1>10. \A e \in store' \cup expired' : e \in store \cup expired \/ e.life = life
    BY <1>3, <1>6, <1>7
  <1>11. \A f \in lost \cup expired : f \in lost' \cup expired'
    BY <1>3, <1>8
  <1> QED BY <1>2, <1>3, <1>4, <1>5, <1>9, <1>10, <1>11, StoreSockets

LEMMA WritePreserves ==
    ASSUME IInv, Write
    PROVE  IInv'
  <1>1. NumInv /\ NumType
    BY DEF IInv, NumInv
  <1>2. NumInv'
    BY <1>1, WriteNum
  <1>3. /\ writeQ # <<>> /\ store' = Insert(store, Head(writeQ))
        /\ UNCHANGED <<life, seq, buffer, expired, lost, snd>>
        /\ UNCHANGED <<up, conn, attached, outbound, device>> /\ events' = events
    BY DEF Write, process, binding, past
  <1>4. 1 \in 1..Len(writeQ) /\ Head(writeQ) = writeQ[1]
    BY <1>1, <1>3 DEF NumType
  <1>5. Head(writeQ).life = life
    BY <1>1, <1>4 DEF NumInv, WaitsNow
  <1>6. \A e \in store' \cup expired' : e \in store \cup expired \/ e.life = life
    BY <1>3, <1>5 DEF Insert
  <1>7. \A p \in Senders : HasSent(p)' <=> HasSent(p)
    BY <1>3 DEF HasSent
  <1>8. events' \in 0..MaxEvents
    BY <1>3 DEF IInv, SockType
  <1> QED BY <1>2, <1>3, <1>6, <1>7, <1>8, StoreSockets

LEMMA EventCounted ==
    ASSUME IInv, NEW kind, Event(kind)
    PROVE  events' \in 0..MaxEvents
  BY StreamAssumption DEF IInv, SockType, Event

LEMMA TrimPreserves ==
    ASSUME IInv, TrimOlderThan
    PROVE  IInv'
  <1>1. NumInv'
    BY TrimNum DEF IInv
  <1>2. PICK old \in SUBSET store : store' = store \ old /\ expired' = expired \cup old
    BY DEF TrimOlderThan
  <1>3. /\ UNCHANGED <<life, seq, buffer, lost, snd>>
        /\ UNCHANGED <<up, conn, attached, outbound, device>> /\ events' \in 0..MaxEvents
    BY EventCounted DEF TrimOlderThan, process, binding
  <1>4. \A p \in Senders : HasSent(p)' <=> HasSent(p)
    BY <1>3 DEF HasSent
  <1>5. /\ \A e \in store' \cup expired' : e \in store \cup expired
        /\ \A f \in lost \cup expired : f \in lost' \cup expired'
    BY <1>2, <1>3
  <1> QED BY <1>1, <1>3, <1>4, <1>5, StoreSockets

LEMMA CloseEffect ==
    ASSUME IInv, NEW S \in SUBSET Socks, Close(S)
    PROVE  /\ done' \subseteq Socks /\ cut' \subseteq Socks
           /\ queue' \in [Socks -> Seq(Frame)] /\ \A s \in Socks : Len(queue'[s]) <= QueueCap
           /\ \A s \in S : s \in done'
           /\ \A s \in done : s \in done'
           /\ \A s \in Socks \ S : queue'[s] = queue[s]
  <1>1. /\ done' = done \cup S /\ cut' = cut \ S
        /\ queue' = [s \in Socks |-> IF s \in S THEN <<>> ELSE queue[s]]
    BY DEF Close
  <1>2. SockType /\ QueueCap \in Nat
    BY StreamAssumption DEF IInv
  <1>3. <<>> \in Seq(Frame) /\ Len(<<>>) <= QueueCap
    BY <1>2
  <1>4. queue' \in [Socks -> Seq(Frame)] /\ \A s \in Socks : Len(queue'[s]) <= QueueCap
    BY <1>1, <1>2, <1>3 DEF SockType
  <1> QED BY <1>1, <1>2, <1>4 DEF SockType

\* A step that closes sockets and leaves the others where they are.
LEMMA ClosedGap ==
    ASSUME IInv, NEW S \in SUBSET Socks, Close(S),
           UNCHANGED <<clients, replay, short, held>>,
           \A s \in clients : sock'[s] = sock[s] \/ sock'[s] \notin {"range", "push", "live"},
           \A p \in Senders : /\ snd'[p].f = snd[p].f /\ (Wanted(p)' => Wanted(p))
                              /\ \A s \in Socks \ S : s \in snd[p].to => s \in snd'[p].to
    PROVE  GapInv'
  <1>1. \A s \in clients' \ done' : s \in clients \ done /\ s \in Socks \ S
    BY CloseEffect DEF IInv, SockType
  <1>2. \A s \in Socks \ S, p \in Senders : Covered(s, p) => Covered(s, p)'
    BY CloseEffect DEF Covered
  <1> QED BY <1>1, <1>2, GapFrame

LEMMA HubClosePreserves ==
    ASSUME IInv, HubClose
    PROVE  IInv'
  <1> DEFINE S == {s \in Socks : sock[s] # "new"}
  <1>1. NumInv /\ NumType /\ NumInv'
    BY HubCloseNum DEF IInv, NumInv
  <1>2. /\ up' = "closing" /\ Close(S) /\ store' = InsertAll(store, writeQ)
        /\ UNCHANGED <<life, seq, buffer, lost, expired, snd>>
        /\ UNCHANGED <<sock, removed, clients, bound, ackHW, replay, short, held, pull, events>>
    BY DEF HubClose, binding, past, attached, device
  <1>3. \A p \in Senders : HasSent(p)' <=> HasSent(p)
    BY <1>2 DEF HasSent
  <1>4. \A e \in store' : e \in store \/ e.life = life
    <2>1. \A e \in store' : e \in store \/ \E i \in 1..Len(writeQ) : e = writeQ[i]
      BY <1>1, <1>2 DEF InsertAll, NumType
    <2> QED BY <1>1, <2>1 DEF NumInv, WaitsNow
  <1>5. /\ OldBelow' /\ BufferNow' /\ BufferTop'
        /\ \A p \in Senders : Wanted(p)' => Wanted(p)
    BY <1>2, <1>3, <1>4, StoreStep
  <1>6. S \in SUBSET Socks
    OBVIOUS
  <1> HIDE DEF S
  <1>7. GapInv'
    BY <1>2, <1>5, <1>6, ClosedGap
  <1>8. SockType'
    BY <1>2, <1>6, CloseEffect DEF IInv, SockType
  <1> QED BY <1>1, <1>5, <1>7, <1>8 DEF IInv

LEMMA RestartPreserves ==
    ASSUME IInv, Restart
    PROVE  IInv'
  <1>1. NumInv /\ NumType /\ NumInv' /\ NumType'
    BY RestartNum DEF IInv, NumInv
  <1>2. /\ up' = "up" /\ life' = life + 1 /\ buffer' = {}
        /\ sock' = [s \in Socks |-> "new"]
        /\ done' = {} /\ removed' = {} /\ cut' = {} /\ clients' = {} /\ bound' = {}
        /\ ackHW' = [s \in Socks |-> 0]
        /\ queue' = [s \in Socks |-> <<>>]
        /\ replay' = [s \in Socks |-> NoReplay]
        /\ short' = {}
        /\ pull' = [d \in Devices |-> NoPull]
        /\ UNCHANGED <<store, held, expired, events>>
    BY DEF Restart
  <1>3. GapInv'
    BY <1>2 DEF GapInv
  <1>4. BufferNow' /\ BufferTop'
    BY <1>2, FS_EmptySet DEF BufferNow, BufferTop
  <1>5. SockType'
    <2>1. 0 \in 0..MaxSeq /\ NoPull \in 0..NoPull /\ QueueCap \in Nat
      BY MaxSeqNat, StreamAssumption DEF NoPull
    <2>2. NoReplay \in [from : 0..MaxSeq, todo : SUBSET Frame]
      BY <2>1 DEF NoReplay
    <2>3. queue' \in [Socks -> Seq(Frame)] /\ \A s \in Socks : Len(queue'[s]) = 0
      BY <1>2
    <2>4. \A s \in Socks : Len(queue'[s]) <= QueueCap
      BY <2>1, <2>3
    <2>5. ackHW' \in [Socks -> 0..MaxSeq] /\ pull' \in [Devices -> 0..NoPull]
          /\ replay' \in [Socks -> [from : 0..MaxSeq, todo : SUBSET Frame]]
          /\ sock' \in [Socks -> Stages]
      BY <1>2, <2>1, <2>2 DEF Stages
    <2> QED BY <1>2, <2>3, <2>4, <2>5 DEF IInv, SockType
  <1>6. OldBelow'
    <2>1. life \in Nat /\ \A e \in store \cup expired : e.life \in Nat /\ e.life <= life
      BY <1>1, MaxSeqNat DEF IInv, OldBelow, NumType, Frame
    <2>2. \A e \in store \cup expired : e.life <= life'
      BY <1>2, <2>1
    <2>3. \A p \in Senders : HasSent(p)' => snd'[p].f.life # life'
      <3> SUFFICES ASSUME NEW p \in Senders, HasSent(p)' PROVE snd'[p].f.life # life'
        OBVIOUS
      <3>1. snd'[p].f = snd[p].f /\ HasSent(p)
        BY DEF Restart, HasSent
      <3>2. snd[p].f.life \in Nat /\ snd[p].f.life <= life
        BY <1>1, <3>1, SentIsFrame DEF NumInv, SentPast, Frame
      <3> QED BY <1>2, <2>1, <3>1, <3>2
    <2> QED BY <1>2, <2>2, <2>3 DEF OldBelow
  <1> QED BY <1>1, <1>3, <1>4, <1>5, <1>6 DEF IInv

\* What trimBufferLocked keeps is the top of what there was.
LEMMA TrimTop ==
    ASSUME NEW fs \in SUBSET Frame, IsFiniteSet(fs)
    PROVE  /\ TrimBuffer(fs) \subseteq fs
           /\ \A g \in TrimBuffer(fs), x \in fs : g.seq < x.seq => x \in TrimBuffer(fs)
  <1>1. CASE ~(Cardinality(fs) > Depth)
    BY <1>1 DEF TrimBuffer
  <1>2. CASE Cardinality(fs) > Depth
    <2> DEFINE n == Cardinality(fs) - Depth
               Below(g) == {y \in fs : y.seq < g.seq}
    <2>1. n \in Nat
      BY <1>2, FS_CardinalityType, StreamAssumption
    <2>2. \A g : g \in TrimBuffer(fs) <=> g \in fs /\ ~(Cardinality(Below(g)) < n)
      BY <1>2 DEF TrimBuffer, Lowest
    <2>3. ASSUME NEW g \in TrimBuffer(fs), NEW x \in fs, g.seq < x.seq
          PROVE  x \in TrimBuffer(fs)
      <3>1. g \in Frame /\ x \in Frame
        BY <2>2
      <3>2. Below(g) \subseteq Below(x)
        BY <2>3, <3>1, MaxSeqNat DEF Frame
      <3>3. Below(x) \subseteq fs
        OBVIOUS
      <3> HIDE DEF Below, n
      <3>4. IsFiniteSet(Below(x)) /\ IsFiniteSet(Below(g))
            /\ Cardinality(Below(g)) <= Cardinality(Below(x))
        BY <3>2, <3>3, FS_Subset
      <3>5. Cardinality(Below(g)) \in Nat /\ Cardinality(Below(x)) \in Nat
        BY <3>4, FS_CardinalityType
      <3>6. ~(Cardinality(Below(x)) < n)
        BY <2>1, <2>2, <3>4, <3>5
      <3> QED BY <2>2, <3>6
    <2> QED BY <2>2, <2>3
  <1> QED BY <1>1, <1>2

\* The new frame is on top of the buffer and goes to every socket attached.
LEMMA SendPreserves ==
    ASSUME IInv, NEW p \in Senders, Send(p)
    PROVE  IInv'
  <1> DEFINE f == [seq |-> seq + 1, life |-> life]
  <1>1. NumInv /\ NumType /\ SockType
    BY DEF IInv, NumInv
  <1>2. /\ NumInv' /\ seq' = seq + 1 /\ snd'[p].f = f /\ f \in Frame /\ snd'[p].to = clients
        /\ snd'[p].at = "append" /\ snd[p].at = "idle"
        /\ \A q \in Senders \ {p} : snd'[q] = snd[q]
    BY <1>1, SendNum DEF SockType
  <1>3. /\ buffer' = TrimBuffer(buffer \cup {f})
        /\ UNCHANGED <<up, life, store, lost, expired, conn, attached, outbound, device, events>>
    BY DEF Send, process, storage, past
  <1>4. f.seq = seq + 1 /\ f.life = life /\ seq \in Nat /\ life \in Nat
    BY <1>1, MaxSeqNat DEF NumType
  <1> HIDE DEF f
  <1>5. /\ HasSent(p)' /\ ~HasSent(p)
        /\ \A q \in Senders \ {p} : HasSent(q)' <=> HasSent(q)
    BY <1>2 DEF HasSent
  <1>6. buffer \cup {f} \in SUBSET Frame /\ IsFiniteSet(buffer \cup {f})
    BY <1>1, <1>2, FS_AddElement DEF IInv, SockType, BufferNow
  <1>7. /\ buffer' \subseteq buffer \cup {f}
        /\ \A g \in buffer', x \in buffer \cup {f} : g.seq < x.seq => x \in buffer'
    BY <1>3, <1>6, TrimTop
  <1>8. BufferNow'
    <2>1. IsFiniteSet(buffer')
      BY <1>6, <1>7, FS_Subset
    <2>2. \A g \in buffer : g.seq \in Nat /\ g.seq <= seq /\ g.life = life
      BY <1>1 DEF IInv, SockType, BufferNow, Frame
    <2>3. \A g \in buffer \cup {f} : g.seq <= seq + 1 /\ g.life = life
      BY <1>4, <2>2
    <2> QED BY <1>2, <1>3, <1>7, <2>1, <2>3 DEF BufferNow
  <1>9. BufferTop'
    <2> SUFFICES ASSUME NEW q \in Senders, HasSent(q)', snd'[q].f.life = life,
                        snd'[q].f \notin buffer', NEW g \in buffer'
                 PROVE  snd'[q].f.seq < g.seq
      BY <1>3 DEF BufferTop
    <2>1. g \in Frame /\ g \in buffer \cup {f} /\ g.life = life
      BY <1>4, <1>6, <1>7 DEF IInv, BufferNow
    <2>2. snd'[q].f \in Frame
      <3>1. CASE q = p
        BY <1>2, <3>1
      <3>2. CASE q # p
        BY <1>1, <1>2, <1>5, <3>2, SentIsFrame
      <3> QED BY <3>1, <3>2
    <2>3. CASE snd'[q].f \in buffer \cup {f}
      <3>1. ~(g.seq < snd'[q].f.seq)
        BY <1>7, <2>3
      <3>2. g # snd'[q].f
        OBVIOUS
      <3>3. g.seq # snd'[q].f.seq
        BY <2>1, <2>2, <3>2, FrameIs
      <3> QED BY <2>1, <2>2, <3>1, <3>3, MaxSeqNat DEF Frame
    <2>4. CASE snd'[q].f \notin buffer \cup {f}
      <3>1. q # p /\ HasSent(q) /\ snd'[q] = snd[q]
        BY <1>2, <1>5, <2>4
      <3>2. \A h \in buffer : snd[q].f.seq < h.seq
        BY <2>4, <3>1 DEF IInv, BufferTop
      <3>3. snd[q].f.seq <= seq
        BY <3>1 DEF IInv, NumInv, SentPast
      <3>4. snd[q].f.seq < f.seq
        BY <1>4, <2>2, <3>1, <3>3, MaxSeqNat DEF Frame
      <3> QED BY <2>1, <3>1, <3>2, <3>4
    <2> QED BY <2>3, <2>4
  <1>10. OldBelow'
    <2>1. \A e \in store \cup expired : e.seq \in Nat /\ e.seq <= seq
      BY <1>1, <1>4 DEF IInv, NumInv, NumbersBelow, NumType, Frame
    <2>2. \A e \in store \cup expired : e.seq < f.seq
      BY <1>4, <2>1
    <2> QED BY <1>2, <1>3, <1>5, <2>2 DEF IInv, OldBelow
  <1>11. SockType'
    BY <1>1, <1>3, <1>6, <1>7 DEF SockType, conn, attached, outbound, device
  <1>12. GapInv'
    <2>1. /\ clients' = clients /\ done' = done /\ clients \subseteq Socks
          /\ sock' = sock /\ replay' = replay /\ short' = short
      BY <1>1, <1>3 DEF conn, attached, outbound, SockType
    <2>2. \A s \in clients : Covered(s, p)'
      BY <1>2 DEF Covered
    <2>3. \A s \in clients, q \in Senders \ {p} :
             (Wanted(q)' <=> Wanted(q)) /\ (Covered(s, q)' <=> Covered(s, q))
      BY <1>2, <1>3, <1>5 DEF Wanted, Covered, outbound, device
    <2> QED BY <1>2, <2>1, <2>2, <2>3, GapFrame
  <1> QED BY <1>2, <1>8, <1>9, <1>10, <1>11, <1>12 DEF IInv

\* A queue that grows at its end.
LEMMA QueueGrows ==
    ASSUME IInv, NEW s \in Socks, Fits(s), NEW f \in Frame,
           queue' = [queue EXCEPT ![s] = Append(@, f)]
    PROVE  /\ queue' \in [Socks -> Seq(Frame)] /\ \A t \in Socks : Len(queue'[t]) <= QueueCap
           /\ Seqs(Queued(queue'[s])) = Seqs(Queued(queue[s])) \cup {f.seq}
           /\ \A t \in Socks \ {s} : queue'[t] = queue[t]
  <1>1. queue \in [Socks -> Seq(Frame)] /\ \A t \in Socks : Len(queue[t]) <= QueueCap
    BY DEF IInv, SockType
  <1>2. /\ queue'[s] = Append(queue[s], f) /\ queue[s] \in Seq(Frame) /\ Len(queue[s]) < QueueCap
        /\ QueueCap \in Nat /\ \A t \in Socks \ {s} : queue'[t] = queue[t]
    BY <1>1, StreamAssumption DEF Fits
  <1>3. /\ Append(queue[s], f) \in Seq(Frame) /\ Len(queue'[s]) = Len(queue[s]) + 1
        /\ \A i \in 1..Len(queue[s]) : queue'[s][i] = queue[s][i]
        /\ queue'[s][Len(queue[s]) + 1] = f /\ Len(queue[s]) \in Nat
    BY <1>2
  <1>4. queue' \in [Socks -> Seq(Frame)]
    BY <1>1, <1>3
  <1>5. \A t \in Socks : Len(queue'[t]) <= QueueCap
    BY <1>1, <1>2, <1>3
  <1>6. ASSUME NEW n
        PROVE  n \in Seqs(Queued(queue'[s])) <=> n \in Seqs(Queued(queue[s])) \cup {f.seq}
    <2>1. n \in Seqs(Queued(queue'[s])) <=> \E i \in 1..Len(queue'[s]) : n = queue'[s][i].seq
      BY <1>2, <1>3 DEF Seqs, Queued, ToSet
    <2>2. n \in Seqs(Queued(queue[s])) <=> \E i \in 1..Len(queue[s]) : n = queue[s][i].seq
      BY <1>2 DEF Seqs, Queued, ToSet
    <2>3. \A i : i \in 1..Len(queue'[s]) <=> i \in 1..Len(queue[s]) \/ i = Len(queue[s]) + 1
      BY <1>3
    <2> QED BY <1>3, <2>1, <2>2, <2>3
  <1> QED BY <1>2, <1>4, <1>5, <1>6

\* A live frame is never dropped: it is in the queue of a target, or the target
\* has closed.
LEMMA EnqueuePreserves ==
    ASSUME IInv, NEW p \in Senders, NEW s \in Socks, Enqueue(p, s)
    PROVE  IInv'
  <1>1. NumInv /\ NumType /\ SockType
    BY DEF IInv, NumInv
  <1>2. /\ snd[p].at = "push" /\ s \in snd[p].to /\ snd' = [snd EXCEPT ![p].to = @ \ {s}]
        /\ UNCHANGED <<life, seq, hw, store, writeQ, lost, expired, buffer>>
        /\ UNCHANGED <<up, sock, done, removed, cut, clients, bound, ackHW, replay, short, held, pull, events>>
    BY DEF Enqueue, process, binding, storage, past, conn, attached, device
  <1>3. /\ snd' \in [Senders -> Snd] /\ snd'[p].to = snd[p].to \ {s}
        /\ \A q \in Senders : snd'[q].f = snd[q].f /\ snd'[q].at = snd[q].at
        /\ \A q \in Senders \ {p} : snd'[q].to = snd[q].to
    BY <1>1, <1>2, SndTo DEF NumType
  <1>4. /\ NumInv' /\ OldBelow' /\ BufferNow' /\ BufferTop'
        /\ \A q \in Senders : Wanted(q)' <=> Wanted(q)
    BY <1>2, <1>3, QuietStep
  <1>5. snd[p].f \in Frame
    BY <1>1, <1>2, SentIsFrame DEF HasSent
  <1>6. CASE Fits(s) /\ queue' = [queue EXCEPT ![s] = Append(@, snd[p].f)]
    <2>1. /\ queue' \in [Socks -> Seq(Frame)] /\ \A t \in Socks : Len(queue'[t]) <= QueueCap
          /\ Seqs(Queued(queue'[s])) = Seqs(Queued(queue[s])) \cup {snd[p].f.seq}
          /\ \A t \in Socks \ {s} : queue'[t] = queue[t]
      BY <1>5, <1>6, QueueGrows
    <2>2. SockType'
      BY <1>1, <1>2, <2>1 DEF SockType
    <2>3. \A t \in Socks, q \in Senders : Covered(t, q) => Covered(t, q)'
      <3> SUFFICES ASSUME NEW t \in Socks, NEW q \in Senders, Covered(t, q) PROVE Covered(t, q)'
        OBVIOUS
      <3>1. CASE t # s
        BY <1>2, <1>3, <2>1, <3>1 DEF Covered
      <3>2. CASE t = s /\ q # p
        BY <1>2, <1>3, <2>1, <3>2 DEF Covered
      <3>3. CASE t = s /\ q = p
        BY <1>2, <1>3, <2>1, <3>3 DEF Covered
      <3> QED BY <3>1, <3>2, <3>3
    <2>4. GapInv'
      BY <1>1, <1>2, <1>3, <1>4, <2>3, GapFrame DEF SockType
    <2> QED BY <1>4, <2>2, <2>4 DEF IInv
  <1>7. CASE s \in done /\ queue' = queue
    <2>1. SockType'
      BY <1>1, <1>2, <1>7 DEF SockType
    <2>2. \A t \in clients \ done, q \in Senders : Covered(t, q) => Covered(t, q)'
      BY <1>2, <1>3, <1>7 DEF Covered
    <2>3. GapInv'
      BY <1>1, <1>2, <1>3, <1>4, <2>2, GapFrame DEF SockType
    <2> QED BY <1>4, <2>1, <2>3 DEF IInv
  <1> QED BY <1>6, <1>7 DEF Enqueue

LEMMA StallPreserves ==
    ASSUME IInv, NEW p \in Senders, NEW s \in Socks, Stall(p, s)
    PROVE  IInv'
  <1>1. NumInv /\ NumType /\ SockType
    BY DEF IInv, NumInv
  <1>2. /\ snd' = [snd EXCEPT ![p].to = @ \ {s}] /\ Close({s}) /\ events' \in 0..MaxEvents
        /\ UNCHANGED <<life, seq, hw, store, writeQ, lost, expired, buffer>>
        /\ UNCHANGED <<up, sock, removed, clients, bound, ackHW, replay, short, held, pull>>
    BY EventCounted DEF Stall, process, binding, storage, past, attached, device
  <1>3. /\ snd' \in [Senders -> Snd] /\ snd'[p].to = snd[p].to \ {s}
        /\ \A q \in Senders : snd'[q].f = snd[q].f /\ snd'[q].at = snd[q].at
        /\ \A q \in Senders \ {p} : snd'[q].to = snd[q].to
    BY <1>1, <1>2, SndTo DEF NumType
  <1>4. /\ NumInv' /\ OldBelow' /\ BufferNow' /\ BufferTop'
        /\ \A q \in Senders : Wanted(q)' <=> Wanted(q)
    BY <1>2, <1>3, QuietStep
  <1>5. \A q \in Senders, t \in Socks \ {s} : t \in snd[q].to => t \in snd'[q].to
    BY <1>3
  <1>6. GapInv'
    BY <1>2, <1>3, <1>4, <1>5, ClosedGap
  <1>7. SockType'
    BY <1>1, <1>2, CloseEffect DEF SockType
  <1> QED BY <1>4, <1>6, <1>7 DEF IInv

LEMMA MarkIs ==
    ASSUME IInv, NEW d \in Devices
    PROVE  Mark(d) \in 0..MaxSeq /\ 1..Mark(d) \subseteq Seqs(held[d] \cup expired)
  <1> DEFINE M == {n \in 0..MaxSeq : 1..n \subseteq Seqs(held[d] \cup expired)}
  <1>1. MaxSeq \in Nat
    BY MaxSeqNat
  <1>2. M \in SUBSET Nat /\ 0 \in M /\ \A n \in M : n <= MaxSeq
    BY <1>1
  <1>3. Max(M) \in M
    <2> HIDE DEF M
    <2> QED BY <1>1, <1>2, GreatestNat
  <1> QED BY <1>3 DEF Mark

LEMMA MaxOfTwo ==
    ASSUME NEW m \in 0..MaxSeq, NEW n \in 0..MaxSeq
    PROVE  Max({m, n}) \in 0..MaxSeq
  <1>1. MaxSeq \in Nat /\ {m, n} \in SUBSET Nat /\ {m, n} # {} /\ \A k \in {m, n} : k <= MaxSeq
    BY MaxSeqNat
  <1>2. Max({m, n}) \in {m, n}
    BY <1>1, GreatestNat
  <1> QED BY <1>2

\* A step of the sockets that touches no sender.
LEMMA SockStep ==
    ASSUME IInv, UNCHANGED <<life, seq, hw, store, writeQ, lost, expired, buffer, snd>>
    PROVE  /\ NumInv' /\ OldBelow' /\ BufferNow' /\ BufferTop'
           /\ \A p \in Senders : Wanted(p)' <=> Wanted(p)
  BY SndSame, QuietStep

\* The sockets that s's step leaves alone.
LEMMA OtherSockets ==
    ASSUME IInv, NEW s \in Socks,
           UNCHANGED <<life, seq, hw, store, writeQ, lost, expired, buffer, snd>>,
           \A t \in Socks \ {s} :
              /\ t \in clients' => t \in clients
              /\ t \in done => t \in done'
              /\ t \notin done' => queue'[t] = queue[t]
              /\ sock'[t] = sock[t] /\ replay'[t] = replay[t] /\ (t \in short => t \in short')
              /\ \A n \in Seqs(held[DeviceOf[t]]) : n \in Seqs(held'[DeviceOf[t]]),
           clients' \subseteq Socks, s \in clients' \ done' => GapAt(s)'
    PROVE  GapInv'
  <1> SUFFICES ASSUME NEW t \in clients', t \notin done' PROVE GapAt(t)'
    BY DEF GapInv
  <1>1. CASE t = s
    BY <1>1
  <1>2. CASE t # s
    <2>1. t \in Socks \ {s} /\ GapAt(t)
      BY <1>2 DEF IInv, GapInv
    <2>2. \A p \in Senders : Covered(t, p) => Covered(t, p)'
      BY <2>1 DEF Covered
    <2>3. \A p \in Senders : Wanted(p)' <=> Wanted(p)
      BY SockStep
    <2> QED BY <2>1, <2>2, <2>3, GapKeeps
  <1> QED BY <1>1, <1>2

LEMMA ConnectPreserves ==
    ASSUME IInv, NEW s \in Socks, Connect(s)
    PROVE  IInv'
  <1>1. /\ sock' = [sock EXCEPT ![s] = "hello"] /\ Close(Others(s))
        /\ UNCHANGED <<life, seq, hw, store, writeQ, lost, expired, buffer, snd>>
        /\ UNCHANGED <<up, removed, clients, bound, ackHW, replay, short, held, pull, events>>
    BY DEF Connect, process, binding, storage, past, attached, device
  <1>2. Others(s) \in SUBSET Socks
    BY DEF Others
  <1>3. /\ NumInv' /\ OldBelow' /\ BufferNow' /\ BufferTop'
        /\ \A p \in Senders : Wanted(p)' <=> Wanted(p)
    BY <1>1, SockStep
  <1>4. /\ sock' \in [Socks -> Stages]
        /\ \A t \in clients : sock'[t] = sock[t] \/ sock'[t] \notin {"range", "push", "live"}
    BY <1>1 DEF IInv, SockType, Stages
  <1>5. GapInv'
    BY <1>1, <1>2, <1>3, <1>4, ClosedGap
  <1>6. SockType'
    BY <1>1, <1>2, <1>4, CloseEffect DEF IInv, SockType
  <1> QED BY <1>3, <1>5, <1>6 DEF IInv

LEMMA CutPreserves ==
    ASSUME IInv, NEW s \in Socks, Cut(s)
    PROVE  IInv'
  <1>1. /\ cut' = cut \cup {s} /\ events' \in 0..MaxEvents
        /\ UNCHANGED <<life, seq, hw, store, writeQ, lost, expired, buffer, snd>>
        /\ UNCHANGED <<up, sock, done, removed, clients, bound, ackHW, queue, replay, short, held, pull>>
    BY EventCounted DEF Cut, process, binding, storage, past, attached, outbound, device
  <1>2. /\ NumInv' /\ OldBelow' /\ BufferNow' /\ BufferTop'
        /\ \A p \in Senders : Wanted(p)' <=> Wanted(p)
    BY <1>1, SockStep
  <1>3. SockType'
    BY <1>1 DEF IInv, SockType
  <1>4. \A t \in Socks, p \in Senders : Covered(t, p)' <=> Covered(t, p)
    BY <1>1 DEF Covered
  <1>5. GapInv'
    BY <1>1, <1>2, <1>4, GapFrame DEF IInv, SockType
  <1> QED BY <1>2, <1>3, <1>5 DEF IInv

LEMMA NoticePreserves ==
    ASSUME IInv, NEW s \in Socks, Notice(s)
    PROVE  IInv'
  <1>1. /\ Close({s})
        /\ UNCHANGED <<life, seq, hw, store, writeQ, lost, expired, buffer, snd>>
        /\ UNCHANGED <<up, sock, removed, clients, bound, ackHW, replay, short, held, pull, events>>
    BY DEF Notice, process, binding, storage, past, attached, device
  <1>2. /\ NumInv' /\ OldBelow' /\ BufferNow' /\ BufferTop'
        /\ \A p \in Senders : Wanted(p)' <=> Wanted(p)
    BY <1>1, SockStep
  <1>3. GapInv'
    BY <1>1, <1>2, ClosedGap
  <1>4. SockType'
    BY <1>1, CloseEffect DEF IInv, SockType
  <1> QED BY <1>2, <1>3, <1>4 DEF IInv

LEMMA RemoveClientPreserves ==
    ASSUME IInv, NEW s \in Socks, RemoveClient(s)
    PROVE  IInv'
  <1>1. /\ removed' = removed \cup {s} /\ clients' \subseteq clients
        /\ ackHW' = IF s \in bound THEN [ackHW EXCEPT ![s] = 0] ELSE ackHW
        /\ UNCHANGED <<life, seq, hw, store, writeQ, lost, expired, buffer, snd>>
        /\ UNCHANGED <<up, sock, done, cut, bound, queue, replay, short, held, pull, events>>
    BY DEF RemoveClient, process, binding, storage, past, outbound, device
  <1>2. /\ NumInv' /\ OldBelow' /\ BufferNow' /\ BufferTop'
        /\ \A p \in Senders : Wanted(p)' <=> Wanted(p)
    BY <1>1, SockStep
  <1>3. ackHW' \in [Socks -> 0..MaxSeq]
    BY <1>1, MaxSeqNat DEF IInv, SockType
  <1>4. SockType'
    BY <1>1, <1>3 DEF IInv, SockType
  <1>5. \A t \in Socks, p \in Senders : Covered(t, p)' <=> Covered(t, p)
    BY <1>1 DEF Covered
  <1>6. GapInv'
    BY <1>1, <1>2, <1>5, GapFrame DEF IInv, SockType
  <1> QED BY <1>2, <1>4, <1>6 DEF IInv

LEMMA ForgetPreserves ==
    ASSUME IInv, NEW s \in Socks, Forget(s)
    PROVE  IInv'
  <1>1. /\ s \notin clients /\ sock' = [sock EXCEPT ![s] = "new"]
        /\ done' = done \ {s} /\ removed' = removed \ {s} /\ cut' = cut \ {s}
        /\ bound' = bound \ {s} /\ short' = short \ {s}
        /\ ackHW' = [ackHW EXCEPT ![s] = 0]
        /\ queue' = [queue EXCEPT ![s] = <<>>]
        /\ replay' = [replay EXCEPT ![s] = NoReplay]
        /\ UNCHANGED <<life, seq, hw, store, writeQ, lost, expired, buffer, snd>>
        /\ UNCHANGED <<up, clients, held, pull, events>>
    BY DEF Forget, process, binding, storage, past, device
  <1>2. NumInv' /\ OldBelow' /\ BufferNow' /\ BufferTop'
    BY <1>1, SockStep
  <1>3. SockType
    BY DEF IInv
  <1>4. SockType'
    <2>1. 0 \in 0..MaxSeq /\ QueueCap \in Nat
      BY MaxSeqNat, StreamAssumption
    <2>2. NoReplay \in [from : 0..MaxSeq, todo : SUBSET Frame]
      BY <2>1 DEF NoReplay
    <2>3. queue' \in [Socks -> Seq(Frame)] /\ \A t \in Socks : Len(queue'[t]) <= QueueCap
      <3>1. <<>> \in Seq(Frame) /\ Len(<<>>) <= QueueCap
        BY <2>1
      <3> QED BY <1>1, <1>3, <3>1 DEF SockType
    <2>4. ackHW' \in [Socks -> 0..MaxSeq] /\ sock' \in [Socks -> Stages]
          /\ replay' \in [Socks -> [from : 0..MaxSeq, todo : SUBSET Frame]]
      BY <1>1, <1>3, <2>1, <2>2 DEF SockType, Stages
    <2> QED BY <1>1, <1>3, <2>3, <2>4 DEF SockType
  <1>5. GapInv'
    <2>1. \A t \in Socks \ {s} : /\ queue'[t] = queue[t] /\ sock'[t] = sock[t]
                                 /\ replay'[t] = replay[t] /\ (t \in short => t \in short')
                                 /\ (t \in done => t \in done')
      BY <1>1, <1>3 DEF SockType
    <2> QED BY <1>1, <1>3, <2>1, OtherSockets DEF SockType
  <1> QED BY <1>2, <1>4, <1>5 DEF IInv

\* What a step writes into a replay.
LEMMA ReplayFrom ==
    ASSUME IInv, NEW s \in Socks, NEW n \in 0..MaxSeq, replay' = [replay EXCEPT ![s].from = n]
    PROVE  /\ replay' \in [Socks -> [from : 0..MaxSeq, todo : SUBSET Frame]]
           /\ \A t \in Socks \ {s} : replay'[t] = replay[t]
  <1>1. replay \in [Socks -> [from : 0..MaxSeq, todo : SUBSET Frame]]
    BY DEF IInv, SockType
  <1>2. [replay[s] EXCEPT !.from = n] = [from |-> n, todo |-> replay[s].todo]
    BY <1>1
  <1>3. [from |-> n, todo |-> replay[s].todo] \in [from : 0..MaxSeq, todo : SUBSET Frame]
    BY <1>1
  <1>4. replay' = [replay EXCEPT ![s] = [replay[s] EXCEPT !.from = n]]
    BY <1>1
  <1> QED BY <1>1, <1>2, <1>3, <1>4

LEMMA ReplayTodo ==
    ASSUME IInv, NEW s \in Socks, NEW fs \in SUBSET Frame, replay' = [replay EXCEPT ![s].todo = fs]
    PROVE  /\ replay' \in [Socks -> [from : 0..MaxSeq, todo : SUBSET Frame]]
           /\ replay'[s].from = replay[s].from /\ replay'[s].todo = fs
           /\ \A t \in Socks \ {s} : replay'[t] = replay[t]
  <1>1. replay \in [Socks -> [from : 0..MaxSeq, todo : SUBSET Frame]]
    BY DEF IInv, SockType
  <1>2. [replay[s] EXCEPT !.todo = fs] = [from |-> replay[s].from, todo |-> fs]
    BY <1>1
  <1>3. [from |-> replay[s].from, todo |-> fs] \in [from : 0..MaxSeq, todo : SUBSET Frame]
    BY <1>1
  <1>4. replay' = [replay EXCEPT ![s] = [replay[s] EXCEPT !.todo = fs]]
    BY <1>1
  <1> QED BY <1>1, <1>2, <1>3, <1>4

LEMMA HelloPreserves ==
    ASSUME IInv, NEW s \in Socks, Hello(s)
    PROVE  IInv'
  <1> DEFINE d == DeviceOf[s]
  <1>1. /\ sock' = [sock EXCEPT ![s] = "attach"] /\ Close(Others(s))
        /\ pull' = [pull EXCEPT ![d] = Mark(d)]
        /\ replay' = [replay EXCEPT ![s].from = Mark(d)]
        /\ short' \in {short, short \cup {s}}
        /\ UNCHANGED <<life, seq, hw, store, writeQ, lost, expired, buffer, snd>>
        /\ UNCHANGED <<up, removed, clients, bound, ackHW, held, events>>
    BY DEF Hello, process, binding, storage, past, attached
  <1>2. Others(s) \in SUBSET Socks /\ d \in Devices
    BY StreamAssumption DEF Others
  <1>3. Mark(d) \in 0..MaxSeq /\ Mark(d) \in 0..NoPull
    <2>1. Mark(d) \in 0..MaxSeq
      BY <1>2, MarkIs
    <2>2. \A n \in 0..MaxSeq : n \in 0..NoPull
      BY MaxSeqNat DEF NoPull
    <2> QED BY <2>1, <2>2
  <1>4. NumInv' /\ OldBelow' /\ BufferNow' /\ BufferTop'
    BY <1>1, SockStep
  <1>5. SockType
    BY DEF IInv
  <1> HIDE DEF d
  <1>6. /\ replay' \in [Socks -> [from : 0..MaxSeq, todo : SUBSET Frame]]
        /\ \A t \in Socks \ {s} : replay'[t] = replay[t]
    BY <1>1, <1>3, ReplayFrom
  <1>7. sock' \in [Socks -> Stages] /\ pull' \in [Devices -> 0..NoPull] /\ short' \subseteq Socks
    BY <1>1, <1>3, <1>5 DEF SockType, Stages
  <1>8. /\ done' \subseteq Socks /\ cut' \subseteq Socks
        /\ queue' \in [Socks -> Seq(Frame)] /\ \A t \in Socks : Len(queue'[t]) <= QueueCap
        /\ \A t \in Others(s) : t \in done'
        /\ \A t \in done : t \in done'
        /\ \A t \in Socks \ Others(s) : queue'[t] = queue[t]
    BY <1>1, <1>2, CloseEffect
  <1>9. SockType'
    BY <1>1, <1>5, <1>6, <1>7, <1>8 DEF SockType
  <1>10. GapInv'
    <2>1. sock'[s] = "attach" /\ \A t \in Socks \ {s} : sock'[t] = sock[t]
      BY <1>1, <1>5 DEF SockType
    <2>2. GapAt(s)'
      BY <2>1 DEF GapAt
    <2> QED BY <1>1, <1>5, <1>6, <1>8, <2>1, <2>2, OtherSockets DEF SockType
  <1> QED BY <1>4, <1>9, <1>10 DEF IInv

LEMMA AttachPreserves ==
    ASSUME IInv, NEW s \in Socks, Attach(s)
    PROVE  IInv'
  <1>1. /\ clients' = clients \cup {s} /\ sock' = [sock EXCEPT ![s] = "bind"]
        /\ UNCHANGED <<life, seq, hw, store, writeQ, lost, expired, buffer, snd>>
        /\ UNCHANGED <<up, done, removed, cut, bound, ackHW, queue, replay, short, held, pull, events>>
    BY DEF Attach, process, binding, storage, past, outbound, device
  <1>2. NumInv' /\ OldBelow' /\ BufferNow' /\ BufferTop'
    BY <1>1, SockStep
  <1>3. SockType
    BY DEF IInv
  <1>4. sock' \in [Socks -> Stages] /\ sock'[s] = "bind" /\ \A t \in Socks \ {s} : sock'[t] = sock[t]
    BY <1>1, <1>3 DEF SockType, Stages
  <1>5. SockType'
    BY <1>1, <1>3, <1>4 DEF SockType
  <1>6. GapAt(s)'
    BY <1>4 DEF GapAt
  <1>7. GapInv'
    BY <1>1, <1>3, <1>4, <1>6, OtherSockets DEF SockType
  <1> QED BY <1>2, <1>5, <1>7 DEF IInv

LEMMA BindPreserves ==
    ASSUME IInv, NEW s \in Socks, Bind(s)
    PROVE  IInv'
  <1>1. /\ bound' = bound \cup {s}
        /\ sock' = [sock EXCEPT ![s] = IF s \in short THEN "live" ELSE "snap"]
        /\ UNCHANGED <<life, seq, hw, store, writeQ, lost, expired, buffer, snd>>
        /\ UNCHANGED <<up, done, removed, cut, clients, queue, replay, short, held, pull, events>>
    BY DEF Bind, process, binding, storage, past, outbound, device
  <1>2. NumInv' /\ OldBelow' /\ BufferNow' /\ BufferTop'
    BY <1>1, SockStep
  <1>3. SockType /\ NumType
    BY DEF IInv, NumInv
  <1>4. ackHW' \in [Socks -> 0..MaxSeq]
    <2>1. PICK from \in {replay[s].from} \cup {seq : t \in short \cap {s}} :
             ackHW' = IF s \in clients THEN [ackHW EXCEPT ![s] = Max({@, from})] ELSE ackHW
      BY DEF Bind
    <2>2. from \in 0..MaxSeq /\ ackHW[s] \in 0..MaxSeq
      BY <1>3 DEF SockType, NumType
    <2>3. Max({ackHW[s], from}) \in 0..MaxSeq
      BY <2>2, MaxOfTwo
    <2> QED BY <1>3, <2>1, <2>3 DEF SockType
  <1>5. /\ sock' \in [Socks -> Stages] /\ sock'[s] \in {"live", "snap"}
        /\ (sock'[s] = "live" => s \in short) /\ \A t \in Socks \ {s} : sock'[t] = sock[t]
    BY <1>1, <1>3 DEF SockType, Stages
  <1>6. SockType'
    BY <1>1, <1>3, <1>4, <1>5 DEF SockType
  <1>7. GapAt(s)'
    BY <1>1, <1>5 DEF GapAt
  <1>8. GapInv'
    BY <1>1, <1>3, <1>5, <1>7, OtherSockets DEF SockType
  <1> QED BY <1>2, <1>6, <1>8 DEF IInv

\* The snapshot: what the buffer does not have is below it.
LEMMA SnapPreserves ==
    ASSUME IInv, NEW s \in Socks, Snap(s)
    PROVE  IInv'
  <1>1. /\ replay' = [replay EXCEPT ![s].todo = buffer] /\ sock' = [sock EXCEPT ![s] = "range"]
        /\ UNCHANGED <<life, seq, hw, store, writeQ, lost, expired, buffer, snd>>
        /\ UNCHANGED <<up, done, removed, cut, clients, bound, ackHW, queue, short, held, pull, events>>
    BY DEF Snap, process, binding, storage, past, attached, device
  <1>2. /\ NumInv' /\ OldBelow' /\ BufferNow' /\ BufferTop'
        /\ \A p \in Senders : Wanted(p)' <=> Wanted(p)
    BY <1>1, SockStep
  <1>3. SockType
    BY DEF IInv
  <1>4. /\ replay' \in [Socks -> [from : 0..MaxSeq, todo : SUBSET Frame]]
        /\ replay'[s].todo = buffer /\ \A t \in Socks \ {s} : replay'[t] = replay[t]
    BY <1>1, <1>3, ReplayTodo DEF SockType
  <1>5. sock' \in [Socks -> Stages] /\ sock'[s] = "range" /\ \A t \in Socks \ {s} : sock'[t] = sock[t]
    BY <1>1, <1>3 DEF SockType, Stages
  <1>6. SockType'
    BY <1>1, <1>3, <1>4, <1>5 DEF SockType
  <1>7. GapAt(s)'
    <2>1. \A p \in Senders : Wanted(p) => \/ snd[p].f \in buffer
                                          \/ \A g \in buffer : snd[p].f.seq < g.seq
      BY DEF IInv, BufferTop, Wanted
    <2> QED BY <1>1, <1>2, <1>4, <1>5, <2>1 DEF GapAt
  <1>8. GapInv'
    BY <1>1, <1>3, <1>4, <1>5, <1>7, OtherSockets DEF SockType
  <1> QED BY <1>2, <1>6, <1>8 DEF IInv

\* The store's range: what is still to be had is in it, or the replay is short.
LEMMA FillGapPreserves ==
    ASSUME IInv, NEW s \in Socks, FillGap(s)
    PROVE  IInv'
  <1> DEFINE from == replay[s].from
             mem == replay[s].todo
             floor == IF mem = {} THEN MaxSeq + 1 ELSE Min(Seqs(mem))
             gap == IF from < floor - 1
                    THEN {f \in Lowest({g \in store : g.seq > from}, ReplayCap) : f.seq < floor}
                    ELSE {}
             pending == {f \in mem : f.seq > from}
             There == store \cup Queued(writeQ) \cup
                      {snd[p].f : p \in {q \in Senders : snd[q].at = "append"}}
  <1>1. /\ replay' = [replay EXCEPT ![s].todo = gap \cup pending]
        /\ short' = IF \E f \in There : from < f.seq /\ f.seq < floor /\ f \notin gap
                    THEN short \cup {s} ELSE short
        /\ sock[s] = "range" /\ sock' = [sock EXCEPT ![s] = "push"]
        /\ UNCHANGED <<life, seq, hw, store, writeQ, lost, expired, buffer, snd>>
        /\ UNCHANGED <<up, done, removed, cut, clients, bound, ackHW, queue, held, pull, events>>
    BY DEF FillGap, process, binding, storage, past, attached, device
  <1>2. /\ NumInv' /\ OldBelow' /\ BufferNow' /\ BufferTop'
        /\ \A p \in Senders : Wanted(p)' <=> Wanted(p)
    BY <1>1, SockStep
  <1>3. SockType /\ NumInv /\ NumType
    BY DEF IInv, NumInv
  <1>4. gap \cup pending \in SUBSET Frame
    BY <1>3 DEF SockType, NumType, Lowest
  <1>5. ASSUME NEW f \in Frame, \A g \in mem : f.seq < g.seq
        PROVE  f.seq < floor
    <2>1. CASE mem = {}
      BY <2>1, MaxSeqNat DEF Frame
    <2>2. CASE mem # {}
      <3>1. mem \subseteq Frame
        BY <1>3 DEF SockType
      <3>2. Seqs(mem) \in SUBSET Nat /\ Seqs(mem) # {} /\ \A n \in Seqs(mem) : f.seq < n
        BY <1>5, <2>2, <3>1 DEF Seqs, Frame
      <3>3. \E n \in Seqs(mem) : \A m \in Seqs(mem) : n <= m
        BY <3>2, LeastNat
      <3>4. Min(Seqs(mem)) \in Seqs(mem)
        BY <3>3 DEF Min
      <3> QED BY <2>2, <3>2, <3>4
    <2> QED BY <2>1, <2>2
  <1>6. /\ replay' \in [Socks -> [from : 0..MaxSeq, todo : SUBSET Frame]]
        /\ replay'[s].from = from /\ replay'[s].todo = gap \cup pending
        /\ \A t \in Socks \ {s} : replay'[t] = replay[t]
    <2> HIDE DEF gap, pending
    <2> QED BY <1>1, <1>4, ReplayTodo
  <1>7. sock' \in [Socks -> Stages] /\ sock'[s] = "push" /\ \A t \in Socks \ {s} : sock'[t] = sock[t]
    BY <1>1, <1>3 DEF SockType, Stages
  <1>8. /\ short' \subseteq Socks /\ (\A t \in short : t \in short')
        /\ s \notin short' => \A f \in There : from < f.seq /\ f.seq < floor => f \in gap
    BY <1>1, <1>3 DEF SockType
  <1>9. SockType'
    BY <1>1, <1>3, <1>6, <1>7, <1>8 DEF SockType
  <1>10. ASSUME NEW p \in Senders, Wanted(p), s \notin short', s \in clients \ done,
                snd[p].f.seq > from
         PROVE  Covered(s, p) \/ snd[p].f \in gap \cup pending
    <2>1. snd[p].f \in Frame /\ HasSent(p)
      BY <1>3, <1>10, SentIsFrame DEF Wanted
    <2>2. snd[p].f \in There
      <3>1. \/ snd[p].f \in store \/ snd[p].at = "append"
            \/ \E i \in 1..Len(writeQ) : snd[p].f = writeQ[i]
        BY <1>3, <1>10 DEF NumInv, Kept, Wanted
      <3> QED BY <1>3, <3>1 DEF Queued, ToSet, NumType
    <2>3. \/ Covered(s, p) \/ snd[p].f \in mem \/ \A g \in mem : snd[p].f.seq < g.seq
      BY <1>1, <1>10 DEF IInv, GapInv, GapAt
    <2>4. CASE snd[p].f \in mem
      BY <1>10, <2>4
    <2>5. CASE \A g \in mem : snd[p].f.seq < g.seq
      <3>1. snd[p].f.seq < floor
        BY <1>5, <2>1, <2>5
      <3>2. from < snd[p].f.seq
        BY <1>3, <1>10, <2>1, MaxSeqNat DEF SockType, Frame
      <3> HIDE DEF gap, pending, There, floor
      <3> QED BY <1>8, <1>10, <2>2, <3>1, <3>2
    <2> QED BY <2>3, <2>4, <2>5
  <1>11. s \in clients' \ done' => GapAt(s)'
    <2> HIDE DEF gap, pending, from
    <2>1. \A p \in Senders : Covered(s, p)' <=> Covered(s, p)
      BY <1>1 DEF Covered
    <2> QED BY <1>1, <1>2, <1>6, <1>7, <1>10, <2>1 DEF GapAt
  <1>12. GapInv'
    BY <1>1, <1>3, <1>6, <1>7, <1>8, <1>11, OtherSockets DEF SockType
  <1> QED BY <1>2, <1>9, <1>12 DEF IInv

LEMMA PushReplayPreserves ==
    ASSUME IInv, NEW s \in Socks, PushReplay(s)
    PROVE  IInv'
  <1> DEFINE todo == replay[s].todo
  <1>1. /\ sock[s] = "push"
        /\ UNCHANGED <<life, seq, hw, store, writeQ, lost, expired, buffer, snd>>
        /\ UNCHANGED <<up, done, removed, cut, clients, bound, ackHW, held, pull, events>>
    BY DEF PushReplay, process, binding, storage, past, attached, device
  <1>2. /\ NumInv' /\ OldBelow' /\ BufferNow' /\ BufferTop'
        /\ \A p \in Senders : Wanted(p)' <=> Wanted(p)
    BY <1>1, SockStep
  <1>3. SockType /\ todo \in SUBSET Frame
    BY DEF IInv, SockType
  <1>4. s \in clients \ done => GapAt(s)
    BY DEF IInv, GapInv
  <1>5. ASSUME NEW f \in todo, Fits(s), queue' = [queue EXCEPT ![s] = Append(@, f)],
               replay' = [replay EXCEPT ![s].todo = todo \ {f}], UNCHANGED <<sock, short>>
        PROVE  IInv'
    <2>1. f \in Frame /\ todo \ {f} \in SUBSET Frame
      BY <1>3
    <2> HIDE DEF todo
    <2>2. /\ queue' \in [Socks -> Seq(Frame)] /\ \A t \in Socks : Len(queue'[t]) <= QueueCap
          /\ Seqs(Queued(queue'[s])) = Seqs(Queued(queue[s])) \cup {f.seq}
          /\ \A t \in Socks \ {s} : queue'[t] = queue[t]
      BY <1>5, <2>1, QueueGrows
    <2>3. /\ replay' \in [Socks -> [from : 0..MaxSeq, todo : SUBSET Frame]]
          /\ replay'[s].from = replay[s].from /\ replay'[s].todo = todo \ {f}
          /\ \A t \in Socks \ {s} : replay'[t] = replay[t]
      BY <1>5, <2>1, ReplayTodo
    <2>4. SockType'
      BY <1>1, <1>3, <1>5, <2>2, <2>3 DEF SockType
    <2>5. \A p \in Senders : /\ Covered(s, p) => Covered(s, p)'
                             /\ snd[p].f = f => Covered(s, p)'
      BY <1>1, <2>2 DEF Covered
    <2>6. s \in clients' \ done' => GapAt(s)'
      BY <1>1, <1>2, <1>4, <1>5, <2>3, <2>5 DEF GapAt, todo
    <2>7. GapInv'
      BY <1>1, <1>3, <1>5, <2>2, <2>3, <2>6, OtherSockets DEF SockType
    <2> QED BY <1>2, <2>4, <2>7 DEF IInv
  <1>6. CASE /\ replay' = [replay EXCEPT ![s].todo = {}] /\ short' = short \cup {s}
             /\ sock' = [sock EXCEPT ![s] = "live"] /\ queue' = queue
    <2>1. /\ replay' \in [Socks -> [from : 0..MaxSeq, todo : SUBSET Frame]]
          /\ \A t \in Socks \ {s} : replay'[t] = replay[t]
      <3>1. {} \in SUBSET Frame
        OBVIOUS
      <3> QED BY <1>6, <3>1, ReplayTodo
    <2>2. sock' \in [Socks -> Stages] /\ sock'[s] = "live" /\ \A t \in Socks \ {s} : sock'[t] = sock[t]
      BY <1>3, <1>6 DEF SockType, Stages
    <2>3. SockType'
      BY <1>1, <1>3, <1>6, <2>1, <2>2 DEF SockType
    <2>4. GapAt(s)'
      BY <1>6, <2>2 DEF GapAt
    <2>5. GapInv'
      BY <1>1, <1>3, <1>6, <2>1, <2>2, <2>4, OtherSockets DEF SockType
    <2> QED BY <1>2, <2>3, <2>5 DEF IInv
  <1>7. CASE todo = {} /\ sock' = [sock EXCEPT ![s] = "live"] /\ UNCHANGED <<queue, replay, short>>
    <2>1. sock' \in [Socks -> Stages] /\ sock'[s] = "live" /\ \A t \in Socks \ {s} : sock'[t] = sock[t]
      BY <1>3, <1>7 DEF SockType, Stages
    <2>2. SockType'
      BY <1>1, <1>3, <1>7, <2>1 DEF SockType
    <2>3. \A p \in Senders : Covered(s, p)' <=> Covered(s, p)
      BY <1>1, <1>7 DEF Covered
    <2>4. s \in clients' \ done' => GapAt(s)'
      BY <1>1, <1>2, <1>4, <1>7, <2>1, <2>3 DEF GapAt
    <2>5. GapInv'
      BY <1>1, <1>3, <1>7, <2>1, <2>4, OtherSockets DEF SockType
    <2> QED BY <1>2, <2>2, <2>5 DEF IInv
  <1>8. Lowest(todo, 1) \subseteq todo
    BY DEF Lowest
  <1> HIDE DEF todo
  <1> QED BY <1>5, <1>6, <1>7, <1>8 DEF PushReplay, todo

\* What the device takes: it keeps what it has, and a frame that is wanted is
\* refused only where the device has its number.  (Its mark may have passed
\* numbers that expired, but never one that is wanted.)
LEMMA Taken ==
    ASSUME IInv, NEW d \in Devices, NEW fs \in SUBSET Frame
    PROVE  /\ Take(d, fs) \in SUBSET Frame
           /\ \A n \in Seqs(held[d]) : n \in Seqs(Take(d, fs))
           /\ \A p \in Senders, h \in fs :
                 Wanted(p) /\ h.seq = snd[p].f.seq => snd[p].f.seq \in Seqs(Take(d, fs))
  <1>1. SockType /\ NumInv /\ NumType /\ held[d] \subseteq Frame
    BY DEF IInv, NumInv, SockType
  <1>2. Take(d, fs) \in SUBSET Frame /\ \A n \in Seqs(held[d]) : n \in Seqs(Take(d, fs))
    BY <1>1 DEF Take, Seqs
  <1>3. ASSUME NEW p \in Senders, NEW h \in fs, Wanted(p), h.seq = snd[p].f.seq
        PROVE  h.seq \in Seqs(Take(d, fs))
    <2>1. CASE h.seq \in Seqs(held[d])
      BY <1>2, <2>1
    <2>2. CASE h.seq \notin Seqs(held[d]) /\ h.seq > Mark(d)
      BY <2>2 DEF Take, Seqs
    <2>3. CASE h.seq \notin Seqs(held[d]) /\ ~(h.seq > Mark(d))
      <3>1. h.seq \in 1..Mark(d)
        <4>1. h.seq \in Nat \ {0}
          BY MaxSeqNat DEF Frame
        <4>2. Mark(d) \in Nat
          <5>1. Mark(d) \in 0..MaxSeq
            BY MarkIs
          <5> QED BY <5>1, MaxSeqNat
        <4> QED BY <2>3, <4>1, <4>2
      <3>2. PICK e \in expired : e.seq = h.seq
        BY <2>3, <3>1, MarkIs DEF Seqs
      <3>3. e \in Frame /\ snd[p].f \in Frame /\ HasSent(p) /\ snd[p].f.life = life
            /\ snd[p].f \notin expired
        BY <1>1, <1>3, SentIsFrame DEF Wanted, NumType
      <3>4. e.life <= life /\ ~(e.life < life)
        BY <1>3, <3>2, <3>3, MaxSeqNat DEF IInv, OldBelow, Frame
      <3>5. e.life = life
        BY <1>1, <3>3, <3>4, MaxSeqNat DEF NumType, Frame
      <3> QED BY <1>3, <3>2, <3>3, <3>5, FrameIs
    <2> QED BY <2>1, <2>2, <2>3
  <1> QED BY <1>2, <1>3

LEMMA DeliverPreserves ==
    ASSUME IInv, NEW s \in Socks, Deliver(s)
    PROVE  IInv'
  <1> DEFINE d == DeviceOf[s]
             h == Head(queue[s])
  <1>1. /\ queue[s] # <<>> /\ held' = [held EXCEPT ![d] = Take(d, {h})]
        /\ queue' = [queue EXCEPT ![s] = Tail(queue[s])]
        /\ UNCHANGED <<life, seq, hw, store, writeQ, lost, expired, buffer, snd>>
        /\ UNCHANGED <<up, sock, done, removed, cut, clients, bound, ackHW, replay, short, pull, events>>
    BY DEF Deliver, process, binding, storage, past, conn, attached
  <1>2. /\ NumInv' /\ OldBelow' /\ BufferNow' /\ BufferTop'
        /\ \A p \in Senders : Wanted(p)' <=> Wanted(p)
    BY <1>1, SockStep
  <1>3. SockType /\ d \in Devices /\ queue[s] \in Seq(Frame) /\ Len(queue[s]) <= QueueCap
    BY StreamAssumption DEF IInv, SockType
  <1>4. /\ Tail(queue[s]) \in Seq(Frame) /\ Len(Tail(queue[s])) = Len(queue[s]) - 1
        /\ Len(queue[s]) \in Nat \ {0} /\ h = queue[s][1] /\ h \in Frame
        /\ \A i \in 1..Len(Tail(queue[s])) : Tail(queue[s])[i] = queue[s][i + 1]
    BY <1>1, <1>3
  <1> HIDE DEF h, d
  <1>5. /\ Take(d, {h}) \in SUBSET Frame
        /\ \A n \in Seqs(held[d]) : n \in Seqs(Take(d, {h}))
        /\ \A p \in Senders :
                 Wanted(p) /\ h.seq = snd[p].f.seq => snd[p].f.seq \in Seqs(Take(d, {h}))
    BY <1>3, <1>4, Taken
  <1>6. /\ held' \in [Devices -> SUBSET Frame] /\ held'[d] = Take(d, {h})
        /\ \A c \in Devices : \A n \in Seqs(held[c]) : n \in Seqs(held'[c])
    BY <1>1, <1>3, <1>5 DEF SockType
  <1>7. /\ queue' \in [Socks -> Seq(Frame)] /\ queue'[s] = Tail(queue[s])
        /\ \A t \in Socks \ {s} : queue'[t] = queue[t]
    BY <1>1, <1>3, <1>4 DEF SockType
  <1>8. \A t \in Socks : Len(queue'[t]) <= QueueCap
    <2>1. Len(queue'[s]) <= QueueCap
      BY <1>3, <1>4, <1>7, StreamAssumption
    <2> QED BY <1>3, <1>7, <2>1 DEF SockType
  <1>9. SockType'
    BY <1>1, <1>3, <1>6, <1>7, <1>8 DEF SockType
  <1>10. \A n \in Seqs(Queued(queue[s])) : n = h.seq \/ n \in Seqs(Queued(queue'[s]))
    <2> SUFFICES ASSUME NEW i \in 1..Len(queue[s]), i # 1
                 PROVE  queue[s][i].seq \in Seqs(Queued(queue'[s]))
      BY <1>3, <1>4 DEF Seqs, Queued, ToSet
    <2>1. i - 1 \in 1..Len(Tail(queue[s])) /\ (i - 1) + 1 = i
      BY <1>4
    <2>2. queue'[s][i - 1] = queue[s][i] /\ i - 1 \in DOMAIN queue'[s]
      BY <1>4, <1>7, <2>1
    <2> QED BY <2>2 DEF Seqs, Queued, ToSet
  <1>11. ASSUME NEW t \in Socks, NEW p \in Senders, Wanted(p), Covered(t, p)
         PROVE  Covered(t, p)'
    <2>1. DeviceOf[t] \in Devices /\ d = DeviceOf[s]
      BY StreamAssumption DEF d
    <2>2. CASE snd[p].f.seq \in Seqs(held[DeviceOf[t]]) \/ t \in snd[p].to
      BY <1>1, <1>6, <2>1, <2>2 DEF Covered
    <2>3. CASE snd[p].f.seq \in Seqs(Queued(queue[t])) /\ t # s
      BY <1>1, <1>7, <2>3 DEF Covered
    <2>4. CASE snd[p].f.seq \in Seqs(Queued(queue[t])) /\ t = s
      <3>1. CASE snd[p].f.seq = h.seq
        BY <1>1, <1>5, <1>6, <1>11, <2>1, <2>4, <3>1 DEF Covered
      <3>2. CASE snd[p].f.seq # h.seq
        BY <1>1, <1>10, <2>4, <3>2 DEF Covered
      <3> QED BY <3>1, <3>2
    <2> QED BY <1>11, <2>2, <2>3, <2>4 DEF Covered
  <1>12. GapInv'
    BY <1>1, <1>2, <1>3, <1>11, GapFrame DEF SockType
  <1> QED BY <1>2, <1>9, <1>12 DEF IInv

LEMMA PullPreserves ==
    ASSUME IInv, NEW d \in Devices, Pull(d)
    PROVE  IInv'
  <1> DEFINE page == Lowest({f \in store : f.seq > pull[d]}, PageCap)
  <1>1. /\ held' = [held EXCEPT ![d] = Take(d, page)]
        /\ pull' = [pull EXCEPT ![d] = IF Cardinality(page) = PageCap
                                       THEN Max(Seqs(page)) ELSE NoPull]
        /\ UNCHANGED <<life, seq, hw, store, writeQ, lost, expired, buffer, snd>>
        /\ UNCHANGED <<up, sock, done, removed, cut, clients, bound, ackHW, queue, replay, short, events>>
    BY DEF Pull, process, binding, storage, past, conn, attached, outbound
  <1>2. /\ NumInv' /\ OldBelow' /\ BufferNow' /\ BufferTop'
        /\ \A p \in Senders : Wanted(p)' <=> Wanted(p)
    BY <1>1, SockStep
  <1>3. SockType /\ NumType
    BY DEF IInv, NumInv
  <1>4. page \in SUBSET Frame
    BY <1>3 DEF Lowest, NumType
  <1> HIDE DEF page
  <1>5. /\ Take(d, page) \in SUBSET Frame
        /\ \A n \in Seqs(held[d]) : n \in Seqs(Take(d, page))
    BY <1>4, Taken
  <1>6. /\ held' \in [Devices -> SUBSET Frame]
        /\ \A c \in Devices : \A n \in Seqs(held[c]) : n \in Seqs(held'[c])
    BY <1>1, <1>3, <1>5 DEF SockType
  <1>7. pull' \in [Devices -> 0..NoPull]
    <2>1. Cardinality(page) = PageCap => Max(Seqs(page)) \in 0..NoPull
      <3> SUFFICES ASSUME Cardinality(page) = PageCap PROVE Max(Seqs(page)) \in 0..NoPull
        OBVIOUS
      <3>1. page # {}
        BY FS_EmptySet, StreamAssumption
      <3>2. /\ Seqs(page) \in SUBSET Nat /\ Seqs(page) # {} /\ MaxSeq \in Nat
            /\ \A n \in Seqs(page) : n <= MaxSeq
        BY <1>4, <3>1, MaxSeqNat DEF Seqs, Frame
      <3>3. Max(Seqs(page)) \in Seqs(page)
        BY <3>2, GreatestNat
      <3> QED BY <3>2, <3>3 DEF NoPull
    <2>2. NoPull \in 0..NoPull
      BY MaxSeqNat DEF NoPull
    <2> QED BY <1>1, <1>3, <2>1, <2>2 DEF SockType
  <1>8. SockType'
    BY <1>1, <1>3, <1>6, <1>7 DEF SockType
  <1>9. \A t \in Socks, p \in Senders : Covered(t, p) => Covered(t, p)'
    BY <1>1, <1>6, StreamAssumption DEF Covered
  <1>10. GapInv'
    BY <1>1, <1>2, <1>3, <1>9, GapFrame DEF SockType
  <1> QED BY <1>2, <1>8, <1>10 DEF IInv

\* ackInbound cuts the buffer at the lowest ack, so what stays is its top.
LEMMA AckInboundPreserves ==
    ASSUME IInv, NEW s \in Socks, AckInbound(s)
    PROVE  IInv'
  <1> DEFINE ack == Mark(DeviceOf[s])
             acks == [ackHW EXCEPT ![s] = Max({ackHW[s], ack})]
             floor == Min({acks[c] : c \in clients})
  <1>1. /\ s \in clients /\ ackHW' = acks /\ buffer' = {f \in buffer : f.seq > floor}
        /\ UNCHANGED <<life, seq, hw, store, writeQ, lost, expired, snd>>
        /\ UNCHANGED <<up, sock, done, removed, cut, clients, bound, queue, replay, short, held, pull, events>>
    BY DEF AckInbound, process, storage, past, conn, outbound, device
  <1>2. SockType /\ NumInv
    BY DEF IInv
  <1>3. acks \in [Socks -> 0..MaxSeq]
    <2>1. ack \in 0..MaxSeq
      BY StreamAssumption, MarkIs
    <2> HIDE DEF ack
    <2>2. Max({ackHW[s], ack}) \in 0..MaxSeq
      BY <1>2, <2>1, MaxOfTwo DEF SockType
    <2> QED BY <1>2, <2>2 DEF SockType
  <1>4. floor \in Nat
    <2> DEFINE A == {acks[c] : c \in clients}
    <2>1. A \in SUBSET Nat /\ A # {}
      <3> HIDE DEF acks
      <3> QED BY <1>1, <1>2, <1>3, MaxSeqNat DEF SockType
    <2> HIDE DEF A
    <2>2. \E n \in A : \A m \in A : n <= m
      BY <2>1, LeastNat
    <2>3. Min(A) \in A
      BY <2>2 DEF Min
    <2> QED BY <2>1, <2>3 DEF A
  <1> HIDE DEF acks, floor
  <1>5. NumInv' /\ \A p \in Senders : (HasSent(p)' <=> HasSent(p)) /\ (Wanted(p)' <=> Wanted(p))
    <2>1. /\ snd' \in [Senders -> Snd]
          /\ \A p \in Senders : snd'[p].at = snd[p].at /\ snd'[p].f = snd[p].f
      BY <1>1, SndSame
    <2>2. \A p \in Senders : (HasSent(p)' <=> HasSent(p)) /\ (Wanted(p)' <=> Wanted(p))
      BY <1>1 DEF HasSent, Wanted
    <2> QED BY <1>1, <1>2, <2>1, <2>2, NumSame
  <1>6. OldBelow'
    BY <1>1, <1>5 DEF IInv, OldBelow
  <1>7. BufferNow'
    <2>1. buffer' \subseteq buffer /\ IsFiniteSet(buffer)
      BY <1>1 DEF IInv, BufferNow
    <2>2. IsFiniteSet(buffer')
      BY <2>1, FS_Subset
    <2> QED BY <1>1, <2>1, <2>2 DEF IInv, BufferNow
  <1>8. BufferTop'
    <2> SUFFICES ASSUME NEW p \in Senders, HasSent(p), snd[p].f.life = life,
                        snd[p].f \notin buffer', NEW g \in buffer'
                 PROVE  snd[p].f.seq < g.seq
      BY <1>1, <1>5 DEF BufferTop
    <2>1. g \in buffer /\ g \in Frame /\ g.seq > floor /\ g.seq \in Nat
      BY <1>1, <1>2 DEF SockType, Frame
    <2>2. CASE snd[p].f \in buffer
      <3>1. ~(snd[p].f.seq > floor) /\ snd[p].f.seq \in Nat
        BY <1>1, <1>2, <2>2, SentIsFrame DEF Frame
      <3> QED BY <1>4, <2>1, <3>1
    <2>3. CASE snd[p].f \notin buffer
      BY <2>1, <2>3 DEF IInv, BufferTop
    <2> QED BY <2>2, <2>3
  <1>9. SockType'
    BY <1>1, <1>2, <1>3 DEF SockType
  <1>10. \A t \in Socks, p \in Senders : Covered(t, p)' <=> Covered(t, p)
    BY <1>1 DEF Covered
  <1>11. GapInv'
    BY <1>1, <1>2, <1>5, <1>10, GapFrame DEF SockType
  <1> QED BY <1>5, <1>6, <1>7, <1>8, <1>9, <1>11 DEF IInv

LEMMA NextPreserves == IInv /\ [Next]_vars => IInv'
  <1> SUFFICES ASSUME IInv, [Next]_vars PROVE IInv'
    OBVIOUS
  <1>1. ASSUME NEW p \in Senders, Send(p) \/ AppendThen(p) PROVE IInv'
    BY <1>1, SendPreserves, AppendPreserves
  <1>2. ASSUME NEW p \in Senders, NEW s \in Socks, Enqueue(p, s) \/ Stall(p, s) PROVE IInv'
    BY <1>2, EnqueuePreserves, StallPreserves
  <1>3. CASE Write \/ TrimOlderThan
    BY <1>3, WritePreserves, TrimPreserves
  <1>4. ASSUME NEW s \in Socks, Connect(s) \/ Cut(s) \/ Notice(s) \/ RemoveClient(s) \/ Forget(s)
        PROVE  IInv'
    BY <1>4, ConnectPreserves, CutPreserves, NoticePreserves, RemoveClientPreserves,
       ForgetPreserves
  <1>5. ASSUME NEW s \in Socks, Hello(s) \/ Attach(s) \/ Bind(s) \/ Snap(s) \/ FillGap(s)
        PROVE  IInv'
    BY <1>5, HelloPreserves, AttachPreserves, BindPreserves, SnapPreserves, FillGapPreserves
  <1>6. ASSUME NEW s \in Socks, PushReplay(s) \/ Deliver(s) \/ AckInbound(s) PROVE IInv'
    BY <1>6, PushReplayPreserves, DeliverPreserves, AckInboundPreserves
  <1>7. ASSUME NEW d \in Devices, Pull(d) PROVE IInv'
    BY <1>7, PullPreserves
  <1>8. CASE HubClose \/ Restart
    BY <1>8, HubClosePreserves, RestartPreserves
  <1>9. CASE UNCHANGED vars
    <2>1. UNCHANGED <<life, seq, hw, store, writeQ, lost, expired, buffer, snd>>
      BY <1>9 DEF vars
    <2>2. /\ NumInv' /\ OldBelow' /\ BufferNow' /\ BufferTop'
          /\ \A p \in Senders : Wanted(p)' <=> Wanted(p)
      BY <2>1, SockStep
    <2>3. /\ clients' = clients /\ done' = done /\ sock' = sock /\ replay' = replay
          /\ short' = short /\ held' = held /\ queue' = queue /\ snd' = snd
      BY <1>9 DEF vars
    <2>4. \A t \in Socks, p \in Senders : Covered(t, p)' <=> Covered(t, p)
      BY <2>3 DEF Covered
    <2>5. GapInv'
      BY <2>2, <2>3, <2>4, GapFrame DEF IInv, SockType
    <2>6. SockType'
      BY <1>9 DEF vars, IInv, SockType
    <2> QED BY <2>2, <2>5, <2>6 DEF IInv
  <1> QED BY <1>1, <1>2, <1>3, <1>4, <1>5, <1>6, <1>7, <1>8, <1>9 DEF Next

------------------------------------------------------------------------------
(* The theorems.                                                           *)

\* Every step of a sender, of the writer, of a socket and of the process keeps
\* the inductive invariant.
THEOREM StreamInductive == Spec => []IInv
  BY InitIInv, NextPreserves, PTL DEF Spec

\* Numbers, frames, queues and replays keep their types: the numbers never run
\* past the frames sent, and a socket's queue never past sendBuffer.
THEOREM StreamTypeOK == Spec => []TypeOK
  <1>1. IInv => TypeOK
    BY DEF IInv, NumInv, NumType, SockType, TypeOK, Snd, Stages
  <1> QED BY <1>1, StreamInductive, PTL

\* AppendThen, the writer and the drain at Hub.Close lose no frame of a process
\* that goes on: every frame that sendThen numbered can be had until its TTL.
THEOREM StreamRecoverable == Spec => []Recoverable
  <1>1. IInv => Recoverable
    <2> SUFFICES ASSUME IInv, NEW f \in Made
                 PROVE  f \in store \cup Queued(writeQ) \cup InHand \/ f \in lost \cup expired
      BY DEF Recoverable
    <2>1. PICK p \in Senders : f = snd[p].f /\ f # NoFrame
      BY DEF Made
    <2>2. NumType /\ HasSent(p)
      BY <2>1 DEF IInv, NumInv, SentPast
    <2>3. \/ f \in store \cup lost \cup expired \/ snd[p].at = "append"
          \/ \E i \in 1..Len(writeQ) : f = writeQ[i]
      BY <2>1, <2>2 DEF IInv, NumInv, Kept
    <2> QED BY <2>1, <2>2, <2>3 DEF InHand, Queued, ToSet, NumType
  <1> QED BY <1>1, StreamInductive, PTL

\* ensureBinding's number, taken from the store and the recorded high-water, is
\* never handed out twice unless the earlier frame was lost with its process.
THEOREM StreamSeqUnique == Spec => []SeqUnique
  <1>1. IInv => SeqUnique
    <2> SUFFICES ASSUME IInv, NEW f \in Made, NEW g \in Made, f.seq = g.seq, f.life < g.life
                 PROVE  f \in lost
      BY DEF SeqUnique
    <2>1. PICK p \in Senders : f = snd[p].f /\ f # NoFrame
      BY DEF Made
    <2>2. PICK q \in Senders : g = snd[q].f /\ g # NoFrame
      BY DEF Made
    <2>3. HasSent(p) /\ HasSent(q)
      BY <2>1, <2>2 DEF IInv, NumInv, SentPast
    <2> QED BY <2>1, <2>2, <2>3 DEF IInv, NumInv, Unique
  <1> QED BY <1>1, StreamInductive, PTL

\* replayTo and enqueue together leave no gap, whatever the buffer's depth, the
\* caps and the order of sends, acks, stores and trims around the resume.
THEOREM StreamNoGap == Spec => []NoGap
  <1>1. IInv => NoGap
    <2> SUFFICES ASSUME IInv, NEW s \in clients \ (done \cup short), sock[s] = "live",
                        NEW f \in Made \ (lost \cup expired),
                        f.life = life, ~(f.seq <= replay[s].from)
                 PROVE  \/ f.seq \in Seqs(held[DeviceOf[s]] \cup Queued(queue[s]))
                        \/ \E p \in Senders : snd[p].f = f /\ s \in snd[p].to
      BY DEF NoGap
    <2>1. PICK p \in Senders : f = snd[p].f /\ f # NoFrame
      BY DEF Made
    <2>2. HasSent(p) /\ Wanted(p) /\ GapAt(s) /\ f \in Frame
      BY <2>1, SentIsFrame DEF IInv, NumInv, SentPast, Wanted, GapInv
    <2>3. f.seq > replay[s].from
      <3>1. f.seq \in Nat /\ replay[s].from \in Nat
        BY <2>2, MaxSeqNat DEF IInv, SockType, Frame
      <3> QED BY <3>1
    <2>4. Covered(s, p)
      BY <2>1, <2>2, <2>3 DEF GapAt
    <2> QED BY <2>1, <2>4 DEF Covered, Seqs
  <1> QED BY <1>1, StreamInductive, PTL

==============================================================================
