------------------------------ MODULE AppStream ------------------------------
(***************************************************************************)
(* The outbound frame stream of one app conversation: convBinding and      *)
(* wsClient of internal/app/hub.go and the durable frameStore behind them  *)
(* (framestore.go).  Several goroutines send frames; each frame is         *)
(* numbered and buffered under b.mu, then stored by an asynchronous writer *)
(* and fanned out to the sockets attached at that moment.  A device holds  *)
(* what reached it, reconnects with its contiguous mark, is replayed what  *)
(* it misses and pulls the rest over HTTP.  The process restarts or        *)
(* crashes; the store survives.                                            *)
(***************************************************************************)
EXTENDS Naturals, Sequences, FiniteSets, SequencesExt, FiniteSetsExt

CONSTANTS Senders,    \* goroutines that each send one frame
          Socks,      \* wsClients; a name is used again once it is gone
          Devices,
          DeviceOf,   \* [Socks -> Devices]
          QueueCap,   \* sendBuffer
          Depth,      \* the replay buffer's depth
          WriteCap,   \* frameWriteQueue
          ReplayCap,  \* maxResumeStoreReplay
          PageCap,    \* maxReplayPage
          Events,     \* the kinds of outside events that happen
          MaxEvents,  \* bound: how many of them, in all
          MaxEnds     \* bound: how often the process ends

ASSUME StreamAssumption ==
    /\ IsFiniteSet(Senders) /\ IsFiniteSet(Socks)
    /\ DeviceOf \in [Socks -> Devices]
    /\ {QueueCap, Depth, ReplayCap, PageCap} \subseteq Nat \ {0}
    /\ {WriteCap, MaxEvents, MaxEnds} \subseteq Nat
    /\ Events \subseteq {"drop", "stall", "trim"}

VARIABLES
    up,        \* "up", or "closing" between Hub.Close and the exit
    life,      \* which run of the process this is
    seq,       \* b.seq
    buffer,    \* b.buffer
    writeQ,    \* frameStore.writeCh
    store,     \* the rows of app_frames
    hw,        \* the conversation's row of app_conv_seq
    snd,       \* each sender: where it is, its frame, its targets
    sock,      \* each socket: how far its hello has come
    done,      \* sockets whose close has begun (wsClient.done)
    removed,   \* sockets whose close has run removeClient
    cut,       \* sockets not closed yet that the device no longer hears
    clients,   \* b.clients
    bound,     \* sockets whose convByID names the conversation
    ackHW,     \* b.clientStates[c].ackHW
    queue,     \* each socket's send channel
    replay,    \* replayTo of each socket: from where, what it still pushes
    short,     \* sockets whose replay left frames to the pull
    held,      \* the frames each device holds
    pull,      \* from where a device pulls its next page
    lost,      \* frames that were in flight when the process ended
    expired,   \* frames the store's TTL removed
    events

vars == <<up, life, seq, buffer, writeQ, store, hw, snd, sock, done, removed,
          cut, clients, bound, ackHW, queue, replay, short, held, pull, lost, expired, events>>
process == <<up, life>>
binding == <<seq, buffer>>
storage == <<writeQ, store, hw>>
conn == <<sock, done, removed, cut>>
attached == <<clients, bound, ackHW>>
outbound == <<queue, replay, short>>
device == <<held, pull>>
past == <<lost, expired>>

MaxSeq == Cardinality(Senders)
Frame == [seq : 1..MaxSeq, life : 0..MaxEnds]
NoFrame == [seq |-> 0, life |-> 0]
NoPull == MaxSeq + 1

Seqs(fs) == {f.seq : f \in fs}
Queued(q) == ToSet(q)

\* The n frames of fs with the lowest sequence numbers.
Lowest(fs, n) == {f \in fs : Cardinality({g \in fs : g.seq < f.seq}) < n}

NoReplay == [from |-> 0, todo |-> {}]

TypeOK ==
    /\ up \in {"up", "closing"} /\ life \in 0..MaxEnds
    /\ seq \in 0..MaxSeq /\ hw \in 0..MaxSeq
    /\ buffer \subseteq Frame /\ store \subseteq Frame
    /\ writeQ \in Seq(Frame)
    /\ snd \in [Senders -> [at : {"idle", "append", "push"},
                            f : Frame \cup {NoFrame}, to : SUBSET Socks]]
    /\ sock \in [Socks -> {"new", "hello", "attach", "bind", "snap",
                           "range", "push", "live"}]
    /\ done \subseteq Socks /\ removed \subseteq Socks /\ cut \subseteq Socks
    /\ clients \subseteq Socks /\ bound \subseteq Socks
    /\ ackHW \in [Socks -> 0..MaxSeq]
    /\ queue \in [Socks -> Seq(Frame)]
    /\ \A s \in Socks : Len(queue[s]) <= QueueCap
    /\ replay \in [Socks -> [from : 0..MaxSeq, todo : SUBSET Frame]]
    /\ short \subseteq Socks
    /\ held \in [Devices -> SUBSET Frame]
    /\ pull \in [Devices -> 0..NoPull]
    /\ lost \subseteq Frame /\ expired \subseteq Frame
    /\ events \in 0..MaxEvents

Init ==
    /\ up = "up" /\ life = 0 /\ seq = 0 /\ hw = 0
    /\ buffer = {} /\ store = {} /\ writeQ = <<>>
    /\ snd = [p \in Senders |-> [at |-> "idle", f |-> NoFrame, to |-> {}]]
    /\ sock = [s \in Socks |-> "new"]
    /\ done = {} /\ removed = {} /\ cut = {} /\ clients = {} /\ bound = {} /\ short = {}
    /\ ackHW = [s \in Socks |-> 0]
    /\ queue = [s \in Socks |-> <<>>]
    /\ replay = [s \in Socks |-> NoReplay]
    /\ held = [d \in Devices |-> {}]
    /\ pull = [d \in Devices |-> NoPull]
    /\ lost = {} /\ expired = {} /\ events = 0

Event(kind) ==
    /\ kind \in Events /\ events < MaxEvents
    /\ events' = events + 1

------------------------------------------------------------------------------
\* trimBufferLocked.  (The buffer's TTL drops the same oldest frames.)
TrimBuffer(fs) ==
    IF Cardinality(fs) > Depth
    THEN fs \ Lowest(fs, Cardinality(fs) - Depth) ELSE fs

\* sendThen under b.mu: the number, the buffer, the targets.
Send(p) ==
    LET f == [seq |-> seq + 1, life |-> life] IN
    /\ snd[p].at = "idle"
    /\ seq' = seq + 1
    /\ buffer' = TrimBuffer(buffer \cup {f})
    /\ snd' = [snd EXCEPT ![p] = [at |-> "append", f |-> f, to |-> clients]]
    /\ UNCHANGED <<process, storage, conn, attached, outbound, device, past, events>>

\* Mutation: a full write queue drops the frame.
AppendOrDrop(p) ==
    /\ snd[p].at = "append"
    /\ writeQ' = IF Len(writeQ) < WriteCap THEN Append(writeQ, snd[p].f)
                                           ELSE writeQ
    /\ snd' = [snd EXCEPT ![p].at = "push"]
    /\ UNCHANGED <<process, binding, store, hw, conn, attached, outbound, device, past, events>>

\* frameStore.insert: the latest wire of a number replaces an earlier one.
Insert(fs, f) == {g \in fs : g.seq # f.seq} \cup {f}

\* The inserts of the frames of q, one after the other.
InsertAll(fs, q) ==
    {g \in fs : g.seq \notin Seqs(Queued(q))} \cup
    {q[i] : i \in {j \in DOMAIN q : \A k \in DOMAIN q : k > j => q[k].seq # q[j].seq}}

\* AppendThen: queued for the writer, or written in line when the queue is
\* full (which fails once the database is closed).
AppendThen(p) ==
    /\ snd[p].at = "append"
    /\ \/ /\ Len(writeQ) < WriteCap
          /\ writeQ' = Append(writeQ, snd[p].f)
          /\ UNCHANGED <<store, lost>>
       \/ /\ Len(writeQ) >= WriteCap
          /\ IF up = "up" THEN store' = Insert(store, snd[p].f) /\ UNCHANGED lost
                          ELSE lost' = lost \cup {snd[p].f} /\ UNCHANGED store
          /\ UNCHANGED writeQ
    /\ snd' = [snd EXCEPT ![p].at = "push"]
    /\ UNCHANGED <<process, binding, hw, conn, attached, outbound, device, expired, events>>

Fits(s) == s \notin done /\ Len(queue[s]) < QueueCap

\* close of the sockets S: closes their done channel; what their queues hold is
\* never written.  (removeClient, which close goes on to run, is a step of its own.)
Close(S) ==
    /\ done' = done \cup S /\ cut' = cut \ S
    /\ queue' = [s \in Socks |-> IF s \in S THEN <<>> ELSE queue[s]]

\* Mutation: a full socket queue drops a live frame.
EnqueueOrDrop(p, s) ==
    /\ snd[p].at = "push" /\ s \in snd[p].to
    /\ queue' = IF Fits(s) THEN [queue EXCEPT ![s] = Append(@, snd[p].f)]
                           ELSE queue
    /\ snd' = [snd EXCEPT ![p].to = @ \ {s}]
    /\ UNCHANGED <<process, binding, storage, conn, attached, replay, short, device, past, events>>

\* enqueue of a live frame: there is room, or the socket has closed; with a full
\* queue the sender stays where it is.
Enqueue(p, s) ==
    /\ snd[p].at = "push" /\ s \in snd[p].to
    /\ \/ Fits(s) /\ queue' = [queue EXCEPT ![s] = Append(@, snd[p].f)]
       \/ s \in done /\ UNCHANGED queue
    /\ snd' = [snd EXCEPT ![p].to = @ \ {s}]
    /\ UNCHANGED <<process, binding, storage, conn, attached, replay, short, device, past, events>>

\* enqueue gives up on a queue that stayed full and closes the socket.
Stall(p, s) ==
    /\ snd[p].at = "push" /\ s \in snd[p].to \ done
    /\ Len(queue[s]) >= QueueCap
    /\ Event("stall")
    /\ Close({s})
    /\ snd' = [snd EXCEPT ![p].to = @ \ {s}]
    /\ UNCHANGED <<process, binding, storage, sock, removed, attached,
                   replay, short, device, past>>

\* The store's writer goroutine.
Write ==
    /\ up = "up" /\ writeQ # <<>>
    /\ store' = Insert(store, Head(writeQ))
    /\ writeQ' = Tail(writeQ)
    /\ UNCHANGED <<process, binding, hw, snd, conn, attached, outbound, device, past, events>>

\* Mutation: the trim does not record the high-water.
TrimForgetful ==
    /\ up = "up" /\ Event("trim")
    /\ \E n \in Seqs(store) :
          LET old == {f \in store : f.seq <= n} IN
          store' = store \ old /\ expired' = expired \cup old
    /\ UNCHANGED <<process, binding, writeQ, hw, snd, conn, attached, outbound, device, lost>>

\* TrimOlderThan: the high-water is recorded before the old frames go.
TrimOlderThan ==
    /\ up = "up" /\ Event("trim")
    /\ \E n \in Seqs(store) :
          LET old == {f \in store : f.seq <= n} IN
          store' = store \ old /\ expired' = expired \cup old
    /\ hw' = Max(Seqs(store) \cup {hw})
    /\ UNCHANGED <<process, binding, writeQ, snd, conn, attached, outbound, device, lost>>

------------------------------------------------------------------------------
\* The device's contiguous mark: it holds, or was told it can no longer get,
\* every frame up to here.
Mark(d) ==
    Max({n \in 0..MaxSeq : 1..n \subseteq Seqs(held[d] \cup expired)})

\* The device takes a frame unless it has one with that number.
Take(d, fs) ==
    held[d] \cup {f \in fs : f.seq > Mark(d) /\ f.seq \notin Seqs(held[d])}

Others(s) == {t \in Socks \ {s} : DeviceOf[t] = DeviceOf[s] /\ sock[t] # "new"}

\* ServeWS: the device, which hears none of its sockets, connects; the hub
\* evicts those it still has for it.
Connect(s) ==
    /\ up = "up" /\ sock[s] = "new"
    /\ Others(s) \subseteq done \cup cut
    /\ sock' = [sock EXCEPT ![s] = "hello"]
    /\ Close(Others(s))
    /\ UNCHANGED <<process, binding, storage, snd, removed, attached,
                   replay, short, device, past, events>>

\* The device's network goes; the hub has not noticed yet.
Cut(s) ==
    /\ sock[s] # "new" /\ s \notin cut \cup done
    /\ Event("drop")
    /\ cut' = cut \cup {s}
    /\ UNCHANGED <<process, binding, storage, snd, sock, done, removed, attached,
                   outbound, device, past>>

\* The hub notices: readPump's deferred close.
Notice(s) ==
    /\ s \in cut \ done /\ sock[s] \in {"hello", "live"}
    /\ Close({s})
    /\ UNCHANGED <<process, binding, storage, snd, sock, removed, attached,
                   replay, short, device, past, events>>

\* close's removeClient: detaches the socket from what its convByID names.
RemoveClient(s) ==
    /\ s \in done \ removed
    /\ removed' = removed \cup {s}
    /\ clients' = IF s \in bound THEN clients \ {s} ELSE clients
    /\ ackHW' = IF s \in bound THEN [ackHW EXCEPT ![s] = 0] ELSE ackHW
    /\ UNCHANGED <<process, binding, storage, snd, sock, done, cut, bound,
                   outbound, device, past, events>>

\* The pumps of a removed socket have returned and nothing refers to it.
Forget(s) ==
    /\ s \in removed \ clients /\ sock[s] \in {"hello", "live"}
    /\ \A p \in Senders : s \notin snd[p].to
    /\ sock' = [sock EXCEPT ![s] = "new"]
    /\ done' = done \ {s} /\ removed' = removed \ {s} /\ cut' = cut \ {s}
    /\ bound' = bound \ {s} /\ short' = short \ {s}
    /\ ackHW' = [ackHW EXCEPT ![s] = 0]
    /\ queue' = [queue EXCEPT ![s] = <<>>]
    /\ replay' = [replay EXCEPT ![s] = NoReplay]
    /\ UNCHANGED <<process, binding, storage, snd, clients, device, past, events>>

\* dispatchInbound of the hello, up to resumeConversations: other sockets of
\* the device are evicted again, the roster goes out and the device starts to
\* pull what it lacks.  The conversation is to be replayed or not.
Hello(s) ==
    /\ sock[s] = "hello" /\ s \notin done
    /\ sock' = [sock EXCEPT ![s] = "attach"]
    /\ Close(Others(s))
    /\ pull' = [pull EXCEPT ![DeviceOf[s]] = Mark(DeviceOf[s])]
    /\ replay' = [replay EXCEPT ![s].from = Mark(DeviceOf[s])]
    /\ short' \in {short, short \cup {s}}
    /\ UNCHANGED <<process, binding, storage, snd, removed, attached,
                   held, past, events>>

\* attach under b.mu.
Attach(s) ==
    /\ sock[s] = "attach"
    /\ clients' = clients \cup {s}
    /\ sock' = [sock EXCEPT ![s] = "bind"]
    /\ UNCHANGED <<process, binding, storage, snd, done, removed, cut, bound,
                   ackHW, outbound, device, past, events>>

\* attach under c.mu, then seedClientAck: from the resume point, or from the
\* current number for a conversation that was not named (attachUnresumed).
\* Neither that one nor a named but archived one is replayed.
Bind(s) ==
    /\ sock[s] = "bind"
    /\ bound' = bound \cup {s}
    /\ \E from \in {replay[s].from} \cup {seq : t \in short \cap {s}} :
          ackHW' = IF s \in clients THEN [ackHW EXCEPT ![s] = Max({@, from})]
                                    ELSE ackHW
    /\ sock' = [sock EXCEPT ![s] = IF s \in short THEN "live" ELSE "snap"]
    /\ UNCHANGED <<process, binding, storage, snd, done, removed, cut, clients,
                   outbound, device, past, events>>

\* replayTo under b.mu: what the buffer has above the resume point.
Snap(s) ==
    /\ sock[s] = "snap"
    /\ replay' = [replay EXCEPT ![s].todo = buffer]
    /\ sock' = [sock EXCEPT ![s] = "range"]
    /\ UNCHANGED <<process, binding, storage, snd, done, removed, cut, attached,
                   queue, short, device, past, events>>

\* replayTo outside b.mu: the store fills the gap below the buffer, up to a
\* number of frames.  What is sent, still to be had and in neither makes the
\* replay short.
FillGap(s) ==
    LET from == replay[s].from
        mem == replay[s].todo
        floor == IF mem = {} THEN MaxSeq + 1 ELSE Min(Seqs(mem))
        gap == IF from < floor - 1
               THEN {f \in Lowest({g \in store : g.seq > from}, ReplayCap) :
                        f.seq < floor}
               ELSE {}
        pending == {f \in mem : f.seq > from}
    IN
    /\ sock[s] = "range" /\ up = "up"
    /\ replay' = [replay EXCEPT ![s].todo = gap \cup pending]
    /\ short' = IF \E f \in store \cup Queued(writeQ) \cup
                           {snd[p].f : p \in {q \in Senders :
                                                snd[q].at = "append"}} :
                        from < f.seq /\ f.seq < floor /\ f \notin gap
                 THEN short \cup {s} ELSE short
    /\ sock' = [sock EXCEPT ![s] = "push"]
    /\ UNCHANGED <<process, binding, storage, snd, done, removed, cut, attached,
                   queue, device, past, events>>

\* enqueueReplay of the next frame, lowest number first: pushed, or the replay
\* ends short.
PushReplay(s) ==
    LET todo == replay[s].todo IN
    /\ sock[s] = "push"
    /\ \/ /\ Fits(s)
          /\ \E f \in Lowest(todo, 1) :
                /\ queue' = [queue EXCEPT ![s] = Append(@, f)]
                /\ replay' = [replay EXCEPT ![s].todo = todo \ {f}]
          /\ UNCHANGED <<sock, short>>
       \/ /\ todo # {} /\ ~Fits(s)
          /\ replay' = [replay EXCEPT ![s].todo = {}]
          /\ short' = short \cup {s}
          /\ sock' = [sock EXCEPT ![s] = "live"]
          /\ UNCHANGED queue
       \/ /\ todo = {}
          /\ sock' = [sock EXCEPT ![s] = "live"]
          /\ UNCHANGED <<queue, replay, short>>
    /\ UNCHANGED <<process, binding, storage, snd, done, removed, cut, attached,
                   device, past, events>>

\* writePump, and the device at the other end.
Deliver(s) ==
    LET d == DeviceOf[s] IN
    /\ queue[s] # <<>> /\ s \notin done \cup cut
    /\ held' = [held EXCEPT ![d] = Take(d, {Head(queue[s])})]
    /\ queue' = [queue EXCEPT ![s] = Tail(@)]
    /\ UNCHANGED <<process, binding, storage, snd, conn, attached, replay, short,
                   pull, past, events>>

\* ServeReplay: one page; a full page means there is more.
Pull(d) ==
    LET page == Lowest({f \in store : f.seq > pull[d]}, PageCap) IN
    /\ up = "up" /\ pull[d] # NoPull
    /\ held' = [held EXCEPT ![d] = Take(d, page)]
    /\ pull' = [pull EXCEPT ![d] = IF Cardinality(page) = PageCap
                                   THEN Max(Seqs(page)) ELSE NoPull]
    /\ UNCHANGED <<process, binding, storage, snd, conn, attached, outbound, past,
                   events>>

\* ackInbound: a frame of the device carries its mark.
AckInbound(s) ==
    LET ack == Mark(DeviceOf[s])
        acks == [ackHW EXCEPT ![s] = Max({@, ack})]
        floor == Min({acks[c] : c \in clients})
    IN
    /\ sock[s] = "live" /\ s \in clients \ (done \cup cut) /\ ack > 0
    /\ ackHW' = acks
    /\ buffer' = {f \in buffer : f.seq > floor}
    /\ UNCHANGED <<process, seq, storage, snd, conn, clients, bound, outbound,
                   device, past, events>>

------------------------------------------------------------------------------
\* Hub.Close: the sockets close, the writer drains its queue, the database
\* closes.  Senders may still be running.
HubClose ==
    /\ up = "up" /\ life < MaxEnds
    /\ up' = "closing"
    /\ Close({s \in Socks : sock[s] # "new"})
    /\ store' = InsertAll(store, writeQ)
    /\ writeQ' = <<>>
    /\ UNCHANGED <<life, binding, hw, snd, sock, removed, attached, replay,
                   short, device, past, events>>

InHand == {snd[p].f : p \in {q \in Senders : snd[q].at = "append"}}

\* The process ends, by exit after HubClose or by a crash, and the next one restores the
\* binding: ensureBinding numbers on from MaxSeq of the store.
Restart ==
    /\ life < MaxEnds
    /\ up' = "up" /\ life' = life + 1
    /\ seq' = Max(Seqs(store) \cup {hw}) /\ buffer' = {}
    /\ writeQ' = <<>>
    /\ lost' = lost \cup Queued(writeQ) \cup InHand
    /\ snd' = [p \in Senders |-> IF snd[p].at = "idle" THEN snd[p]
                                ELSE [at |-> "push", f |-> snd[p].f, to |-> {}]]
    /\ sock' = [s \in Socks |-> "new"]
    /\ done' = {} /\ removed' = {} /\ cut' = {} /\ clients' = {} /\ bound' = {}
    /\ ackHW' = [s \in Socks |-> 0]
    /\ queue' = [s \in Socks |-> <<>>]
    /\ replay' = [s \in Socks |-> NoReplay]
    /\ short' = {}
    /\ pull' = [d \in Devices |-> NoPull]
    /\ UNCHANGED <<store, hw, held, expired, events>>

------------------------------------------------------------------------------
Next ==
    \/ \E p \in Senders : \/ Send(p) \/ AppendThen(p)
                          \/ \E s \in Socks : Enqueue(p, s) \/ Stall(p, s)
    \/ Write \/ TrimOlderThan
    \/ \E s \in Socks : \/ Connect(s) \/ Cut(s) \/ Notice(s) \/ RemoveClient(s)
                        \/ Forget(s) \/ Hello(s) \/ Attach(s) \/ Bind(s)
                        \/ Snap(s) \/ FillGap(s) \/ PushReplay(s) \/ Deliver(s)
                        \/ AckInbound(s)
    \/ \E d \in Devices : Pull(d)
    \/ HubClose \/ Restart

Spec == Init /\ [][Next]_vars

------------------------------------------------------------------------------
Made == {snd[p].f : p \in Senders} \ {NoFrame}

\* Every frame that was numbered can still be had, until its TTL: it is in the
\* store, on the way there, or was on the way when the process ended.
Recoverable ==
    \A f \in Made : \/ f \in store \cup Queued(writeQ) \cup InHand
                     \/ f \in lost \cup expired

\* Two frames never share a number unless the process ended before the earlier
\* one was stored: neither a restart nor the TTL trim of a quiet conversation
\* (#2197) makes the numbering start over.
SeqUnique ==
    \A f, g \in Made : f.seq = g.seq /\ f.life < g.life => f \in lost

\* A socket that was replayed in full misses nothing: every frame above its
\* resume point reached the device, waits in the socket's queue or is in the
\* hands of its sender, whatever raced the resume (attach before the snapshot,
\* enqueue that never drops a live frame).
NoGap ==
    \A s \in clients \ (done \cup short) :
        sock[s] = "live" =>
        \A f \in Made \ (lost \cup expired) :
            \/ f.life # life \/ f.seq <= replay[s].from
            \/ f.seq \in Seqs(held[DeviceOf[s]] \cup Queued(queue[s]))
            \/ \E p \in Senders : snd[p].f = f /\ s \in snd[p].to

\* The comment in ackInbound: no ghost entry is left in the binding's clients,
\* where it would "pin the trim floor forever".
NoGhost == \A s \in removed \cap clients : sock[s] \notin {"hello", "live"}

==============================================================================
