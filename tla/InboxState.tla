----------------------------- MODULE InboxState -----------------------------
(***************************************************************************)
(* The state of one session's inbox (internal/agent/inbox.go,              *)
(* inbox_gate.go, usage_hold*.go): the channel producers write, the queues *)
(* only the session worker touches, the lists other goroutines share with  *)
(* it, the worker's own position, and what the holds around it are doing.  *)
(* Inbox.tla has the producers and the environment, InboxWorker.tla the    *)
(* worker.                                                                 *)
(***************************************************************************)
EXTENDS Naturals, Sequences, FiniteSets, SequencesExt

CONSTANTS
    Users,       \* user messages
    Lines,       \* resume lines: user messages the usage hold writes itself
    Injects,     \* system injections
    Answers,     \* injections that are user input: ask answers, redeliveries
    Keepalives,  \* injections with the keepalive trigger
    Wakes,       \* injections with the scheduled_wake trigger (foci_remind)
    Durables,    \* injections with a serialisable form (DurableInject)
    Controls,    \* injections with a control trigger: an ask never defers them
    Asks,        \* request ids of foci_asks
    AskOf,       \* the ask an injection is the result of, or Nothing
    Typed,       \* user messages that may be a login code, plan feedback or an
                 \* ask answer: human, text only, not marked "queue"
    Steerable,   \* messages the steer mode lets fold into a running turn
    Backends,    \* TRUE: a backend process runs the turns; FALSE: API mode
    Limiters,    \* how many turn limiters are configured: agent's, gateway's
    ChanSize,    \* inboxChanSize
    Events,      \* the kinds of events the environment produces in a model
    MaxEvents,   \* bound on the events that close a gate or end a process
    Nothing      \* no message, no ask

Messages == Users \cup Lines \cup Injects

\* deferredInject.heldBy of an injection paused for a login (reloginHeldBy),
\* which is no request id.
Login == "login"

ASSUME InboxAssumption ==
    /\ Users \cap Injects = {} /\ Lines \cap (Users \cup Injects) = {}
    /\ Nothing \notin Messages \cup Asks /\ Login \notin Asks
    /\ Answers \cup Keepalives \cup Wakes \cup Durables \cup Controls \subseteq Injects
    /\ AskOf \in [Injects -> Asks \cup {Nothing}]
    /\ Typed \subseteq Users /\ Steerable \subseteq Users \cup Answers
    /\ Backends \subseteq BOOLEAN /\ Backends # {}
    /\ Limiters \in 0..2 /\ ChanSize \in Nat \ {0} /\ MaxEvents \in Nat

\* The account's usage phase (usagehold.Phase).
Phases == {"Open", "Hold", "Stop"}

VARIABLES
    ch,         \* sessionInbox.ch
    pending,    \* the worker's queue: pulled off ch, not yet run
    held,       \* injections parked by the pending-work gate, arrival order
    deferred,   \* deferredInjects: [msg, by]
    usageHeld,  \* user messages parked by the usage hold, and steered answers
    stored,     \* the session's usage_held metadata, which outlives a process
    steer,      \* API mode: text buffered for the running turn
    numbers,    \* [of, last, stop]: enqSeq per message, enqSeq, stopThrough
    w,          \* the session worker
    wake,       \* what can wake the worker besides ch
    env,        \* the holds the worker consults
    clock,      \* which holds of an injection have run out
    out,        \* goroutines outside the worker
    fate        \* ghost: how each message ended, in order

vars == <<ch, pending, held, deferred, usageHeld, stored, steer, numbers,
          w, wake, env, clock, out, fate>>

-----------------------------------------------------------------------------
\* Where the worker is.  sessionWorker: "top" (loop top), "walk" (releaseHeld),
\* "resume" (takeUsageResume), "usage" (releaseUsageHeld), "arm" (up to the
\* select), "select".  handleDequeued: "dequeued", "relogin" (its re-login
\* wait).  dispatchInject: "dispatch", "ready" (its re-login wait).  runInject:
\* "run", "pausing", "paused", "deferring", "inject" (inside Run).
\* waitUserTurnGates: "gate1".."gate4".  runUserBatch: "acquire", "take",
\* "slot", "claim", "recheck", "batch", "drive" (inside the turn), "after",
\* "inactive".  handleDequeued after the batch: "settle".
PCs == {"top", "walk", "resume", "usage", "arm", "select", "dequeued", "relogin",
        "dispatch", "ready", "run", "pausing", "paused", "deferring", "inject",
        "gate1", "gate2", "gate3", "gate4", "acquire", "take", "slot", "claim",
        "recheck", "batch", "drive", "after", "inactive", "settle",
        "exit", "exited"}

Outcomes == {"ran", "consumed", "rejected", "refused", "stopped", "dropped", "lost"}

Worker == [pc : PCs,
           cur : Messages \cup {Nothing},    \* the envelope being dispatched
           batch : Seq(Messages),            \* the user batch, until it drives
           walk : Nat,                       \* releaseHeld's position, 0: none
           slots : 0..2,                     \* turn-limit slots held
           grant : {"none", "asked", "given"},     \* the Acquire goroutine
           waitCancel : {"none", "set", "fired"},  \* sessionInbox.waitCancel
           active : BOOLEAN,                 \* sessionInbox.turnActive
           head : Users \cup Lines \cup {Nothing}, \* batch that may end a login
           attempt : Nat,                    \* ... and the attempt it saw
           ask : Asks \cup {Nothing}]        \* the ask runInject saw pending

Wakeups == [watch : SUBSET Injects,          \* heldWatch: the entries it waits for
            hint : BOOLEAN,                  \* its buffered signal
            usage : {"off", "live", "closed"},  \* the usageHoldChanged channel
            resume : BOOLEAN,                \* usageResume
            kick : BOOLEAN]                  \* usageKick

Environment == [delegated : BOOLEAN,  \* the agent's kind, which never changes
                phase : Phases, relogin : BOOLEAN, login : BOOLEAN, attempt : Nat,
                ask : Asks \cup {Nothing}, silent : BOOLEAN, compacting : BOOLEAN,
                work : BOOLEAN, adopted : BOOLEAN, shutting : BOOLEAN, done : BOOLEAN]

Clock == [parked : SUBSET Injects,   \* heldSince is set
          aged : SUBSET Injects,     \* ... maxPendingHold ago
          asked : SUBSET Injects,    \* askHeldSince is set
          askAged : SUBSET Injects,  \* ... maxAskHold ago
          timers : SUBSET Injects]   \* armAskHoldRelease timers

Outside == [unsent : SUBSET (Users \cup Injects),   \* not yet enqueued
            fresh : SUBSET Lines,                   \* unused resume lines
            steering : SUBSET (Users \cup Injects), \* saw the turn active, not yet buffered
            due : SUBSET (Asks \cup {Login}),       \* resolved, drain not yet run
            requeue : Seq(Injects),                 \* requeueDeferred's list
            restore : Seq(Messages),                \* RestoreUsageHeld's list
            restored : SUBSET Messages,             \* ghost: all it ever had
            events : 0..MaxEvents]                  \* closing events left

\* Every component of the state has its type.
TypeOK ==
    /\ ch \in Seq(Messages) /\ Len(ch) <= ChanSize
    /\ pending \in Seq(Messages)
    /\ held \in Seq(Injects)
    /\ deferred \in Seq([msg : Injects, by : Asks \cup {Login}])
    /\ usageHeld \in Seq(Messages)
    /\ stored \in Seq(Messages)
    /\ steer \in Seq(Users \cup Injects)
    /\ numbers \in [of : [Messages -> Nat], last : Nat, stop : Nat]
    /\ w \in Worker
    /\ wake \in Wakeups
    /\ env \in Environment
    /\ clock \in Clock
    /\ out \in Outside
    /\ fate \in [Messages -> Seq(Outcomes)]

Init ==
    /\ ch = <<>> /\ pending = <<>> /\ held = <<>> /\ deferred = <<>>
    /\ usageHeld = <<>> /\ stored = <<>> /\ steer = <<>>
    /\ numbers = [of |-> [m \in Messages |-> 0], last |-> 0, stop |-> 0]
    /\ w = [pc |-> "top", cur |-> Nothing, batch |-> <<>>, walk |-> 0, slots |-> 0,
            grant |-> "none", waitCancel |-> "none", active |-> FALSE,
            head |-> Nothing, attempt |-> 0, ask |-> Nothing]
    /\ wake = [watch |-> {}, hint |-> FALSE, usage |-> "off", resume |-> FALSE, kick |-> FALSE]
    /\ \E kind \in Backends :
          env = [delegated |-> kind, phase |-> "Open", relogin |-> FALSE, login |-> FALSE,
                 attempt |-> 0, ask |-> Nothing, silent |-> FALSE, compacting |-> FALSE,
                 work |-> FALSE, adopted |-> FALSE, shutting |-> FALSE, done |-> FALSE]
    /\ clock = [parked |-> {}, aged |-> {}, asked |-> {}, askAged |-> {}, timers |-> {}]
    /\ out = [unsent |-> Users \cup Injects, fresh |-> Lines, steering |-> {}, due |-> {},
              requeue |-> <<>>, restore |-> <<>>, restored |-> {}, events |-> MaxEvents]
    /\ fate = [m \in Messages |-> <<>>]

-----------------------------------------------------------------------------
\* The elements of s that belong to T, in their order: SelectSeq, written so
\* that facts about it can be proved.
Kept(s, T) ==
    LET places == {k \in DOMAIN s : s[k] \in T}
        upTo(k) == Cardinality({j \in places : j <= k})
    IN  [n \in 1..Cardinality(places) |-> s[CHOOSE k \in places : upTo(k) = n]]

\* Ghost: the messages of S end with outcome o.
Ended(S, o) == [m \in Messages |-> IF m \in S THEN Append(fate[m], o) ELSE fate[m]]

\* A backend process runs the agent's turns (DelegatedManager is set).
Delegated == env.delegated

\* The worker is inside a turn (sessionInbox.busy).
Busy == w.pc \in {"drive", "inject"}

\* adoptedRunActive: a delivering run the worker does not drive itself.
AdoptedRunActive == env.adopted /\ ~Busy

\* usageHoldsTrigger for a user message, and for an injection.
UsageHoldsUser == env.phase # "Open"
UsageHoldsTrigger(i) ==
    \/ env.phase = "Stop"
    \/ env.phase = "Hold" /\ i \notin Keepalives \cup Wakes

\* usageHoldPassesPast: a reminder runs past what a hold parked before it.
UsageHoldPassesPast(i) == i \in Wakes /\ env.phase = "Hold"

\* Mutation: background work holds a plain inject past maxPendingHold.
InjectHeldForever(i) ==
    /\ ~env.shutting /\ i \notin Answers
    /\ \/ UsageHoldsTrigger(i)
       \/ AdoptedRunActive
       \/ env.work /\ i \notin Keepalives

\* injectHeld: must this injection wait now?
InjectHeld(i) ==
    /\ ~env.shutting /\ i \notin Answers
    /\ \/ UsageHoldsTrigger(i)
       \/ AdoptedRunActive
       \/ env.work /\ i \notin Keepalives \cup clock.aged

\* heldSiblingPins: a parked inject of the same class is ahead of this one.
HeldSiblingPins(kept, i) ==
    \E j \in ToSet(kept) : (j \in Keepalives) <=> (i \in Keepalives)

\* userTurnGatesClosed
UserTurnGatesClosed ==
    \/ Delegated /\ env.relogin
    \/ UsageHoldsUser
    \/ env.silent
    \/ env.compacting

\* stoppedQueued: a user message a /stop covered.
StoppedQueued(m) ==
    m \notin Injects /\ numbers.of[m] # 0 /\ numbers.of[m] <= numbers.stop

\* stopHeldWatch, and the two ways ensureHeldWatch arms.
StopHeldWatch == [wake EXCEPT !.watch = {}, !.hint = FALSE]
Watching(list) == [wake EXCEPT !.watch = ToSet(list), !.hint = FALSE]
EnsureHeldWatch(list) ==
    IF list = <<>> \/ wake.watch # {} THEN wake ELSE Watching(list)

\* storeUsageHeld and forgetUsageHeld on the stored list.  (ForgetAll is a
\* mutation: a batch that runs clears the session's whole record.)
Store(m) ==
    IF m \in ToSet(stored) THEN stored
    ELSE IF m \in Lines THEN <<m>> \o stored ELSE Append(stored, m)
ForgetAll(S) == <<>>
Forget(S) == Kept(stored, Messages \ S)
StoreAll(list) == stored \o Kept(list, Messages \ ToSet(stored))

IsUser(m) == m \notin Injects
IsInject(m) == m \in Injects

\* What a drain with key `by` takes off the deferred list, and what it leaves.
MessagesOf(list) == [k \in 1..Len(list) |-> list[k].msg]
HeldBy(by) == MessagesOf(Kept(deferred, {d \in ToSet(deferred) : d.by = by}))
NotHeldBy(by) == Kept(deferred, {d \in ToSet(deferred) : d.by # by})
=============================================================================
