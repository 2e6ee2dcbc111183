----------------------------- MODULE InboxWorker -----------------------------
(***************************************************************************)
(* The session worker of internal/agent/inbox.go: one goroutine that       *)
(* releases held input, takes the next envelope, waits out the gates and   *)
(* the turn-limit slots, and drives turns.  A step runs from one point     *)
(* where another goroutine can be seen to the next: a read of a hold, a    *)
(* channel operation, a lock, a wait.                                      *)
(***************************************************************************)
EXTENDS InboxState

\* Where dispatchInject and runInject return to: the walk of releaseHeld, the
\* slot wait that dispatched the injection, or the worker's loop.
Back == IF w.walk > 0 THEN "walk" ELSE IF w.batch # <<>> THEN "slot" ELSE "top"
Done == [w EXCEPT !.pc = Back, !.cur = Nothing, !.ask = Nothing]

\* A return of false up to sessionWorker: every slot held is released.
Leaving == [w EXCEPT !.pc = "exit", !.cur = Nothing, !.walk = 0, !.slots = 0,
                     !.grant = "none", !.waitCancel = "none"]

\* refuseDroppedInject of the envelope in hand.
RefuseCur == IF w.cur \in Injects THEN Ended({w.cur}, "refused") ELSE Ended({w.cur}, "dropped")

ReloginHoldClosed == Delegated /\ env.relogin

-----------------------------------------------------------------------------
(* releaseHeld: the walk over the held list.                               *)

\* The worker's loop top.
LoopTop ==
    /\ w.pc = "top"
    /\ w' = [w EXCEPT !.pc = "walk", !.walk = 1]
    /\ UNCHANGED <<ch, pending, held, deferred, usageHeld, stored, steer, numbers,
                   wake, env, clock, out, fate>>

\* Mutation: an injection looks at its own hold only (#2233 F1).
MustParkOwnHold(ahead, i) == InjectHeld(i)

\* The FIFO rule dispatchInject parks by and releaseHeld keeps by.
MustPark(ahead, i) ==
    InjectHeld(i) \/ (HeldSiblingPins(ahead, i) /\ ~UsageHoldPassesPast(i))

ReleaseHeldKeep ==
    /\ w.pc = "walk" /\ w.walk <= Len(held)
    /\ MustPark(SubSeq(held, 1, w.walk - 1), held[w.walk])
    /\ w' = [w EXCEPT !.walk = @ + 1]
    /\ UNCHANGED <<ch, pending, held, deferred, usageHeld, stored, steer, numbers,
                   wake, env, clock, out, fate>>

ReleaseHeldRun ==
    /\ w.pc = "walk" /\ w.walk <= Len(held)
    /\ ~MustPark(SubSeq(held, 1, w.walk - 1), held[w.walk])
    /\ w' = [w EXCEPT !.pc = "ready", !.cur = held[w.walk]]
    /\ UNCHANGED <<ch, pending, held, deferred, usageHeld, stored, steer, numbers,
                   wake, env, clock, out, fate>>

\* Mutation: the watch is not armed again before the worker returns to the
\* slot wait.
ReleaseHeldDoneUnwatched ==
    /\ w.pc = "walk" /\ w.walk > Len(held)
    /\ wake' = IF held = <<>> THEN StopHeldWatch ELSE wake
    /\ w' = [w EXCEPT !.walk = 0, !.pc = IF w.batch = <<>> THEN "resume" ELSE "slot"]
    /\ UNCHANGED <<ch, pending, held, deferred, usageHeld, stored, steer, numbers,
                   env, clock, out, fate>>

\* The end of the walk.  From the loop top the worker goes on; from
\* consumeHeldHint it re-arms the watch and goes back to the slot wait.
ReleaseHeldDone ==
    /\ w.pc = "walk" /\ w.walk > Len(held)
    /\ wake' = IF held = <<>> THEN StopHeldWatch
               ELSE IF w.batch = <<>> THEN wake ELSE EnsureHeldWatch(held)
    /\ w' = [w EXCEPT !.walk = 0, !.pc = IF w.batch = <<>> THEN "resume" ELSE "slot"]
    /\ UNCHANGED <<ch, pending, held, deferred, usageHeld, stored, steer, numbers,
                   env, clock, out, fate>>

-----------------------------------------------------------------------------
(* takeUsageResume and releaseUsageHeld.                                   *)

\* parkUsageHeld's list: a resume line goes to the head, and only one does.
ParkUsageHeld(m) ==
    IF m \notin Lines THEN Append(usageHeld, m)
    ELSE IF ToSet(usageHeld) \cap Lines # {} THEN usageHeld
    ELSE <<m>> \o usageHeld

\* A second resume line is stored, then not parked.
ParkFate(m) ==
    IF m \in Lines /\ ToSet(usageHeld) \cap Lines # {} THEN Ended({m}, "dropped") ELSE fate

TakeUsageResume ==
    /\ w.pc = "resume"
    /\ w' = [w EXCEPT !.pc = "usage"]
    /\ \/ /\ wake.resume
          /\ \E l \in out.fresh :
                /\ out' = [out EXCEPT !.fresh = @ \ {l}]
                /\ stored' = Store(l)
                /\ usageHeld' = ParkUsageHeld(l)
                /\ fate' = ParkFate(l)
          /\ wake' = [wake EXCEPT !.resume = FALSE]
       \/ /\ ~wake.resume
          /\ UNCHANGED <<out, stored, usageHeld, fate, wake>>
    /\ UNCHANGED <<ch, pending, held, deferred, steer, numbers, env, clock>>

\* runUserBatch's first lines: the batch leaves the restart store.
StartBatch(batch, head) ==
    /\ w' = [w EXCEPT !.pc = "gate1", !.cur = Nothing, !.batch = batch, !.head = head,
                      !.attempt = IF head = Nothing THEN 0 ELSE env.attempt]
    /\ stored' = Forget(ToSet(batch))

ReleaseUsageHeld ==
    /\ w.pc = "usage"
    /\ IF usageHeld = <<>> \/ UsageHoldsUser
         THEN /\ w' = [w EXCEPT !.pc = "arm"]
              /\ UNCHANGED <<usageHeld, stored>>
         ELSE /\ StartBatch(usageHeld, Nothing)
              /\ usageHeld' = <<>>
    /\ UNCHANGED <<ch, pending, held, deferred, steer, numbers, wake, env, clock, out, fate>>

-----------------------------------------------------------------------------
(* From the loop top to the next envelope.                                 *)

\* The watch, the ctx check, the worker's queue, and the channels of the select.
Arm ==
    /\ w.pc = "arm"
    /\ LET armed == IF held = <<>> THEN StopHeldWatch ELSE EnsureHeldWatch(held)
       IN  \/ /\ env.done
              /\ w' = Leaving
              /\ wake' = armed
              /\ UNCHANGED pending
           \/ /\ ~env.done /\ pending # <<>>
              /\ w' = [w EXCEPT !.pc = "dequeued", !.cur = Head(pending)]
              /\ pending' = Tail(pending)
              /\ wake' = armed
           \/ /\ ~env.done /\ pending = <<>>
              /\ w' = [w EXCEPT !.pc = "select"]
              /\ wake' = [armed EXCEPT !.usage = IF usageHeld = <<>> THEN "off" ELSE "live"]
              /\ UNCHANGED pending
    /\ UNCHANGED <<ch, held, deferred, usageHeld, stored, steer, numbers, env, clock, out, fate>>

\* The select of the idle worker: one disjunct per case.
Select ==
    /\ w.pc = "select"
    /\ \/ /\ env.done
          /\ w' = Leaving
          /\ wake' = [wake EXCEPT !.usage = "off"]
          /\ UNCHANGED ch
       \/ /\ wake.usage = "closed"
          /\ w' = [w EXCEPT !.pc = "top"]
          /\ wake' = [wake EXCEPT !.usage = "off"]
          /\ UNCHANGED ch
       \/ /\ wake.kick
          /\ w' = [w EXCEPT !.pc = "top"]
          /\ wake' = [wake EXCEPT !.usage = "off", !.kick = FALSE]
          /\ UNCHANGED ch
       \/ /\ wake.hint
          /\ w' = [w EXCEPT !.pc = "top"]
          /\ wake' = [StopHeldWatch EXCEPT !.usage = "off"]
          /\ UNCHANGED ch
       \/ /\ ch # <<>>
          /\ w' = [w EXCEPT !.pc = "dequeued", !.cur = Head(ch)]
          /\ ch' = Tail(ch)
          /\ wake' = [wake EXCEPT !.usage = "off"]
    /\ UNCHANGED <<pending, held, deferred, usageHeld, stored, steer, numbers, env, clock, out, fate>>

\* Mutation: the /stop mark is not consulted (#2337).
DequeuedUnstopped ==
    /\ w.pc = "dequeued"
    /\ w' = [w EXCEPT !.pc = "relogin"]
    /\ UNCHANGED <<ch, pending, held, deferred, usageHeld, stored, steer, numbers,
                   wake, env, clock, out, fate>>

\* handleDequeued: an envelope a /stop covered is dropped.
Dequeued ==
    /\ w.pc = "dequeued"
    /\ IF StoppedQueued(w.cur)
         THEN /\ fate' = Ended({w.cur}, "stopped")
              /\ w' = Done
         ELSE /\ w' = [w EXCEPT !.pc = "relogin"]
              /\ UNCHANGED fate
    /\ UNCHANGED <<ch, pending, held, deferred, usageHeld, stored, steer, numbers,
                   wake, env, clock, out>>

\* ... then its re-login wait, and the way the envelope goes.
HandleDequeued ==
    /\ w.pc = "relogin"
    /\ ~ReloginHoldClosed
    /\ \/ /\ w.cur \in Injects
          /\ w' = [w EXCEPT !.pc = "dispatch"]
          /\ UNCHANGED <<usageHeld, stored, fate>>
       \/ /\ w.cur \notin Injects /\ UsageHoldsUser
          /\ usageHeld' = ParkUsageHeld(w.cur)
          /\ stored' = Store(w.cur)
          /\ fate' = ParkFate(w.cur)
          /\ w' = Done
       \/ /\ w.cur \notin Injects /\ ~UsageHoldsUser
          /\ StartBatch(<<w.cur>>, IF Delegated /\ env.login THEN w.cur ELSE Nothing)
          /\ UNCHANGED <<usageHeld, fate>>
    /\ UNCHANGED <<ch, pending, held, deferred, steer, numbers, wake, env, clock, out>>

\* Any wait of the worker for a gate ends with the inbox's context: the
\* re-login waits of handleDequeued and dispatchInject, waitUserTurnGates.
\* An injection on the held list is left there for refuseHeld.
GateShut ==
    \/ w.pc \in {"relogin", "ready", "gate1"} /\ ReloginHoldClosed
    \/ w.pc = "gate2" /\ UsageHoldsUser
    \/ w.pc = "gate3" /\ env.silent
    \/ w.pc = "gate4" /\ env.compacting

\* Mutation: an entry of the held list is refused here, and again by refuseHeld.
GateEndedTwice ==
    /\ env.done /\ GateShut
    /\ w' = Leaving
    /\ fate' = IF w.cur # Nothing THEN RefuseCur ELSE fate
    /\ UNCHANGED <<ch, pending, held, deferred, usageHeld, stored, steer, numbers,
                   wake, env, clock, out>>

\* Mutation: the wait for a silent turn does not watch the context.
GateEndedDeaf ==
    /\ env.done /\ GateShut /\ w.pc # "gate3"
    /\ w' = Leaving
    /\ fate' = IF w.walk = 0 /\ w.cur # Nothing THEN RefuseCur ELSE fate
    /\ UNCHANGED <<ch, pending, held, deferred, usageHeld, stored, steer, numbers,
                   wake, env, clock, out>>

GateEnded ==
    /\ env.done /\ GateShut
    /\ w' = Leaving
    /\ fate' = IF w.walk = 0 /\ w.cur # Nothing THEN RefuseCur ELSE fate
    /\ UNCHANGED <<ch, pending, held, deferred, usageHeld, stored, steer, numbers,
                   wake, env, clock, out>>

-----------------------------------------------------------------------------
(* dispatchInject and runInject.                                           *)

DispatchUserInput ==
    /\ w.pc = "dispatch" /\ w.cur \in Answers
    /\ w' = [w EXCEPT !.pc = "gate1"]
    /\ UNCHANGED <<ch, pending, held, deferred, usageHeld, stored, steer, numbers,
                   wake, env, clock, out, fate>>

\* An injection that must wait parks, and the watch is armed for it too.
DispatchPark ==
    /\ w.pc = "dispatch" /\ w.cur \notin Answers
    /\ MustPark(held, w.cur)
    /\ held' = Append(held, w.cur)
    /\ stored' = IF w.cur \in Durables /\ env.phase # "Open" THEN Store(w.cur) ELSE stored
    /\ clock' = [clock EXCEPT !.parked = @ \cup {w.cur}]
    /\ wake' = Watching(held')
    /\ w' = Done
    /\ UNCHANGED <<ch, pending, deferred, usageHeld, steer, numbers, env, out, fate>>

DispatchNow ==
    /\ w.pc = "dispatch" /\ w.cur \notin Answers
    /\ ~MustPark(held, w.cur)
    /\ w' = [w EXCEPT !.pc = "ready"]
    /\ UNCHANGED <<ch, pending, held, deferred, usageHeld, stored, steer, numbers,
                   wake, env, clock, out, fate>>

\* The re-login wait of dispatchInject and of releaseHeld is over; a released
\* entry leaves the held list.
Ready ==
    /\ w.pc = "ready"
    /\ ~ReloginHoldClosed
    /\ w' = [w EXCEPT !.pc = "run"]
    /\ held' = IF w.walk > 0 THEN RemoveAt(held, w.walk) ELSE held
    /\ UNCHANGED <<ch, pending, deferred, usageHeld, stored, steer, numbers,
                   wake, env, clock, out, fate>>

\* runInject's ask gate: the ask on screen defers every proactive injection,
\* and the result of that same ask, until the ask-hold limit.
AskDefers(i) ==
    /\ env.ask # Nothing /\ i \notin Controls
    /\ AskOf[i] \in {Nothing, env.ask}
    /\ i \notin clock.askAged

\* runInject's checks, in their order.
RunInject ==
    /\ w.pc = "run"
    /\ \/ /\ env.shutting
          /\ fate' = Ended({w.cur}, "refused")
          /\ w' = Done
          /\ UNCHANGED stored
       \/ /\ ~env.shutting /\ Delegated /\ env.login
          /\ w' = [w EXCEPT !.pc = "pausing"]
          /\ UNCHANGED <<stored, fate>>
       \/ /\ ~env.shutting /\ ~(Delegated /\ env.login) /\ AskDefers(w.cur)
          /\ w' = [w EXCEPT !.pc = "deferring", !.ask = env.ask]
          /\ UNCHANGED <<stored, fate>>
       \/ /\ ~env.shutting /\ ~(Delegated /\ env.login) /\ ~AskDefers(w.cur)
          /\ w' = [w EXCEPT !.pc = "inject", !.cur = Nothing]
          /\ stored' = Forget({w.cur})
          /\ fate' = Ended({w.cur}, "ran")
    /\ UNCHANGED <<ch, pending, held, deferred, usageHeld, steer, numbers, wake, env, clock, out>>

\* A login is owed: the injection is paused ...
RunPause ==
    /\ w.pc = "pausing"
    /\ deferred' = Append(deferred, [msg |-> w.cur, by |-> Login])
    /\ w' = [w EXCEPT !.pc = "paused", !.cur = Nothing]
    /\ UNCHANGED <<ch, pending, held, usageHeld, stored, steer, numbers, wake, env, clock, out, fate>>

\* Mutation: the login is not checked again.
RunPausedBlind ==
    /\ w.pc = "paused"
    /\ w' = Done
    /\ UNCHANGED <<ch, pending, held, deferred, usageHeld, stored, steer, numbers,
                   wake, env, clock, out, fate>>

\* ... and the login is checked again: it may have completed, drain included,
\* between the check and the append.
RunPaused ==
    /\ w.pc = "paused"
    /\ w' = Done
    /\ IF env.login
         THEN UNCHANGED <<deferred, out>>
         ELSE /\ deferred' = NotHeldBy(Login)
              /\ out' = [out EXCEPT !.requeue = @ \o HeldBy(Login)]
    /\ UNCHANGED <<ch, pending, held, usageHeld, stored, steer, numbers, wake, env, clock, fate>>

\* Mutation: no release timer is armed (#2828).
RunDeferUntimed ==
    /\ w.pc = "deferring"
    /\ deferred' = Append(deferred, [msg |-> w.cur, by |-> w.ask])
    /\ clock' = IF AskOf[w.cur] # Nothing THEN clock
                ELSE [clock EXCEPT !.asked = @ \cup {w.cur}]
    /\ w' = Done
    /\ UNCHANGED <<ch, pending, held, usageHeld, stored, steer, numbers, wake, env, out, fate>>

\* An ask is on screen: the injection is deferred behind it.  Only a proactive
\* one is stamped and gets a release timer.
RunDefer ==
    /\ w.pc = "deferring"
    /\ deferred' = Append(deferred, [msg |-> w.cur, by |-> w.ask])
    /\ clock' = IF AskOf[w.cur] # Nothing THEN clock
                ELSE [clock EXCEPT !.asked = @ \cup {w.cur}, !.timers = @ \cup {w.cur}]
    /\ w' = Done
    /\ UNCHANGED <<ch, pending, held, usageHeld, stored, steer, numbers, wake, env, out, fate>>

\* Inject.Run returns, or its panic is recovered.
InjectReturns ==
    /\ w.pc = "inject"
    /\ w' = Done
    /\ UNCHANGED <<ch, pending, held, deferred, usageHeld, stored, steer, numbers,
                   wake, env, clock, out, fate>>

-----------------------------------------------------------------------------
(* runUserBatch: gates, slots, the turn.                                   *)

\* waitUserTurnGates: re-login, usage hold, a silent turn, a compaction.
Gates == <<"gate1", "gate2", "gate3", "gate4">>
PassGate ==
    /\ \E g \in 1..4 :
          /\ w.pc = Gates[g]
          /\ w' = [w EXCEPT !.pc = IF g < 4 THEN Gates[g + 1]
                                   ELSE IF w.cur = Nothing THEN "acquire" ELSE "run"]
    /\ ~GateShut
    /\ UNCHANGED <<ch, pending, held, deferred, usageHeld, stored, steer, numbers,
                   wake, env, clock, out, fate>>

\* acquireTurnSlots: without a limiter there is nothing to wait for.
AcquireTurnSlots ==
    /\ w.pc = "acquire"
    /\ w' = IF Limiters = 0 THEN [w EXCEPT !.pc = "recheck"]
            ELSE [w EXCEPT !.pc = "take", !.waitCancel = "set"]
    /\ UNCHANGED <<ch, pending, held, deferred, usageHeld, stored, steer, numbers,
                   wake, env, clock, out, fate>>

SlotTaken == [w EXCEPT !.slots = @ + 1, !.grant = "none",
                       !.pc = IF w.slots + 1 = Limiters THEN "claim" ELSE "take"]

\* Mutation: TryAcquire only; nobody waits for a grant.
TakeSlotOnce ==
    /\ w.pc = "take"
    /\ \/ w' = SlotTaken
       \/ w' = [w EXCEPT !.pc = "slot"]
    /\ UNCHANGED <<ch, pending, held, deferred, usageHeld, stored, steer, numbers,
                   wake, env, clock, out, fate>>

\* waitTurnSlot: TryAcquire, or the Acquire goroutine is started.
TakeSlot ==
    /\ w.pc = "take"
    /\ \/ w' = SlotTaken
       \/ w' = [w EXCEPT !.pc = "slot", !.grant = "asked"]
    /\ UNCHANGED <<ch, pending, held, deferred, usageHeld, stored, steer, numbers,
                   wake, env, clock, out, fate>>

\* waitCtx is done: by /stop or with the inbox's context.
WaitEnded == w.waitCancel = "fired" \/ env.done

\* acquireTurnSlots gives up: slots go back; a /stop drops the batch.
Abort ==
    IF env.done THEN w' = Leaving /\ UNCHANGED fate
    ELSE /\ w' = [w EXCEPT !.pc = "settle", !.batch = <<>>, !.slots = 0,
                           !.grant = "none", !.waitCancel = "none"]
         /\ fate' = Ended(ToSet(w.batch), "stopped")

\* The select of waitTurnSlot: the grant, the end of the wait, a user message
\* that joins the batch, an injection served inline, a hint of the held watch.
WaitTurnSlot ==
    /\ w.pc = "slot"
    /\ \/ /\ w.grant = "given"
          /\ w' = SlotTaken
          /\ UNCHANGED <<ch, wake, fate>>
       \/ /\ WaitEnded
          /\ Abort
          /\ UNCHANGED <<ch, wake>>
       \/ /\ ch # <<>> /\ Head(ch) \notin Injects
          /\ w' = [w EXCEPT !.batch = Append(@, Head(ch))]
          /\ ch' = Tail(ch)
          /\ UNCHANGED <<wake, fate>>
       \/ /\ ch # <<>> /\ Head(ch) \in Injects
          /\ w' = [w EXCEPT !.pc = "dispatch", !.cur = Head(ch)]
          /\ ch' = Tail(ch)
          /\ UNCHANGED <<wake, fate>>
       \/ /\ wake.hint
          /\ w' = [w EXCEPT !.pc = "walk", !.walk = 1]
          /\ wake' = StopHeldWatch
          /\ UNCHANGED <<ch, fate>>
    /\ UNCHANGED <<pending, held, deferred, usageHeld, stored, steer, numbers, env, clock, out>>

\* Mutation: the handle stays registered once the slots are granted.
ClaimKeepsHandle ==
    /\ w.pc = "claim"
    /\ IF WaitEnded THEN Abort
       ELSE w' = [w EXCEPT !.pc = "recheck"] /\ UNCHANGED fate
    /\ UNCHANGED <<ch, pending, held, deferred, usageHeld, stored, steer, numbers,
                   wake, env, clock, out>>

\* claimWaitCancel: a /stop that landed before it drops the batch after all.
ClaimWaitCancel ==
    /\ w.pc = "claim"
    /\ IF WaitEnded THEN Abort
       ELSE /\ w' = [w EXCEPT !.pc = "recheck", !.waitCancel = "none"]
            /\ UNCHANGED fate
    /\ UNCHANGED <<ch, pending, held, deferred, usageHeld, stored, steer, numbers,
                   wake, env, clock, out>>

\* The gates once more: a closed one takes the slots back.
RecheckGates ==
    /\ w.pc = "recheck"
    /\ w' = IF UserTurnGatesClosed THEN [w EXCEPT !.pc = "gate1", !.slots = 0]
            ELSE [w EXCEPT !.pc = "batch"]
    /\ UNCHANGED <<ch, pending, held, deferred, usageHeld, stored, steer, numbers,
                   wake, env, clock, out, fate>>

\* takeQueuedUsers: what the channel holds joins the worker's queue; the user
\* messages leave it, the ones a /stop covered for good.
Queued == pending \o ch
QueuedUsers == Kept(Queued, {m \in Messages \ Injects : ~StoppedQueued(m)})
QueuedStopped == {m \in ToSet(Queued) : IsUser(m) /\ StoppedQueued(m)}

\* pendingHeadIsInject, after the channel was drained.  (PendingHeadFree is a
\* mutation: queued user messages join a follow-up whatever heads the queue.)
PendingHeadFree == FALSE
PendingHeadIsInject == Queued # <<>> /\ IsInject(Head(Queued))

\* Mutation: the injections a batch drains off the channel are not kept.
DriveBatchForgetful ==
    /\ w.pc = "batch"
    /\ w' = [w EXCEPT !.pc = "drive", !.batch = <<>>]
    /\ pending' = Kept(pending, Injects)
    /\ ch' = <<>>
    /\ stored' = Forget(ToSet(QueuedUsers))
    /\ fate' = [m \in Messages |->
                   IF m \in ToSet(w.batch \o QueuedUsers) THEN Append(fate[m], "ran")
                   ELSE IF m \in QueuedStopped THEN Append(fate[m], "stopped") ELSE fate[m]]
    /\ UNCHANGED <<held, deferred, usageHeld, steer, numbers, wake, env, clock, out>>

\* The turn begins: the rest of the queued user messages joins the batch.
DriveBatch ==
    /\ w.pc = "batch"
    /\ w' = [w EXCEPT !.pc = "drive", !.batch = <<>>]
    /\ pending' = Kept(Queued, Injects)
    /\ ch' = <<>>
    /\ stored' = Forget(ToSet(QueuedUsers))
    /\ fate' = [m \in Messages |->
                   IF m \in ToSet(w.batch \o QueuedUsers) THEN Append(fate[m], "ran")
                   ELSE IF m \in QueuedStopped THEN Append(fate[m], "stopped") ELSE fate[m]]
    /\ UNCHANGED <<held, deferred, usageHeld, steer, numbers, wake, env, clock, out>>

\* The transport has written the batch to the backend: steering opens.
PrimaryWritten ==
    /\ w.pc = "drive" /\ ~w.active
    /\ w' = [w EXCEPT !.active = TRUE]
    /\ UNCHANGED <<ch, pending, held, deferred, usageHeld, stored, steer, numbers,
                   wake, env, clock, out, fate>>

\* The running turn drains the steer buffer at a tool boundary.
DrainSteerTexts ==
    /\ w.pc = "drive" /\ steer # <<>>
    /\ steer' = <<>>
    /\ fate' = Ended(ToSet(steer), "ran")
    /\ UNCHANGED <<ch, pending, held, deferred, usageHeld, stored, numbers, w,
                   wake, env, clock, out>>

TurnReturns ==
    /\ w.pc = "drive"
    /\ w' = [w EXCEPT !.pc = "after"]
    /\ UNCHANGED <<ch, pending, held, deferred, usageHeld, stored, steer, numbers,
                   wake, env, clock, out, fate>>

\* The follow-up loop of driveAndDrainOrphans.  A usage hold parks the orphan
\* steers; else orphans and, unless an injection heads the queue, every queued
\* user message run as one more turn.
FollowUp ==
    /\ w.pc = "after"
    /\ \/ /\ UsageHoldsUser
          /\ usageHeld' = usageHeld \o steer
          /\ stored' = StoreAll(steer)
          /\ w' = [w EXCEPT !.pc = "inactive"]
          /\ UNCHANGED <<ch, pending, fate>>
       \/ /\ ~UsageHoldsUser
          /\ ch' = <<>>
          /\ LET blocked == PendingHeadIsInject
                 extras == IF blocked THEN <<>> ELSE QueuedUsers
             IN  /\ pending' = IF blocked THEN Queued ELSE Kept(Queued, Injects)
                 /\ w' = [w EXCEPT !.pc = IF steer \o extras = <<>> THEN "inactive" ELSE "drive"]
                 /\ fate' = [m \in Messages |->
                       IF m \in ToSet(steer \o extras) THEN Append(fate[m], "ran")
                       ELSE IF ~blocked /\ m \in QueuedStopped THEN Append(fate[m], "stopped")
                       ELSE fate[m]]
          /\ UNCHANGED <<usageHeld, stored>>
    /\ steer' = <<>>
    /\ UNCHANGED <<held, deferred, numbers, wake, env, clock, out>>

\* turnActive is cleared and the slots are released.
BatchReturns ==
    /\ w.pc = "inactive"
    /\ w' = [w EXCEPT !.pc = "settle", !.active = FALSE, !.slots = 0]
    /\ UNCHANGED <<ch, pending, held, deferred, usageHeld, stored, steer, numbers,
                   wake, env, clock, out, fate>>

\* handleDequeued after runUserBatch: ClearPendingIf ends a login that was
\* owed when the batch started, if no new attempt started since.
Settle ==
    /\ w.pc = "settle"
    /\ w' = [w EXCEPT !.pc = "top", !.head = Nothing, !.attempt = 0]
    /\ IF w.head # Nothing /\ env.login /\ ~env.relogin /\ env.attempt = w.attempt
         THEN /\ env' = [env EXCEPT !.login = FALSE]
              /\ out' = [out EXCEPT !.due = @ \cup {Login}]
         ELSE UNCHANGED <<env, out>>
    /\ UNCHANGED <<ch, pending, held, deferred, usageHeld, stored, steer, numbers,
                   wake, clock, fate>>

-----------------------------------------------------------------------------
\* The worker's deferred exit: the watch stops; held and queued injections are
\* refused, queued user messages dropped.
Exit ==
    /\ w.pc = "exit"
    /\ w' = [w EXCEPT !.pc = "exited", !.batch = <<>>]
    /\ wake' = StopHeldWatch
    /\ held' = <<>>
    /\ pending' = <<>>
    /\ fate' = [m \in Messages |->
                  IF m \in ToSet(held \o pending) \cap Injects THEN Append(fate[m], "refused")
                  ELSE IF m \in ToSet(pending \o w.batch) THEN Append(fate[m], "dropped")
                  ELSE fate[m]]
    /\ UNCHANGED <<ch, deferred, usageHeld, stored, steer, numbers, env, clock, out>>

WorkerStep ==
    \/ LoopTop \/ ReleaseHeldKeep \/ ReleaseHeldRun \/ ReleaseHeldDone
    \/ TakeUsageResume \/ ReleaseUsageHeld \/ Arm \/ Select
    \/ Dequeued \/ HandleDequeued \/ GateEnded
    \/ DispatchUserInput \/ DispatchPark \/ DispatchNow \/ Ready
    \/ RunInject \/ RunPause \/ RunPaused \/ RunDefer \/ InjectReturns
    \/ PassGate \/ AcquireTurnSlots \/ TakeSlot \/ WaitTurnSlot \/ ClaimWaitCancel
    \/ RecheckGates \/ DriveBatch \/ TurnReturns \/ FollowUp \/ BatchReturns \/ Settle
    \/ Exit
=============================================================================
