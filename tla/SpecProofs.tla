----------------------------- MODULE SpecProofs -----------------------------
(***************************************************************************)
(* From the channels that UncancelledSpec and CalmSpec describe to every   *)
(* channel.  First, what a channel still keeps whose future was dropped    *)
(* while it was being woken.  Then, what a build leaves out: without the   *)
(* feature async there are no futures, so nothing can cancel one; without  *)
(* std no thread parks, so nothing can wake one without an unpark.         *)
(***************************************************************************)
EXTENDS CancelInv, RaceProofs, WakeupProofs, RefinementProofs

-----------------------------------------------------------------------------
(* A future dropped while it is being woken. *)

\* In AsyncReceiver::drop, once the registration is dealt with, the swap is next.
LEMMA DropSwaps ==
  ASSUME rpc = "async_drop_swap", ReceiverNext
  PROVE  AsyncDropSwap
<1>1. ~(\/ TryRecvLoad \/ RecvLoad \/ RecvParked \/ StartRecvRefLoad \/ RefParked
        \/ wait_for_unpark \/ PollLoad \/ PollSpin \/ AsyncDropLoad \/ AsyncDropSpin)
  BY DEF MatchLoad, TryRecvLoad, RecvLoad, RecvParked, StartRecvRefLoad, RefParked,
     wait_for_unpark, PollLoad, PollSpin, AsyncDropLoad, AsyncDropSpin
<1>2. ~(\/ RecvSwap \/ RefSwap \/ DeadlineSwap \/ DropSwap
        \/ PollCasEmpty \/ WriteAsyncWaker \/ AsyncDropCas)
  BY DEF MatchSwap, MatchCas, RecvSwap, RefSwap, DeadlineSwap, DropSwap, PollCasEmpty,
     WriteAsyncWaker, AsyncDropCas
<1>3. ~(\/ WriteWaker \/ DropWaker \/ Mark \/ Fence \/ TakeMessage \/ WipeMessage \/ Free
        \/ WipeMessagePanic \/ DropWakerPanic)
  BY DEF WriteWaker, DropWaker, Mark, Fence, TakeMessage, WipeMessage, Free, Along,
     AfterWriteWaker, AfterDropWaker, AfterMark, AfterFence, AfterTake, AfterWipe,
     WipeMessagePanic, DropWakerPanic
<1>4. ~(\/ Return \/ DeadlineCheck \/ Park \/ SpuriousPark \/ ParkTimeout \/ Expire
        \/ WakeByRef \/ WakeByRefPanic \/ ClonePanic)
  BY DEF Return, DeadlineCheck, Park, SpuriousPark, ParkTimeout, Expire, AfterPark,
     WakeByRef, WakeByRefPanic, ClonePanic
<1>5. ~ReceiverCall
  BY DEF ReceiverCall, try_recv, recv, recv_ref, recv_deadline, recv_timeout, StartRecvRef,
     is_closed, has_message, ReceiverRaw, ReceiverDrop, into_future, AsyncReceiverDrop,
     PollWoken, poll, Borrow, Consume
<1> QED
  BY <1>1, <1>2, <1>3, <1>4, <1>5, Zenon DEF ReceiverNext, ReceiverStep

\* The step that cancels: it overwrites UNPARKING while the sender owns the waker.
LEMMA CancelStep ==
  ASSUME OwnershipInv, PromiseInv, SlotInv, Next, CancelDuringWake
  PROVE  AsyncDropSwap /\ UNCHANGED senderVars /\ WakingInv /\ Cancelled'
<1>1. TypeInv'
  BY NextType DEF OwnershipInv
<1>2. AsyncDropSwap /\ UNCHANGED senderVars
  BY DropSwaps DEF Next, SenderNext, ReceiverNext, Visibility, vars, receiverVars,
     CancelDuringWake
<1>3. /\ AtomicRmw("R", AcqRel, DISCONNECTED)
      /\ rpc = "async_drop_swap" /\ rpc' = "async_drop_spin" /\ res' = "none"
      /\ UNCHANGED <<message, waker, handle>>
  BY <1>2 DEF AsyncDropSwap, MatchSwap, RGoto, AsyncDropArms, Arm, Unreachable,
     CancelDuringWake
<1>4. state.val = UNPARKING
  BY <1>2 DEF AsyncDropSwap, MatchSwap, RGoto, AsyncDropArms, Arm, Unreachable,
     CancelDuringWake
<1>5. WakingInv
  BY <1>3, <1>4 DEF OwnershipInv, PhaseInv, FreshInv, WakingInv, OwnerInv, OpenInv,
     ClosingInv, FreedInv, DoneInv, Unregistered, Registered, Unsure, Resting,
     MessageIsMine, NothingLeft, EMPTY, RECEIVING, UNPARKING, MESSAGE, DISCONNECTED
<1>6. state'.val = DISCONNECTED /\ CaughtUp' /\ faults' = faults
  BY <1>3, <1>5, ReceiverRmwEffect DEF WakingInv
<1>7. handle = "none" /\ "uninit" \notin faults
  BY <1>3 DEF OwnershipInv, HandleInv, Consuming
<1>8. sawClosed => sop = "drop"
  BY <1>5 DEF PromiseInv, ToldInv, SawClosedInv, WakingInv, Unsent
<1>9. CancelledOrder'
  <2>1. MemoryTypeOK /\ MemoryTypeOK' /\ ClockInv
    BY <1>1 DEF OwnershipInv, TypeInv, Typed, ChannelTypeOK, SlotInv, OrderInv
  <2>2. Carried(Message) /\ (spc = "take_waker" => WakerAcquired)
    BY <1>4, <1>5 DEF WakingInv, SlotInv, OrderInv, WakingRace
  <2>3. /\ Synced(Message)'
        /\ view'["S"] = view["S"] /\ last'["waker"]["R"] = last["waker"]["R"]
    BY <1>3, <2>1, <2>2, ReceiverRmwClocks, ScopesType DEF AcqRel
  <2> QED
    BY <1>2, <2>2, <2>3 DEF CancelledOrder, WakerAcquired, CoversAt, senderVars
<1> QED
  BY <1>1, <1>2, <1>3, <1>5, <1>6, <1>7, <1>8, <1>9
  DEF Cancelled, UnsetInv, WakingInv, AfterCancel, senderVars

\* What the clients may still notice of a cancelled channel: that its message is dropped.
Unnoticed ==
  /\ UNCHANGED <<promise, sawClosed>>
  /\ message' = message \/ (message = "init" /\ message' = "dropped")

\* A step of the drop forgets nothing of what the sender has done, ...
LEMMA DropKeepsOrder ==
  ASSUME CancelledOrder, ReceiverClocks(Message), UNCHANGED spc,
         view'["S"] = view["S"], last'["waker"]["R"] = last["waker"]["R"]
  PROVE  CancelledOrder'
BY DEF CancelledOrder, ReceiverClocks, WakerAcquired, CoversAt

\* ... and one of the wake leaves the message alone.
LEMMA WakeKeepsOrder ==
  ASSUME CancelledOrder, spc' # "take_waker",
         view'["R"] = view["R"], last'["message"]["S"] = last["message"]["S"]
  PROVE  CancelledOrder'
BY DEF CancelledOrder, Synced, CoversAt, Message

\* The sender goes on waking a future that is gone.
LEMMA SenderCancelled ==
  ASSUME Cancelled, TypeInv', Defined, SenderNext
  PROVE  Cancelled' /\ Unnoticed
<1>0. MemoryTypeOK /\ MemoryTypeOK' /\ CancelledOrder
  BY DEF Cancelled, TypeInv, Typed, ChannelTypeOK
<1>1. UNCHANGED <<rpc, handle, res, promise>>
  BY DEF SenderNext, receiverVars
<1>2. SenderTakeWaker \/ SenderSwap \/ SenderUnpark \/ SenderUnparkPanic
  BY DEF Cancelled, SenderNext, SenderStep, SenderCall, send, SenderDrop, SConsume, SendWrite,
     SendFetchAdd, DropFetchXor, SenderDealloc, SenderIsClosed, SenderRaw, as_inner,
     into_inner, SendErrorDrop, SendErrorDropPanic
<1>3. CASE SenderTakeWaker
  <2>1. UnsetInv /\ spc = "take_waker" /\ waker # "none" /\ clear_waker("S")
    BY <1>3 DEF SenderTakeWaker, Cancelled, UnsetInv
  <2>2. UNCHANGED <<state, stale, message>> /\ "uninit" \notin faults'
    BY <2>1 DEF clear_waker, Fault, CellAccess, Touch, UseAfterFree, Race, Cancelled
  <2>3. CaughtUp'
    BY <2>1, <2>2, LagUnchanged DEF UnsetInv
  <2>4. CancelledOrder'
    <3>1. view' = view /\ spc' = "swap"
      BY <1>3, <2>1 DEF SenderTakeWaker, clear_waker, CellAccess
    <3>2. last'["message"]["S"] = last["message"]["S"]
      BY <1>0, <2>1, TouchClocks, ConstantsType DEF clear_waker, CellAccess, Locations
    <3> QED
      BY <1>0, <3>1, <3>2, WakeKeepsOrder
  <2> QED
    BY <1>1, <1>3, <2>1, <2>2, <2>3, <2>4
    DEF SenderTakeWaker, Cancelled, UnsetInv, Unnoticed
<1>4. CASE SenderSwap
  <2>1. /\ UnsetInv /\ AtomicRmw("S", AcqRel, FinalState)
        /\ spc' = "unpark" /\ UNCHANGED <<sop, sawClosed, message>>
    BY <1>4 DEF SenderSwap, SGoto, Cancelled
  <2>2. "uninit" \notin faults' /\ (~alive => ~Defined')
    BY <2>1 DEF AtomicRmw, Touch, UseAfterFree, Cancelled, Defined
  <2>3. CancelledOrder'
    <3>1. view'["R"] = view["R"]
      BY <1>0, <2>1, RmwClocks, ConstantsType DEF Threads
    <3>2. last'["message"]["S"] = last["message"]["S"]
      BY <1>0, <2>1, TouchClocks, ConstantsType DEF AtomicRmw, Locations
    <3> QED
      BY <1>0, <2>1, <3>1, <3>2, WakeKeepsOrder
  <2>4. alive => state'.val = FinalState /\ OneBehind(DISCONNECTED)'
    BY <1>0, <2>1, SenderRmwEffect DEF UnsetInv, DISCONNECTED
  <2>5. alive => SetInv'
    BY <1>1, <2>1, <2>4 DEF SetInv, UnsetInv, FinalState, MESSAGE, DISCONNECTED
  <2> QED
    BY <1>1, <2>1, <2>2, <2>3, <2>5 DEF Cancelled, Unnoticed
<1>5. CASE SenderUnpark \/ SenderUnparkPanic
  <2>1. /\ UNCHANGED <<state, stale, view, last, faults, message, sop, sawClosed>>
        /\ spc = "unpark" /\ spc' \in {"done", "unwoken"}
    BY <1>5 DEF SenderUnpark, SenderUnparkPanic, channel, memory
  <2>2. SetInv
    BY <2>1 DEF Cancelled
  <2>3. SetInv'
    BY <1>1, <2>1, <2>2, LagUnchanged DEF SetInv
  <2>4. CancelledOrder'
    BY <1>0, <2>1, WakeKeepsOrder
  <2> QED
    BY <1>1, <2>1, <2>3, <2>4 DEF Cancelled, Unnoticed
<1> QED
  BY <1>2, <1>3, <1>4, <1>5

\* What is left of the drop: it spins, drops the message it finds, and frees.
LEMMA DropGoesOn ==
  ASSUME Cancelled, ReceiverNext
  PROVE  \/ AsyncDropSpin \/ Fence \/ WipeMessage \/ WipeMessagePanic \/ Free \/ Return
<1> USE DEF Cancelled, AfterCancel
<1>1. ~(\/ TryRecvLoad \/ RecvLoad \/ RecvParked \/ StartRecvRefLoad \/ RefParked
        \/ wait_for_unpark \/ PollLoad \/ PollSpin \/ AsyncDropLoad)
  BY DEF MatchLoad, TryRecvLoad, RecvLoad, RecvParked, StartRecvRefLoad, RefParked,
     wait_for_unpark, PollLoad, PollSpin, AsyncDropLoad
<1>2. ~(\/ RecvSwap \/ RefSwap \/ DeadlineSwap \/ DropSwap \/ AsyncDropSwap
        \/ PollCasEmpty \/ WriteAsyncWaker \/ AsyncDropCas)
  BY DEF MatchSwap, MatchCas, RecvSwap, RefSwap, DeadlineSwap, DropSwap, AsyncDropSwap,
     PollCasEmpty, WriteAsyncWaker, AsyncDropCas
<1>3. ~(WriteWaker \/ DropWaker \/ Mark \/ TakeMessage \/ DropWakerPanic)
  BY DEF WriteWaker, DropWaker, Mark, TakeMessage, Along, AfterWriteWaker, AfterDropWaker,
     AfterMark, AfterTake, DropWakerPanic
<1>4. ~(\/ DeadlineCheck \/ Park \/ SpuriousPark \/ ParkTimeout \/ Expire
        \/ WakeByRef \/ WakeByRefPanic \/ ClonePanic)
  BY DEF DeadlineCheck, Park, SpuriousPark, ParkTimeout, Expire, AfterPark,
     WakeByRef, WakeByRefPanic, ClonePanic
<1>5. ~ReceiverCall
  BY DEF ReceiverCall, try_recv, recv, recv_ref, recv_deadline, recv_timeout, StartRecvRef,
     is_closed, has_message, ReceiverRaw, ReceiverDrop, into_future, AsyncReceiverDrop,
     PollWoken, poll, Borrow, Consume
<1> QED
  BY <1>1, <1>2, <1>3, <1>4, <1>5, Zenon DEF ReceiverNext, ReceiverStep

\* The drop goes on, with what it reads of the state byte.
LEMMA ReceiverCancelled ==
  ASSUME Cancelled, TypeInv', Defined, ReceiverNext
  PROVE  Cancelled' /\ Unnoticed
<1> USE DEF RGoto, Arm, Along
<1>0. MemoryTypeOK /\ MemoryTypeOK' /\ CancelledOrder
  BY DEF Cancelled, TypeInv, Typed, ChannelTypeOK
<1>1. UNCHANGED <<spc, sop, sawClosed>>
  BY DEF ReceiverNext, senderVars
<1>2. IF spc \in {"take_waker", "swap"} THEN UnsetInv ELSE SetInv
  BY DEF Cancelled
<1>3. CASE AsyncDropSpin
  <2>1. /\ AtomicLoad("R", Relaxed) /\ rpc = "async_drop_spin"
        /\ rpc' = AsyncDropSpinArms(Visible("R").val).pc
        /\ res' = AsyncDropSpinArms(Visible("R").val).res
        /\ UNCHANGED <<handle, promise, message, waker>>
    BY <1>3 DEF AsyncDropSpin, MatchLoad
  <2>2. CancelledOrder'
    BY <1>0, <1>1, <2>1, ReceiverLoadClocks, DropKeepsOrder, ScopesType
  <2>3. /\ Visible("R").val \in {MESSAGE, DISCONNECTED}
        /\ UnsetInv => Visible("R").val = DISCONNECTED
        /\ Visible("R").val = MESSAGE => state.val = MESSAGE
    BY <1>0, <1>2, VisibleEffect DEF UnsetInv, SetInv, MESSAGE, DISCONNECTED
  <2>4. /\ rpc' = IF Visible("R").val = MESSAGE THEN "wipe_fence_free" ELSE "fence_free"
        /\ res' = "none"
    BY <2>1, <2>3 DEF AsyncDropSpinArms, MESSAGE, DISCONNECTED, UNPARKING
  <2>5. UNCHANGED <<state, stale>> /\ "uninit" \notin faults'
    BY <2>1 DEF AtomicLoad, Touch, UseAfterFree, Cancelled
  <2>6. UnsetInv => UnsetInv'
    BY <1>1, <2>1, <2>3, <2>4, <2>5, LagUnchanged DEF UnsetInv, MESSAGE, DISCONNECTED
  <2>7. SetInv => SetInv'
    BY <1>1, <2>1, <2>3, <2>4, <2>5, LagUnchanged DEF SetInv, MESSAGE, DISCONNECTED
  <2> QED
    BY <1>1, <1>2, <2>1, <2>2, <2>4, <2>5, <2>6, <2>7 DEF Cancelled, Unnoticed, AfterCancel
<1>4. CASE WipeMessage \/ WipeMessagePanic
  <2>1. /\ rpc = "wipe_fence_free" /\ move_message("R", "dropped")
        /\ \/ rpc' = "fence_free" /\ handle' = handle
           \/ rpc' = "idle" /\ handle' = "leaked"
        /\ UNCHANGED <<res, promise>>
    BY <1>4 DEF WipeMessage, WipeMessagePanic, AfterWipe, UnwindDrop, Cancelled, AfterCancel
  <2>2. SetInv /\ message = "init" /\ spc \notin {"take_waker", "swap"}
    BY <1>2, <2>1 DEF UnsetInv, SetInv
  <2>3. /\ UNCHANGED <<state, stale>> /\ message' = "dropped"
        /\ "uninit" \notin faults'
    BY <2>1, <2>2 DEF move_message, Fault, CellAccess, Touch, UseAfterFree, Race, Cancelled
  <2>4. SetInv'
    BY <2>1, <2>2, <2>3, LagUnchanged DEF SetInv
  <2>5. CancelledOrder'
    <3>1. PICK committed :
            "data_race" \notin committed /\ CellAccess("R", "message", committed)
      BY <2>1 DEF move_message, Fault
    <3>2. CoversAt(view["R"], "S", "message")
      BY <1>0 DEF CancelledOrder, Synced, Message
    <3> QED
      BY <1>0, <1>1, <3>1, <3>2, ReceiverCellClocks, DropKeepsOrder, ScopesType DEF Locations
  <2> QED
    BY <1>1, <2>1, <2>2, <2>3, <2>4, <2>5 DEF Cancelled, Unnoticed, AfterCancel
<1>5. CASE Fence \/ Free \/ Return
  <2>1. /\ rpc \in {"fence_free", "free", "return"} /\ rpc' \in {"free", "return", "idle"}
        /\ res = "none" /\ UNCHANGED <<res, handle>>
    BY <1>5 DEF Fence, AfterFence, Free, Return, Cancelled, AfterCancel
  <2>2. UNCHANGED <<promise, message, waker, state, stale>> /\ "uninit" \notin faults'
    <3>1. CASE Fence
      BY <3>1 DEF Fence, FenceAcquire, Cancelled
    <3>2. CASE Free
      <4>1. UNION {Race("R", l) : l \in Locations} \subseteq {"data_race"}
        BY RaceType, ConstantsType
      <4> QED
        BY <3>2, <4>1 DEF Free, dealloc, Fault, FreeBlock, UseAfterFree, Cancelled
    <3>3. CASE Return
      BY <2>1, <3>3 DEF Return, channel, memory, Cancelled
    <3> QED BY <1>5, <3>1, <3>2, <3>3
  <2>3. (UnsetInv => UnsetInv') /\ (SetInv => SetInv')
    BY <1>1, <2>1, <2>2, LagUnchanged DEF UnsetInv, SetInv
  <2>4. CancelledOrder'
    <3>1. CASE Fence
      BY <1>0, <1>1, <3>1, ReceiverFenceClocks, DropKeepsOrder, ScopesType
      DEF Fence, FenceAcquire
    <3>2. CASE Free
      BY <1>0, <1>1, <3>2, ReceiverFreeClocks, DropKeepsOrder, ScopesType
      DEF Free, CancelledOrder
    <3>3. CASE Return
      BY <1>0, <1>1, <3>3 DEF Return, channel, memory, CancelledOrder, Synced, WakerAcquired,
         CoversAt
    <3> QED BY <1>5, <3>1, <3>2, <3>3
  <2> QED
    BY <1>1, <1>2, <2>1, <2>2, <2>3, <2>4 DEF Cancelled, Unnoticed, AfterCancel
<1> QED
  BY <1>3, <1>4, <1>5, DropGoesOn

\* A cancelled channel stays one.
LEMMA NextCancelled ==
  ASSUME Cancelled, [Next]_vars
  PROVE  Cancelled' /\ Unnoticed
<1>1. TypeInv'
  BY NextType DEF Cancelled
<1>2. CASE UNCHANGED vars
  BY <1>1, <1>2, LagUnchanged DEF vars, channel, memory, senderVars, receiverVars, Cancelled,
     UnsetInv, SetInv, Defined, Unnoticed, CancelledOrder, Synced, WakerAcquired, CoversAt
<1>3. CASE Defined /\ Visibility
  <2>1. /\ UNCHANGED <<state, view, last, faults>>
        /\ CaughtUp => CaughtUp'
        /\ OneBehind(DISCONNECTED) => CaughtUp' \/ OneBehind(DISCONNECTED)'
    BY <1>3, PropagateEffect
    DEF Visibility, Propagate, Cancelled, TypeInv, Typed, ChannelTypeOK
  <2>2. UNCHANGED spc /\ CancelledOrder'
    BY <1>3, <2>1 DEF Visibility, senderVars, Cancelled, CancelledOrder, Synced, WakerAcquired,
       CoversAt
  <2> QED
    BY <1>1, <1>3, <2>1, <2>2 DEF Visibility, senderVars, receiverVars, Cancelled, UnsetInv,
       SetInv, Unnoticed
<1> QED
  BY <1>1, <1>2, <1>3, SenderCancelled, ReceiverCancelled DEF Next

\* A channel fresh from channel() is not cancelled.
LEMMA InitSpec == Init => SpecInv
BY InitOwned, InitPromises, InitWakes, InitRace, ScopesType DEF SpecInv, SlotInv

\* Every step of every channel keeps the invariants, or cancels.
LEMMA NextSpec == SpecInv /\ [Next]_vars => SpecInv'
<1> SUFFICES ASSUME SpecInv, [Next]_vars PROVE SpecInv'
  OBVIOUS
<1>1. CASE Cancelled
  BY <1>1, NextCancelled DEF SpecInv
<1>2. CASE OwnershipInv /\ PromiseInv /\ SlotInv /\ Next /\ CancelDuringWake
  BY <1>2, CancelStep DEF SpecInv
<1>3. CASE OwnershipInv /\ PromiseInv /\ WakeupInv /\ SlotInv /\ [UncancelledNext]_vars
  BY <1>3, NextOwned, NextPromises, NextWakes, NextSlots DEF SpecInv
<1> QED
  BY <1>1, <1>2, <1>3 DEF SpecInv, UncancelledNext

\* At every step of every channel ownership, promises, wakeups and the accesses to the
\* slots are in order, or a future was dropped while it was being woken and what Cancelled
\* says is left.
THEOREM Safety == Spec => []SpecInv
BY InitSpec, NextSpec, PTL DEF Spec

\* No unreachable!() of sender.rs, receiver.rs or channel.rs is ever reached, up to
\* the first undefined behaviour.
THEOREM PanicFreedom == Spec => []NoPanic
<1>1. OwnershipInv => NoPanic
  BY DEF OwnershipInv, NoPanic, PhaseInv, FreshInv, WakingInv, OwnerInv, OpenInv,
     ClosingInv, FreedInv, DoneInv, Unregistered, Registered, Unsure, Resting,
     MessageIsMine, NothingLeft
<1>2. Cancelled => NoPanic
  BY DEF Cancelled, AfterCancel, NoPanic
<1> QED
  BY <1>1, <1>2, Safety, PTL DEF SpecInv

\* No message is taken or dropped twice or before it was sent, and no waker is
\* taken by both ends, not even where a drop cancels a wakeup.
THEOREM InitialisedAccess == Spec => []NoUninitAccess
<1>1. SpecInv => NoUninitAccess
  BY DEF SpecInv, OwnershipInv, Cancelled, NoUninitAccess
<1> QED
  BY <1>1, Safety, PTL

\* Every access to the message or to the waker is ordered after the other end's last
\* access to it, whatever is cancelled, times out or wakes spuriously: it is only the
\* deallocation that can race.
THEOREM SlotOrder == Spec => []SlotsOrdered
<1>1. OwnershipInv /\ SlotInv => SlotsOrdered
  <2> SUFFICES ASSUME OwnershipInv, SlotInv PROVE SlotsOrdered
    OBVIOUS
  <2> USE DEF SlotInv, OrderInv, Race, Other, CoversAt
  <2>1. NatClocks
    BY ClocksAreNat DEF OwnershipInv, TypeInv, Typed, ChannelTypeOK
  <2>2. /\ view["R"]["S"] \in Nat /\ view["S"]["R"] \in Nat
        /\ \A l \in Locations : last[l]["R"] \in Nat /\ last[l]["S"] \in Nat
    BY <2>1, ConstantsType DEF NatClocks
  <2>3. rpc \in DOMAIN AfterTake \cup DOMAIN AfterWipe => Race("R", "message") = {}
    <3>1. rpc # "wipe_fence_free"
      BY DEF OwnershipInv, PhaseInv, FreshInv, WakingInv, OwnerInv, OpenInv, ClosingInv,
         FreedInv, DoneInv, Unregistered, Registered, Unsure, Resting, MessageIsMine,
         NothingLeft
    <3>2. rpc \in DOMAIN AfterTake \cup DOMAIN AfterWipe => Synced(Message)
      BY <3>1, Placed DEF DoneRace, AfterTake, AfterWipe, AfterAcquire, MessageIsMine
    <3> QED
      BY <2>2, <3>2 DEF Synced, Message, Locations
  <2>4. rpc \in DOMAIN AfterWriteWaker \cup DOMAIN AfterDropWaker => Race("R", "waker") = {}
    BY <2>2 DEF SlotRace, AfterWriteWaker, AfterDropWaker, UsesWaker, WakerIsMine
  <2>5. spc \in {"write_message", "error"} => Race("S", "message") = {}
    BY <2>2 DEF FreshRace, OwnerRace, DropAcquired, Covers, Locations
  <2>6. spc = "take_waker" => Race("S", "waker") = {}
    BY <2>2 DEF WakingRace, WakerAcquired, Locations
  <2> QED
    BY <2>3, <2>4, <2>5, <2>6 DEF SlotsOrdered
<1>2. Cancelled => SlotsOrdered
  <2> SUFFICES ASSUME Cancelled PROVE SlotsOrdered
    OBVIOUS
  <2>1. NatClocks
    BY ClocksAreNat DEF Cancelled, TypeInv, Typed, ChannelTypeOK
  <2>2. /\ view["R"]["S"] \in Nat /\ view["S"]["R"] \in Nat
        /\ \A l \in Locations : last[l]["R"] \in Nat /\ last[l]["S"] \in Nat
    BY <2>1, ConstantsType DEF NatClocks
  <2>3. /\ Race("R", "message") = {}
        /\ spc = "take_waker" => Race("S", "waker") = {}
    BY <2>2 DEF Cancelled, CancelledOrder, Synced, Message, WakerAcquired, CoversAt, Race,
       Other, Locations
  <2>4. /\ rpc \notin DOMAIN AfterWriteWaker \cup DOMAIN AfterDropWaker
        /\ spc \notin {"write_message", "error"}
    BY DEF Cancelled, AfterCancel, AfterWriteWaker, AfterDropWaker
  <2> QED
    BY <2>3, <2>4 DEF SlotsOrdered
<1> QED
  BY <1>1, <1>2, Safety, PTL DEF SpecInv

\* Between two calls of its client the state byte says of the sender, of the message and
\* of the registration what states.rs says it does; and until the sender acts it is
\* DISCONNECTED if and only if the receiver is gone.
THEOREM StateTruth == Spec => []StateIsTrue
<1>1. OwnershipInv /\ PromiseInv => StateIsTrue
  <2> SUFFICES ASSUME OwnershipInv, PromiseInv PROVE StateIsTrue
    OBVIOUS
  <2> USE DEF Unsent, ReceiverGone, Resting, EMPTY, RECEIVING, UNPARKING, MESSAGE,
      DISCONNECTED
  <2>1. CASE FreshInv
    BY <2>1 DEF FreshInv, StateIsTrue, Unregistered, Registered, Unsure, WakerIsMine
  <2>2. CASE WakingInv
    BY <2>2 DEF WakingInv, StateIsTrue
  <2>3. CASE OwnerInv
    BY <2>3 DEF OwnerInv, StateIsTrue
  <2>4. CASE DoneInv
    <3>1. message \in {"uninit", "init", "received", "returned", "dropped"}
      BY DEF OwnershipInv, TypeInv, Typed, ChannelTypeOK
    <3>2. message \in {"returned", "dropped"} => handle \in {"none", "leaked"}
      BY DEF PromiseInv, AnswerInv, FateInv
    <3> QED
      BY <2>4, <3>1, <3>2 DEF DoneInv, OpenInv, ClosingInv, FreedInv, StateIsTrue,
         MessageIsMine, NothingLeft, WakerIsMine
  <2> QED
    BY <2>1, <2>2, <2>3, <2>4 DEF OwnershipInv, PhaseInv
<1>2. Cancelled => StateIsTrue
  BY DEF Cancelled, AfterCancel, StateIsTrue, Unsent
<1> QED
  BY <1>1, <1>2, Safety, PTL DEF SpecInv

\* A Receiver that is between two calls is registered nowhere, however its timed
\* out calls and the sender's steps have interleaved.
THEOREM RegistrationTakenBack == Spec => []NoStaleRegistration
<1>1. OwnershipInv => NoStaleRegistration
  BY DEF OwnershipInv, NoStaleRegistration, PhaseInv, FreshInv, WakingInv, OwnerInv,
     OpenInv, ClosingInv, FreedInv, DoneInv, Unregistered, Registered, Unsure, Resting,
     WakerIsMine, MessageIsMine, NothingLeft, EMPTY, RECEIVING, UNPARKING, MESSAGE,
     DISCONNECTED
<1>2. Cancelled => NoStaleRegistration
  BY DEF Cancelled, NoStaleRegistration
<1> QED
  BY <1>1, <1>2, Safety, PTL DEF SpecInv

\* A receive method reports disconnection only if the sender was dropped without
\* sending or the message was received before.
THEOREM DisconnectionTruth == Spec => []DisconnectedIsTrue
<1>1. SpecInv => DisconnectedIsTrue
  BY DEF SpecInv, PromiseInv, AnswerInv, ResultInv, Cancelled, DisconnectedIsTrue
<1> QED
  BY <1>1, Safety, PTL

\* After is_closed returned true or a message was received, receive methods report
\* disconnection; after has_message returned true the next one returns the message.
THEOREM ReceiverPromises == Spec => []PromisesKept
<1>1. PromiseInv => PromisesKept
  BY DEF PromiseInv, AnswerInv, ClosedInv, MessageInv, Entries, PromisesKept
<1>2. Cancelled => PromisesKept
  BY DEF Cancelled, PromisesKept
<1> QED
  BY <1>1, <1>2, Safety, PTL DEF SpecInv

\* After Sender::is_closed returned true, send gives the message back.
THEOREM SenderPromise == Spec => []ClosedForSender
<1>1. OwnershipInv /\ PromiseInv => ClosedForSender
  BY DEF PromiseInv, ToldInv, SawClosedInv, ClosedForSender, Unsent, OwnershipInv, PhaseInv,
     FreshInv, WakingInv, OwnerInv, DoneInv
<1>2. Cancelled => ClosedForSender
  BY DEF Cancelled, ClosedForSender
<1> QED
  BY <1>1, <1>2, Safety, PTL DEF SpecInv

\* No wakeup is lost: once the sender is done a parked thread has its token, and the
\* waker of the last poll was woken.
THEOREM WakeupsArrive == Spec => []NoLostWakeup
<1>1. OwnershipInv /\ WakeupInv => NoLostWakeup
  <2> SUFFICES ASSUME OwnershipInv, WakeupInv PROVE NoLostWakeup
    OBVIOUS
  <2>1. spc = "done" /\ rpc = "idle" => waker = "none" /\ held = "none"
    BY DEF OwnershipInv, PhaseInv, FreshInv, WakingInv, OwnerInv, DoneInv, OpenInv, ClosingInv,
       FreedInv, WakerIsMine, MessageIsMine, NothingLeft, WakeupInv, HoldsInv
  <2>2. "none" \notin Tasks
    BY TasksAssumption
  <2> QED
    BY <2>1, <2>2 DEF WakeupInv, ThreadInv, TaskInv, NoLostWakeup, ThreadWaits, JustWoken,
       AfterPark, Resting
<1>2. Cancelled => NoLostWakeup
  BY DEF Cancelled, AfterCancel, NoLostWakeup, AfterPark
<1> QED
  BY <1>1, <1>2, Safety, PTL DEF SpecInv

-----------------------------------------------------------------------------
(* The ideal channel. *)

\* The step that cancels closes the receiver.
LEMMA CancelRefines ==
  ASSUME OwnershipInv, PromiseInv, SlotInv, Next, CancelDuringWake
  PROVE  IdealStep
<1>1. AsyncDropSwap /\ UNCHANGED senderVars /\ WakingInv
  BY CancelStep
<1>2. Quiet
  BY <1>1, QuietMatches
<1>3. ReceivedInv'
  BY <1>1, <1>2 DEF WakingInv, Quiet, ReceivedInv
<1> QED
  BY <1>2, <1>3, QuietStep

\* The ideal channel of a cancelled one is closed on both sides, and all that is left
\* to do is to discard the item.
LEMMA CancelledRefines ==
  ASSUME Cancelled, Cancelled', Unnoticed
  PROVE  IdealStep
<1>1. /\ IdealSender = "closed" /\ IdealSender' = "closed"
      /\ IdealReceiver = "closed" /\ IdealReceiver' = "closed"
      /\ IdealAnswer = "none" /\ IdealAnswer' = "none"
  BY DEF Cancelled, AfterCancel, IdealSender, Unsent, IdealReceiver, Closed, IdealAnswer
<1>2. CASE message' = message
  <2>1. IdealItem' = IdealItem
    BY <1>2 DEF Cancelled, IdealItem, Unsent
  <2> QED
    BY <1>1, <2>1 DEF Unnoticed, IdealStep, Ideal!ideal
<1>3. CASE message = "init" /\ message' = "dropped"
  <2>1. IdealItem = "channel" /\ IdealItem' = "dropped"
    BY <1>3 DEF Cancelled, IdealItem, Unsent
  <2> QED
    BY <1>1, <2>1 DEF Unnoticed, IdealStep, Ideal!Next, Ideal!Discard
<1> QED
  BY <1>2, <1>3 DEF Unnoticed

\* Every step from a state of the invariant is an ideal one, or none.
LEMMA SpecRefines ==
  ASSUME SpecInv, [Next]_vars
  PROVE  IdealStep
<1>1. CASE Cancelled
  BY <1>1, NextCancelled, CancelledRefines
<1>2. CASE OwnershipInv /\ PromiseInv /\ SlotInv /\ Next /\ CancelDuringWake
  BY <1>2, CancelRefines
<1>3. CASE OwnershipInv /\ PromiseInv /\ [UncancelledNext]_vars
  BY <1>3, NextOwned, NextPromises, NextRefines
<1> QED
  BY <1>1, <1>2, <1>3 DEF SpecInv, UncancelledNext

\* However the two ends interleave, however stale what they read and whatever is
\* cancelled, what their clients see of send, drop, is_closed and the receive methods
\* is an ideal channel, up to the first undefined behaviour.
THEOREM Refines == Spec => Implements
<1>1. SpecInv /\ [Next]_vars => [Ideal!Next]_(Ideal!ideal)
  BY SpecRefines DEF IdealStep
<1> QED
  BY <1>1, InitRefines, Safety, PTL DEF Spec, Implements, Ideal!Spec

-----------------------------------------------------------------------------
(* A build without futures. *)

\* The labels only a future gets to.
FutureOnly ==
  TaskOnly \cup {"drop_close", "async_drop", "async_drop_cas", "async_drop_swap",
                 "async_drop_spin", "wipe_fence_free"}

NoFuture == handle # "AsyncReceiver" /\ rpc \notin FutureOnly

\* Without async no step makes a future or gets to where only a future does.
LEMMA NextNoFuture ==
  ASSUME "async" \notin Features, TypeInv, NoFuture, [Next]_vars
  PROVE  NoFuture'
<1> USE DEF NoFuture, FutureOnly, TaskOnly, RGoto, Arm, Unreachable
<1>1. CASE UNCHANGED vars \/ SenderNext \/ Visibility
  BY <1>1 DEF vars, SenderNext, Visibility, receiverVars
<1>2. CASE \/ TryRecvLoad \/ RecvLoad \/ RecvParked \/ StartRecvRefLoad \/ RefParked
           \/ wait_for_unpark
  BY <1>2 DEF MatchLoad, TryRecvLoad, RecvLoad, RecvParked, StartRecvRefLoad, RefParked,
     wait_for_unpark, TryRecvArms, RecvArms, RecvParkedArms, StartRecvRefArms,
     RefParkedArms, WaitForUnparkArms, TypeInv, FinishInv
<1>3. CASE RecvSwap \/ RefSwap \/ DeadlineSwap \/ DropSwap
  BY <1>3 DEF MatchSwap, RecvSwap, RefSwap, DeadlineSwap, DropSwap, RecvSwapArms,
     RefSwapArms, DeadlineSwapArms, ReceiverDropArms, TypeInv, FinishInv
<1>4. CASE \/ WriteWaker \/ DropWaker \/ Mark \/ Fence \/ TakeMessage \/ WipeMessage
           \/ Free \/ WipeMessagePanic \/ DropWakerPanic
  BY <1>4 DEF WriteWaker, DropWaker, Mark, Fence, TakeMessage, WipeMessage, Free, Along,
     AfterWriteWaker, AfterDropWaker, AfterMark, AfterFence, AfterTake, AfterWipe,
     WipeMessagePanic, DropWakerPanic, UnwindCall, UnwindDrop
<1>5. CASE \/ Return \/ DeadlineCheck \/ Park \/ SpuriousPark \/ ParkTimeout \/ Expire
  BY <1>5 DEF Return, DeadlineCheck, Park, SpuriousPark, ParkTimeout, Expire, AfterPark
<1>6. CASE \/ PollLoad \/ PollCasEmpty \/ WakeByRef \/ WriteAsyncWaker \/ PollSpin
           \/ AsyncDropLoad \/ AsyncDropCas \/ AsyncDropSwap \/ AsyncDropSpin
           \/ WakeByRefPanic \/ ClonePanic
  BY <1>6 DEF MatchLoad, MatchSwap, MatchCas, PollLoad, PollCasEmpty, WakeByRef,
     WriteAsyncWaker, PollSpin, AsyncDropLoad, AsyncDropCas, AsyncDropSwap,
     AsyncDropSpin, WakeByRefPanic, ClonePanic
<1>7. CASE ReceiverCall
  BY <1>7 DEF ReceiverCall, try_recv, recv, recv_ref, recv_deadline, recv_timeout,
     StartRecvRef, is_closed, has_message, ReceiverRaw, ReceiverDrop, into_future,
     AsyncReceiverDrop, PollWoken, poll, Borrow, Consume
<1> QED
  BY <1>1, <1>2, <1>3, <1>4, <1>5, <1>6, <1>7 DEF Next, ReceiverNext, ReceiverStep

\* Without async the exclusion of UncancelledSpec excludes nothing.
THEOREM StdIsUncancelled ==
  ASSUME "async" \notin Features
  PROVE  Spec => UncancelledSpec
<1>1. Init => NoFuture
  BY DEF Init, ReceiverInit, NoFuture, FutureOnly, TaskOnly
<1>2. TypeInv /\ NoFuture /\ [Next]_vars => NoFuture'
  BY NextNoFuture
<1>3. NoFuture /\ [Next]_vars => [UncancelledNext]_vars
  BY DEF NoFuture, FutureOnly, UncancelledNext, CancelDuringWake
<1> QED
  BY <1>1, <1>2, <1>3, InitType, NextType, PTL DEF Spec, UncancelledSpec

\* Built without async, neither end touches the channel after it was freed and it is
\* freed only once, whatever the client does and whatever panics.
THEOREM StdUseAfterFreeFreedom ==
  ASSUME "async" \notin Features
  PROVE  Spec => []NoUseAfterFree
BY StdIsUncancelled, UseAfterFreeFreedom, PTL

\* Built without async, nothing is leaked by a channel both ends of which have
\* gone the way they should.
THEOREM StdLeakFreedom ==
  ASSUME "async" \notin Features
  PROVE  Spec => []NoLeak
BY StdIsUncancelled, LeakFreedom, PTL

-----------------------------------------------------------------------------
(* A build without threads that park. *)

\* The labels only a call that blocks its thread gets to.
BlockingOnly ==
  {"recv", "recv_register", "recv_swap", "recv_park", "recv_parked", "start_recv_ref",
   "ref_register", "ref_swap", "ref_park", "ref_parked", "timed_park", "deadline",
   "deadline_swap", "unpark_wait", "unpark_waited"}

\* Without std no step gets to where only a blocking call does.
LEMMA NextNoBlocking ==
  ASSUME "std" \notin Features, rpc \notin BlockingOnly, [Next]_vars
  PROVE  rpc' \notin BlockingOnly
<1> USE DEF BlockingOnly, RGoto, Arm, Unreachable
<1>1. CASE UNCHANGED vars \/ SenderNext \/ Visibility
  BY <1>1 DEF vars, SenderNext, Visibility, receiverVars
<1>2. CASE \/ TryRecvLoad \/ RecvLoad \/ RecvParked \/ StartRecvRefLoad \/ RefParked
           \/ wait_for_unpark \/ PollLoad \/ PollSpin \/ AsyncDropLoad \/ AsyncDropSpin
  BY <1>2 DEF MatchLoad, TryRecvLoad, RecvLoad, RecvParked, StartRecvRefLoad, RefParked,
     wait_for_unpark, PollLoad, PollSpin, AsyncDropLoad, AsyncDropSpin, TryRecvArms,
     PollArms, PollSpinArms, AsyncDropSpinArms
<1>3. CASE \/ RecvSwap \/ RefSwap \/ DeadlineSwap \/ DropSwap \/ AsyncDropSwap
           \/ PollCasEmpty \/ WriteAsyncWaker \/ AsyncDropCas
  BY <1>3 DEF MatchSwap, MatchCas, RecvSwap, RefSwap, DeadlineSwap, DropSwap, AsyncDropSwap,
     PollCasEmpty, WriteAsyncWaker, AsyncDropCas, ReceiverDropArms, AsyncDropArms,
     PollCasEmptyArms, WriteAsyncWakerArms
<1>4. CASE \/ WriteWaker \/ DropWaker \/ Mark \/ Fence \/ TakeMessage \/ WipeMessage
           \/ Free \/ WipeMessagePanic \/ DropWakerPanic
  BY <1>4 DEF WriteWaker, DropWaker, Mark, Fence, TakeMessage, WipeMessage, Free, Along,
     AfterWriteWaker, AfterDropWaker, AfterMark, AfterFence, AfterTake, AfterWipe,
     WipeMessagePanic, DropWakerPanic, UnwindCall, UnwindDrop
<1>5. CASE \/ Return \/ DeadlineCheck \/ Park \/ SpuriousPark \/ ParkTimeout \/ Expire
           \/ WakeByRef \/ WakeByRefPanic \/ ClonePanic
  BY <1>5 DEF Return, DeadlineCheck, Park, SpuriousPark, ParkTimeout, Expire, AfterPark,
     WakeByRef, WakeByRefPanic, ClonePanic, UnwindCall
<1>6. CASE ReceiverCall
  BY <1>6 DEF ReceiverCall, try_recv, recv, recv_ref, recv_deadline, recv_timeout,
     StartRecvRef, is_closed, has_message, ReceiverRaw, ReceiverDrop, into_future,
     AsyncReceiverDrop, PollWoken, poll, Borrow, Consume
<1> QED
  BY <1>1, <1>2, <1>3, <1>4, <1>5, <1>6 DEF Next, ReceiverNext, ReceiverStep

\* Without std no thread waits for an unpark, and the exclusion of CalmSpec is that
\* of UncancelledSpec.
THEOREM AsyncIsCalm ==
  ASSUME "std" \notin Features
  PROVE  UncancelledSpec => CalmSpec
<1>1. Init => rpc \notin BlockingOnly
  BY DEF Init, ReceiverInit, BlockingOnly
<1>2. rpc \notin BlockingOnly /\ [UncancelledNext]_vars => (rpc \notin BlockingOnly)'
  BY NextNoBlocking DEF UncancelledNext
<1>3. rpc \notin BlockingOnly /\ [UncancelledNext]_vars => [CalmNext]_vars
  BY DEF BlockingOnly, CalmNext, WakeWithoutUnpark
<1> QED
  BY <1>1, <1>2, <1>3, PTL DEF UncancelledSpec, CalmSpec

\* Built without std, with nothing but futures, a channel whose future is not dropped
\* while it is being woken has no data race, whatever its park would do.
THEOREM AsyncRaceFreedom ==
  ASSUME "std" \notin Features
  PROVE  UncancelledSpec => []NoDataRace
BY AsyncIsCalm, RaceFreedom, PTL
=============================================================================
