---------------------------- MODULE PromiseProofs ----------------------------
(***************************************************************************)
(* PromiseInv is an invariant of UncancelledSpec: what the methods of      *)
(* either end tell their clients is true and stays true.                   *)
(***************************************************************************)
EXTENDS PromiseInv, OwnershipProofs

-----------------------------------------------------------------------------
(* The steps of the receiving end, and what its client is told. *)

\* The steps that act upon a load of state.
LEMMA AnswerLoads ==
  ASSUME OwnershipInv, AnswerInv, ReceiverNext,
         \/ TryRecvLoad \/ RecvLoad \/ RecvParked \/ StartRecvRefLoad \/ RefParked
         \/ wait_for_unpark \/ PollLoad \/ PollSpin \/ AsyncDropLoad
         \/ AsyncDropSpin
  PROVE  AnswerInv'
<1>1. MemoryTypeOK
  BY DEF OwnershipInv, TypeInv, Typed, ChannelTypeOK
<1>2. /\ UNCHANGED <<spc, sop>>
      /\ message \in {"uninit", "init", "received", "returned", "dropped"}
  BY DEF ReceiverNext, senderVars, OwnershipInv, TypeInv, Typed, ChannelTypeOK
<1> USE DEF RGoto, Arm, Unreachable, OwnershipInv, HandleInv, PhaseInv, FreshInv, WakingInv, OwnerInv, OpenInv,
    ClosingInv, FreedInv, DoneInv, Unregistered, Registered, Unsure, Resting, WakerIsMine,
    MessageIsMine, NothingLeft, Consuming, ThreadOnly, TaskOnly, Borrowing, EMPTY,
    RECEIVING, UNPARKING, MESSAGE, DISCONNECTED,
    AnswerInv, FateInv, ReceivedInv, ResultInv, ClosedInv, MessageInv, Unsent, Entries, Taking
<1>3. CASE TryRecvLoad
  <2>1. alive
    BY <1>3 DEF TryRecvLoad, MatchLoad
  <2>2. UNCHANGED <<state, stale, alive, faults>>
    BY <1>3, <2>1, LoadEffect DEF TryRecvLoad, MatchLoad
  <2> QED
    BY <1>1, <1>2, <1>3, <2>1, <2>2, VisibleEffect, LagUnchanged
    DEF TryRecvLoad, MatchLoad, TryRecvArms
<1>4. CASE RecvLoad
  <2>1. alive
    BY <1>4 DEF RecvLoad, MatchLoad
  <2>2. UNCHANGED <<state, stale, alive, faults>>
    BY <1>4, <2>1, LoadEffect DEF RecvLoad, MatchLoad
  <2> QED
    BY <1>1, <1>2, <1>4, <2>1, <2>2, VisibleEffect, LagUnchanged
    DEF RecvLoad, MatchLoad, RecvArms
<1>5. CASE RecvParked
  <2>1. alive
    BY <1>5 DEF RecvParked, MatchLoad
  <2>2. UNCHANGED <<state, stale, alive, faults>>
    BY <1>5, <2>1, LoadEffect DEF RecvParked, MatchLoad
  <2> QED
    BY <1>1, <1>2, <1>5, <2>1, <2>2, VisibleEffect, LagUnchanged
    DEF RecvParked, MatchLoad, RecvParkedArms
<1>6. CASE StartRecvRefLoad
  <2>1. alive
    BY <1>6 DEF StartRecvRefLoad, MatchLoad
  <2>2. UNCHANGED <<state, stale, alive, faults>>
    BY <1>6, <2>1, LoadEffect DEF StartRecvRefLoad, MatchLoad
  <2> QED
    BY <1>1, <1>2, <1>6, <2>1, <2>2, VisibleEffect, LagUnchanged
    DEF StartRecvRefLoad, MatchLoad, StartRecvRefArms
<1>7. CASE RefParked
  <2>1. alive
    BY <1>7 DEF RefParked, MatchLoad
  <2>2. UNCHANGED <<state, stale, alive, faults>>
    BY <1>7, <2>1, LoadEffect DEF RefParked, MatchLoad
  <2> QED
    BY <1>1, <1>2, <1>7, <2>1, <2>2, VisibleEffect, LagUnchanged
    DEF RefParked, MatchLoad, RefParkedArms, TypeInv, FinishInv
<1>8. CASE wait_for_unpark
  <2>1. alive
    BY <1>8 DEF wait_for_unpark, MatchLoad
  <2>2. UNCHANGED <<state, stale, alive, faults>>
    BY <1>8, <2>1, LoadEffect DEF wait_for_unpark, MatchLoad
  <2> QED
    BY <1>1, <1>2, <1>8, <2>1, <2>2, VisibleEffect, LagUnchanged
    DEF wait_for_unpark, MatchLoad, WaitForUnparkArms
<1>9. CASE PollLoad
  <2>1. alive
    BY <1>9 DEF PollLoad, MatchLoad
  <2>2. UNCHANGED <<state, stale, alive, faults>>
    BY <1>9, <2>1, LoadEffect DEF PollLoad, MatchLoad
  <2> QED
    BY <1>1, <1>2, <1>9, <2>1, <2>2, VisibleEffect, LagUnchanged
    DEF PollLoad, MatchLoad, PollArms
<1>10. CASE PollSpin
  <2>1. alive
    BY <1>10 DEF PollSpin, MatchLoad
  <2>2. UNCHANGED <<state, stale, alive, faults>>
    BY <1>10, <2>1, LoadEffect DEF PollSpin, MatchLoad
  <2> QED
    BY <1>1, <1>2, <1>10, <2>1, <2>2, VisibleEffect, LagUnchanged
    DEF PollSpin, MatchLoad, PollSpinArms
<1>11. CASE AsyncDropLoad
  <2>1. alive
    BY <1>11 DEF AsyncDropLoad, MatchLoad
  <2>2. UNCHANGED <<state, stale, alive, faults>>
    BY <1>11, <2>1, LoadEffect DEF AsyncDropLoad, MatchLoad
  <2> QED
    BY <1>1, <1>2, <1>11, <2>1, <2>2, VisibleEffect, LagUnchanged
    DEF AsyncDropLoad, MatchLoad
<1>12. CASE AsyncDropSpin
  <2>1. alive
    BY <1>12 DEF AsyncDropSpin, MatchLoad
  <2>2. UNCHANGED <<state, stale, alive, faults>>
    BY <1>12, <2>1, LoadEffect DEF AsyncDropSpin, MatchLoad
  <2> QED
    BY <1>1, <1>2, <1>12, <2>1, <2>2, VisibleEffect, LagUnchanged
    DEF AsyncDropSpin, MatchLoad, AsyncDropSpinArms
<1> QED
  BY <1>3, <1>4, <1>5, <1>6, <1>7, <1>8, <1>9, <1>10, <1>11, <1>12
\* The steps that act upon a swap of state.
LEMMA AnswerSwaps ==
  ASSUME OwnershipInv, AnswerInv, ReceiverNext, ~CancelDuringWake,
         \/ RecvSwap \/ RefSwap \/ DeadlineSwap \/ DropSwap \/ AsyncDropSwap
  PROVE  AnswerInv'
<1>1. MemoryTypeOK
  BY DEF OwnershipInv, TypeInv, Typed, ChannelTypeOK
<1>2. /\ UNCHANGED <<spc, sop>>
      /\ message \in {"uninit", "init", "received", "returned", "dropped"}
  BY DEF ReceiverNext, senderVars, OwnershipInv, TypeInv, Typed, ChannelTypeOK
<1> USE DEF RGoto, Arm, Unreachable, OwnershipInv, HandleInv, PhaseInv, FreshInv, WakingInv, OwnerInv, OpenInv,
    ClosingInv, FreedInv, DoneInv, Unregistered, Registered, Unsure, Resting, WakerIsMine,
    MessageIsMine, NothingLeft, Consuming, ThreadOnly, TaskOnly, Borrowing, EMPTY,
    RECEIVING, UNPARKING, MESSAGE, DISCONNECTED,
    AnswerInv, FateInv, ReceivedInv, ResultInv, ClosedInv, MessageInv, Unsent, Entries, Taking
<1>3. CASE RecvSwap
  <2>1. alive
    BY <1>3 DEF RecvSwap, MatchSwap
  <2>2. state'.val = RECEIVING /\ CaughtUp' /\ UNCHANGED <<alive, faults>>
    BY <1>3, <2>1, ReceiverRmwEffect DEF RecvSwap, MatchSwap
  <2> QED
    BY <1>1, <1>2, <1>3, <2>1, <2>2 DEF RecvSwap, MatchSwap, RecvSwapArms
<1>4. CASE RefSwap
  <2>1. alive
    BY <1>4 DEF RefSwap, MatchSwap
  <2>2. state'.val = RECEIVING /\ CaughtUp' /\ UNCHANGED <<alive, faults>>
    BY <1>4, <2>1, ReceiverRmwEffect DEF RefSwap, MatchSwap
  <2> QED
    BY <1>1, <1>2, <1>4, <2>1, <2>2 DEF RefSwap, MatchSwap, RefSwapArms, TypeInv, FinishInv
<1>5. CASE DeadlineSwap
  <2>1. alive
    BY <1>5 DEF DeadlineSwap, MatchSwap
  <2>2. state'.val = EMPTY /\ CaughtUp' /\ UNCHANGED <<alive, faults>>
    BY <1>5, <2>1, ReceiverRmwEffect DEF DeadlineSwap, MatchSwap
  <2> QED
    BY <1>1, <1>2, <1>5, <2>1, <2>2 DEF DeadlineSwap, MatchSwap, DeadlineSwapArms
<1>6. CASE DropSwap
  <2>1. alive
    BY <1>6 DEF DropSwap, MatchSwap
  <2>2. state'.val = DISCONNECTED /\ CaughtUp' /\ UNCHANGED <<alive, faults>>
    BY <1>6, <2>1, ReceiverRmwEffect DEF DropSwap, MatchSwap
  <2> QED
    BY <1>1, <1>2, <1>6, <2>1, <2>2 DEF DropSwap, MatchSwap, ReceiverDropArms
<1>7. CASE AsyncDropSwap
  <2>1. alive
    BY <1>7 DEF AsyncDropSwap, MatchSwap
  <2>2. state'.val = DISCONNECTED /\ CaughtUp' /\ UNCHANGED <<alive, faults>>
    BY <1>7, <2>1, ReceiverRmwEffect DEF AsyncDropSwap, MatchSwap
  <2> QED
    BY <1>1, <1>2, <1>7, <2>1, <2>2 DEF AsyncDropSwap, MatchSwap, AsyncDropArms, CancelDuringWake
<1> QED
  BY <1>3, <1>4, <1>5, <1>6, <1>7

\* The steps that act upon a compare_exchange of state.
LEMMA AnswerExchanges ==
  ASSUME OwnershipInv, AnswerInv, ReceiverNext,
         \/ PollCasEmpty \/ WriteAsyncWaker \/ AsyncDropCas
  PROVE  AnswerInv'
<1>1. MemoryTypeOK
  BY DEF OwnershipInv, TypeInv, Typed, ChannelTypeOK
<1>2. /\ UNCHANGED <<spc, sop>>
      /\ message \in {"uninit", "init", "received", "returned", "dropped"}
  BY DEF ReceiverNext, senderVars, OwnershipInv, TypeInv, Typed, ChannelTypeOK
<1> USE DEF RGoto, Arm, Unreachable, OwnershipInv, HandleInv, PhaseInv, FreshInv, WakingInv, OwnerInv, OpenInv,
    ClosingInv, FreedInv, DoneInv, Unregistered, Registered, Unsure, Resting, WakerIsMine,
    MessageIsMine, NothingLeft, Consuming, ThreadOnly, TaskOnly, Borrowing, EMPTY,
    RECEIVING, UNPARKING, MESSAGE, DISCONNECTED,
    AnswerInv, FateInv, ReceivedInv, ResultInv, ClosedInv, MessageInv, Unsent, Entries, Taking
<1>3. CASE PollCasEmpty
  <2>1. alive /\ rpc = "poll_cas_empty" /\ UNCHANGED <<message, waker>>
    BY <1>3 DEF PollCasEmpty, MatchCas
  <2>2. CASE state.val = RECEIVING /\ AtomicRmw("R", Relaxed, EMPTY) /\ RGoto(Arm("drop_register", "none"))
    <3>1. state'.val = EMPTY /\ CaughtUp' /\ UNCHANGED <<alive, faults>>
      BY <2>1, <2>2, ReceiverRmwEffect
    <3> QED BY <1>2, <2>1, <2>2, <3>1
  <2>3. CASE /\ Visible("R").val # RECEIVING /\ AtomicLoad("R", Relaxed)
             /\ RGoto(PollCasEmptyArms(Visible("R").val))
    <3>1. UNCHANGED <<state, stale, alive, faults>>
      BY <2>1, <2>3, LoadEffect
    <3> QED
      BY <1>1, <1>2, <2>1, <2>3, <3>1, VisibleEffect, LagUnchanged
      DEF PollCasEmptyArms
  <2> QED
    BY <1>3, <2>2, <2>3 DEF PollCasEmpty, MatchCas
<1>4. CASE WriteAsyncWaker
  <2>1. alive /\ rpc = "poll_cas_receiving" /\ UNCHANGED <<message, waker>>
    BY <1>4 DEF WriteAsyncWaker, MatchCas
  <2>2. CASE state.val = EMPTY /\ AtomicRmw("R", Release, RECEIVING) /\ RGoto(Arm("return", "Pending"))
    <3>1. state'.val = RECEIVING /\ CaughtUp' /\ UNCHANGED <<alive, faults>>
      BY <2>1, <2>2, ReceiverRmwEffect
    <3> QED BY <1>2, <2>1, <2>2, <3>1
  <2>3. CASE /\ Visible("R").val # EMPTY /\ AtomicLoad("R", Relaxed)
             /\ RGoto(WriteAsyncWakerArms(Visible("R").val))
    <3>1. UNCHANGED <<state, stale, alive, faults>>
      BY <2>1, <2>3, LoadEffect
    <3> QED
      BY <1>1, <1>2, <2>1, <2>3, <3>1, VisibleEffect, LagUnchanged
      DEF WriteAsyncWakerArms
  <2> QED
    BY <1>4, <2>2, <2>3 DEF WriteAsyncWaker, MatchCas
<1>5. CASE AsyncDropCas
  <2>1. alive /\ rpc = "async_drop_cas" /\ UNCHANGED <<message, waker>>
    BY <1>5 DEF AsyncDropCas, MatchCas
  <2>2. CASE state.val = RECEIVING /\ AtomicRmw("R", Relaxed, EMPTY) /\ RGoto(Arm("drop_close", "none"))
    <3>1. state'.val = EMPTY /\ CaughtUp' /\ UNCHANGED <<alive, faults>>
      BY <2>1, <2>2, ReceiverRmwEffect
    <3> QED BY <1>2, <2>1, <2>2, <3>1
  <2>3. CASE /\ Visible("R").val # RECEIVING /\ AtomicLoad("R", Relaxed)
             /\ RGoto(Arm("async_drop_swap", "none"))
    <3>1. UNCHANGED <<state, stale, alive, faults>>
      BY <2>1, <2>3, LoadEffect
    <3> QED
      BY <1>1, <1>2, <2>1, <2>3, <3>1, VisibleEffect, LagUnchanged
  <2> QED
    BY <1>5, <2>2, <2>3 DEF AsyncDropCas, MatchCas
<1> QED
  BY <1>3, <1>4, <1>5

\* The straight-line parts of the match arms, and the panics in them.
LEMMA AnswerTails ==
  ASSUME OwnershipInv, AnswerInv, ReceiverNext,
         \/ WriteWaker \/ DropWaker \/ Mark \/ Fence \/ TakeMessage \/ WipeMessage
         \/ WipeMessagePanic \/ DropWakerPanic
  PROVE  AnswerInv'
<1>1. MemoryTypeOK
  BY DEF OwnershipInv, TypeInv, Typed, ChannelTypeOK
<1>2. /\ UNCHANGED <<spc, sop>>
      /\ message \in {"uninit", "init", "received", "returned", "dropped"}
  BY DEF ReceiverNext, senderVars, OwnershipInv, TypeInv, Typed, ChannelTypeOK
<1> USE DEF RGoto, Arm, Unreachable, OwnershipInv, HandleInv, PhaseInv, FreshInv, WakingInv, OwnerInv, OpenInv,
    ClosingInv, FreedInv, DoneInv, Unregistered, Registered, Unsure, Resting, WakerIsMine,
    MessageIsMine, NothingLeft, Consuming, ThreadOnly, TaskOnly, Borrowing, EMPTY,
    RECEIVING, UNPARKING, MESSAGE, DISCONNECTED,
    AnswerInv, FateInv, ReceivedInv, ResultInv, ClosedInv, MessageInv, Unsent, Entries, Taking
<1>3. CASE WriteWaker \/ DropWaker
  <2>1. /\ UNCHANGED <<state, stale, alive, message>>
        /\ rpc \in DOMAIN AfterWriteWaker \cup DOMAIN AfterDropWaker
    BY <1>3 DEF WriteWaker, DropWaker, Along, write_waker, clear_waker, CellAccess, Touch
  <2> QED
    BY <1>2, <1>3, <2>1, LagUnchanged
    DEF WriteWaker, DropWaker, Along, AfterWriteWaker, AfterDropWaker
<1>4. CASE Mark
  <2>1. alive /\ rpc \in DOMAIN AfterMark
    BY <1>4 DEF Mark, Along, AfterMark
  <2>2. /\ UNCHANGED <<alive, faults, message, waker>>
        /\ CaughtUp' /\ state'.val = DISCONNECTED
    BY <1>4, <2>1, ReceiverStoreEffect DEF Mark, Along, AfterMark
  <2> QED
    BY <1>2, <1>4, <2>1, <2>2 DEF Mark, Along, AfterMark
<1>5. CASE Fence
  <2>1. UNCHANGED <<state, stale, alive, faults, message, waker>>
    BY <1>5 DEF Fence, Along, FenceAcquire
  <2> QED
    BY <1>2, <1>5, <2>1, LagUnchanged DEF Fence, Along, AfterFence
<1>6. CASE TakeMessage
  <2>1. alive /\ rpc \in DOMAIN AfterTake /\ ClosingInv /\ DoneInv /\ message = "init"
    BY <1>6 DEF TakeMessage, Along, AfterTake
  <2>2. UNCHANGED <<state, stale, alive, waker>> /\ message' = "received"
    BY <1>6, <2>1, SlotEffect DEF TakeMessage, Along
  <2> QED
    BY <1>2, <1>6, <2>1, <2>2, LagUnchanged DEF TakeMessage, Along, AfterTake
<1>7. CASE WipeMessage \/ WipeMessagePanic
  <2>1. alive /\ rpc = "wipe_free" /\ ClosingInv /\ DoneInv /\ message = "init"
    BY <1>7 DEF WipeMessage, WipeMessagePanic, Along, AfterWipe
  <2>2. UNCHANGED <<state, stale, alive, waker>> /\ message' = "dropped"
    BY <1>7, <2>1, SlotEffect DEF WipeMessage, WipeMessagePanic, Along
  <2>3. /\ UNCHANGED <<res, promise>>
        /\ \/ rpc' = "free" /\ handle' = handle
           \/ rpc' = "idle" /\ handle' = "leaked"
    BY <1>7, <2>1 DEF WipeMessage, WipeMessagePanic, Along, AfterWipe, UnwindDrop
  <2> QED
    BY <1>2, <2>1, <2>2, <2>3, LagUnchanged
<1>8. CASE DropWakerPanic
  <2>1. /\ alive /\ waker # "none" /\ clear_waker("R")
        /\ rpc \in {"drop_mark_fence_take", "drop", "drop_register", "drop_close"}
    BY <1>8, TasksAssumption DEF DropWakerPanic, AfterDropWaker
  <2>2. UNCHANGED <<state, stale, alive, message>>
    BY <2>1, SlotEffect
  <2>3. /\ rpc' = "idle" /\ promise' = promise
        /\ res' = "panic" \/ (rpc = "drop_close" /\ res' = res)
    BY <1>8, <2>1 DEF DropWakerPanic, UnwindCall, UnwindDrop
  <2> QED
    BY <1>2, <2>1, <2>2, <2>3, LagUnchanged
<1> QED
  BY <1>3, <1>4, <1>5, <1>6, <1>7, <1>8

\* The deallocation, the sleeping and the steps that only decide where to go.
LEMMA AnswerSleeps ==
  ASSUME OwnershipInv, AnswerInv, ReceiverNext,
         \/ Free \/ Return \/ DeadlineCheck \/ Park \/ SpuriousPark \/ ParkTimeout
         \/ Expire \/ WakeByRef \/ WakeByRefPanic \/ ClonePanic
  PROVE  AnswerInv'
<1>1. MemoryTypeOK
  BY DEF OwnershipInv, TypeInv, Typed, ChannelTypeOK
<1>2. /\ UNCHANGED <<spc, sop>>
      /\ message \in {"uninit", "init", "received", "returned", "dropped"}
  BY DEF ReceiverNext, senderVars, OwnershipInv, TypeInv, Typed, ChannelTypeOK
<1> USE DEF RGoto, Arm, Unreachable, OwnershipInv, HandleInv, PhaseInv, FreshInv, WakingInv, OwnerInv, OpenInv,
    ClosingInv, FreedInv, DoneInv, Unregistered, Registered, Unsure, Resting, WakerIsMine,
    MessageIsMine, NothingLeft, Consuming, ThreadOnly, TaskOnly, Borrowing, EMPTY,
    RECEIVING, UNPARKING, MESSAGE, DISCONNECTED,
    AnswerInv, FateInv, ReceivedInv, ResultInv, ClosedInv, MessageInv, Unsent, Entries, Taking
<1>3. CASE Free
  <2>1. /\ rpc = "free" /\ rpc' = "return" /\ UNCHANGED <<handle, res, promise>>
        /\ UNCHANGED <<state, stale, message, waker>> /\ ~alive'
    BY <1>3 DEF Free, Along, dealloc, FreeBlock
  <2> QED BY <1>2, <2>1, LagUnchanged
<1>4. CASE Return
  <2>1. UNCHANGED <<state, stale, alive, faults, message, waker, handle>>
    BY <1>4 DEF Return, channel, memory
  <2> QED
    BY <1>2, <1>4, <2>1, LagUnchanged DEF Return
<1>5. CASE \/ DeadlineCheck \/ ParkTimeout \/ Expire \/ WakeByRef \/ WakeByRefPanic
           \/ ClonePanic
  <2>1. UNCHANGED <<state, stale, alive, faults, message, waker, handle>>
    BY <1>5 DEF DeadlineCheck, ParkTimeout, Expire, WakeByRef, WakeByRefPanic, ClonePanic,
       UnwindCall, channel, memory
  <2> QED
    BY <1>2, <1>5, <2>1, LagUnchanged
    DEF DeadlineCheck, ParkTimeout, Expire, WakeByRef, WakeByRefPanic, ClonePanic,
        UnwindCall, AfterPark
<1>6. CASE Park
  <2>1. UNCHANGED <<state, alive, faults, message, waker, handle>> /\ CaughtUp'
    BY <1>1, <1>6, ConstantsType
    DEF Park, ParkToken, SyncWith, CaughtUp, MemoryTypeOK
  <2> QED
    BY <1>2, <1>6, <2>1 DEF Park, AfterPark
<1>7. CASE SpuriousPark
  <2>1. UNCHANGED <<state, stale, alive, faults, message, waker, handle>>
    BY <1>7 DEF SpuriousPark, ParkSpurious, memory
  <2> QED
    BY <1>2, <1>7, <2>1, LagUnchanged DEF SpuriousPark, AfterPark
<1> QED
  BY <1>3, <1>4, <1>5, <1>6, <1>7

\* The calls of the receiver's client; is_closed and has_message make a promise.
LEMMA AnswerCalls ==
  ASSUME OwnershipInv, AnswerInv, ReceiverNext, ReceiverCall
  PROVE  AnswerInv'
<1>1. MemoryTypeOK
  BY DEF OwnershipInv, TypeInv, Typed, ChannelTypeOK
<1>2. /\ UNCHANGED <<spc, sop>>
      /\ message \in {"uninit", "init", "received", "returned", "dropped"}
  BY DEF ReceiverNext, senderVars, OwnershipInv, TypeInv, Typed, ChannelTypeOK
<1> USE DEF RGoto, Arm, Unreachable, OwnershipInv, HandleInv, PhaseInv, FreshInv, WakingInv, OwnerInv, OpenInv,
    ClosingInv, FreedInv, DoneInv, Unregistered, Registered, Unsure, Resting, WakerIsMine,
    MessageIsMine, NothingLeft, Consuming, ThreadOnly, TaskOnly, Borrowing, EMPTY,
    RECEIVING, UNPARKING, MESSAGE, DISCONNECTED,
    AnswerInv, FateInv, ReceivedInv, ResultInv, ClosedInv, MessageInv, Unsent, Entries, Taking
<1>3. CASE is_closed \/ has_message
  <2>1. alive
    BY <1>3 DEF is_closed, has_message
  <2>2. UNCHANGED <<state, stale, alive, faults>>
    BY <1>3, <2>1, LoadEffect DEF is_closed, has_message
  <2> QED
    BY <1>1, <1>2, <1>3, <2>1, <2>2, VisibleEffect, LagUnchanged DEF is_closed, has_message
<1>4. CASE ReceiverRaw \/ into_future
  <2>1. UNCHANGED <<state, stale, alive, faults, message, waker>>
    BY <1>4 DEF ReceiverRaw, into_future, channel, memory
  <2> QED
    BY <1>2, <1>4, <2>1, LagUnchanged DEF ReceiverRaw, into_future
<1>5. CASE recv \/ ReceiverDrop \/ AsyncReceiverDrop
  <2>1. UNCHANGED <<state, stale, alive, faults, message, waker>>
    BY <1>5 DEF recv, ReceiverDrop, AsyncReceiverDrop, Consume, channel, memory
  <2> QED
    BY <1>2, <1>5, <2>1, LagUnchanged DEF recv, ReceiverDrop, AsyncReceiverDrop, Consume
<1>6. CASE \/ try_recv \/ recv_ref \/ recv_deadline \/ recv_timeout
           \/ PollWoken \/ \E w \in Tasks : poll(w)
  <2>1. UNCHANGED <<state, stale, alive, faults, message, waker, handle, promise>>
    BY <1>6 DEF try_recv, recv_ref, recv_deadline, recv_timeout, StartRecvRef, PollWoken,
       poll, Borrow, channel, memory
  <2>2. /\ rpc = "idle" /\ handle \in {"Receiver", "AsyncReceiver"}
        /\ rpc' \in {"try_recv", "start_recv_ref", "poll"} /\ res' = "none"
    BY <1>6 DEF try_recv, recv_ref, recv_deadline, recv_timeout, StartRecvRef, PollWoken,
       poll, Borrow
  <2> QED
    BY <1>2, <2>1, <2>2, LagUnchanged
<1> QED
  BY <1>3, <1>4, <1>5, <1>6 DEF ReceiverCall

\* Every step of the receiving end keeps what its client was told true.
LEMMA ReceiverAnswers ==
  ASSUME OwnershipInv, AnswerInv, ReceiverNext, ~CancelDuringWake
  PROVE  AnswerInv'
BY AnswerLoads, AnswerSwaps, AnswerExchanges, AnswerTails, AnswerSleeps, AnswerCalls, Zenon
   DEF ReceiverNext, ReceiverStep
-----------------------------------------------------------------------------
(* The steps of the sending end, and what the receiver's client is told. *)

\* Every step of the sending end keeps what the receiver's client was told true.
LEMMA SenderAnswers ==
  ASSUME OwnershipInv, AnswerInv, SenderNext
  PROVE  AnswerInv'
<1>1. MemoryTypeOK
  BY DEF OwnershipInv, TypeInv, Typed, ChannelTypeOK
<1>2. /\ UNCHANGED <<rpc, handle, res, promise>>
      /\ message \in {"uninit", "init", "received", "returned", "dropped"}
  BY DEF SenderNext, receiverVars, OwnershipInv, TypeInv, Typed, ChannelTypeOK
<1> USE DEF SGoto, OwnershipInv, HandleInv, PhaseInv, FreshInv, WakingInv, OwnerInv, OpenInv,
    ClosingInv, FreedInv, DoneInv, Unregistered, Registered, Unsure, Resting, WakerIsMine,
    MessageIsMine, NothingLeft, Consuming, ThreadOnly, TaskOnly, Borrowing, EMPTY,
    RECEIVING, UNPARKING, MESSAGE, DISCONNECTED,
    AnswerInv, FateInv, ReceivedInv, ResultInv, ClosedInv, MessageInv, Unsent, Entries, Taking
<1>3. CASE send \/ SenderDrop \/ SenderRaw
  <2>1. UNCHANGED <<state, stale, alive, faults, message, waker>>
    BY <1>3 DEF send, SenderDrop, SenderRaw, SConsume, channel, memory
  <2> QED
    BY <1>2, <1>3, <2>1, LagUnchanged DEF send, SenderDrop, SenderRaw, SConsume
<1>4. CASE SendWrite
  <2>1. alive /\ message = "uninit" /\ FreshInv /\ write_message("S")
    BY <1>4 DEF SendWrite
  <2>2. UNCHANGED <<state, stale, alive, waker>> /\ message' = "init"
    BY <2>1, SlotEffect
  <2> QED
    BY <1>2, <1>4, <2>1, <2>2, LagUnchanged DEF SendWrite
<1>5. CASE SendFetchAdd \/ DropFetchXor
  <2>1. /\ Unsent /\ FreshInv /\ UNCHANGED <<alive, message, waker, sop>>
        /\ spc' \notin {"idle", "raw", "write_message", "fetch_add", "fetch_xor"}
    BY <1>5 DEF SendFetchAdd, DropFetchXor, AtomicRmw, Touch, SendArms, DropArms
  <2> QED
    BY <1>2, <2>1
<1>6. CASE SenderTakeWaker
  <2>1. WakingInv /\ UNCHANGED <<state, stale, alive, message, sop>> /\ spc' = "swap"
    BY <1>6 DEF SenderTakeWaker, clear_waker, CellAccess, Touch
  <2> QED
    BY <1>2, <1>6, <2>1, LagUnchanged
<1>7. CASE SenderSwap
  <2>1. WakingInv /\ UNCHANGED <<alive, message, sop>> /\ spc' = "unpark"
    BY <1>7 DEF SenderSwap, AtomicRmw, Touch
  <2> QED
    BY <1>2, <2>1
<1>8. CASE SenderUnpark \/ SenderUnparkPanic
  <2>1. UNCHANGED <<state, stale, alive, faults, message, waker>>
    BY <1>8 DEF SenderUnpark, SenderUnparkPanic, channel, memory
  <2> QED
    BY <1>2, <1>8, <2>1, LagUnchanged DEF SenderUnpark, SenderUnparkPanic
<1>9. CASE SenderIsClosed
  <2>1. UNCHANGED <<state, stale, alive, message, waker, spc, sop>>
    BY <1>9 DEF SenderIsClosed, AtomicLoad, Touch
  <2> QED
    BY <1>2, <2>1, LagUnchanged
<1>10. CASE as_inner \/ into_inner \/ SendErrorDrop \/ SendErrorDropPanic
  <2>1. OwnerInv /\ message = "init" /\ spc = "error"
    BY <1>10 DEF as_inner, into_inner, SendErrorDrop, SendErrorDropPanic
  <2>2. /\ UNCHANGED <<state, stale, alive, waker, sop>>
        /\ \/ message' = "init" /\ spc' = "error"
           \/ message' \in {"returned", "dropped"} /\ spc' \in {"dealloc", "leaked"}
    BY <1>10, <2>1
    DEF as_inner, into_inner, SendErrorDrop, SendErrorDropPanic, senderVars, move_message,
        message_ref, CellAccess, Touch
  <2> QED
    BY <1>2, <2>1, <2>2, LagUnchanged
<1>11. CASE SenderDealloc
  <2>1. OwnerInv /\ spc = "dealloc" /\ spc' = "done"
    BY <1>11 DEF SenderDealloc
  <2>2. UNCHANGED <<state, stale, message, waker, sop>> /\ ~alive'
    BY <1>11 DEF SenderDealloc, dealloc, FreeBlock
  <2> QED
    BY <1>2, <2>1, <2>2, LagUnchanged
<1> QED
  BY <1>3, <1>4, <1>5, <1>6, <1>7, <1>8, <1>9, <1>10, <1>11
  DEF SenderNext, SenderStep, SenderCall

-----------------------------------------------------------------------------
(* What the sender's client is told. *)

\* While the sender has not written state, the receiver leaves it alone or replaces
\* a value other than DISCONNECTED.
LEMMA ReceiverWrites ==
  ASSUME OwnershipInv, Unsent, ReceiverNext
  PROVE  \/ stale'["S"] = stale["S"] /\ state' = state
         \/ stale'["S"] = Append(stale["S"], state) /\ state.val # DISCONNECTED
<1>1. stale \in [Threads -> Seq(Writes)]
  BY DEF OwnershipInv, TypeInv, Typed, ChannelTypeOK, MemoryTypeOK
<1>2. FreshInv /\ (state.val = DISCONNECTED => rpc \in Resting)
  BY DEF OwnershipInv, PhaseInv, FreshInv, WakingInv, OwnerInv, DoneInv, Unsent, EMPTY,
     RECEIVING, DISCONNECTED
<1>3. ASSUME rpc \notin Resting, NEW order, NEW val, AtomicRmw("R", order, val)
      PROVE  stale'["S"] = Append(stale["S"], state) /\ state.val # DISCONNECTED
  BY <1>2, <1>3, ConstantsType DEF AtomicRmw, Publish
<1>4. UNCHANGED <<state, stale>> => stale'["S"] = stale["S"] /\ state' = state
  OBVIOUS
<1>5. CASE RecvSwap \/ RefSwap \/ DeadlineSwap \/ DropSwap \/ AsyncDropSwap
  BY <1>3, <1>5 DEF RecvSwap, RefSwap, DeadlineSwap, DropSwap, AsyncDropSwap, MatchSwap,
     Resting
<1>6. CASE PollCasEmpty \/ WriteAsyncWaker \/ AsyncDropCas
  BY <1>3, <1>4, <1>6 DEF PollCasEmpty, WriteAsyncWaker, AsyncDropCas, MatchCas, AtomicLoad,
     Resting
<1>7. CASE Mark
  BY <1>2, <1>7 DEF Mark, Along, AfterMark, FreshInv, Unregistered, Registered, Unsure,
     Resting
<1>8. CASE Park
  BY <1>1, <1>8, ConstantsType DEF Park, ParkToken, SyncWith
<1>9. CASE \/ TryRecvLoad \/ RecvLoad \/ RecvParked \/ StartRecvRefLoad \/ RefParked
           \/ wait_for_unpark \/ PollLoad \/ PollSpin \/ AsyncDropLoad \/ AsyncDropSpin
  BY <1>4, <1>9 DEF TryRecvLoad, RecvLoad, RecvParked, StartRecvRefLoad, RefParked,
     wait_for_unpark, PollLoad, PollSpin, AsyncDropLoad, AsyncDropSpin, MatchLoad,
     AtomicLoad
<1>10. CASE \/ WriteWaker \/ DropWaker \/ Fence \/ TakeMessage \/ WipeMessage \/ Free
            \/ WipeMessagePanic \/ DropWakerPanic
  BY <1>4, <1>10 DEF WriteWaker, DropWaker, Fence, TakeMessage, WipeMessage, Free,
     WipeMessagePanic, DropWakerPanic, Along, write_waker, clear_waker, move_message,
     dealloc, CellAccess, FreeBlock, FenceAcquire
<1>11. CASE \/ Return \/ DeadlineCheck \/ SpuriousPark \/ ParkTimeout \/ Expire
            \/ WakeByRef \/ WakeByRefPanic \/ ClonePanic
  BY <1>4, <1>11 DEF Return, DeadlineCheck, SpuriousPark, ParkSpurious, ParkTimeout, Expire,
     WakeByRef, WakeByRefPanic, ClonePanic, channel, memory
<1>12. CASE ReceiverCall
  BY <1>4, <1>12 DEF ReceiverCall, try_recv, recv, recv_ref, recv_deadline, recv_timeout,
     StartRecvRef, is_closed, has_message, ReceiverRaw, ReceiverDrop, into_future,
     AsyncReceiverDrop, PollWoken, poll, Borrow, Consume, AtomicLoad, channel, memory
<1> QED
  BY <1>5, <1>6, <1>7, <1>8, <1>9, <1>10, <1>11, <1>12 DEF ReceiverNext, ReceiverStep

\* Once the message is the sender's again or dropped, the receiver leaves it alone.
LEMMA FateSealed ==
  ASSUME FateInv, ReceiverNext, message \in {"returned", "dropped"}
  PROVE  message' = message
<1>1. rpc \in {"free", "return", "idle"}
  BY DEF FateInv
<1>2. CASE \/ TakeMessage \/ WipeMessage \/ WipeMessagePanic
  BY <1>1, <1>2 DEF TakeMessage, WipeMessage, WipeMessagePanic, Along, AfterTake, AfterWipe
<1>3. CASE \/ WriteWaker \/ DropWaker \/ Mark \/ Fence \/ Free \/ DropWakerPanic
  BY <1>3 DEF WriteWaker, DropWaker, Mark, Fence, Free, DropWakerPanic, Along, write_waker,
     clear_waker, dealloc
<1>4. CASE \/ TryRecvLoad \/ RecvLoad \/ RecvParked \/ StartRecvRefLoad \/ RefParked
           \/ wait_for_unpark \/ PollLoad \/ PollSpin \/ AsyncDropLoad \/ AsyncDropSpin
           \/ RecvSwap \/ RefSwap \/ DeadlineSwap \/ DropSwap \/ AsyncDropSwap
           \/ PollCasEmpty \/ WriteAsyncWaker \/ AsyncDropCas
  BY <1>4 DEF TryRecvLoad, RecvLoad, RecvParked, StartRecvRefLoad, RefParked,
     wait_for_unpark, PollLoad, PollSpin, AsyncDropLoad, AsyncDropSpin, MatchLoad,
     RecvSwap, RefSwap, DeadlineSwap, DropSwap, AsyncDropSwap, MatchSwap,
     PollCasEmpty, WriteAsyncWaker, AsyncDropCas, MatchCas
<1>5. CASE \/ Return \/ DeadlineCheck \/ Park \/ SpuriousPark \/ ParkTimeout \/ Expire
           \/ WakeByRef \/ WakeByRefPanic \/ ClonePanic
  BY <1>5 DEF Return, DeadlineCheck, Park, SpuriousPark, ParkTimeout, Expire, WakeByRef,
     WakeByRefPanic, ClonePanic, channel
<1>6. CASE ReceiverCall
  BY <1>6 DEF ReceiverCall, try_recv, recv, recv_ref, recv_deadline, recv_timeout,
     StartRecvRef, is_closed, has_message, ReceiverRaw, ReceiverDrop, into_future,
     AsyncReceiverDrop, PollWoken, poll, Borrow, Consume, channel
<1> QED
  BY <1>2, <1>3, <1>4, <1>5, <1>6 DEF ReceiverNext, ReceiverStep

\* Every step of the receiving end keeps what the sender's client was told true.
LEMMA ReceiverTold ==
  ASSUME OwnershipInv, FateInv, ToldInv, ReceiverNext
  PROVE  ToldInv'
<1>1. UNCHANGED <<spc, sop, sawClosed>>
  BY DEF ReceiverNext, senderVars
<1>2. stale["S"] \in Seq(Writes) /\ state \in Writes
  BY ConstantsType DEF OwnershipInv, TypeInv, Typed, ChannelTypeOK, MemoryTypeOK
<1>3. NewestInv'
  <2> SUFFICES ASSUME Unsent PROVE NewestInv'
    BY <1>1 DEF NewestInv, Unsent
  <2>1. \A i \in 1 .. Len(stale["S"]) : stale["S"][i].val # DISCONNECTED
    BY DEF ToldInv, NewestInv
  <2>2. CASE stale'["S"] = stale["S"]
    BY <2>1, <2>2 DEF NewestInv
  <2>3. CASE stale'["S"] = Append(stale["S"], state) /\ state.val # DISCONNECTED
    <3>1. SUFFICES ASSUME NEW i \in 1 .. Len(Append(stale["S"], state))
                   PROVE  Append(stale["S"], state)[i].val # DISCONNECTED
      BY <2>3 DEF NewestInv
    <3>2. CASE i = Len(stale["S"]) + 1
      BY <1>2, <2>3, <3>2
    <3>3. CASE i # Len(stale["S"]) + 1
      BY <1>2, <2>1, <3>1, <3>3
    <3> QED BY <3>2, <3>3
  <2> QED
    BY <2>2, <2>3, ReceiverWrites
<1>4. SawClosedInv'
  BY <1>1, ReceiverWrites, FateSealed DEF ToldInv, SawClosedInv, Unsent
<1> QED
  BY <1>3, <1>4 DEF ToldInv

\* Every step of the sending end keeps what its client was told true.
LEMMA SenderTold ==
  ASSUME OwnershipInv, ToldInv, SenderNext
  PROVE  ToldInv'
<1>1. stale["S"] \in Seq(Writes) /\ state \in Writes /\ stale \in [Threads -> Seq(Writes)]
  BY ConstantsType DEF OwnershipInv, TypeInv, Typed, ChannelTypeOK, MemoryTypeOK
<1> USE DEF SGoto, ToldInv, NewestInv, SawClosedInv, Unsent
<1>2. CASE send \/ SenderDrop \/ SenderRaw
  BY <1>2 DEF send, SenderDrop, SenderRaw, SConsume, channel, memory, OwnershipInv, PhaseInv,
     FreshInv, WakingInv, OwnerInv, DoneInv
<1>3. CASE SendWrite
  BY <1>3 DEF SendWrite, write_message, CellAccess, OwnershipInv, PhaseInv, FreshInv,
     WakingInv, OwnerInv, DoneInv
<1>4. CASE SendFetchAdd \/ DropFetchXor
  <2>1. spc' \notin {"idle", "raw", "write_message", "fetch_add", "fetch_xor"}
    BY <1>4 DEF SendFetchAdd, DropFetchXor, SendArms, DropArms
  <2>2. FreshInv
    BY <1>4 DEF SendFetchAdd, DropFetchXor, OwnershipInv, PhaseInv, FreshInv, WakingInv,
       OwnerInv, DoneInv
  <2> QED
    BY <1>4, <2>1, <2>2 DEF SendFetchAdd, DropFetchXor, SendArms, FreshInv, EMPTY, RECEIVING,
       DISCONNECTED
<1>5. CASE \/ SenderTakeWaker \/ SenderSwap \/ SenderUnpark \/ SenderUnparkPanic
           \/ as_inner \/ into_inner \/ SendErrorDrop \/ SendErrorDropPanic
           \/ SenderDealloc
  <2>1. ~Unsent /\ ~Unsent'
    BY <1>5 DEF SenderTakeWaker, SenderSwap, SenderUnpark, SenderUnparkPanic, as_inner,
       into_inner, SendErrorDrop, SendErrorDropPanic, SenderDealloc, senderVars
  <2>2. UNCHANGED <<sop, sawClosed>>
    BY <1>5 DEF SenderTakeWaker, SenderSwap, SenderUnpark, SenderUnparkPanic, as_inner,
       into_inner, SendErrorDrop, SendErrorDropPanic, SenderDealloc, senderVars
  <2>3. \/ spc = "error" /\ spc' = "error"
        \/ message' \in {"returned", "dropped"}
        \/ spc # "error" /\ message' = message
    BY <1>5 DEF SenderTakeWaker, SenderSwap, SenderUnpark, SenderUnparkPanic, as_inner,
       into_inner, SendErrorDrop, SendErrorDropPanic, SenderDealloc, senderVars, channel,
       clear_waker, message_ref, move_message, dealloc
  <2> QED
    BY <2>1, <2>2, <2>3
<1>6. CASE SenderIsClosed
  <2>1. UNCHANGED <<state, stale, message, spc, sop>> /\ spc = "idle"
    BY <1>6 DEF SenderIsClosed, AtomicLoad
  <2>2. Visible("S").val = DISCONNECTED => state.val = DISCONNECTED
    BY <1>1, <2>1 DEF Visible
  <2> QED
    BY <1>6, <2>1, <2>2 DEF SenderIsClosed
<1> QED
  BY <1>2, <1>3, <1>4, <1>5, <1>6 DEF SenderNext, SenderStep, SenderCall

-----------------------------------------------------------------------------
(* The promises are kept. *)

\* A write becoming visible keeps what the clients were told true.
LEMMA VisibilityPromises ==
  ASSUME OwnershipInv, PromiseInv, Visibility
  PROVE  PromiseInv'
<1>1. MemoryTypeOK
  BY DEF OwnershipInv, TypeInv, Typed, ChannelTypeOK
<1>2. PICK t \in Threads : Propagate(t)
  BY DEF Visibility
<1>3. UNCHANGED <<message, spc, sop, sawClosed, rpc, handle, res, promise>>
  BY DEF Visibility, senderVars, receiverVars
<1>4. UNCHANGED <<state, alive>> /\ (CaughtUp => CaughtUp')
  BY <1>1, <1>2, PropagateEffect
<1>5. AnswerInv'
  BY <1>3, <1>4 DEF PromiseInv, AnswerInv, FateInv, ReceivedInv, ResultInv, ClosedInv,
     MessageInv, Unsent
<1>6. NewestInv'
  <2>1. stale["S"] \in Seq(Writes)
    BY <1>1, ConstantsType DEF MemoryTypeOK
  <2>2. CASE t = "S"
    <3>1. stale["S"] # <<>> /\ stale'["S"] = Tail(stale["S"])
      BY <1>1, <1>2, <2>2 DEF MemoryTypeOK, Propagate
    <3> QED
      BY <1>3, <2>1, <3>1 DEF PromiseInv, ToldInv, NewestInv, Unsent
  <2>3. CASE t # "S"
    <3>1. stale'["S"] = stale["S"]
      BY <1>1, <1>2, <2>3, ConstantsType DEF MemoryTypeOK, Propagate
    <3> QED
      BY <1>3, <3>1 DEF PromiseInv, ToldInv, NewestInv, Unsent
  <2> QED BY <2>2, <2>3
<1>7. SawClosedInv'
  BY <1>3, <1>4 DEF PromiseInv, ToldInv, SawClosedInv, Unsent
<1> QED
  BY <1>5, <1>6, <1>7 DEF PromiseInv, ToldInv

\* The clients of a channel fresh from channel() have been told nothing.
LEMMA InitPromises == Init => PromiseInv
<1> SUFFICES ASSUME Init PROVE PromiseInv
  OBVIOUS
<1>1. stale["S"] = <<>>
  BY ConstantsType DEF Init, ChannelInit, MemoryInit
<1>2. AnswerInv
  BY DEF Init, ChannelInit, MemoryInit, ReceiverInit, SenderInit, AnswerInv, FateInv,
     ReceivedInv, ResultInv, ClosedInv, MessageInv, Taking, MessageIsMine, NothingLeft
<1>3. SawClosedInv
  BY DEF Init, SenderInit, SawClosedInv
<1> QED
  BY <1>1, <1>2, <1>3 DEF PromiseInv, ToldInv, NewestInv

\* Every step but CancelDuringWake keeps what the clients were told true.
LEMMA NextPromises ==
  OwnershipInv /\ PromiseInv /\ [UncancelledNext]_vars => PromiseInv'
<1> SUFFICES ASSUME OwnershipInv, PromiseInv, [UncancelledNext]_vars PROVE PromiseInv'
  OBVIOUS
<1>1. CASE UNCHANGED vars
  BY <1>1 DEF vars, channel, memory, senderVars, receiverVars, PromiseInv, AnswerInv, ToldInv,
     FateInv, ReceivedInv, ResultInv, ClosedInv, MessageInv, NewestInv, SawClosedInv,
     Unsent, CaughtUp
<1>2. CASE SenderNext
  BY <1>2, SenderAnswers, SenderTold DEF PromiseInv
<1>3. CASE ReceiverNext /\ ~CancelDuringWake
  BY <1>3, ReceiverAnswers, ReceiverTold DEF PromiseInv, AnswerInv
<1>4. CASE Visibility
  BY <1>4, VisibilityPromises
<1> QED
  BY <1>1, <1>2, <1>3, <1>4 DEF UncancelledNext, Next

\* What a client of either end was told is true, and every later access of either
\* end bears it out.
THEOREM Promises == UncancelledSpec => []PromiseInv
BY InitPromises, NextPromises, Ownership, PTL DEF UncancelledSpec
=============================================================================
