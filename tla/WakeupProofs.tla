---------------------------- MODULE WakeupProofs ----------------------------
(***************************************************************************)
(* WakeupInv is an invariant of UncancelledSpec: a receiver that waits is  *)
(* going to be woken.                                                      *)
(***************************************************************************)
EXTENDS WakeupInv, PromiseProofs

-----------------------------------------------------------------------------
(* A thread that waits. *)

\* The steps that end a wait, or are part of none.
LEMMA ThreadAway ==
  ASSUME TypeInv,
         \/ TryRecvLoad \/ RecvLoad \/ StartRecvRefLoad \/ PollLoad \/ PollSpin
         \/ AsyncDropLoad \/ AsyncDropSpin \/ DropSwap \/ AsyncDropSwap
         \/ PollCasEmpty \/ WriteAsyncWaker \/ AsyncDropCas
         \/ WriteWaker \/ DropWaker \/ Mark \/ Fence \/ TakeMessage \/ WipeMessage
         \/ WipeMessagePanic \/ DropWakerPanic \/ Free \/ Return \/ WakeByRef
         \/ WakeByRefPanic \/ ClonePanic \/ ReceiverCall
  PROVE  rpc' \notin ThreadWaits
<1> USE DEF ThreadWaits, JustWoken, AfterPark, RGoto, Arm, Unreachable
<1>1. CASE \/ TryRecvLoad \/ RecvLoad \/ StartRecvRefLoad \/ PollLoad \/ PollSpin
           \/ AsyncDropLoad \/ AsyncDropSpin
  BY <1>1 DEF MatchLoad, TryRecvLoad, RecvLoad, StartRecvRefLoad, PollLoad, PollSpin,
     AsyncDropLoad, AsyncDropSpin, TryRecvArms, RecvArms, StartRecvRefArms, PollArms,
     PollSpinArms, AsyncDropSpinArms
<1>2. CASE DropSwap \/ AsyncDropSwap
  BY <1>2 DEF MatchSwap, DropSwap, AsyncDropSwap, ReceiverDropArms, AsyncDropArms
<1>3. CASE PollCasEmpty \/ WriteAsyncWaker \/ AsyncDropCas
  BY <1>3 DEF MatchCas, PollCasEmpty, WriteAsyncWaker, AsyncDropCas, PollCasEmptyArms,
     WriteAsyncWakerArms
<1>4. CASE \/ WriteWaker \/ DropWaker \/ Mark \/ Fence \/ TakeMessage \/ WipeMessage
           \/ Free \/ WipeMessagePanic \/ DropWakerPanic
  BY <1>4 DEF WriteWaker, DropWaker, Mark, Fence, TakeMessage, WipeMessage, Free, Along,
     AfterWriteWaker, AfterDropWaker, AfterMark, AfterFence, AfterTake, AfterWipe,
     WipeMessagePanic, DropWakerPanic, UnwindCall, UnwindDrop
<1>5. CASE Return \/ WakeByRef \/ WakeByRefPanic \/ ClonePanic
  BY <1>5 DEF Return, WakeByRef, WakeByRefPanic, ClonePanic, UnwindCall
<1>6. CASE ReceiverCall
  <2>1. CASE is_closed \/ has_message \/ ReceiverRaw \/ into_future
    BY <2>1 DEF is_closed, has_message, ReceiverRaw, into_future
  <2>2. CASE ~(is_closed \/ has_message \/ ReceiverRaw \/ into_future)
    BY <1>6, <2>2 DEF ReceiverCall, try_recv, recv, recv_ref, recv_deadline, recv_timeout,
       StartRecvRef, ReceiverDrop, AsyncReceiverDrop, PollWoken, poll, Borrow, Consume
  <2> QED BY <2>1, <2>2
<1> QED
  BY <1>1, <1>2, <1>3, <1>4, <1>5, <1>6

\* A thread registers while the sender has not acted, and a thread that is woken for
\* no reason has its token still to come.
LEMMA ReceiverThread ==
  ASSUME OwnershipInv, WakeupInv, ReceiverNext
  PROVE  ThreadInv'
<1>1. MemoryTypeOK /\ TypeInv
  BY DEF OwnershipInv, TypeInv, Typed, ChannelTypeOK
<1>2. UNCHANGED <<spc, held>>
  BY DEF ReceiverNext, senderVars
<1> USE DEF WakeupInv, ThreadInv, Unsent, RGoto, Arm, Unreachable
<1>3. CASE RecvSwap \/ RefSwap
  <2>1. CASE state.val # EMPTY
    BY <1>3, <2>1 DEF RecvSwap, RefSwap, MatchSwap, RecvSwapArms, RefSwapArms, ThreadWaits,
       JustWoken, AfterPark
  <2>2. CASE state.val = EMPTY
    <3>1. FreshInv
      BY <1>3, <2>2 DEF RecvSwap, RefSwap, MatchSwap, OwnershipInv, PhaseInv, FreshInv,
         WakingInv, OwnerInv, DoneInv, OpenInv, ClosingInv, FreedInv, Registered, Unsure,
         Resting, MessageIsMine, NothingLeft, EMPTY, RECEIVING, UNPARKING, MESSAGE,
         DISCONNECTED
    <3>2. waker = "thread" /\ waker' = waker
      BY <1>3 DEF RecvSwap, RefSwap, MatchSwap, OwnershipInv, HandleInv
    <3> QED
      BY <1>2, <3>1, <3>2 DEF FreshInv
  <2> QED BY <2>1, <2>2
<1>4. CASE RecvParked \/ RefParked \/ wait_for_unpark
  <2>1. rpc \in JustWoken /\ UNCHANGED <<waker, token>>
    BY <1>4 DEF RecvParked, RefParked, wait_for_unpark, MatchLoad, JustWoken, signals
  <2>2. spc = "done" /\ CaughtUp /\ rpc' \in ThreadWaits => FALSE
    <3>1. SUFFICES ASSUME spc = "done", CaughtUp PROVE rpc' \notin ThreadWaits
      OBVIOUS
    <3>2. Visible("R").val \in {MESSAGE, DISCONNECTED}
      BY <1>1, <2>1, <3>1, VisibleEffect DEF JustWoken, OwnershipInv, PhaseInv, FreshInv,
         WakingInv, OwnerInv, DoneInv, OpenInv, ClosingInv, FreedInv, Unregistered,
         Registered, Unsure, Resting, MessageIsMine, NothingLeft
    <3> QED
      BY <1>4, <3>2 DEF RecvParked, RefParked, wait_for_unpark, MatchLoad, RecvParkedArms,
         RefParkedArms, WaitForUnparkArms, ThreadWaits, JustWoken, AfterPark, EMPTY,
         RECEIVING, UNPARKING, MESSAGE, DISCONNECTED
  <2> QED
    BY <1>2, <2>1, <2>2 DEF ThreadWaits
<1>5. CASE DeadlineCheck \/ SpuriousPark \/ ParkTimeout \/ Expire
  <2>1. rpc \in ThreadWaits /\ UNCHANGED <<waker, token>>
    BY <1>5 DEF DeadlineCheck, SpuriousPark, ParkTimeout, Expire, ParkSpurious, ThreadWaits,
       JustWoken, AfterPark, channel, signals
  <2>2. CASE DeadlineCheck \/ SpuriousPark \/ ParkTimeout
    <3>1. rpc \notin JustWoken
      BY <2>2 DEF DeadlineCheck, SpuriousPark, ParkTimeout, JustWoken, AfterPark
    <3> QED
      BY <1>2, <2>1, <3>1
  <2>3. CASE Expire
    <3>1. UNCHANGED <<rpc, stale>>
      BY <2>3 DEF Expire, channel, memory
    <3> QED
      BY <1>2, <2>1, <3>1, LagUnchanged
  <2> QED BY <1>5, <2>2, <2>3
<1>6. CASE Park
  <2>1. rpc \in ThreadWaits /\ rpc' \in JustWoken /\ waker' = waker
    BY <1>6 DEF Park, ThreadWaits, JustWoken, AfterPark
  <2>2. CaughtUp'
    BY <1>1, <1>6, ConstantsType DEF Park, ParkToken, SyncWith, CaughtUp, MemoryTypeOK
  <2> QED
    BY <1>2, <2>1, <2>2
<1>7. CASE DeadlineSwap
  <2>1. CASE state.val # UNPARKING
    BY <1>7, <2>1 DEF DeadlineSwap, MatchSwap, DeadlineSwapArms, ThreadWaits, JustWoken,
       AfterPark
  <2>2. CASE state.val = UNPARKING
    <3>1. spc # "done"
      BY <1>7, <2>2 DEF DeadlineSwap, MatchSwap, OwnershipInv, PhaseInv, FreshInv, WakingInv,
         OwnerInv, DoneInv, OpenInv, ClosingInv, FreedInv, Unregistered, Registered, Unsure,
         Resting, MessageIsMine, NothingLeft, EMPTY, RECEIVING, UNPARKING, MESSAGE,
         DISCONNECTED
    <3>2. rpc \in ThreadWaits /\ waker' = waker
      BY <1>7 DEF DeadlineSwap, MatchSwap, ThreadWaits
    <3> QED
      BY <1>2, <3>1, <3>2
  <2> QED BY <2>1, <2>2
<1> QED
  BY <1>1, <1>3, <1>4, <1>5, <1>6, <1>7, ThreadAway DEF ReceiverNext, ReceiverStep

-----------------------------------------------------------------------------
(* A task that waits. *)

\* The steps that answer no poll with Pending.
LEMMA TaskAway ==
  ASSUME TypeInv,
         \/ TryRecvLoad \/ RecvLoad \/ RecvParked \/ StartRecvRefLoad \/ RefParked
         \/ wait_for_unpark \/ PollLoad \/ PollSpin \/ AsyncDropLoad \/ AsyncDropSpin
         \/ RecvSwap \/ RefSwap \/ DeadlineSwap \/ DropSwap \/ AsyncDropSwap
         \/ AsyncDropCas \/ DeadlineCheck \/ Park \/ SpuriousPark \/ ParkTimeout
         \/ WakeByRefPanic \/ ClonePanic
         \/ try_recv \/ recv \/ recv_ref \/ recv_deadline \/ recv_timeout
         \/ ReceiverDrop \/ AsyncReceiverDrop \/ PollWoken
         \/ \E w \in Tasks : poll(w)
  PROVE  res' # "Pending" /\ rpc' # "poll_cas_receiving"
<1> USE DEF RGoto, Arm, Unreachable
<1>1. CASE \/ TryRecvLoad \/ RecvLoad \/ RecvParked \/ StartRecvRefLoad \/ RefParked
           \/ wait_for_unpark \/ PollLoad \/ PollSpin \/ AsyncDropLoad \/ AsyncDropSpin
  BY <1>1 DEF MatchLoad, TryRecvLoad, RecvLoad, RecvParked, StartRecvRefLoad, RefParked,
     wait_for_unpark, PollLoad, PollSpin, AsyncDropLoad, AsyncDropSpin, TryRecvArms,
     RecvArms, RecvParkedArms, StartRecvRefArms, RefParkedArms, WaitForUnparkArms, PollArms,
     PollSpinArms, AsyncDropSpinArms, TypeInv, FinishInv
<1>2. CASE RecvSwap \/ RefSwap \/ DeadlineSwap \/ DropSwap \/ AsyncDropSwap
  BY <1>2 DEF MatchSwap, RecvSwap, RefSwap, DeadlineSwap, DropSwap, AsyncDropSwap,
     RecvSwapArms, RefSwapArms, DeadlineSwapArms, ReceiverDropArms, AsyncDropArms, TypeInv,
     FinishInv
<1>3. CASE AsyncDropCas \/ DeadlineCheck \/ Park \/ SpuriousPark \/ ParkTimeout
  BY <1>3 DEF MatchCas, AsyncDropCas, DeadlineCheck, Park, SpuriousPark, ParkTimeout,
     AfterPark
<1>4. CASE WakeByRefPanic \/ ClonePanic
  BY <1>4 DEF WakeByRefPanic, ClonePanic, UnwindCall
<1>5. CASE \/ try_recv \/ recv \/ recv_ref \/ recv_deadline \/ recv_timeout
           \/ ReceiverDrop \/ AsyncReceiverDrop \/ PollWoken
           \/ \E w \in Tasks : poll(w)
  BY <1>5 DEF try_recv, recv, recv_ref, recv_deadline, recv_timeout, StartRecvRef,
     ReceiverDrop, AsyncReceiverDrop, PollWoken, poll, Borrow, Consume
<1> QED
  BY <1>1, <1>2, <1>3, <1>4, <1>5

\* A poll that returns Pending leaves its waker in the slot, or has woken it.
LEMMA ReceiverTask ==
  ASSUME OwnershipInv, PromiseInv, WakeupInv, ReceiverNext
  PROVE  TaskInv'
<1>1. UNCHANGED <<spc, held>>
  BY DEF ReceiverNext, senderVars
<1> USE DEF WakeupInv, TaskInv, RGoto, Arm, Unreachable
<1>2. CASE PollCasEmpty
  <2>1. handle = "AsyncReceiver" /\ handle' = handle
    BY <1>2 DEF PollCasEmpty, MatchCas, OwnershipInv, HandleInv, TaskOnly
  <2> QED
    BY <1>2, <2>1 DEF PollCasEmpty, MatchCas, PollCasEmptyArms, Resting
<1>3. CASE WriteAsyncWaker
  <2>1. /\ handle = "AsyncReceiver" /\ UNCHANGED <<handle, waker, cx>>
        /\ waker = cx /\ cx \in Tasks
    BY <1>3 DEF WriteAsyncWaker, MatchCas, OwnershipInv, HandleInv, TaskOnly
  <2> QED
    BY <1>3, <2>1 DEF WriteAsyncWaker, MatchCas, WriteAsyncWakerArms, Resting
<1>4. CASE WakeByRef
  <2>1. handle = "AsyncReceiver" /\ cx \in Tasks
    BY <1>4 DEF WakeByRef, OwnershipInv, HandleInv, TaskOnly, TypeInv, PollInv
  <2> QED
    BY <1>4, <2>1 DEF WakeByRef
<1>5. CASE WriteWaker
  <2>1. rpc = "poll_register" => handle = "AsyncReceiver" /\ cx \in Tasks
    BY DEF OwnershipInv, HandleInv, TaskOnly, TypeInv, PollInv
  <2> QED
    BY <1>5, <2>1 DEF WriteWaker, Along, AfterWriteWaker, write_waker, CurrentWaker, Resting
<1>6. CASE DropWaker \/ Mark \/ Fence \/ TakeMessage \/ WipeMessage \/ Free
  <2>1. /\ res' = res /\ handle' = handle
        /\ rpc' \notin {"poll_cas_receiving", "drop"}
        /\ rpc' \in Resting =>
             rpc \in {"drop", "mark", "mark_take", "fence", "take", "free"}
    BY <1>6 DEF DropWaker, Mark, Fence, TakeMessage, WipeMessage, Free, Along,
       AfterDropWaker, AfterMark, AfterFence, AfterTake, AfterWipe, Resting
  <2>2. rpc \in {"drop", "mark", "mark_take", "fence", "take", "free"} => res # "Pending"
    BY DEF PromiseInv, AnswerInv, ResultInv, Taking, MessageIsMine, NothingLeft,
       OwnershipInv, HandleInv, Consuming
  <2> QED
    BY <2>1, <2>2
<1>7. CASE WipeMessagePanic \/ DropWakerPanic
  <2>1. rpc' = "idle" /\ (res' = "panic" \/ (res' = res /\ handle # "AsyncReceiver"))
    <3>1. CASE WipeMessagePanic
      <4>1. handle = "none"
        BY <3>1 DEF WipeMessagePanic, AfterWipe, OwnershipInv, HandleInv, Consuming,
           PhaseInv, FreshInv, WakingInv, OwnerInv, DoneInv, OpenInv, ClosingInv, FreedInv,
           Unregistered, Registered, Unsure, Resting, MessageIsMine, NothingLeft
      <4> QED
        BY <3>1, <4>1 DEF WipeMessagePanic, UnwindDrop
    <3>2. CASE DropWakerPanic
      BY <3>2 DEF DropWakerPanic, UnwindCall, UnwindDrop
    <3> QED BY <1>7, <3>1, <3>2
  <2> QED
    BY <2>1
<1>8. CASE Return
  <2>1. rpc \in Resting /\ UNCHANGED <<handle, res, cx, waker, woken>> /\ rpc' = "idle"
    BY <1>8 DEF Return, Resting, channel, signals
  <2> QED
    BY <1>1, <2>1
<1>9. CASE is_closed \/ has_message \/ ReceiverRaw \/ into_future \/ Expire
  <2>1. /\ UNCHANGED <<rpc, res, cx, waker, woken>>
        /\ handle' = handle \/ handle # "AsyncReceiver"
    BY <1>9 DEF is_closed, has_message, ReceiverRaw, into_future, Expire, channel, signals
  <2> QED
    BY <1>1, <2>1
<1> QED
  BY <1>2, <1>3, <1>4, <1>5, <1>6, <1>7, <1>8, <1>9, TaskAway
  DEF ReceiverNext, ReceiverStep, ReceiverCall, OwnershipInv

-----------------------------------------------------------------------------
\* The sender hands the waker on from the slot to the wake.
LEMMA SenderWakes ==
  ASSUME OwnershipInv, WakeupInv, SenderNext
  PROVE  WakeupInv'
<1>1. UNCHANGED <<rpc, handle, res, cx>> /\ MemoryTypeOK
  BY DEF SenderNext, receiverVars, OwnershipInv, TypeInv, Typed, ChannelTypeOK
<1> USE DEF WakeupInv, HoldsInv, ThreadInv, TaskInv, Unsent, SGoto
<1>2. CASE send \/ SendWrite \/ SenderDrop \/ SenderRaw \/ SenderIsClosed
  <2>1. Unsent /\ Unsent' /\ UNCHANGED <<waker, held, token, woken>>
    BY <1>2 DEF send, SendWrite, SenderDrop, SenderRaw, SenderIsClosed, SConsume,
       write_message, channel, signals
  <2> QED
    BY <1>1, <2>1
<1>3. CASE SendFetchAdd \/ DropFetchXor
  <2>1. UNCHANGED <<waker, held, token, woken>> /\ spc \in {"fetch_add", "fetch_xor"}
    BY <1>3 DEF SendFetchAdd, DropFetchXor, signals
  <2>2. rpc \in ThreadWaits => state.val = RECEIVING
    BY <2>1 DEF ThreadWaits, JustWoken, AfterPark, OwnershipInv, PhaseInv, FreshInv,
       WakingInv, OwnerInv, DoneInv, Unregistered, Unsure, Resting
  <2>3. /\ state.val = RECEIVING => spc' = "take_waker"
        /\ spc' \in {"done", "take_waker", "error", "dealloc", "unreachable"}
    BY <1>3 DEF SendFetchAdd, DropFetchXor, SendArms, DropArms, EMPTY, RECEIVING,
       DISCONNECTED
  <2> QED
    BY <1>1, <2>1, <2>2, <2>3
<1>4. CASE SenderTakeWaker
  <2>1. /\ spc = "take_waker" /\ spc' = "swap" /\ held = "none" /\ held' = waker
        /\ UNCHANGED <<token, woken>>
    BY <1>4 DEF SenderTakeWaker, signals
  <2>2. rpc # "poll_cas_receiving"
    BY <2>1 DEF OwnershipInv, PhaseInv, FreshInv, WakingInv, OwnerInv, DoneInv, Registered,
       Unsure, Resting
  <2>3. "none" \notin Tasks
    BY TasksAssumption
  <2> QED
    BY <1>1, <2>1, <2>2, <2>3
<1>5. CASE SenderSwap
  <2>1. spc = "swap" /\ spc' = "unpark" /\ UNCHANGED <<waker, held, token, woken>>
    BY <1>5 DEF SenderSwap, signals
  <2> QED
    BY <1>1, <2>1
<1>6. CASE SenderUnpark
  <2>1. /\ spc = "unpark" /\ spc' = "done" /\ held' = "none" /\ waker' = waker
        /\ held = "thread" => token' # {} /\ woken' = woken
        /\ held # "thread" => token' = token /\ woken' = woken \cup {held}
    BY <1>6 DEF SenderUnpark, unpark, channel
  <2>2. "thread" \notin Tasks
    BY TasksAssumption
  <2> QED
    BY <1>1, <2>1, <2>2
<1>7. CASE SenderUnparkPanic
  <2>1. /\ spc = "unpark" /\ spc' = "unwoken" /\ held \in Tasks /\ held' = "none"
        /\ UNCHANGED <<waker, token, woken>>
    BY <1>7 DEF SenderUnparkPanic, channel, signals
  <2> QED
    BY <1>1, <2>1, TasksAssumption
<1>8. CASE as_inner \/ into_inner \/ SendErrorDrop \/ SendErrorDropPanic \/ SenderDealloc
  <2>1. /\ spc \in {"error", "dealloc"} /\ spc' \in {"error", "dealloc", "leaked", "done"}
        /\ UNCHANGED <<waker, held, token, woken>>
    BY <1>8 DEF as_inner, into_inner, SendErrorDrop, SendErrorDropPanic, SenderDealloc,
       message_ref, move_message, dealloc, senderVars, signals
  <2>2. rpc \in Resting /\ handle = "none"
    BY <2>1 DEF OwnershipInv, PhaseInv, FreshInv, WakingInv, OwnerInv, DoneInv
  <2> QED
    BY <1>1, <2>1, <2>2 DEF Resting, ThreadWaits, JustWoken, AfterPark
<1> QED
  BY <1>2, <1>3, <1>4, <1>5, <1>6, <1>7, <1>8 DEF SenderNext, SenderStep, SenderCall

\* Nobody waits for a channel fresh from channel().
LEMMA InitWakes == Init => WakeupInv
BY DEF Init, SenderInit, ReceiverInit, WakeupInv, HoldsInv, ThreadInv, TaskInv,
   ThreadWaits, JustWoken, AfterPark

\* Every step but CancelDuringWake leaves a waiting receiver with a wakeup to come.
LEMMA NextWakes ==
  OwnershipInv /\ PromiseInv /\ WakeupInv /\ [UncancelledNext]_vars => WakeupInv'
<1> SUFFICES ASSUME OwnershipInv, PromiseInv, WakeupInv, [UncancelledNext]_vars
             PROVE  WakeupInv'
  OBVIOUS
<1>1. CASE UNCHANGED vars
  BY <1>1, LagUnchanged DEF vars, channel, memory, signals, senderVars, receiverVars,
     WakeupInv, HoldsInv, ThreadInv, TaskInv, Unsent
<1>2. CASE SenderNext
  BY <1>2, SenderWakes
<1>3. CASE ReceiverNext
  <2>1. HoldsInv'
    BY <1>3 DEF ReceiverNext, senderVars, WakeupInv, HoldsInv
  <2> QED
    BY <1>3, <2>1, ReceiverThread, ReceiverTask DEF WakeupInv
<1>4. CASE Visibility
  <2>1. CaughtUp => CaughtUp'
    BY <1>4, PropagateEffect DEF Visibility, OwnershipInv, TypeInv, Typed, ChannelTypeOK
  <2> QED
    BY <1>4, <2>1 DEF Visibility, signals, senderVars, receiverVars, WakeupInv, HoldsInv,
       ThreadInv, TaskInv, Unsent
<1> QED
  BY <1>1, <1>2, <1>3, <1>4 DEF UncancelledNext, Next

\* The waker of a receiver that waits is in the slot, in the sender's hands, or has
\* been woken.
THEOREM Wakeups == UncancelledSpec => []WakeupInv
BY InitWakes, NextWakes, Ownership, Promises, PTL DEF UncancelledSpec
=============================================================================
