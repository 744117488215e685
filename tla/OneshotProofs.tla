---------------------------- MODULE OneshotProofs ----------------------------
(***************************************************************************)
(* The theorems about one channel, for every set of task wakers, every     *)
(* number of calls, with or without spurious wakeups, with any of the      *)
(* features std and async, and whichever callbacks panic.                  *)
(***************************************************************************)
EXTENDS OneshotInv, MemoryProofs

-----------------------------------------------------------------------------
(* Type correctness. *)

\* A fault is of one of the kinds that are recorded.
LEMMA FaultType ==
  ASSUME NEW kind \in FaultKinds, NEW when
  PROVE  Fault(kind, when) \in SUBSET FaultKinds
BY DEF Fault

\* The operations on the slots keep the channel well typed.
LEMMA SlotType ==
  ASSUME ChannelTypeOK, NEW t \in Threads,
         \/ write_message(t)
         \/ \E fate \in {"received", "returned", "dropped"} : move_message(t, fate)
         \/ message_ref(t)
         \/ \E w \in Wakers \cup {"none"} : write_waker(t, w)
         \/ clear_waker(t)
         \/ dealloc(t)
  PROVE  ChannelTypeOK'
<1> USE FaultType, CellAccessType, FreeBlockType
    DEF ChannelTypeOK, Locations, FaultKinds
<1>1. CASE write_message(t)
  BY <1>1 DEF write_message
<1>2. CASE \E fate \in {"received", "returned", "dropped"} : move_message(t, fate)
  BY <1>2 DEF move_message
<1>3. CASE message_ref(t)
  BY <1>3 DEF message_ref
<1>4. CASE \E w \in Wakers \cup {"none"} : write_waker(t, w)
  BY <1>4 DEF write_waker
<1>5. CASE clear_waker(t)
  BY <1>5 DEF clear_waker
<1>6. CASE dealloc(t)
  BY <1>6 DEF dealloc
<1> QED
  BY <1>1, <1>2, <1>3, <1>4, <1>5, <1>6

\* fetch_add and fetch_xor stay within a byte.
LEMMA ByteType ==
  ASSUME NEW v \in U8
  PROVE  Plus1(v) \in U8 /\ Xor1(v) \in U8
BY DEF Plus1, Xor1, U8

\* The values of states.rs are bytes, and the two ends are threads.
LEMMA ConstantsType ==
  /\ {RECEIVING, UNPARKING, DISCONNECTED, EMPTY, MESSAGE} \subseteq U8
  /\ "S" \in Threads /\ "R" \in Threads
BY DEF RECEIVING, UNPARKING, DISCONNECTED, EMPTY, MESSAGE, U8, Threads

\* The steps of the sending end keep the types.
LEMMA SenderType ==
  ASSUME TypeInv, Defined, SenderNext
  PROVE  TypeInv'
<1> USE ConstantsType
<1> SUFFICES Typed' /\ HeldInv'
  BY DEF TypeInv, FinishInv, PollInv, SenderNext, receiverVars
<1> Typed /\ HeldInv
  BY DEF TypeInv
<1>1. ReceiverTypeOK'
  BY DEF Typed, ReceiverTypeOK, SenderNext, receiverVars
<1>2. state.val \in U8 /\ MemoryTypeOK
  BY DEF Typed, ChannelTypeOK, MemoryTypeOK, Writes
<1>3. ASSUME UNCHANGED <<channel, signals>>, SenderTypeOK'
      PROVE  Typed'
  BY <1>1, <1>3 DEF Typed, ChannelTypeOK, MemoryTypeOK, SignalsTypeOK, channel,
     memory, signals
<1>4. ASSUME MemoryTypeOK', UNCHANGED <<message, waker, signals>>, SenderTypeOK'
      PROVE  Typed'
  BY <1>1, <1>4 DEF Typed, ChannelTypeOK, SignalsTypeOK, signals
<1>5. ASSUME ChannelTypeOK', UNCHANGED signals, SenderTypeOK'
      PROVE  Typed'
  BY <1>1, <1>5 DEF Typed, SignalsTypeOK, signals
<1> USE DEF SGoto, HeldInv
<1>6. CASE send \/ SenderDrop \/ SenderRaw
  BY <1>3, <1>6 DEF send, SenderDrop, SenderRaw, SConsume, Typed, SenderTypeOK
<1>7. CASE SendWrite
  <2>1. ChannelTypeOK'
    BY <1>7, SlotType DEF SendWrite, Typed
  <2> QED BY <1>5, <1>7, <2>1 DEF SendWrite, Typed, SenderTypeOK
<1>8. CASE SendFetchAdd
  <2>1. MemoryTypeOK'
    BY <1>2, <1>8, AtomicRmwType, ByteType DEF SendFetchAdd
  <2> QED BY <1>4, <1>8, <2>1 DEF SendFetchAdd, SendArms, Typed, SenderTypeOK
<1>9. CASE DropFetchXor
  <2>1. MemoryTypeOK'
    BY <1>2, <1>9, AtomicRmwType, ByteType DEF DropFetchXor
  <2> QED BY <1>4, <1>9, <2>1 DEF DropFetchXor, DropArms, Typed, SenderTypeOK
<1>10. CASE SenderTakeWaker
  <2>1. ChannelTypeOK'
    BY <1>10, SlotType DEF SenderTakeWaker, Typed
  <2>2. Typed'
    BY <1>5, <1>10, <2>1 DEF SenderTakeWaker, Typed, SenderTypeOK, ChannelTypeOK
  <2>3. waker = "none" => "uninit" \in faults'
    BY <1>10 DEF SenderTakeWaker, clear_waker, CellAccess, Touch, Fault
  <2> QED BY <1>10, <2>2, <2>3 DEF SenderTakeWaker, Typed, ChannelTypeOK, Defined
<1>11. CASE SenderSwap
  <2>1. MemoryTypeOK'
    BY <1>2, <1>11, AtomicRmwType DEF SenderSwap, FinalState
  <2> QED BY <1>4, <1>11, <2>1 DEF SenderSwap, Typed, SenderTypeOK
<1>15. CASE SenderUnparkPanic
  BY <1>3, <1>15 DEF SenderUnparkPanic, Typed, SenderTypeOK
<1>12. CASE SenderUnpark
  <2>1. SignalsTypeOK'
    BY <1>2, <1>12 DEF SenderUnpark, unpark, SignalsTypeOK, Typed, Wakers, MemoryTypeOK
  <2>2. ChannelTypeOK'
    BY <1>12 DEF SenderUnpark, Typed, ChannelTypeOK, MemoryTypeOK, channel, memory
  <2> QED BY <1>1, <1>12, <2>1, <2>2 DEF SenderUnpark, Typed, SenderTypeOK
<1>13. CASE SenderIsClosed
  <2>1. MemoryTypeOK'
    BY <1>2, <1>13, AtomicLoadType DEF SenderIsClosed
  <2> QED BY <1>4, <1>13, <2>1 DEF SenderIsClosed, Typed, SenderTypeOK
<1>14. CASE as_inner \/ into_inner \/ SendErrorDrop \/ SendErrorDropPanic \/ SenderDealloc
  <2>1. ChannelTypeOK'
    BY <1>14, SlotType
    DEF as_inner, into_inner, SendErrorDrop, SendErrorDropPanic, SenderDealloc, Typed
  <2>2. SenderTypeOK' /\ spc' \notin {"swap", "unpark"}
    BY <1>14 DEF as_inner, into_inner, SendErrorDrop, SendErrorDropPanic, SenderDealloc,
       Typed, SenderTypeOK, senderVars
  <2>3. UNCHANGED signals
    BY <1>14 DEF as_inner, into_inner, SendErrorDrop, SendErrorDropPanic, SenderDealloc
  <2> QED BY <1>5, <2>1, <2>2, <2>3
<1> QED
  BY <1>6, <1>7, <1>8, <1>9, <1>10, <1>11, <1>12, <1>13, <1>14, <1>15
  DEF SenderNext, SenderStep, SenderCall

\* The results of a call.
Results == {"none", "Ok", "Empty", "Disconnected", "Timeout", "Pending", "panic"}
Arms == [pc : Labels, res : Results]

\* Every match arm leads to a label of the model.
LEMMA ArmsType ==
  ASSUME TypeInv, NEW v
  PROVE  /\ {TryRecvArms(v), RecvArms(v), RecvSwapArms(v), RecvParkedArms(v)} \subseteq Arms
         /\ StartRecvRefArms(v) \in Arms
         /\ rpc \in {"ref_swap", "ref_parked"} =>
              {RefSwapArms(v), RefParkedArms(v)} \subseteq Arms
         /\ {DeadlineSwapArms(v), WaitForUnparkArms(v), ReceiverDropArms(v)} \subseteq Arms
         /\ {PollArms(v), PollCasEmptyArms(v), WriteAsyncWakerArms(v)} \subseteq Arms
         /\ {PollSpinArms(v), AsyncDropArms(v), AsyncDropSpinArms(v)} \subseteq Arms
<1> USE DEF Arms, Results, Labels, Arm, Unreachable, AfterPark, AfterMark, AfterFence,
        AfterTake, AfterWipe, AfterDropWaker, AfterWriteWaker
<1>1. {TryRecvArms(v), RecvArms(v), RecvSwapArms(v), RecvParkedArms(v)} \subseteq Arms
  BY DEF TryRecvArms, RecvArms, RecvSwapArms, RecvParkedArms
<1>2. StartRecvRefArms(v) \in Arms
  BY DEF StartRecvRefArms
<1>3. rpc \in {"ref_swap", "ref_parked"} =>
        {RefSwapArms(v), RefParkedArms(v)} \subseteq Arms
  BY DEF RefSwapArms, RefParkedArms, TypeInv, FinishInv
<1>4. {DeadlineSwapArms(v), WaitForUnparkArms(v), ReceiverDropArms(v)} \subseteq Arms
  BY DEF DeadlineSwapArms, WaitForUnparkArms, ReceiverDropArms
<1>5. {PollArms(v), PollCasEmptyArms(v), WriteAsyncWakerArms(v)} \subseteq Arms
  BY DEF PollArms, PollCasEmptyArms, WriteAsyncWakerArms
<1>6. {PollSpinArms(v), AsyncDropArms(v), AsyncDropSpinArms(v)} \subseteq Arms
  BY DEF PollSpinArms, AsyncDropArms, AsyncDropSpinArms
<1> QED
  BY <1>1, <1>2, <1>3, <1>4, <1>5, <1>6

\* The steps of the receiving end keep the types.
LEMMA ReceiverType ==
  ASSUME TypeInv, Defined, ReceiverNext
  PROVE  Typed'
<1> USE ConstantsType
<1> Typed
  BY DEF TypeInv
<1>1. SenderTypeOK'
  BY DEF Typed, SenderTypeOK, ReceiverNext, senderVars
<1>2. state.val \in U8 /\ MemoryTypeOK
  BY DEF Typed, ChannelTypeOK, MemoryTypeOK, Writes
<1>3. ASSUME UNCHANGED channel, SignalsTypeOK', ReceiverTypeOK'
      PROVE  Typed'
  BY <1>1, <1>3 DEF Typed, ChannelTypeOK, MemoryTypeOK, channel, memory
<1>4. ASSUME MemoryTypeOK', UNCHANGED <<message, waker>>, SignalsTypeOK', ReceiverTypeOK'
      PROVE  Typed'
  BY <1>1, <1>4 DEF Typed, ChannelTypeOK
<1>5. ASSUME ChannelTypeOK', UNCHANGED signals, ReceiverTypeOK'
      PROVE  Typed'
  BY <1>1, <1>5 DEF Typed, SignalsTypeOK, signals
<1>6. UNCHANGED signals => SignalsTypeOK'
  BY DEF Typed, SignalsTypeOK, signals
<1>7. ASSUME NEW arm \in Arms, RGoto(arm)
      PROVE  ReceiverTypeOK'
  BY <1>7 DEF RGoto, Typed, ReceiverTypeOK, Arms, Results
<1>8. CASE \/ TryRecvLoad \/ RecvLoad \/ RecvParked \/ StartRecvRefLoad \/ RefParked
           \/ wait_for_unpark \/ PollLoad \/ PollSpin \/ AsyncDropSpin
  <2>1. MemoryTypeOK'
    BY <1>2, <1>8, AtomicLoadType DEF MatchLoad, TryRecvLoad, RecvLoad, RecvParked,
       StartRecvRefLoad, RefParked, wait_for_unpark, PollLoad, PollSpin, AsyncDropSpin
  <2>2. ReceiverTypeOK'
    BY <1>7, <1>8, ArmsType DEF MatchLoad, TryRecvLoad, RecvLoad, RecvParked,
       StartRecvRefLoad, RefParked, wait_for_unpark, PollLoad, PollSpin, AsyncDropSpin
  <2>3. UNCHANGED <<message, waker, signals>>
    BY <1>8 DEF MatchLoad, TryRecvLoad, RecvLoad, RecvParked,
       StartRecvRefLoad, RefParked, wait_for_unpark, PollLoad, PollSpin, AsyncDropSpin
  <2> QED BY <1>4, <1>6, <2>1, <2>2, <2>3
<1>9. CASE RecvSwap \/ RefSwap \/ DeadlineSwap \/ DropSwap \/ AsyncDropSwap
  <2>1. MemoryTypeOK'
    BY <1>2, <1>9, AtomicRmwType DEF MatchSwap, RecvSwap, RefSwap, DeadlineSwap,
       DropSwap, AsyncDropSwap
  <2>2. ReceiverTypeOK'
    BY <1>7, <1>9, ArmsType DEF MatchSwap, RecvSwap, RefSwap, DeadlineSwap,
       DropSwap, AsyncDropSwap
  <2>3. UNCHANGED <<message, waker, signals>>
    BY <1>9 DEF MatchSwap, RecvSwap, RefSwap, DeadlineSwap, DropSwap, AsyncDropSwap
  <2> QED BY <1>4, <1>6, <2>1, <2>2, <2>3
<1>10. CASE PollCasEmpty \/ WriteAsyncWaker \/ AsyncDropCas \/ AsyncDropLoad
  <2>1. MemoryTypeOK'
    BY <1>2, <1>10, AtomicRmwType, AtomicLoadType DEF MatchCas, MatchLoad, PollCasEmpty,
       WriteAsyncWaker, AsyncDropCas, AsyncDropLoad
  <2>2. \A pc \in {"drop_register", "return", "drop_close", "async_drop_swap",
                   "async_drop_cas"} : \A r \in {"none", "Pending"} : Arm(pc, r) \in Arms
    BY DEF Arm, Arms, Labels, Results, AfterDropWaker
  <2>3. ReceiverTypeOK'
    BY <1>7, <1>10, <2>2, ArmsType DEF MatchCas, MatchLoad, PollCasEmpty,
       WriteAsyncWaker, AsyncDropCas, AsyncDropLoad
  <2>4. UNCHANGED <<message, waker, signals>>
    BY <1>10 DEF MatchCas, MatchLoad, PollCasEmpty, WriteAsyncWaker, AsyncDropCas,
       AsyncDropLoad
  <2> QED BY <1>4, <1>6, <2>1, <2>3, <2>4
<1>11. CASE \/ WriteWaker \/ DropWaker \/ Mark \/ Fence \/ TakeMessage \/ WipeMessage
            \/ Free
  <2>1. ReceiverTypeOK' /\ UNCHANGED signals
    BY <1>11 DEF WriteWaker, DropWaker, Mark, Fence, TakeMessage, WipeMessage, Free, Along,
       RGoto, Arm, Typed, ReceiverTypeOK, Labels, AfterWriteWaker, AfterDropWaker,
       AfterMark, AfterFence, AfterTake, AfterWipe
  <2>2. CurrentWaker \in Wakers \cup {"none"}
    BY DEF CurrentWaker, Typed, ReceiverTypeOK, Wakers
  <2>3. CASE WriteWaker \/ DropWaker \/ TakeMessage \/ WipeMessage \/ Free
    <3>1. ChannelTypeOK'
      BY <2>2, <2>3, SlotType DEF WriteWaker, DropWaker, TakeMessage, WipeMessage, Free,
         Along, Typed
    <3> QED BY <1>5, <2>1, <3>1
  <2>4. CASE Mark \/ Fence
    <3>1. MemoryTypeOK' /\ UNCHANGED <<message, waker>>
      BY <1>2, <2>4, AtomicStoreType, FenceAcquireType DEF Mark, Fence, Along
    <3> QED BY <1>4, <1>6, <2>1, <3>1
  <2> QED BY <1>11, <2>3, <2>4
<1>12. CASE Park
  <2>1. MemoryTypeOK' /\ SignalsTypeOK'
    BY <1>2, <1>12, SyncWithType DEF Park, ParkToken, Typed, SignalsTypeOK
  <2>2. ReceiverTypeOK' /\ UNCHANGED <<message, waker>>
    BY <1>12 DEF Park, RGoto, Arm, Typed, ReceiverTypeOK, Labels, AfterPark
  <2> QED BY <1>4, <2>1, <2>2
<1>13. CASE SpuriousPark
  <2>1. MemoryTypeOK' /\ SignalsTypeOK'
    BY <1>2, <1>13 DEF SpuriousPark, ParkSpurious, Typed, SignalsTypeOK, MemoryTypeOK,
       memory, signals
  <2>2. ReceiverTypeOK' /\ UNCHANGED <<message, waker>>
    BY <1>13 DEF SpuriousPark, RGoto, Arm, Typed, ReceiverTypeOK, Labels, AfterPark
  <2> QED BY <1>4, <2>1, <2>2
<1>14. CASE \/ Return \/ ParkTimeout \/ recv \/ ReceiverDrop
            \/ ReceiverRaw \/ into_future \/ AsyncReceiverDrop
  <2>1. ReceiverTypeOK'
    BY <1>14 DEF Return, ParkTimeout, recv, ReceiverDrop,
       ReceiverRaw, into_future, AsyncReceiverDrop, Consume, RGoto, Arm, AfterPark,
       Typed, ReceiverTypeOK, Labels
  <2>2. UNCHANGED <<channel, signals>>
    BY <1>14 DEF Return, ParkTimeout, recv, ReceiverDrop,
       ReceiverRaw, into_future, AsyncReceiverDrop, Consume
  <2> QED BY <1>3, <1>6, <2>1, <2>2
<1>15. CASE DeadlineCheck \/ Expire
  <2>1. UNCHANGED <<channel, signals, handle, finish, cx, calls, promise>>
    BY <1>15 DEF DeadlineCheck, Expire, RGoto
  <2>2. rpc' \in Labels /\ res' \in Results
    BY <1>15 DEF DeadlineCheck, Expire, RGoto, Arm, Typed, ReceiverTypeOK, Results,
       Labels, AfterPark
  <2>3. expired' \in BOOLEAN
    BY <1>15, Zenon DEF DeadlineCheck, Expire, RGoto, Typed, ReceiverTypeOK
  <2>4. ReceiverTypeOK'
    BY <2>1, <2>2, <2>3 DEF Typed, ReceiverTypeOK, Results
  <2> QED BY <1>3, <1>6, <2>1, <2>4
<1>18. CASE try_recv
  <2>1. ReceiverTypeOK'
    BY <1>18, MaxCallsAssumption
    DEF try_recv, Borrow, Typed, ReceiverTypeOK, Labels
  <2> QED BY <1>3, <1>6, <1>18, <2>1 DEF try_recv, Borrow
<1>19. ASSUME NEW closure \in {"ref_park", "deadline"}, NEW late \in BOOLEAN,
              StartRecvRef(closure, late)
       PROVE  Typed'
  <2>1. UNCHANGED <<channel, signals, handle, cx, promise>>
    BY <1>19 DEF StartRecvRef, Borrow
  <2>2. /\ rpc' \in Labels /\ res' = "none" /\ finish' = closure
        /\ calls' \in 0 .. MaxCalls
    BY <1>19, MaxCallsAssumption
    DEF StartRecvRef, Borrow, Typed, ReceiverTypeOK, Labels
  <2>3. expired' \in BOOLEAN
    BY <1>19, Zenon DEF StartRecvRef
  <2>4. ReceiverTypeOK'
    BY <2>1, <2>2, <2>3 DEF Typed, ReceiverTypeOK
  <2> QED BY <1>3, <1>6, <2>1, <2>4
<1>20. CASE recv_ref \/ recv_deadline \/ recv_timeout
  BY <1>19, <1>20 DEF recv_ref, recv_deadline, recv_timeout
<1>16. CASE is_closed \/ has_message
  <2>1. MemoryTypeOK'
    BY <1>2, <1>16, AtomicLoadType DEF is_closed, has_message
  <2>2. ReceiverTypeOK' /\ UNCHANGED <<message, waker, signals>>
    BY <1>16 DEF is_closed, has_message, Typed, ReceiverTypeOK
  <2> QED BY <1>4, <1>6, <2>1, <2>2
<1>17. CASE WakeByRef \/ PollWoken \/ \E w \in Tasks : poll(w)
  <2>1. UNCHANGED channel
    BY <1>17 DEF WakeByRef, PollWoken, poll, Borrow
  <2>2. ReceiverTypeOK'
    BY <1>17, MaxCallsAssumption DEF WakeByRef, PollWoken, poll, Borrow, RGoto, Arm,
       Typed, ReceiverTypeOK, Labels
  <2>3. SignalsTypeOK'
    BY <1>17 DEF WakeByRef, PollWoken, poll, Typed, SignalsTypeOK, TypeInv, PollInv
  <2> QED BY <1>3, <2>1, <2>2, <2>3
<1>21. CASE WipeMessagePanic \/ DropWakerPanic
  <2>1. ChannelTypeOK' /\ UNCHANGED signals
    BY <1>21, SlotType DEF WipeMessagePanic, DropWakerPanic, Typed
  <2>2. ReceiverTypeOK'
    BY <1>21 DEF WipeMessagePanic, DropWakerPanic, UnwindCall, UnwindDrop, Typed,
       ReceiverTypeOK, Labels
  <2> QED BY <1>5, <2>1, <2>2
<1>22. CASE WakeByRefPanic \/ ClonePanic
  <2>1. ReceiverTypeOK' /\ UNCHANGED <<channel, signals>>
    BY <1>22 DEF WakeByRefPanic, ClonePanic, UnwindCall, Typed, ReceiverTypeOK, Labels
  <2> QED BY <1>3, <1>6, <2>1
<1> QED
  BY <1>8, <1>9, <1>10, <1>11, <1>12, <1>13, <1>14, <1>15, <1>16, <1>17,
     <1>18, <1>20, <1>21, <1>22
  DEF ReceiverNext, ReceiverStep, ReceiverCall

\* The steps of the receiving end keep the auxiliary parts of TypeInv.
LEMMA ReceiverAux ==
  ASSUME TypeInv, Defined, ReceiverNext
  PROVE  HeldInv' /\ FinishInv' /\ PollInv'
<1>1. HeldInv'
  BY DEF TypeInv, ReceiverNext, senderVars, HeldInv
<1> SUFFICES FinishInv' /\ PollInv'
  BY <1>1
<1> DEFINE Refs   == {"start_recv_ref", "ref_register", "ref_swap", "ref_park",
                      "ref_parked", "timed_park", "deadline"}
           Polls  == {"poll", "poll_register", "poll_cas_empty", "drop_register",
                      "wake_by_ref"}
<1>2. FinishInv /\ PollInv
  BY DEF TypeInv
<1>3. ASSUME UNCHANGED <<finish, cx>>, rpc' \in Refs => rpc \in Refs,
             rpc' \in Polls => rpc \in Polls
      PROVE  FinishInv' /\ PollInv'
  BY <1>2, <1>3 DEF FinishInv, PollInv
<1> USE DEF RGoto, Arm, Unreachable
<1>4. CASE \/ TryRecvLoad \/ RecvLoad \/ RecvParked \/ StartRecvRefLoad \/ RefParked
           \/ wait_for_unpark \/ PollLoad \/ PollSpin \/ AsyncDropSpin \/ AsyncDropLoad
  BY <1>2, <1>3, <1>4 DEF FinishInv, MatchLoad, TryRecvLoad, RecvLoad, RecvParked,
     StartRecvRefLoad, RefParked, wait_for_unpark, PollLoad, PollSpin, AsyncDropSpin,
     AsyncDropLoad, TryRecvArms, RecvArms, RecvParkedArms, StartRecvRefArms,
     RefParkedArms, WaitForUnparkArms, PollArms, PollSpinArms, AsyncDropSpinArms
<1>5. CASE RecvSwap \/ RefSwap \/ DeadlineSwap \/ DropSwap \/ AsyncDropSwap
  BY <1>2, <1>3, <1>5 DEF FinishInv, MatchSwap, RecvSwap, RefSwap, DeadlineSwap, DropSwap,
     AsyncDropSwap, RecvSwapArms, RefSwapArms, DeadlineSwapArms, ReceiverDropArms,
     AsyncDropArms
<1>6. CASE PollCasEmpty \/ WriteAsyncWaker \/ AsyncDropCas
  BY <1>3, <1>6 DEF MatchCas, PollCasEmpty, WriteAsyncWaker, AsyncDropCas,
     PollCasEmptyArms, WriteAsyncWakerArms
<1>7. CASE \/ WriteWaker \/ DropWaker \/ Mark \/ Fence \/ TakeMessage \/ WipeMessage
           \/ Free
  BY <1>3, <1>7 DEF WriteWaker, DropWaker, Mark, Fence, TakeMessage, WipeMessage, Free,
     Along, AfterWriteWaker, AfterDropWaker, AfterMark, AfterFence, AfterTake, AfterWipe
<1>8. CASE Park \/ SpuriousPark \/ ParkTimeout \/ DeadlineCheck \/ Expire
  BY <1>3, <1>8 DEF Park, SpuriousPark, ParkTimeout, DeadlineCheck, Expire, AfterPark
<1>9. CASE \/ Return \/ recv \/ ReceiverDrop \/ ReceiverRaw \/ into_future
           \/ AsyncReceiverDrop \/ try_recv \/ is_closed \/ has_message \/ WakeByRef
  BY <1>3, <1>9 DEF Return, recv, ReceiverDrop, ReceiverRaw, into_future,
     AsyncReceiverDrop, Consume, try_recv, Borrow, is_closed, has_message, WakeByRef
<1>10. CASE recv_ref \/ recv_deadline \/ recv_timeout
  BY <1>10 DEF recv_ref, recv_deadline, recv_timeout, StartRecvRef, Borrow, FinishInv,
     PollInv
<1>11. CASE PollWoken \/ \E w \in Tasks : poll(w)
  BY <1>11 DEF PollWoken, poll, Borrow, FinishInv, PollInv, TypeInv, Typed,
     SignalsTypeOK
<1>12. CASE WipeMessagePanic \/ DropWakerPanic \/ WakeByRefPanic \/ ClonePanic
  BY <1>12 DEF WipeMessagePanic, DropWakerPanic, WakeByRefPanic, ClonePanic, UnwindCall,
     UnwindDrop, FinishInv, PollInv
<1> QED
  BY <1>4, <1>5, <1>6, <1>7, <1>8, <1>9, <1>10, <1>11, <1>12
  DEF ReceiverNext, ReceiverStep, ReceiverCall

\* Writes of state becoming visible keeps the types.
LEMMA VisibilityType ==
  ASSUME TypeInv, Visibility
  PROVE  TypeInv'
<1>1. MemoryTypeOK'
  BY PropagateType DEF Visibility, TypeInv, Typed, ChannelTypeOK
<1>2. faults' = faults
  BY DEF Visibility, Propagate
<1> QED
  BY <1>1, <1>2 DEF Visibility, TypeInv, Typed, ChannelTypeOK, SignalsTypeOK,
     SenderTypeOK, ReceiverTypeOK, HeldInv, FinishInv, PollInv, Defined, signals,
     senderVars, receiverVars

\* A channel fresh from channel() is well typed.
LEMMA InitType == Init => TypeInv
<1> SUFFICES ASSUME Init PROVE TypeInv
  OBVIOUS
<1>1. MemoryTypeOK
  BY ConstantsType DEF Init, ChannelInit, MemoryInit, MemoryTypeOK, Writes, Views, Zero
<1>2. ReceiverTypeOK
  <2>1. expired \in BOOLEAN
    BY Zenon DEF Init, ReceiverInit
  <2>2. calls \in 0 .. MaxCalls
    BY MaxCallsAssumption DEF Init, ReceiverInit
  <2> QED BY <2>1, <2>2 DEF Init, ReceiverInit, ReceiverTypeOK, Labels
<1> QED
  BY <1>1, <1>2 DEF Init, ChannelInit, SignalsInit, SenderInit, ReceiverInit, TypeInv,
     Typed, ChannelTypeOK, SignalsTypeOK, SenderTypeOK, HeldInv, FinishInv, PollInv

\* Every step of either end keeps the types.
LEMMA NextType == TypeInv /\ [Next]_vars => TypeInv'
<1> SUFFICES ASSUME TypeInv, [Next]_vars PROVE TypeInv'
  OBVIOUS
<1>1. CASE UNCHANGED vars
  BY <1>1 DEF vars, channel, memory, signals, senderVars, receiverVars, TypeInv, Typed,
     ChannelTypeOK, MemoryTypeOK, SignalsTypeOK, SenderTypeOK, ReceiverTypeOK, HeldInv,
     FinishInv, PollInv, Defined
<1>2. CASE Defined /\ SenderNext
  BY <1>2, SenderType
<1>3. CASE Defined /\ ReceiverNext
  BY <1>3, ReceiverType, ReceiverAux DEF TypeInv
<1>4. CASE Visibility
  BY <1>4, VisibilityType
<1> QED
  BY <1>1, <1>2, <1>3, <1>4 DEF Next

-----------------------------------------------------------------------------
(* The values of the state byte. *)

\* The receiving end sets EMPTY, RECEIVING and DISCONNECTED, and no other state.
LEMMA ReceiverByte ==
  ASSUME ReceiverNext
  PROVE  state' = state \/ state'.val \in {EMPTY, RECEIVING, DISCONNECTED}
<1>1. \A order, val : AtomicRmw("R", order, val) => state'.val = val
  BY DEF AtomicRmw, Publish
<1>2. \A order : AtomicLoad("R", order) => state' = state
  BY DEF AtomicLoad
<1>3. CASE \/ TryRecvLoad \/ RecvLoad \/ RecvParked \/ StartRecvRefLoad \/ RefParked
           \/ wait_for_unpark \/ PollLoad \/ PollSpin \/ AsyncDropLoad
           \/ AsyncDropSpin \/ is_closed \/ has_message
  BY <1>2, <1>3 DEF MatchLoad, TryRecvLoad, RecvLoad, RecvParked, StartRecvRefLoad, RefParked,
     wait_for_unpark, PollLoad, PollSpin, AsyncDropLoad, AsyncDropSpin, is_closed, has_message
<1>4. CASE RecvSwap \/ RefSwap \/ DeadlineSwap \/ DropSwap \/ AsyncDropSwap
  BY <1>1, <1>4 DEF MatchSwap, RecvSwap, RefSwap, DeadlineSwap, DropSwap, AsyncDropSwap
<1>5. CASE PollCasEmpty \/ WriteAsyncWaker \/ AsyncDropCas
  BY <1>1, <1>2, <1>5 DEF MatchCas, PollCasEmpty, WriteAsyncWaker, AsyncDropCas
<1>6. CASE \/ WriteWaker \/ DropWaker \/ Mark \/ Fence \/ TakeMessage \/ WipeMessage
           \/ Free \/ WipeMessagePanic \/ DropWakerPanic
  BY <1>6 DEF WriteWaker, DropWaker, Mark, Fence, TakeMessage, WipeMessage, Free, Along,
     WipeMessagePanic, DropWakerPanic, write_waker, clear_waker, move_message, dealloc,
     CellAccess, FreeBlock, FenceAcquire, AtomicStore, Publish
<1>7. CASE \/ Return \/ DeadlineCheck \/ Park \/ SpuriousPark \/ ParkTimeout \/ Expire
           \/ WakeByRef \/ WakeByRefPanic \/ ClonePanic
  BY <1>7 DEF Return, DeadlineCheck, Park, SpuriousPark, ParkTimeout, Expire, WakeByRef,
     WakeByRefPanic, ClonePanic, ParkToken, ParkSpurious, SyncWith, channel, memory
<1>8. CASE \/ try_recv \/ recv \/ recv_ref \/ recv_deadline \/ recv_timeout \/ ReceiverRaw
           \/ ReceiverDrop \/ into_future \/ AsyncReceiverDrop \/ PollWoken
           \/ \E w \in Tasks : poll(w)
  BY <1>8 DEF try_recv, recv, recv_ref, recv_deadline, recv_timeout, StartRecvRef,
     ReceiverRaw, ReceiverDrop, into_future, AsyncReceiverDrop, PollWoken, poll, Borrow,
     Consume, channel, memory
<1> QED
  BY <1>3, <1>4, <1>5, <1>6, <1>7, <1>8 DEF ReceiverNext, ReceiverStep, ReceiverCall

\* From the states that the receiver sets, fetch_add and fetch_xor lead to one of the five.
LEMMA SenderByte ==
  ASSUME ByteInv, SenderNext
  PROVE  ByteInv'
<1> USE DEF ByteInv, Unsent, States, EMPTY, RECEIVING, DISCONNECTED, MESSAGE, UNPARKING
<1>1. \A order, val : AtomicRmw("S", order, val) => state'.val = val
  BY DEF AtomicRmw, Publish
<1>2. CASE SendFetchAdd \/ DropFetchXor
  <2>1. /\ state.val \in {EMPTY, RECEIVING, DISCONNECTED}
        /\ state'.val \in {Plus1(state.val), Xor1(state.val)}
        /\ spc' \in {"done", "take_waker", "error", "dealloc"}
    BY <1>1, <1>2 DEF SendFetchAdd, DropFetchXor, SGoto, SendArms, DropArms
  <2> QED
    BY <2>1 DEF Plus1, Xor1
<1>3. CASE SenderSwap
  BY <1>1, <1>3 DEF SenderSwap, SGoto, FinalState
<1>4. CASE \/ send \/ SenderDrop \/ SenderRaw \/ SenderIsClosed \/ SendWrite
           \/ SenderTakeWaker
  <2>1. state' = state
    BY <1>4 DEF send, SenderDrop, SenderRaw, SConsume, SenderIsClosed, SendWrite,
       SenderTakeWaker, write_message, clear_waker, CellAccess, AtomicLoad, channel, memory
  <2> QED
    BY <1>4, <2>1 DEF send, SenderDrop, SenderRaw, SConsume, SenderIsClosed, SendWrite,
       SenderTakeWaker, SGoto
<1>5. CASE \/ SenderUnpark \/ SenderUnparkPanic \/ as_inner \/ into_inner \/ SendErrorDrop
           \/ SendErrorDropPanic \/ SenderDealloc
  <2>1. state' = state
    BY <1>5 DEF SenderUnpark, SenderUnparkPanic, as_inner, into_inner, SendErrorDrop,
       SendErrorDropPanic, SenderDealloc, message_ref, move_message, dealloc, CellAccess,
       FreeBlock, channel, memory
  <2> QED
    BY <1>5, <2>1 DEF SenderUnpark, SenderUnparkPanic, as_inner, into_inner, SendErrorDrop,
       SendErrorDropPanic, SenderDealloc, SGoto, senderVars
<1> QED
  BY <1>2, <1>3, <1>4, <1>5 DEF SenderNext, SenderStep, SenderCall

\* Every step leaves the state byte in one of the five states.
LEMMA NextByte == ByteInv /\ [Next]_vars => ByteInv'
<1> SUFFICES ASSUME ByteInv, [Next]_vars PROVE ByteInv'
  OBVIOUS
<1>1. CASE UNCHANGED vars \/ Visibility
  BY <1>1 DEF vars, Visibility, Propagate, channel, memory, senderVars, ByteInv, Unsent
<1>2. CASE ReceiverNext
  BY <1>2, ReceiverByte DEF ReceiverNext, senderVars, ByteInv, Unsent, States
<1> QED
  BY <1>1, <1>2, SenderByte DEF Next

\* Every variable of the channel keeps its type, whatever the two ends do, and the
\* state byte is always one of the five values of states.rs: fetch_add and fetch_xor
\* never meet one from which they would leave them.
THEOREM TypeCorrect == Spec => []TypeOK
<1>1. Init => ByteInv
  BY DEF Init, ChannelInit, MemoryInit, SenderInit, ByteInv, Unsent
<1>2. TypeInv /\ ByteInv => TypeOK
  BY DEF TypeInv, ByteInv, TypeOK, States
<1> QED
  BY <1>1, <1>2, InitType, NextType, NextByte, PTL DEF Spec
=============================================================================
