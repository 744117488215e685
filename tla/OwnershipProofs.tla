--------------------------- MODULE OwnershipProofs ---------------------------
(***************************************************************************)
(* OwnershipInv is an invariant of UncancelledSpec, and with it the memory *)
(* safety of the channel but for its data races.                           *)
(***************************************************************************)
EXTENDS OneshotProofs, SequenceTheorems

-----------------------------------------------------------------------------
(* What the operations on the memory do to the parts of it that the        *)
(* invariant is about.                                                     *)

\* A load of a live channel changes nothing but what its thread has seen.
LEMMA LoadEffect ==
  ASSUME NEW t, NEW order, alive, AtomicLoad(t, order)
  PROVE  UNCHANGED <<state, stale, alive, faults>>
BY DEF AtomicLoad, Touch, UseAfterFree

\* A read-modify-write of the receiver brings it up to date.
LEMMA ReceiverRmwEffect ==
  ASSUME NEW order, NEW val, alive, AtomicRmw("R", order, val)
  PROVE  /\ state'.val = val
         /\ CaughtUp'
         /\ UNCHANGED <<alive, faults>>
BY ConstantsType DEF AtomicRmw, Publish, Touch, UseAfterFree, CaughtUp

\* So does a store of the receiver.
LEMMA ReceiverStoreEffect ==
  ASSUME NEW val, alive, AtomicStore("R", val)
  PROVE  /\ state'.val = val
         /\ CaughtUp'
         /\ UNCHANGED <<alive, faults>>
BY ConstantsType DEF AtomicStore, Publish, Touch, UseAfterFree, CaughtUp

\* A write of the sender puts the receiver one more write behind.
LEMMA SenderRmwEffect ==
  ASSUME MemoryTypeOK, NEW order, NEW val, alive, AtomicRmw("S", order, val),
         NEW CONSTANT old, state.val = old
  PROVE  /\ state'.val = val
         /\ CaughtUp => OneBehind(old)'
         /\ OneBehind(RECEIVING) /\ state.val = UNPARKING => TwoBehind'
         /\ UNCHANGED <<alive, faults>>
<1>1. stale'["R"] = Append(stale["R"], state)
  BY ConstantsType DEF AtomicRmw, Publish
<1>2. stale["R"] \in Seq(Writes) /\ state \in Writes
  BY ConstantsType DEF MemoryTypeOK
<1>3. CaughtUp => OneBehind(old)'
  BY <1>1, <1>2 DEF CaughtUp, OneBehind
<1>4. OneBehind(RECEIVING) /\ state.val = UNPARKING => TwoBehind'
  BY <1>1, <1>2 DEF OneBehind, TwoBehind
<1> QED
  BY <1>3, <1>4 DEF AtomicRmw, Publish, Touch, UseAfterFree

\* The accesses to the slots: the faults depend on what is in them.
LEMMA SlotEffect ==
  ASSUME NEW t, alive, faults \subseteq {"data_race"}
  PROVE  /\ write_message(t) /\ message # "init" =>
              /\ UNCHANGED <<state, stale, alive, waker>>
              /\ message' = "init" /\ faults' \subseteq {"data_race"}
         /\ \A fate : move_message(t, fate) /\ message = "init" =>
              /\ UNCHANGED <<state, stale, alive, waker>>
              /\ message' = fate /\ faults' \subseteq {"data_race"}
         /\ message_ref(t) /\ message = "init" =>
              /\ UNCHANGED <<state, stale, alive, waker, message>>
              /\ faults' \subseteq {"data_race"}
         /\ \A w : write_waker(t, w) /\ waker = "none" =>
              /\ UNCHANGED <<state, stale, alive, message>>
              /\ waker' = w /\ faults' \subseteq {"data_race"}
         /\ clear_waker(t) /\ waker # "none" =>
              /\ UNCHANGED <<state, stale, alive, message>>
              /\ waker' = "none" /\ faults' \subseteq {"data_race"}
         /\ dealloc(t) /\ message # "init" /\ waker = "none" =>
              /\ UNCHANGED <<state, stale, message, waker>>
              /\ ~alive' /\ faults' \subseteq {"data_race"}
<1>1. ASSUME NEW l, CellAccess(t, l, {})
      PROVE  UNCHANGED <<state, stale, alive>> /\ faults' \subseteq {"data_race"}
  BY <1>1, RaceType DEF CellAccess, Touch, UseAfterFree
<1>2. ASSUME FreeBlock(t, {})
      PROVE  UNCHANGED <<state, stale>> /\ ~alive' /\ faults' \subseteq {"data_race"}
  <2>1. UNION {Race(t, l) : l \in Locations} \subseteq {"data_race"}
    BY RaceType
  <2> QED BY <1>2, <2>1 DEF FreeBlock, UseAfterFree
<1>4. write_message(t) /\ message # "init" =>
        /\ UNCHANGED <<state, stale, alive, waker>>
        /\ message' = "init" /\ faults' \subseteq {"data_race"}
  BY <1>1 DEF write_message, Fault
<1>5. \A fate : move_message(t, fate) /\ message = "init" =>
        /\ UNCHANGED <<state, stale, alive, waker>>
        /\ message' = fate /\ faults' \subseteq {"data_race"}
  BY <1>1 DEF move_message, Fault
<1>6. message_ref(t) /\ message = "init" =>
        /\ UNCHANGED <<state, stale, alive, waker, message>>
        /\ faults' \subseteq {"data_race"}
  BY <1>1 DEF message_ref, Fault
<1>7. \A w : write_waker(t, w) /\ waker = "none" =>
        /\ UNCHANGED <<state, stale, alive, message>>
        /\ waker' = w /\ faults' \subseteq {"data_race"}
  BY <1>1 DEF write_waker, Fault
<1>8. clear_waker(t) /\ waker # "none" =>
        /\ UNCHANGED <<state, stale, alive, message>>
        /\ waker' = "none" /\ faults' \subseteq {"data_race"}
  BY <1>1 DEF clear_waker, Fault
<1>9. dealloc(t) /\ message # "init" /\ waker = "none" =>
        /\ UNCHANGED <<state, stale, message, waker>>
        /\ ~alive' /\ faults' \subseteq {"data_race"}
  BY <1>2 DEF dealloc, Fault
<1> QED
  BY <1>4, <1>5, <1>6, <1>7, <1>8, <1>9

\* The value a load of the receiver returns, by how far it lags behind.
LEMMA VisibleEffect ==
  ASSUME MemoryTypeOK
  PROVE  /\ CaughtUp => Visible("R") = state
         /\ \A v : OneBehind(v) => Visible("R").val = v
         /\ TwoBehind => Visible("R").val = RECEIVING
<1>1. stale["R"] \in Seq(Writes)
  BY ConstantsType DEF MemoryTypeOK
<1> QED
  BY <1>1 DEF Visible, CaughtUp, OneBehind, TwoBehind

\* A step that leaves the older writes alone leaves the lag as it was.
LEMMA LagUnchanged ==
  ASSUME UNCHANGED stale
  PROVE  /\ CaughtUp => CaughtUp'
         /\ OneBehind(EMPTY) => OneBehind(EMPTY)'
         /\ OneBehind(RECEIVING) => OneBehind(RECEIVING)'
         /\ OneBehind(UNPARKING) => OneBehind(UNPARKING)'
         /\ OneBehind(DISCONNECTED) => OneBehind(DISCONNECTED)'
         /\ TwoBehind => TwoBehind'
BY DEF CaughtUp, OneBehind, TwoBehind, EMPTY, RECEIVING, UNPARKING, DISCONNECTED

\* A write becoming visible to the receiver takes it one write ahead.
LEMMA PropagateEffect ==
  ASSUME MemoryTypeOK, NEW t \in Threads, Propagate(t)
  PROVE  /\ UNCHANGED <<state, alive, faults>>
         /\ CaughtUp => CaughtUp'
         /\ OneBehind(EMPTY) => CaughtUp' \/ OneBehind(EMPTY)'
         /\ OneBehind(RECEIVING) => CaughtUp' \/ OneBehind(RECEIVING)'
         /\ OneBehind(UNPARKING) => CaughtUp' \/ OneBehind(UNPARKING)'
         /\ OneBehind(DISCONNECTED) => CaughtUp' \/ OneBehind(DISCONNECTED)'
         /\ TwoBehind => OneBehind(UNPARKING)' \/ TwoBehind'
<1>1. UNCHANGED <<state, alive, faults>>
  BY DEF Propagate
<1>2. CASE t = "R"
  <2>1. /\ stale["R"] \in Seq(Writes) /\ stale["R"] # <<>>
        /\ stale'["R"] = Tail(stale["R"])
    BY <1>2, ConstantsType DEF MemoryTypeOK, Propagate
  <2>2. Len(stale["R"]) = 1 => CaughtUp'
    <3>1. Tail(stale["R"]) \in Seq(Writes) /\ Len(Tail(stale["R"])) = Len(stale["R"]) - 1
      BY <2>1
    <3>2. Tail(stale["R"]) # <<>> => Len(Tail(stale["R"])) \in Nat \ {0}
      BY <3>1, EmptySeq, Zenon
    <3>3. Len(stale["R"]) = 1 => Tail(stale["R"]) = <<>>
      BY <3>1, <3>2
    <3> QED BY <2>1, <3>3, Zenon DEF CaughtUp
  <2>3. TwoBehind => OneBehind(UNPARKING)'
    BY <2>1 DEF TwoBehind, OneBehind, UNPARKING
  <2> QED BY <1>1, <2>1, <2>2, <2>3 DEF OneBehind, CaughtUp
<1>3. CASE t = "S"
  <2>1. stale'["R"] = stale["R"]
    BY <1>3, ConstantsType DEF MemoryTypeOK, Propagate
  <2> QED BY <1>1, <2>1 DEF CaughtUp, OneBehind, TwoBehind, EMPTY, RECEIVING, UNPARKING,
             DISCONNECTED
<1> QED
  BY <1>2, <1>3 DEF Threads

-----------------------------------------------------------------------------
(* The steps of the receiving end. *)

\* What OwnershipInv says besides the types.
Owned == HandleInv /\ faults \subseteq {"data_race"} /\ PhaseInv

\* The steps that act upon a load of state.
LEMMA ReceiverLoads ==
  ASSUME OwnershipInv, ReceiverNext,
         \/ TryRecvLoad \/ RecvLoad \/ RecvParked \/ StartRecvRefLoad \/ RefParked
         \/ wait_for_unpark \/ PollLoad \/ PollSpin \/ AsyncDropLoad
         \/ AsyncDropSpin
  PROVE  Owned'
<1>1. MemoryTypeOK
  BY DEF OwnershipInv, TypeInv, Typed, ChannelTypeOK
<1>2. UNCHANGED <<spc, sop>>
  BY DEF ReceiverNext, senderVars
<1> USE DEF RGoto, Arm, Unreachable, Owned, OwnershipInv, HandleInv, PhaseInv, FreshInv,
    WakingInv, OwnerInv, OpenInv, ClosingInv, FreedInv, DoneInv, Unregistered, Registered,
    Unsure, Resting, WakerIsMine, MessageIsMine, NothingLeft, Consuming, ThreadOnly,
    TaskOnly, Borrowing, EMPTY, RECEIVING, UNPARKING, MESSAGE, DISCONNECTED
<1>3. CASE TryRecvLoad
  <2>1. alive
    BY <1>3 DEF TryRecvLoad, MatchLoad
  <2>2. UNCHANGED <<state, stale, alive, faults>>
    BY <1>3, <2>1, LoadEffect DEF TryRecvLoad, MatchLoad
  <2> QED
    BY <1>1, <1>2, <1>3, <2>1, <2>2, VisibleEffect, LagUnchanged
    DEF TryRecvLoad, MatchLoad, TryRecvArms
<1>4. CASE RecvLoad
  <2>1. alive
    BY <1>4 DEF RecvLoad, MatchLoad
  <2>2. UNCHANGED <<state, stale, alive, faults>>
    BY <1>4, <2>1, LoadEffect DEF RecvLoad, MatchLoad
  <2> QED
    BY <1>1, <1>2, <1>4, <2>1, <2>2, VisibleEffect, LagUnchanged
    DEF RecvLoad, MatchLoad, RecvArms
<1>5. CASE RecvParked
  <2>1. alive
    BY <1>5 DEF RecvParked, MatchLoad
  <2>2. UNCHANGED <<state, stale, alive, faults>>
    BY <1>5, <2>1, LoadEffect DEF RecvParked, MatchLoad
  <2> QED
    BY <1>1, <1>2, <1>5, <2>1, <2>2, VisibleEffect, LagUnchanged
    DEF RecvParked, MatchLoad, RecvParkedArms
<1>6. CASE StartRecvRefLoad
  <2>1. alive
    BY <1>6 DEF StartRecvRefLoad, MatchLoad
  <2>2. UNCHANGED <<state, stale, alive, faults>>
    BY <1>6, <2>1, LoadEffect DEF StartRecvRefLoad, MatchLoad
  <2> QED
    BY <1>1, <1>2, <1>6, <2>1, <2>2, VisibleEffect, LagUnchanged
    DEF StartRecvRefLoad, MatchLoad, StartRecvRefArms
<1>7. CASE RefParked
  <2>1. alive
    BY <1>7 DEF RefParked, MatchLoad
  <2>2. UNCHANGED <<state, stale, alive, faults>>
    BY <1>7, <2>1, LoadEffect DEF RefParked, MatchLoad
  <2> QED
    BY <1>1, <1>2, <1>7, <2>1, <2>2, VisibleEffect, LagUnchanged
    DEF RefParked, MatchLoad, RefParkedArms, TypeInv, FinishInv
<1>8. CASE wait_for_unpark
  <2>1. alive
    BY <1>8 DEF wait_for_unpark, MatchLoad
  <2>2. UNCHANGED <<state, stale, alive, faults>>
    BY <1>8, <2>1, LoadEffect DEF wait_for_unpark, MatchLoad
  <2> QED
    BY <1>1, <1>2, <1>8, <2>1, <2>2, VisibleEffect, LagUnchanged
    DEF wait_for_unpark, MatchLoad, WaitForUnparkArms
<1>9. CASE PollLoad
  <2>1. alive
    BY <1>9 DEF PollLoad, MatchLoad
  <2>2. UNCHANGED <<state, stale, alive, faults>>
    BY <1>9, <2>1, LoadEffect DEF PollLoad, MatchLoad
  <2> QED
    BY <1>1, <1>2, <1>9, <2>1, <2>2, VisibleEffect, LagUnchanged
    DEF PollLoad, MatchLoad, PollArms
<1>10. CASE PollSpin
  <2>1. alive
    BY <1>10 DEF PollSpin, MatchLoad
  <2>2. UNCHANGED <<state, stale, alive, faults>>
    BY <1>10, <2>1, LoadEffect DEF PollSpin, MatchLoad
  <2> QED
    BY <1>1, <1>2, <1>10, <2>1, <2>2, VisibleEffect, LagUnchanged
    DEF PollSpin, MatchLoad, PollSpinArms
<1>11. CASE AsyncDropLoad
  <2>1. alive
    BY <1>11 DEF AsyncDropLoad, MatchLoad
  <2>2. UNCHANGED <<state, stale, alive, faults>>
    BY <1>11, <2>1, LoadEffect DEF AsyncDropLoad, MatchLoad
  <2> QED
    BY <1>1, <1>2, <1>11, <2>1, <2>2, VisibleEffect, LagUnchanged
    DEF AsyncDropLoad, MatchLoad
<1>12. CASE AsyncDropSpin
  <2>1. alive
    BY <1>12 DEF AsyncDropSpin, MatchLoad
  <2>2. UNCHANGED <<state, stale, alive, faults>>
    BY <1>12, <2>1, LoadEffect DEF AsyncDropSpin, MatchLoad
  <2> QED
    BY <1>1, <1>2, <1>12, <2>1, <2>2, VisibleEffect, LagUnchanged
    DEF AsyncDropSpin, MatchLoad, AsyncDropSpinArms
<1> QED
  BY <1>3, <1>4, <1>5, <1>6, <1>7, <1>8, <1>9, <1>10, <1>11, <1>12

\* The steps that act upon a swap of state.
LEMMA ReceiverSwaps ==
  ASSUME OwnershipInv, ReceiverNext, ~CancelDuringWake,
         \/ RecvSwap \/ RefSwap \/ DeadlineSwap \/ DropSwap \/ AsyncDropSwap
  PROVE  Owned'
<1>1. MemoryTypeOK
  BY DEF OwnershipInv, TypeInv, Typed, ChannelTypeOK
<1>2. UNCHANGED <<spc, sop>>
  BY DEF ReceiverNext, senderVars
<1> USE DEF RGoto, Arm, Unreachable, Owned, OwnershipInv, HandleInv, PhaseInv, FreshInv,
    WakingInv, OwnerInv, OpenInv, ClosingInv, FreedInv, DoneInv, Unregistered, Registered,
    Unsure, Resting, WakerIsMine, MessageIsMine, NothingLeft, Consuming, ThreadOnly,
    TaskOnly, Borrowing, EMPTY, RECEIVING, UNPARKING, MESSAGE, DISCONNECTED
<1>3. CASE RecvSwap
  <2>1. alive
    BY <1>3 DEF RecvSwap, MatchSwap
  <2>2. state'.val = RECEIVING /\ CaughtUp' /\ UNCHANGED <<alive, faults>>
    BY <1>3, <2>1, ReceiverRmwEffect DEF RecvSwap, MatchSwap
  <2> QED
    BY <1>1, <1>2, <1>3, <2>1, <2>2
    DEF RecvSwap, MatchSwap, RecvSwapArms
<1>4. CASE RefSwap
  <2>1. alive
    BY <1>4 DEF RefSwap, MatchSwap
  <2>2. state'.val = RECEIVING /\ CaughtUp' /\ UNCHANGED <<alive, faults>>
    BY <1>4, <2>1, ReceiverRmwEffect DEF RefSwap, MatchSwap
  <2> QED
    BY <1>1, <1>2, <1>4, <2>1, <2>2
    DEF RefSwap, MatchSwap, RefSwapArms, TypeInv, FinishInv
<1>5. CASE DeadlineSwap
  <2>1. alive
    BY <1>5 DEF DeadlineSwap, MatchSwap
  <2>2. state'.val = EMPTY /\ CaughtUp' /\ UNCHANGED <<alive, faults>>
    BY <1>5, <2>1, ReceiverRmwEffect DEF DeadlineSwap, MatchSwap
  <2> QED
    BY <1>1, <1>2, <1>5, <2>1, <2>2
    DEF DeadlineSwap, MatchSwap, DeadlineSwapArms
<1>6. CASE DropSwap
  <2>1. alive
    BY <1>6 DEF DropSwap, MatchSwap
  <2>2. state'.val = DISCONNECTED /\ CaughtUp' /\ UNCHANGED <<alive, faults>>
    BY <1>6, <2>1, ReceiverRmwEffect DEF DropSwap, MatchSwap
  <2> QED
    BY <1>1, <1>2, <1>6, <2>1, <2>2
    DEF DropSwap, MatchSwap, ReceiverDropArms
<1>7. CASE AsyncDropSwap
  <2>1. alive
    BY <1>7 DEF AsyncDropSwap, MatchSwap
  <2>2. state'.val = DISCONNECTED /\ CaughtUp' /\ UNCHANGED <<alive, faults>>
    BY <1>7, <2>1, ReceiverRmwEffect DEF AsyncDropSwap, MatchSwap
  <2> QED
    BY <1>1, <1>2, <1>7, <2>1, <2>2
    DEF AsyncDropSwap, MatchSwap, AsyncDropArms, CancelDuringWake
<1> QED
  BY <1>3, <1>4, <1>5, <1>6, <1>7

\* The steps that act upon a compare_exchange of state.
LEMMA ReceiverExchanges ==
  ASSUME OwnershipInv, ReceiverNext,
         \/ PollCasEmpty \/ WriteAsyncWaker \/ AsyncDropCas
  PROVE  Owned'
<1>1. MemoryTypeOK
  BY DEF OwnershipInv, TypeInv, Typed, ChannelTypeOK
<1>2. UNCHANGED <<spc, sop>>
  BY DEF ReceiverNext, senderVars
<1> USE DEF RGoto, Arm, Unreachable, Owned, OwnershipInv, HandleInv, PhaseInv, FreshInv,
    WakingInv, OwnerInv, OpenInv, ClosingInv, FreedInv, DoneInv, Unregistered, Registered,
    Unsure, Resting, WakerIsMine, MessageIsMine, NothingLeft, Consuming, ThreadOnly,
    TaskOnly, Borrowing, EMPTY, RECEIVING, UNPARKING, MESSAGE, DISCONNECTED
<1>3. CASE PollCasEmpty
  <2>1. alive
    BY <1>3 DEF PollCasEmpty, MatchCas
  <2>2. rpc = "poll_cas_empty" /\ UNCHANGED <<message, waker, handle>>
    BY <1>3 DEF PollCasEmpty, MatchCas
  <2>3. CASE /\ state.val = RECEIVING
             /\ AtomicRmw("R", Relaxed, EMPTY) /\ rpc' = "drop_register"
    <3>1. state'.val = EMPTY /\ CaughtUp' /\ UNCHANGED <<alive, faults>>
      BY <2>1, <2>3, ReceiverRmwEffect
    <3> QED BY <1>2, <2>1, <2>2, <2>3, <3>1, VisibleEffect
  <2>4. CASE /\ Visible("R").val # RECEIVING
             /\ AtomicLoad("R", Relaxed) /\ rpc' = PollCasEmptyArms(Visible("R").val).pc
    <3>1. UNCHANGED <<state, stale, alive, faults>>
      BY <2>1, <2>4, LoadEffect
    <3> QED
      BY <1>1, <1>2, <2>1, <2>2, <2>4, <3>1, VisibleEffect, LagUnchanged
    DEF PollCasEmptyArms
  <2> QED
    BY <1>3, <2>3, <2>4 DEF PollCasEmpty, MatchCas
<1>4. CASE WriteAsyncWaker
  <2>1. alive
    BY <1>4 DEF WriteAsyncWaker, MatchCas
  <2>2. rpc = "poll_cas_receiving" /\ UNCHANGED <<message, waker, handle>>
    BY <1>4 DEF WriteAsyncWaker, MatchCas
  <2>3. CASE /\ state.val = EMPTY
             /\ AtomicRmw("R", Release, RECEIVING) /\ rpc' = "return" /\ res' = "Pending"
    <3>1. state'.val = RECEIVING /\ CaughtUp' /\ UNCHANGED <<alive, faults>>
      BY <2>1, <2>3, ReceiverRmwEffect
    <3> QED BY <1>2, <2>1, <2>2, <2>3, <3>1, VisibleEffect
  <2>4. CASE /\ Visible("R").val # EMPTY
             /\ AtomicLoad("R", Relaxed) /\ rpc' = WriteAsyncWakerArms(Visible("R").val).pc
    <3>1. UNCHANGED <<state, stale, alive, faults>>
      BY <2>1, <2>4, LoadEffect
    <3> QED
      BY <1>1, <1>2, <2>1, <2>2, <2>4, <3>1, VisibleEffect, LagUnchanged
    DEF WriteAsyncWakerArms
  <2> QED
    BY <1>4, <2>3, <2>4 DEF WriteAsyncWaker, MatchCas
<1>5. CASE AsyncDropCas
  <2>1. alive
    BY <1>5 DEF AsyncDropCas, MatchCas
  <2>2. rpc = "async_drop_cas" /\ UNCHANGED <<message, waker, handle>>
    BY <1>5 DEF AsyncDropCas, MatchCas
  <2>3. CASE /\ state.val = RECEIVING
             /\ AtomicRmw("R", Relaxed, EMPTY) /\ rpc' = "drop_close"
    <3>1. state'.val = EMPTY /\ CaughtUp' /\ UNCHANGED <<alive, faults>>
      BY <2>1, <2>3, ReceiverRmwEffect
    <3> QED BY <1>2, <2>1, <2>2, <2>3, <3>1, VisibleEffect
  <2>4. CASE /\ Visible("R").val # RECEIVING
             /\ AtomicLoad("R", Relaxed) /\ rpc' = "async_drop_swap"
    <3>1. UNCHANGED <<state, stale, alive, faults>>
      BY <2>1, <2>4, LoadEffect
    <3> QED
      BY <1>1, <1>2, <2>1, <2>2, <2>4, <3>1, VisibleEffect, LagUnchanged
  <2> QED
    BY <1>5, <2>3, <2>4 DEF AsyncDropCas, MatchCas
<1> QED
  BY <1>3, <1>4, <1>5

\* The straight-line parts of the match arms.
LEMMA ReceiverTails ==
  ASSUME OwnershipInv, ReceiverNext,
         \/ WriteWaker \/ DropWaker \/ Mark \/ Fence \/ TakeMessage \/ WipeMessage
         \/ WipeMessagePanic \/ DropWakerPanic
  PROVE  Owned'
<1>1. MemoryTypeOK
  BY DEF OwnershipInv, TypeInv, Typed, ChannelTypeOK
<1>2. UNCHANGED <<spc, sop>>
  BY DEF ReceiverNext, senderVars
<1> USE DEF RGoto, Arm, Unreachable, Owned, OwnershipInv, HandleInv, PhaseInv, FreshInv,
    WakingInv, OwnerInv, OpenInv, ClosingInv, FreedInv, DoneInv, Unregistered, Registered,
    Unsure, Resting, WakerIsMine, MessageIsMine, NothingLeft, Consuming, ThreadOnly,
    TaskOnly, Borrowing, EMPTY, RECEIVING, UNPARKING, MESSAGE, DISCONNECTED
<1>3. CASE WriteWaker
  <2>1. alive /\ rpc \in DOMAIN AfterWriteWaker
    BY <1>3 DEF WriteWaker, Along, AfterWriteWaker
  <2>2. /\ UNCHANGED <<state, stale, alive, message>>
        /\ waker' # "none" /\ waker' = CurrentWaker /\ faults' \subseteq {"data_race"}
    <3>1. CurrentWaker # "none"
      BY <2>1, TasksAssumption DEF CurrentWaker, TypeInv, PollInv, AfterWriteWaker
    <3>2. waker = "none"
      BY <2>1 DEF AfterWriteWaker
    <3>3. write_waker("R", CurrentWaker)
      BY <1>3 DEF WriteWaker, Along
    <3> QED BY <2>1, <3>1, <3>2, <3>3, SlotEffect
  <2> QED
    BY <1>1, <1>2, <1>3, <2>1, <2>2, LagUnchanged
    DEF WriteWaker, Along, AfterWriteWaker, CurrentWaker
<1>4. CASE DropWaker
  <2>1. alive /\ rpc \in DOMAIN AfterDropWaker
    BY <1>4 DEF DropWaker, Along, AfterDropWaker
  <2>2. /\ UNCHANGED <<state, stale, alive, message>>
        /\ waker' = "none" /\ faults' \subseteq {"data_race"}
    BY <1>4, <2>1, SlotEffect DEF DropWaker, Along, AfterDropWaker
  <2> QED
    BY <1>1, <1>2, <1>4, <2>1, <2>2, LagUnchanged DEF DropWaker, Along, AfterDropWaker
<1>5. CASE Mark
  <2>1. alive /\ rpc \in DOMAIN AfterMark
    BY <1>5 DEF Mark, Along, AfterMark
  <2>2. /\ UNCHANGED <<alive, faults, message, waker>>
        /\ CaughtUp' /\ state'.val = DISCONNECTED
    BY <1>5, <2>1, ReceiverStoreEffect DEF Mark, Along, AfterMark
  <2> QED
    BY <1>1, <1>2, <1>5, <2>1, <2>2, LagUnchanged DEF Mark, Along, AfterMark
<1>6. CASE Fence
  <2>1. alive /\ rpc \in DOMAIN AfterFence
    BY <1>6 DEF Fence, Along, AfterFence
  <2>2. UNCHANGED <<state, stale, alive, faults, message, waker>>
    BY <1>6, <2>1, ConstantsType DEF Fence, Along, AfterFence, FenceAcquire
  <2> QED
    BY <1>1, <1>2, <1>6, <2>1, <2>2, LagUnchanged DEF Fence, Along, AfterFence
<1>7. CASE TakeMessage
  <2>1. alive /\ rpc \in DOMAIN AfterTake
    BY <1>7 DEF TakeMessage, Along, AfterTake
  <2>2. /\ UNCHANGED <<state, stale, alive, waker>>
        /\ message' = "received" /\ faults' \subseteq {"data_race"}
    BY <1>7, <2>1, SlotEffect DEF TakeMessage, Along, AfterTake
  <2> QED
    BY <1>1, <1>2, <1>7, <2>1, <2>2, LagUnchanged DEF TakeMessage, Along, AfterTake
<1>8. CASE WipeMessage
  <2>1. alive /\ rpc \in DOMAIN AfterWipe
    BY <1>8 DEF WipeMessage, Along, AfterWipe
  <2>2. /\ UNCHANGED <<state, stale, alive, waker>>
        /\ message' = "dropped" /\ faults' \subseteq {"data_race"}
    BY <1>8, <2>1, SlotEffect DEF WipeMessage, Along, AfterWipe
  <2> QED
    BY <1>1, <1>2, <1>8, <2>1, <2>2, LagUnchanged DEF WipeMessage, Along, AfterWipe
<1>9. CASE WipeMessagePanic
  <2>1. alive /\ rpc = "wipe_free" /\ ClosingInv /\ move_message("R", "dropped")
    BY <1>9 DEF WipeMessagePanic, AfterWipe
  <2>2. /\ UNCHANGED <<state, stale, alive, waker>>
        /\ message' = "dropped" /\ faults' \subseteq {"data_race"}
    BY <2>1, SlotEffect
  <2>3. rpc' = "idle" /\ handle' = "leaked"
    BY <1>9 DEF WipeMessagePanic, UnwindDrop
  <2> QED
    BY <1>2, <2>1, <2>2, <2>3
<1>10. CASE DropWakerPanic
  <2>1. /\ alive /\ waker # "none" /\ clear_waker("R")
        /\ \/ rpc = "drop_mark_fence_take" /\ handle = "AsyncReceiver"
           \/ rpc \in {"drop", "drop_register", "drop_close"}
    BY <1>10, TasksAssumption DEF DropWakerPanic, AfterDropWaker
  <2>2. /\ UNCHANGED <<state, stale, alive, message>>
        /\ waker' = "none" /\ faults' \subseteq {"data_race"}
    BY <2>1, SlotEffect
  <2>3. /\ rpc' = "idle"
        /\ handle' = IF rpc = "drop_close" THEN "lost" ELSE handle
    BY <1>10, <2>1 DEF DropWakerPanic, UnwindCall, UnwindDrop
  <2> QED
    BY <1>2, <2>1, <2>2, <2>3, LagUnchanged
<1> QED
  BY <1>3, <1>4, <1>5, <1>6, <1>7, <1>8, <1>9, <1>10

\* The deallocation, the sleeping and the steps that only decide where to go.
LEMMA ReceiverSleeps ==
  ASSUME OwnershipInv, ReceiverNext,
         \/ Free \/ Return \/ DeadlineCheck \/ Park \/ SpuriousPark \/ ParkTimeout
         \/ Expire \/ WakeByRef \/ WakeByRefPanic \/ ClonePanic
  PROVE  Owned'
<1>1. MemoryTypeOK
  BY DEF OwnershipInv, TypeInv, Typed, ChannelTypeOK
<1>2. UNCHANGED <<spc, sop>>
  BY DEF ReceiverNext, senderVars
<1> USE DEF RGoto, Arm, Unreachable, Owned, OwnershipInv, HandleInv, PhaseInv, FreshInv,
    WakingInv, OwnerInv, OpenInv, ClosingInv, FreedInv, DoneInv, Unregistered, Registered,
    Unsure, Resting, WakerIsMine, MessageIsMine, NothingLeft, Consuming, ThreadOnly,
    TaskOnly, Borrowing, EMPTY, RECEIVING, UNPARKING, MESSAGE, DISCONNECTED
<1>3. CASE Free
  <2>1. alive /\ rpc = "free" /\ rpc' = "return" /\ handle' = handle
    BY <1>3 DEF Free, Along
  <2>2. message # "init" /\ waker = "none" /\ dealloc("R")
    BY <1>3, <2>1 DEF Free, Along
  <2>3. /\ UNCHANGED <<state, stale, message, waker>>
        /\ ~alive' /\ faults' \subseteq {"data_race"}
    BY <2>1, <2>2, SlotEffect
  <2> QED BY <1>2, <2>1, <2>2, <2>3
<1>4. CASE Return \/ DeadlineCheck \/ ParkTimeout \/ Expire \/ WakeByRef
  <2>1. UNCHANGED <<state, stale, alive, faults, message, waker, handle>>
    BY <1>4 DEF Return, DeadlineCheck, ParkTimeout, Expire, WakeByRef, channel, memory
  <2> QED
    BY <1>2, <1>4, <2>1, LagUnchanged
    DEF Return, DeadlineCheck, ParkTimeout, Expire, WakeByRef, AfterPark
<1>5. CASE Park
  <2>1. UNCHANGED <<state, alive, faults, message, waker, handle>> /\ CaughtUp'
    BY <1>1, <1>5, ConstantsType
    DEF Park, ParkToken, SyncWith, CaughtUp, MemoryTypeOK
  <2> QED
    BY <1>2, <1>5, <2>1 DEF Park, AfterPark
<1>6. CASE SpuriousPark
  <2>1. UNCHANGED <<state, stale, alive, faults, message, waker, handle>>
    BY <1>6 DEF SpuriousPark, ParkSpurious, memory
  <2> QED
    BY <1>2, <1>6, <2>1, LagUnchanged DEF SpuriousPark, AfterPark
<1>7. CASE WakeByRefPanic \/ ClonePanic
  <2>1. UNCHANGED <<state, stale, alive, faults, message, waker, handle>>
    BY <1>7 DEF WakeByRefPanic, ClonePanic, UnwindCall, channel, memory
  <2>2. rpc \in {"wake_by_ref", "poll_register"} /\ rpc' = "idle"
    BY <1>7 DEF WakeByRefPanic, ClonePanic, UnwindCall
  <2> QED
    BY <1>2, <2>1, <2>2, LagUnchanged
<1> QED
  BY <1>3, <1>4, <1>5, <1>6, <1>7

\* The calls of the receiver's client.
LEMMA ReceiverCalls ==
  ASSUME OwnershipInv, ReceiverNext, ReceiverCall
  PROVE  Owned'
<1>1. UNCHANGED <<spc, sop>>
  BY DEF ReceiverNext, senderVars
<1> USE DEF RGoto, Arm, Unreachable, Owned, OwnershipInv, HandleInv, PhaseInv, FreshInv,
    WakingInv, OwnerInv, OpenInv, ClosingInv, FreedInv, DoneInv, Unregistered, Registered,
    Unsure, Resting, WakerIsMine, MessageIsMine, NothingLeft, Consuming, ThreadOnly,
    TaskOnly, Borrowing, EMPTY, RECEIVING, UNPARKING, MESSAGE, DISCONNECTED
<1>2. CASE is_closed \/ has_message
  <2>1. alive
    BY <1>2 DEF is_closed, has_message
  <2>2. UNCHANGED <<state, stale, alive, faults>>
    BY <1>2, <2>1, LoadEffect DEF is_closed, has_message
  <2> QED
    BY <1>1, <1>2, <2>2, LagUnchanged DEF is_closed, has_message
<1>3. CASE ReceiverRaw \/ into_future
  <2>1. UNCHANGED <<state, stale, alive, faults, message, waker>>
    BY <1>3 DEF ReceiverRaw, into_future, channel, memory
  <2> QED
    BY <1>1, <1>3, <2>1, LagUnchanged DEF ReceiverRaw, into_future
<1>4. CASE recv \/ ReceiverDrop \/ AsyncReceiverDrop
  <2>1. UNCHANGED <<state, stale, alive, faults, message, waker>>
    BY <1>4 DEF recv, ReceiverDrop, AsyncReceiverDrop, Consume, channel, memory
  <2> QED
    BY <1>1, <1>4, <2>1, LagUnchanged DEF recv, ReceiverDrop, AsyncReceiverDrop, Consume
<1>5. CASE \/ try_recv \/ recv_ref \/ recv_deadline \/ recv_timeout
           \/ PollWoken \/ \E w \in Tasks : poll(w)
  <2>1. UNCHANGED <<state, stale, alive, faults, message, waker, handle>>
    BY <1>5 DEF try_recv, recv_ref, recv_deadline, recv_timeout, StartRecvRef, PollWoken,
       poll, Borrow, channel, memory
  <2>2. /\ rpc = "idle"
        /\ \/ handle = "Receiver" /\ rpc' \in {"try_recv", "start_recv_ref"}
           \/ handle = "AsyncReceiver" /\ rpc' = "poll"
    BY <1>5 DEF try_recv, recv_ref, recv_deadline, recv_timeout, StartRecvRef, PollWoken,
       poll, Borrow
  <2> QED
    BY <1>1, <2>1, <2>2, LagUnchanged
<1> QED
  BY <1>2, <1>3, <1>4, <1>5 DEF ReceiverCall

\* Every step of the receiving end preserves ownership.
LEMMA ReceiverOwned ==
  ASSUME OwnershipInv, ReceiverNext, ~CancelDuringWake
  PROVE  Owned'
BY ReceiverLoads, ReceiverSwaps, ReceiverExchanges, ReceiverTails, ReceiverSleeps,
   ReceiverCalls, Zenon DEF ReceiverNext, ReceiverStep

-----------------------------------------------------------------------------
(* The steps of the sending end. *)

\* Every step of the sending end preserves ownership.
LEMMA SenderOwned ==
  ASSUME OwnershipInv, SenderNext
  PROVE  Owned'
<1>1. MemoryTypeOK
  BY DEF OwnershipInv, TypeInv, Typed, ChannelTypeOK
<1>2. UNCHANGED <<rpc, handle, res>>
  BY DEF SenderNext, receiverVars
<1> USE DEF RGoto, Arm, Unreachable, Owned, OwnershipInv, HandleInv, PhaseInv, FreshInv,
    WakingInv, OwnerInv, OpenInv, ClosingInv, FreedInv, DoneInv, Unregistered, Registered,
    Unsure, Resting, WakerIsMine, MessageIsMine, NothingLeft, Consuming, ThreadOnly,
    TaskOnly, Borrowing, EMPTY, RECEIVING, UNPARKING, MESSAGE, DISCONNECTED
<1> USE DEF SGoto
<1>3. CASE send \/ SenderDrop \/ SenderRaw
  <2>1. UNCHANGED <<state, stale, alive, faults, message, waker>>
    BY <1>3 DEF send, SenderDrop, SenderRaw, SConsume, channel, memory
  <2> QED
    BY <1>2, <1>3, <2>1, LagUnchanged DEF send, SenderDrop, SenderRaw, SConsume
<1>4. CASE SendWrite
  <2>1. alive /\ message # "init" /\ write_message("S")
    BY <1>4 DEF SendWrite
  <2>2. /\ UNCHANGED <<state, stale, alive, waker>>
        /\ message' = "init" /\ faults' \subseteq {"data_race"}
    BY <2>1, SlotEffect
  <2> QED
    BY <1>2, <1>4, <2>1, <2>2, LagUnchanged DEF SendWrite
<1>5. CASE SendFetchAdd
  <2>1. alive /\ FreshInv
    BY <1>5 DEF SendFetchAdd
  <2>2. state.val \in {EMPTY, RECEIVING, DISCONNECTED}
    BY <2>1
  <2>3. /\ state'.val = Plus1(state.val)
        /\ state.val = EMPTY => OneBehind(EMPTY)'
        /\ state.val = RECEIVING => OneBehind(RECEIVING)'
        /\ UNCHANGED <<alive, faults, message, waker>>
    BY <1>1, <1>5, <2>1, SenderRmwEffect DEF SendFetchAdd
  <2>4. spc = "fetch_add" /\ spc' = SendArms(state.val) /\ sop' = sop
    BY <1>5 DEF SendFetchAdd
  <2> QED
    BY <1>2, <2>1, <2>2, <2>3, <2>4 DEF SendArms, Plus1
<1>6. CASE DropFetchXor
  <2>1. alive /\ FreshInv
    BY <1>6 DEF DropFetchXor
  <2>2. state.val \in {EMPTY, RECEIVING, DISCONNECTED}
    BY <2>1
  <2>3. /\ state'.val = Xor1(state.val)
        /\ state.val = EMPTY => OneBehind(EMPTY)'
        /\ state.val = RECEIVING => OneBehind(RECEIVING)'
        /\ UNCHANGED <<alive, faults, message, waker>>
    BY <1>1, <1>6, <2>1, SenderRmwEffect DEF DropFetchXor
  <2>4. spc = "fetch_xor" /\ spc' = DropArms(state.val) /\ sop' = sop
    BY <1>6 DEF DropFetchXor
  <2> QED
    BY <1>2, <2>1, <2>2, <2>3, <2>4 DEF DropArms, Xor1
<1>7. CASE SenderTakeWaker
  <2>1. alive /\ WakingInv /\ waker # "none" /\ clear_waker("S")
    BY <1>7 DEF SenderTakeWaker
  <2>2. /\ UNCHANGED <<state, stale, alive, message>>
        /\ waker' = "none" /\ faults' \subseteq {"data_race"}
    BY <2>1, SlotEffect
  <2> QED
    BY <1>2, <1>7, <2>1, <2>2, LagUnchanged DEF SenderTakeWaker
<1>8. CASE SenderSwap
  <2>1. alive /\ WakingInv
    BY <1>8 DEF SenderSwap
  <2>2. /\ state'.val = FinalState
        /\ state.val = EMPTY /\ CaughtUp => OneBehind(EMPTY)'
        /\ state.val = UNPARKING /\ CaughtUp => OneBehind(UNPARKING)'
        /\ state.val = UNPARKING /\ OneBehind(RECEIVING) => TwoBehind'
        /\ UNCHANGED <<alive, faults, message, waker>>
    BY <1>1, <1>8, <2>1, SenderRmwEffect DEF SenderSwap
  <2>3. spc = "swap" /\ spc' = "unpark" /\ sop' = sop
    BY <1>8 DEF SenderSwap
  <2> QED
    BY <1>2, <2>1, <2>2, <2>3 DEF FinalState
<1>9. CASE SenderUnpark \/ SenderUnparkPanic
  <2>1. UNCHANGED <<state, stale, alive, faults, message, waker>>
    BY <1>9 DEF SenderUnpark, SenderUnparkPanic, channel, memory
  <2> QED
    BY <1>2, <1>9, <2>1, LagUnchanged DEF SenderUnpark, SenderUnparkPanic
<1>10. CASE SenderIsClosed
  <2>1. alive
    BY <1>10 DEF SenderIsClosed
  <2>2. UNCHANGED <<state, stale, alive, faults>>
    BY <1>10, <2>1, LoadEffect DEF SenderIsClosed
  <2> QED
    BY <1>2, <1>10, <2>2, LagUnchanged DEF SenderIsClosed
<1>11. CASE as_inner \/ into_inner \/ SendErrorDrop \/ SendErrorDropPanic
  <2>1. alive /\ OwnerInv /\ message = "init"
    BY <1>11 DEF as_inner, into_inner, SendErrorDrop, SendErrorDropPanic
  <2>2. /\ UNCHANGED <<state, stale, alive, waker>>
        /\ faults' \subseteq {"data_race"}
        /\ \/ message' = "init" /\ spc' = "error"
           \/ message' \in {"returned", "dropped"} /\ spc' \in {"dealloc", "leaked"}
        /\ sop' = sop
    BY <1>11, <2>1, SlotEffect
    DEF as_inner, into_inner, SendErrorDrop, SendErrorDropPanic, senderVars
  <2> QED
    BY <1>2, <2>1, <2>2
<1>12. CASE SenderDealloc
  <2>1. alive /\ OwnerInv /\ message # "init" /\ waker = "none" /\ dealloc("S")
    BY <1>12 DEF SenderDealloc
  <2>2. /\ UNCHANGED <<state, stale, message, waker>>
        /\ ~alive' /\ faults' \subseteq {"data_race"}
    BY <2>1, SlotEffect
  <2> QED
    BY <1>2, <1>12, <2>1, <2>2 DEF SenderDealloc
<1> QED
  BY <1>3, <1>4, <1>5, <1>6, <1>7, <1>8, <1>9, <1>10, <1>11, <1>12
  DEF SenderNext, SenderStep, SenderCall

-----------------------------------------------------------------------------
(* Ownership is an invariant. *)

\* A write becoming visible preserves ownership.
LEMMA VisibilityOwned ==
  ASSUME OwnershipInv, Visibility
  PROVE  Owned'
<1>1. MemoryTypeOK
  BY DEF OwnershipInv, TypeInv, Typed, ChannelTypeOK
<1>2. PICK t \in Threads : Propagate(t)
  BY DEF Visibility
<1>3. UNCHANGED <<message, waker, spc, sop, rpc, handle, res>>
  BY DEF Visibility, senderVars, receiverVars
<1> QED
  BY <1>1, <1>2, <1>3, PropagateEffect
  DEF Owned, OwnershipInv, HandleInv, PhaseInv, FreshInv, WakingInv, OwnerInv, OpenInv,
      ClosingInv, FreedInv, DoneInv

\* Ownership holds of a channel fresh from channel().
LEMMA InitOwned == Init => OwnershipInv
<1> SUFFICES ASSUME Init PROVE OwnershipInv
  OBVIOUS
<1>1. CaughtUp /\ alive
  BY ConstantsType DEF Init, ChannelInit, MemoryInit, CaughtUp
<1>2. FreshInv
  BY <1>1 DEF Init, ChannelInit, MemoryInit, SenderInit, ReceiverInit, FreshInv, Resting,
     WakerIsMine, EMPTY, RECEIVING
<1>3. HandleInv /\ faults \subseteq {"data_race"}
  BY DEF Init, ChannelInit, MemoryInit, ReceiverInit, HandleInv, Consuming, ThreadOnly,
     TaskOnly, Borrowing
<1> QED
  BY <1>2, <1>3, InitType DEF OwnershipInv, PhaseInv

\* Every step but CancelDuringWake preserves ownership.
LEMMA NextOwned == OwnershipInv /\ [UncancelledNext]_vars => OwnershipInv'
<1> SUFFICES ASSUME OwnershipInv, [UncancelledNext]_vars PROVE OwnershipInv'
  OBVIOUS
<1>1. TypeInv'
  BY NextType DEF OwnershipInv, UncancelledNext
<1> SUFFICES Owned'
  BY <1>1 DEF OwnershipInv, Owned
<1>2. CASE UNCHANGED vars
  BY <1>2, LagUnchanged
  DEF vars, channel, memory, senderVars, receiverVars, Owned, OwnershipInv, HandleInv,
      PhaseInv, FreshInv, WakingInv, OwnerInv, OpenInv, ClosingInv, FreedInv, DoneInv
<1>3. CASE SenderNext
  BY <1>3, SenderOwned
<1>4. CASE ReceiverNext /\ ~CancelDuringWake
  BY <1>4, ReceiverOwned
<1>5. CASE Visibility
  BY <1>5, VisibilityOwned
<1> QED
  BY <1>2, <1>3, <1>4, <1>5 DEF UncancelledNext, Next

\* The two ends agree at every step on who owns the message, the waker and the
\* allocation, whatever their calls and however they interleave.
THEOREM Ownership == UncancelledSpec => []OwnershipInv
BY InitOwned, NextOwned, PTL DEF UncancelledSpec

\* Neither end touches the channel after it was freed, and it is freed only once.
THEOREM UseAfterFreeFreedom == UncancelledSpec => []NoUseAfterFree
<1>1. OwnershipInv => NoUseAfterFree
  BY DEF OwnershipInv, NoUseAfterFree
<1> QED
  BY <1>1, Ownership, PTL

\* Nothing is leaked: neither message nor waker, nor, once both ends are gone, the
\* channel.
THEOREM LeakFreedom == UncancelledSpec => []NoLeak
<1>1. OwnershipInv => NoLeak
  BY DEF OwnershipInv, NoLeak, Finished, PhaseInv, FreshInv, WakingInv, OwnerInv, OpenInv,
     ClosingInv, FreedInv, DoneInv, Unregistered, Registered, Unsure, Resting,
     MessageIsMine, NothingLeft
<1> QED
  BY <1>1, Ownership, PTL
=============================================================================
