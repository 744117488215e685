-------------------------- MODULE RefinementProofs --------------------------
(***************************************************************************)
(* Oneshot implements IdealChannel: under the mapping of Refinement every  *)
(* step of either end is one step of the ideal channel or none.            *)
(***************************************************************************)
EXTENDS Refinement, PromiseProofs

\* A step of the ideal channel, or none.
IdealStep == [Ideal!Next]_(Ideal!ideal)

\* A step inside a call of the receiver that neither moves the message nor ends the
\* call: it may decide the result, or close a receiver that recv or drop has consumed.
Quiet ==
  /\ rpc # "idle" /\ rpc' # "idle"
  /\ UNCHANGED <<message, handle, promise, senderVars>>
  /\ res = "Ok" => res' = "Ok"
  /\ res' = "Ok" => res = "Ok" \/ rpc' \in Taking
  /\ Closed => Closed'

-----------------------------------------------------------------------------
\* The clients see nothing of a quiet step but that the receiver is closed.
LEMMA QuietStep ==
  ASSUME OwnershipInv, PromiseInv, ReceivedInv', Quiet
  PROVE  IdealStep
<1>1. /\ message = "received" => rpc' \notin Taking
      /\ message \in {"uninit", "init", "received", "returned", "dropped"}
  BY DEF Quiet, ReceivedInv, Entries, Taking, MessageIsMine, OwnershipInv, TypeInv, Typed,
     ChannelTypeOK
<1>2. UNCHANGED <<IdealSender, IdealItem, IdealAnswer, promise, sawClosed>>
  BY <1>1 DEF Quiet, senderVars, IdealSender, IdealItem, IdealAnswer, Unsent
<1>3. CASE Closed <=> Closed'
  <2>1. IdealReceiver' = IdealReceiver
    BY <1>3 DEF Quiet, IdealReceiver
  <2> QED
    BY <1>2, <2>1 DEF IdealStep, Ideal!ideal
<1>4. CASE ~Closed /\ Closed'
  <2>1. IdealReceiver = "open" /\ IdealReceiver' = "closed"
    BY <1>4 DEF Quiet, IdealReceiver, Closed
  <2>2. IdealItem # "taken"
    BY <1>1, <1>4 DEF Quiet, IdealItem, Closed, PromiseInv, AnswerInv, ReceivedInv, ResultInv,
       Entries, Taking, MessageIsMine, NothingLeft
  <2> QED
    BY <1>2, <2>1, <2>2 DEF IdealStep, Ideal!Next, Ideal!CloseReceiver
<1> QED
  BY <1>3, <1>4 DEF Quiet

\* The steps that match on the state byte decide what the call does next.
LEMMA QuietMatches ==
  ASSUME OwnershipInv, PromiseInv, UNCHANGED senderVars,
         \/ TryRecvLoad \/ RecvLoad \/ RecvParked \/ StartRecvRefLoad \/ RefParked
         \/ wait_for_unpark \/ PollLoad \/ PollSpin \/ AsyncDropLoad \/ AsyncDropSpin
         \/ RecvSwap \/ RefSwap \/ DeadlineSwap \/ DropSwap \/ AsyncDropSwap
         \/ PollCasEmpty \/ WriteAsyncWaker \/ AsyncDropCas
  PROVE  Quiet
<1> USE DEF Quiet, Closed, RGoto, Arm, Unreachable, Taking, MessageIsMine
<1>1. rpc \in Labels \ (Taking \cup NothingLeft \cup {"drop", "wake_by_ref", "return", "idle"})
        => res = "none"
  BY DEF PromiseInv, AnswerInv, ResultInv
<1> USE DEF Labels, NothingLeft, AfterWriteWaker, AfterDropWaker, AfterMark, AfterFence,
        AfterTake, AfterWipe, AfterPark
<1>2. CASE TryRecvLoad
  BY <1>1, <1>2 DEF TryRecvLoad, MatchLoad, TryRecvArms
<1>3. CASE RecvLoad
  BY <1>1, <1>3 DEF RecvLoad, MatchLoad, RecvArms
<1>4. CASE RecvParked
  BY <1>1, <1>4 DEF RecvParked, MatchLoad, RecvParkedArms
<1>5. CASE StartRecvRefLoad
  BY <1>1, <1>5 DEF StartRecvRefLoad, MatchLoad, StartRecvRefArms
<1>6. CASE RefParked
  BY <1>1, <1>6 DEF RefParked, MatchLoad, RefParkedArms, TypeInv, FinishInv, OwnershipInv
<1>7. CASE wait_for_unpark
  BY <1>1, <1>7 DEF wait_for_unpark, MatchLoad, WaitForUnparkArms
<1>8. CASE PollLoad
  BY <1>1, <1>8 DEF PollLoad, MatchLoad, PollArms
<1>9. CASE PollSpin
  BY <1>1, <1>9 DEF PollSpin, MatchLoad, PollSpinArms
<1>10. CASE AsyncDropLoad
  BY <1>1, <1>10 DEF AsyncDropLoad, MatchLoad
<1>11. CASE RecvSwap
  BY <1>1, <1>11 DEF RecvSwap, MatchSwap, RecvSwapArms
<1>12. CASE RefSwap
  BY <1>1, <1>12 DEF RefSwap, MatchSwap, RefSwapArms, TypeInv, FinishInv, OwnershipInv
<1>13. CASE DeadlineSwap
  BY <1>1, <1>13 DEF DeadlineSwap, MatchSwap, DeadlineSwapArms
<1>14. CASE DropSwap
  BY <1>1, <1>14 DEF DropSwap, MatchSwap, ReceiverDropArms
<1>15. CASE AsyncDropSwap
  BY <1>1, <1>15 DEF AsyncDropSwap, MatchSwap, AsyncDropArms
<1>16. CASE PollCasEmpty
  BY <1>1, <1>16 DEF PollCasEmpty, MatchCas, PollCasEmptyArms
<1>17. CASE WriteAsyncWaker
  BY <1>1, <1>17 DEF WriteAsyncWaker, MatchCas, WriteAsyncWakerArms
<1>18. CASE AsyncDropCas
  BY <1>1, <1>18 DEF AsyncDropCas, MatchCas
<1>19. CASE AsyncDropSpin
  BY <1>19 DEF AsyncDropSpin, MatchLoad, OwnershipInv, PhaseInv, FreshInv, WakingInv,
     OwnerInv, OpenInv, ClosingInv, FreedInv, DoneInv, Unregistered, Registered, Unsure,
     Resting
<1> QED
  BY <1>2, <1>3, <1>4, <1>5, <1>6, <1>7, <1>8, <1>9, <1>10, <1>11, <1>12, <1>13, <1>14,
     <1>15, <1>16, <1>17, <1>18, <1>19

\* So are the straight-line parts of the match arms, and sleeping.
LEMMA QuietTails ==
  ASSUME PromiseInv, UNCHANGED senderVars,
         \/ WriteWaker \/ DropWaker \/ Mark \/ Fence \/ Free \/ WakeByRef
         \/ DeadlineCheck \/ Park \/ SpuriousPark \/ ParkTimeout \/ Expire
  PROVE  Quiet
<1> USE DEF Quiet, Closed, RGoto, Arm, Along, channel
<1>1. CASE WriteWaker
  BY <1>1 DEF WriteWaker, AfterWriteWaker, write_waker
<1>2. CASE DropWaker
  BY <1>2 DEF DropWaker, AfterDropWaker, clear_waker
<1>3. CASE Mark
  BY <1>3 DEF Mark, AfterMark
<1>4. CASE Fence
  BY <1>4 DEF Fence, AfterFence
<1>5. CASE Free
  BY <1>5 DEF Free, dealloc
<1>6. rpc \in {"wake_by_ref", "deadline"} \cup DOMAIN AfterPark => res # "Ok"
  BY DEF PromiseInv, AnswerInv, ResultInv, ReceivedInv, Entries, Taking, MessageIsMine,
     NothingLeft, AfterPark
<1>7. CASE WakeByRef
  BY <1>6, <1>7 DEF WakeByRef
<1>8. CASE DeadlineCheck \/ Park \/ SpuriousPark \/ ParkTimeout \/ Expire
  BY <1>6, <1>8 DEF DeadlineCheck, Park, SpuriousPark, ParkTimeout, Expire, AfterPark
<1> QED
  BY <1>1, <1>2, <1>3, <1>4, <1>5, <1>7, <1>8

-----------------------------------------------------------------------------
(* The steps that the receiver's client sees. *)

\* A result that the call returns is one the ideal channel may give.
LEMMA ReturnStep ==
  ASSUME OwnershipInv, PromiseInv, UNCHANGED senderVars, Return
  PROVE  IdealStep
<1>1. /\ message \in {"uninit", "init", "received", "returned", "dropped"}
      /\ res \in {"none", "Ok", "Empty", "Disconnected", "Timeout", "Pending", "panic"}
      /\ promise \in {"none", "closed", "message"}
  BY DEF OwnershipInv, TypeInv, Typed, ChannelTypeOK, ReceiverTypeOK
<1>2. /\ UNCHANGED <<IdealSender, IdealReceiver, sawClosed>>
      /\ IdealAnswer = "none" /\ IdealAnswer' = res
  BY DEF Return, senderVars, IdealSender, IdealReceiver, Closed, IdealAnswer, Unsent
<1>3. CASE res = "none"
  <2>1. IdealItem' = IdealItem /\ promise' = promise
    BY <1>3 DEF Return, senderVars, channel, IdealItem, Unsent
  <2> QED
    BY <1>2, <1>3, <2>1 DEF IdealStep, Ideal!ideal
<1>4. CASE res = "Ok"
  <2>1. message = "received" /\ promise # "closed" /\ promise' = "closed"
    BY <1>4 DEF Return, PromiseInv, AnswerInv, ResultInv, ClosedInv, Entries, Taking,
       MessageIsMine
  <2>2. IdealItem = "taken" /\ IdealItem' = "received"
    BY <1>4, <2>1 DEF Return, senderVars, channel, IdealItem, Unsent
  <2> QED
    BY <1>2, <1>4, <2>1, <2>2 DEF IdealStep, Ideal!Next, Ideal!Deliver
<1>5. CASE res = "Disconnected"
  <2>1. /\ ~Unsent /\ (message = "uninit" \/ message = "received")
        /\ promise # "message" /\ promise' = promise
    BY <1>5 DEF Return, PromiseInv, AnswerInv, FateInv, ResultInv, MessageInv, Entries
  <2>2. IdealItem' = IdealItem /\ Ideal!Over
    BY <1>5, <2>1 DEF Return, senderVars, channel, IdealItem, IdealSender, Unsent, Ideal!Over
  <2> QED
    BY <1>2, <1>5, <2>1, <2>2 DEF IdealStep, Ideal!Next, Ideal!ReportDisconnected
<1>6. CASE res \in {"Empty", "Timeout", "Pending"}
  <2>1. handle \in {"Receiver", "AsyncReceiver"} /\ message # "received"
    BY <1>6 DEF Return, PromiseInv, AnswerInv, ResultInv, ReceivedInv
  <2>2. promise = "none" /\ promise' = promise
    BY <1>1, <1>6, <2>1 DEF Return, PromiseInv, AnswerInv, ClosedInv, MessageInv, Entries
  <2>3. /\ IdealReceiver = "open"
        /\ IdealItem' = IdealItem /\ IdealItem \notin {"taken", "received"}
    BY <1>1, <2>1 DEF Return, senderVars, channel, IdealItem, IdealReceiver, Closed, Unsent
  <2> QED
    BY <1>2, <1>6, <2>2, <2>3 DEF IdealStep, Ideal!Next, Ideal!ReportNothing
<1>7. res # "panic"
  BY DEF Return, PromiseInv, AnswerInv, ResultInv
<1> QED
  BY <1>1, <1>3, <1>4, <1>5, <1>6, <1>7

\* A call starts, and the client does not know its result yet.
LEMMA CallStep ==
  ASSUME OwnershipInv, UNCHANGED senderVars,
         \/ try_recv \/ recv \/ recv_ref \/ recv_deadline \/ recv_timeout
         \/ ReceiverDrop \/ AsyncReceiverDrop \/ PollWoken
         \/ \E w \in Tasks : poll(w)
  PROVE  IdealStep
<1>1. /\ rpc = "idle" /\ handle \in {"Receiver", "AsyncReceiver"}
      /\ rpc' \in {"try_recv", "recv", "start_recv_ref", "drop_swap", "async_drop", "poll"}
      /\ handle' \in {handle, "none"} /\ res' = "none"
      /\ UNCHANGED <<message, promise>>
  BY DEF try_recv, recv, recv_ref, recv_deadline, recv_timeout, ReceiverDrop,
     AsyncReceiverDrop, PollWoken, poll, StartRecvRef, Borrow, Consume, channel
<1>2. IdealReceiver = "open" /\ IdealReceiver' = "open"
  BY <1>1 DEF IdealReceiver, Closed
<1>3. UNCHANGED <<IdealSender, IdealItem, sawClosed>> /\ IdealAnswer' = "none"
  BY <1>1 DEF senderVars, IdealSender, IdealItem, IdealAnswer, Unsent
<1> QED
  BY <1>1, <1>2, <1>3 DEF IdealStep, Ideal!Next, Ideal!Call

\* What is_closed and has_message tell is so.
LEMMA QueryStep ==
  ASSUME OwnershipInv, OwnershipInv', PromiseInv', UNCHANGED senderVars,
         is_closed \/ has_message
  PROVE  IdealStep
<1>1. /\ rpc = "idle" /\ handle \in {"Receiver", "AsyncReceiver"}
      /\ UNCHANGED <<rpc, handle, res, message, spc, sawClosed>>
  BY DEF is_closed, has_message, senderVars
<1>2. /\ UNCHANGED <<IdealSender, IdealReceiver, IdealItem, IdealAnswer>>
      /\ IdealReceiver = "open"
  BY <1>1 DEF IdealSender, IdealReceiver, IdealItem, IdealAnswer, Unsent, Closed
<1>3. CASE promise' = promise
  BY <1>1, <1>2, <1>3 DEF IdealStep, Ideal!ideal
<1>4. CASE promise' = "closed"
  <2>1. ~Unsent /\ message \in {"uninit", "received"}
    BY <1>1, <1>4 DEF PromiseInv, AnswerInv, ClosedInv, Unsent
  <2>2. Ideal!Over
    BY <1>1, <2>1 DEF Ideal!Over, IdealSender, IdealItem
  <2> QED
    BY <1>1, <1>2, <1>4, <2>2 DEF IdealStep, Ideal!Next, Ideal!Learn
<1>5. CASE promise' = "message"
  <2>1. message' = "init" /\ state'.val = MESSAGE
    BY <1>1, <1>5 DEF PromiseInv, AnswerInv, MessageInv
  <2>2. ~Unsent /\ spc # "error"
    BY <1>1, <2>1 DEF OwnershipInv, PhaseInv, FreshInv, WakingInv, OwnerInv, DoneInv, Unsent,
       EMPTY, RECEIVING, UNPARKING, MESSAGE, DISCONNECTED
  <2>3. IdealItem = "channel"
    BY <1>1, <2>1, <2>2 DEF IdealItem
  <2> QED
    BY <1>1, <1>2, <1>5, <2>3 DEF IdealStep, Ideal!Next, Ideal!Learn
<1> QED
  BY <1>3, <1>4, <1>5 DEF is_closed, has_message

\* The client may convert what it holds.
LEMMA ConvertStep ==
  ASSUME UNCHANGED senderVars, ReceiverRaw \/ into_future
  PROVE  IdealStep
BY DEF ReceiverRaw, into_future, senderVars, channel, IdealStep, Ideal!ideal, IdealSender,
   IdealReceiver, IdealItem, IdealAnswer, Unsent, Closed

\* The message is taken by a call that will return it, or dropped by a closed receiver.
LEMMA MessageStep ==
  ASSUME OwnershipInv, PromiseInv, UNCHANGED senderVars,
         TakeMessage \/ WipeMessage \/ WipeMessagePanic
  PROVE  IdealStep
<1> USE DEF Along, RGoto, Arm, UnwindDrop, move_message, senderVars
<1>1. /\ rpc \in MessageIsMine
      /\ message = "init" /\ ~Unsent /\ spc # "error" /\ UNCHANGED <<spc, sawClosed, promise>>
  BY DEF TakeMessage, WipeMessage, WipeMessagePanic, AfterTake, AfterWipe, MessageIsMine,
     Unsent, OwnershipInv, PhaseInv, FreshInv, WakingInv, OwnerInv, OpenInv, ClosingInv,
     FreedInv, DoneInv, Unregistered, Registered, Unsure, Resting, NothingLeft
<1>2. IdealItem = "channel" /\ UNCHANGED <<IdealSender, sawClosed, promise>>
  BY <1>1 DEF IdealItem, IdealSender, Unsent
<1>3. CASE TakeMessage
  <2>1. /\ rpc \in {"take_free", "take"} /\ res = "Ok" /\ res' = "Ok"
        /\ message' = "received" /\ handle' = handle
        /\ rpc = "take_free" => rpc' = "free" /\ handle = "none"
        /\ rpc = "take" => rpc' = "return" /\ handle \in {"Receiver", "AsyncReceiver"}
    BY <1>3 DEF TakeMessage, AfterTake, PromiseInv, AnswerInv, ResultInv, Taking,
       MessageIsMine, OwnershipInv, HandleInv, Consuming, Borrowing
  <2>2. IdealReceiver = "open" /\ IdealReceiver' \in {"open", "closed"}
    BY <2>1 DEF IdealReceiver, Closed
  <2>3. IdealItem' = "taken" /\ IdealAnswer' = IdealAnswer
    BY <2>1 DEF IdealItem, IdealAnswer
  <2> QED
    BY <1>2, <2>2, <2>3 DEF IdealStep, Ideal!Next, Ideal!Take
<1>4. CASE WipeMessage \/ WipeMessagePanic
  <2>1. rpc = "wipe_free"
    BY <1>1, <1>4 DEF WipeMessage, WipeMessagePanic, AfterWipe, MessageIsMine
  <2>2. handle = "none" /\ res = "none"
    BY <2>1 DEF PromiseInv, AnswerInv, ResultInv, NothingLeft, Taking, MessageIsMine,
       OwnershipInv, HandleInv, Consuming
  <2>3. /\ message' = "dropped" /\ res' = res
        /\ \/ rpc' = "free" /\ handle' = handle
           \/ rpc' = "idle" /\ handle' = "leaked"
    <3>1. CASE WipeMessage
      BY <2>1, <3>1 DEF WipeMessage, AfterWipe
    <3>2. CASE WipeMessagePanic
      BY <3>2 DEF WipeMessagePanic
    <3> QED BY <1>4, <3>1, <3>2
  <2>4. IdealReceiver = "closed" /\ IdealReceiver' = "closed"
    BY <2>1, <2>2, <2>3 DEF IdealReceiver, Closed
  <2>5. IdealItem' = "dropped" /\ IdealAnswer' = IdealAnswer
    BY <2>1, <2>2, <2>3 DEF IdealItem, IdealAnswer
  <2> QED
    BY <1>2, <2>4, <2>5 DEF IdealStep, Ideal!Next, Ideal!Discard
<1> QED
  BY <1>3, <1>4

\* A panic of the client's waker ends the call with nothing, or loses the receiver.
LEMMA PanicStep ==
  ASSUME OwnershipInv, PromiseInv, UNCHANGED senderVars,
         WakeByRefPanic \/ ClonePanic \/ DropWakerPanic
  PROVE  IdealStep
<1> USE DEF UnwindCall, UnwindDrop, clear_waker, channel, senderVars
<1>1. /\ message \in {"uninit", "init", "received", "returned", "dropped"}
      /\ promise \in {"none", "closed", "message"}
  BY DEF OwnershipInv, TypeInv, Typed, ChannelTypeOK, ReceiverTypeOK
<1>2. /\ rpc \in {"wake_by_ref", "poll_register"} \cup DOMAIN AfterDropWaker
      /\ rpc' = "idle" /\ UNCHANGED <<message, promise, spc, sawClosed>>
  BY DEF WakeByRefPanic, ClonePanic, DropWakerPanic
<1>3. message # "received"
  BY <1>2 DEF AfterDropWaker, PromiseInv, AnswerInv, ReceivedInv, Entries
<1>4. UNCHANGED <<IdealSender, IdealItem>> /\ IdealItem \notin {"taken", "received"}
  BY <1>1, <1>2, <1>3 DEF IdealSender, IdealItem, Unsent
<1>5. CASE UnwindCall /\ handle # "none"
  <2>1. handle \in {"Receiver", "AsyncReceiver"} /\ handle' = handle
    BY <1>2, <1>5 DEF AfterDropWaker, OwnershipInv, HandleInv, Consuming, TaskOnly, Borrowing
  <2>2. IdealReceiver = "open" /\ IdealReceiver' = "open"
    BY <2>1 DEF IdealReceiver, Closed
  <2>3. promise = "none"
    BY <1>1, <1>2, <2>1 DEF AfterDropWaker, PromiseInv, AnswerInv, ClosedInv, MessageInv,
       Entries
  <2>4. IdealAnswer' = "panic"
    BY <1>2, <1>5 DEF IdealAnswer
  <2> QED
    BY <1>2, <1>4, <2>2, <2>3, <2>4 DEF IdealStep, Ideal!Next, Ideal!ReportNothing
<1>6. CASE handle = "none" /\ UnwindDrop("lost") /\ DropWakerPanic
  <2>1. rpc = "drop_close" /\ "drop_waker" \in Panics
    BY <1>6, TasksAssumption DEF DropWakerPanic, AfterDropWaker, OwnershipInv, HandleInv,
       TaskOnly, Borrowing
  <2>2. res = "none" /\ res' = "none"
    BY <1>6, <2>1 DEF PromiseInv, AnswerInv, ResultInv, Taking, MessageIsMine, NothingLeft
  <2>3. IdealReceiver = "open" /\ IdealReceiver' = "lost" /\ IdealAnswer' = IdealAnswer
    BY <1>2, <1>6, <2>1, <2>2 DEF IdealReceiver, Closed, IdealAnswer
  <2> QED
    BY <1>2, <1>4, <2>1, <2>3 DEF IdealStep, Ideal!Next, Ideal!LoseReceiver
<1>7. WakeByRefPanic \/ ClonePanic => handle # "none"
  BY DEF WakeByRefPanic, ClonePanic, OwnershipInv, HandleInv, TaskOnly
<1> QED
  BY <1>5, <1>6, <1>7 DEF WakeByRefPanic, ClonePanic, DropWakerPanic

\* Every step of the receiving end.
LEMMA ReceiverRefines ==
  ASSUME OwnershipInv, PromiseInv, OwnershipInv', PromiseInv', ReceiverNext
  PROVE  IdealStep
<1>1. UNCHANGED senderVars
  BY DEF ReceiverNext
<1>2. CASE Quiet
  BY <1>2, QuietStep DEF PromiseInv, AnswerInv
<1> QED
  BY <1>1, <1>2, QuietMatches, QuietTails, ReturnStep, CallStep, QueryStep, ConvertStep,
     MessageStep, PanicStep DEF ReceiverNext, ReceiverStep, ReceiverCall

-----------------------------------------------------------------------------
(* The steps of the sending end. *)

\* The steps in which the sender's client sees nothing.
LEMMA SenderQuietStep ==
  ASSUME OwnershipInv, UNCHANGED receiverVars,
         \/ send \/ SendWrite \/ SenderDrop \/ SenderRaw \/ SenderTakeWaker \/ SenderSwap
         \/ SenderUnpark \/ SenderUnparkPanic \/ as_inner \/ SenderDealloc
  PROVE  IdealStep
<1> USE DEF send, SendWrite, SenderDrop, SenderRaw, SenderTakeWaker, SenderSwap, SenderUnpark,
        SenderUnparkPanic, as_inner, SenderDealloc, SConsume, SGoto, write_message,
        clear_waker, message_ref, dealloc, channel, senderVars
<1>1. IdealSender' = IdealSender /\ sawClosed' = sawClosed
  BY DEF IdealSender, Unsent
<1>2. UNCHANGED <<IdealReceiver, IdealAnswer, promise, rpc, res>>
  BY DEF receiverVars, IdealReceiver, IdealAnswer, Closed
<1>3. IdealItem' = IdealItem
  <2>1. CASE SendWrite
    <3>1. spc = "write_message" /\ spc' = "fetch_add" /\ message' = "init"
      BY <2>1
    <3>2. message = "uninit"
      BY <3>1 DEF OwnershipInv, PhaseInv, FreshInv, WakingInv, OwnerInv, DoneInv
    <3> QED
      BY <3>1, <3>2 DEF IdealItem, Unsent
  <2>2. CASE ~SendWrite
    <3>1. message' = message /\ (spc' = "error" <=> spc = "error") /\ (Unsent' <=> Unsent)
      BY <2>2 DEF Unsent
    <3> QED
      BY <1>2, <3>1 DEF IdealItem
  <2> QED BY <2>1, <2>2
<1> QED
  BY <1>1, <1>2, <1>3 DEF IdealStep, Ideal!ideal

\* send and drop take effect with their first access of state.
LEMMA SendStep ==
  ASSUME OwnershipInv, UNCHANGED receiverVars, SendFetchAdd \/ DropFetchXor
  PROVE  IdealStep
<1>1. FreshInv /\ Unsent
  BY DEF SendFetchAdd, DropFetchXor, OwnershipInv, PhaseInv, FreshInv, WakingInv, OwnerInv,
     DoneInv, Unsent
<1>2. UNCHANGED <<message, sawClosed, IdealReceiver, IdealAnswer, promise>>
  BY DEF SendFetchAdd, DropFetchXor, SGoto, receiverVars, IdealReceiver, IdealAnswer, Closed
<1>3. IdealReceiver = "closed" <=> state.val = DISCONNECTED
  BY <1>1 DEF FreshInv, Unregistered, Registered, Unsure, Resting, EMPTY, RECEIVING,
     DISCONNECTED, IdealReceiver, Closed, OwnershipInv, HandleInv, Consuming, ThreadOnly,
     TaskOnly, Borrowing
<1>4. state.val \in {EMPTY, RECEIVING, DISCONNECTED}
  BY <1>1 DEF FreshInv
<1>5. CASE SendFetchAdd
  <2>1. /\ spc = "fetch_add" /\ message = "init"
        /\ spc' = IF state.val = DISCONNECTED THEN "error"
                  ELSE IF state.val = EMPTY THEN "done" ELSE "take_waker"
    BY <1>1, <1>4, <1>5 DEF SendFetchAdd, FreshInv, SGoto, SendArms, EMPTY, RECEIVING,
       DISCONNECTED
  <2>2. IdealSender = "open" /\ IdealSender' = "closed"
    BY <2>1 DEF IdealSender, Unsent
  <2>3. IdealItem' = IF IdealReceiver = "closed" THEN "error" ELSE "channel"
    <3>1. message' = "init" /\ ~Unsent'
      BY <1>2, <2>1 DEF Unsent
    <3>2. spc' = "error" <=> IdealReceiver = "closed"
      BY <1>3, <2>1
    <3> QED
      BY <3>1, <3>2 DEF IdealItem
  <2> QED
    BY <1>2, <2>2, <2>3 DEF IdealStep, Ideal!Next, Ideal!Send
<1>6. CASE DropFetchXor
  <2>1. /\ spc = "fetch_xor" /\ message = "uninit"
        /\ spc' \in {"done", "take_waker", "dealloc"}
    BY <1>1, <1>4, <1>6 DEF DropFetchXor, FreshInv, SGoto, DropArms, EMPTY, RECEIVING,
       DISCONNECTED
  <2>2. IdealSender = "open" /\ IdealSender' = "closed" /\ IdealItem' = IdealItem
    BY <1>2, <2>1 DEF IdealSender, IdealItem, Unsent
  <2> QED
    BY <1>2, <2>2 DEF IdealStep, Ideal!Next, Ideal!CloseSender
<1> QED
  BY <1>5, <1>6

\* A SendError gives the message back or drops it.
LEMMA RecoverStep ==
  ASSUME OwnershipInv, UNCHANGED receiverVars,
         into_inner \/ SendErrorDrop \/ SendErrorDropPanic
  PROVE  IdealStep
<1>1. /\ spc = "error" /\ spc' \in {"dealloc", "leaked"} /\ sawClosed' = sawClosed
      /\ message' \in {"returned", "dropped"}
  BY DEF into_inner, SendErrorDrop, SendErrorDropPanic, SGoto, move_message
<1>2. message = "init"
  BY <1>1 DEF OwnershipInv, PhaseInv, FreshInv, WakingInv, OwnerInv, DoneInv
<1>3. IdealItem = "error" /\ IdealItem' \in {"returned", "dropped"}
  <2>1. IdealItem = "error"
    BY <1>1, <1>2 DEF IdealItem, Unsent
  <2>2. IdealItem' = message'
    BY <1>1 DEF IdealItem
  <2> QED BY <1>1, <2>1, <2>2
<1>4. UNCHANGED <<IdealSender, IdealReceiver, IdealAnswer, promise>>
  BY <1>1 DEF receiverVars, IdealSender, IdealReceiver, IdealAnswer, Closed, Unsent
<1> QED
  BY <1>1, <1>3, <1>4 DEF IdealStep, Ideal!Next, Ideal!Recover

\* A sender that is told that the receiver is closed is told the truth.
LEMMA TellStep ==
  ASSUME OwnershipInv, OwnershipInv', PromiseInv', UNCHANGED receiverVars, SenderIsClosed
  PROVE  IdealStep
<1>1. spc = "idle" /\ UNCHANGED <<spc, sop, message, rpc, handle, res, promise>>
  BY DEF SenderIsClosed, receiverVars
<1>2. UNCHANGED <<IdealSender, IdealReceiver, IdealItem, IdealAnswer>>
  BY <1>1 DEF IdealSender, IdealReceiver, IdealItem, IdealAnswer, Closed, Unsent
<1>3. CASE sawClosed' = sawClosed
  BY <1>1, <1>2, <1>3 DEF IdealStep, Ideal!ideal
<1>4. CASE sawClosed' = TRUE
  <2>1. FreshInv'
    BY <1>1 DEF OwnershipInv, PhaseInv, FreshInv, WakingInv, OwnerInv, DoneInv
  <2>2. state'.val = DISCONNECTED
    BY <1>1, <1>4, <2>1 DEF PromiseInv, ToldInv, SawClosedInv, FreshInv
  <2>3. rpc' \in Resting /\ handle' = "none"
    BY <2>1, <2>2 DEF FreshInv, EMPTY, RECEIVING, DISCONNECTED
  <2>4. IdealSender = "open" /\ IdealReceiver = "closed"
    BY <1>1, <2>3 DEF Resting, IdealSender, IdealReceiver, Closed, Unsent
  <2> QED
    BY <1>1, <1>2, <1>4, <2>4 DEF IdealStep, Ideal!Next, Ideal!Tell
<1> QED
  BY <1>3, <1>4 DEF SenderIsClosed, OwnershipInv, TypeInv, Typed, SenderTypeOK

-----------------------------------------------------------------------------
\* A channel fresh from channel() is a fresh ideal one.
LEMMA InitRefines == Init => Ideal!Init
BY DEF Init, ChannelInit, SenderInit, ReceiverInit, Ideal!Init, IdealSender, IdealReceiver,
   IdealItem, IdealAnswer, Closed, Unsent

\* Every step between two states of the invariants is an ideal one, or none.
LEMMA NextRefines ==
  ASSUME OwnershipInv, PromiseInv, OwnershipInv', PromiseInv', [UncancelledNext]_vars
  PROVE  IdealStep
<1>1. CASE UNCHANGED vars \/ Visibility
  BY <1>1 DEF vars, Visibility, channel, senderVars, receiverVars, IdealStep, Ideal!ideal,
     IdealSender, IdealReceiver, IdealItem, IdealAnswer, Closed, Unsent
<1>2. CASE SenderNext
  BY <1>2, SenderQuietStep, SendStep, RecoverStep, TellStep
  DEF SenderNext, SenderStep, SenderCall
<1>3. CASE ReceiverNext
  BY <1>3, ReceiverRefines
<1> QED
  BY <1>1, <1>2, <1>3 DEF UncancelledNext, Next
=============================================================================
