---------------------------- MODULE AsyncReceiver ----------------------------
(***************************************************************************)
(* src/receiver.rs, AsyncReceiver<T>, with Channel::write_async_waker: the *)
(* receiving end used as a future.  A Receiver becomes an AsyncReceiver    *)
(* through into_future (async_channel does it at once).                    *)
(***************************************************************************)
EXTENDS Receiver

into_future ==
  /\ "async" \in Features
  /\ rpc = "idle" /\ handle = "Receiver"
  /\ handle' = "AsyncReceiver"
  /\ UNCHANGED <<rpc, res, finish, expired, cx, calls, promise, channel, signals>>

\* match channel.state().compare_exchange(old, new, order, Relaxed).  A failed
\* exchange is a load, of any write the thread can still read but `old'.
MatchCas(at, old, new, order, ok, Arms(_)) ==
  /\ rpc = at
  /\ \/ /\ state.val = old
        /\ AtomicRmw("R", order, new)
        /\ RGoto(ok)
     \/ /\ Visible("R").val # old
        /\ AtomicLoad("R", Relaxed)
        /\ RGoto(Arms(Visible("R").val))
  /\ UNCHANGED <<message, waker, signals>>

-----------------------------------------------------------------------------
(* Future::poll *)

\* The executor polls of its own accord, with the waker of its choice ...
poll(w) ==
  /\ Borrow("AsyncReceiver", "poll")
  /\ cx' = w
  /\ woken' = woken \ {w}
  /\ UNCHANGED <<finish, expired, token>>

\* ... and answers a wake of the waker of the last poll with another poll.
PollWoken ==
  /\ rpc = "idle" /\ handle = "AsyncReceiver" /\ res = "Pending"
  /\ cx \in woken
  /\ woken' = woken \ {cx}
  /\ rpc' = "poll"
  /\ res' = "none"
  /\ UNCHANGED <<handle, finish, expired, cx, calls, promise, channel, token>>

\* Slip: a poll while the sender is waking an earlier waker is not expected.
PollArmsNoUnparking(v) ==
  CASE v = EMPTY        -> Arm("poll_register", "none")
    [] v = RECEIVING    -> Arm("poll_cas_empty", "none")
    [] v = MESSAGE      -> Arm("mark_fence_take", "Ok")
    [] v = DISCONNECTED -> Arm("return", "Disconnected")
    [] OTHER            -> Unreachable

PollArms(v) ==
  CASE v = EMPTY        -> Arm("poll_register", "none")
    [] v = RECEIVING    -> Arm("poll_cas_empty", "none")
    [] v = MESSAGE      -> Arm("mark_fence_take", "Ok")
    [] v = DISCONNECTED -> Arm("return", "Disconnected")
    [] v = UNPARKING    -> Arm("poll_spin", "none")
    [] OTHER            -> Unreachable

PollLoad == MatchLoad("poll", Relaxed, PollArms)

\* Polled again while waiting: take the registration back to replace the waker.
\* Slip: the old waker, which the sender is about to wake, is relied upon.
PollCasEmptyArmsNoWake(v) ==
  CASE v = MESSAGE      -> Arm("mark_fence_take", "Ok")
    [] v = DISCONNECTED -> Arm("return", "Disconnected")
    [] v = UNPARKING    -> Arm("return", "Pending")
    [] OTHER            -> Unreachable

PollCasEmptyArms(v) ==
  CASE v = MESSAGE      -> Arm("mark_fence_take", "Ok")
    [] v = DISCONNECTED -> Arm("return", "Disconnected")
    [] v = UNPARKING    -> Arm("wake_by_ref", "Pending")
    [] OTHER            -> Unreachable

PollCasEmpty ==
  MatchCas("poll_cas_empty", RECEIVING, EMPTY, Relaxed,
           Arm("drop_register", "none"), PollCasEmptyArms)

\* Waker::wake_by_ref panics.
WakeByRefPanic ==
  /\ rpc = "wake_by_ref" /\ "wake" \in Panics
  /\ UnwindCall
  /\ UNCHANGED <<channel, signals>>

WakeByRef ==
  /\ rpc = "wake_by_ref"
  /\ woken' = woken \cup {cx}
  /\ RGoto(Arm("return", "Pending"))
  /\ UNCHANGED <<channel, token>>

\* Waker::clone panics in task_waker, before the slot is written.
ClonePanic ==
  /\ rpc = "poll_register" /\ "clone" \in Panics
  /\ UnwindCall
  /\ UNCHANGED <<channel, signals>>

\* The Drop of a task waker panics in drop_waker: a poll that unwinds leaves the
\* future unregistered, a drop that unwinds never gets to close the channel.
DropWakerPanic ==
  /\ rpc \in DOMAIN AfterDropWaker /\ waker \in Tasks /\ "drop_waker" \in Panics
  /\ clear_waker("R")
  /\ \/ handle = "none" /\ UnwindDrop("lost")
     \/ handle # "none" /\ UnwindCall
  /\ UNCHANGED signals

\* The exchange at the end of Channel::write_async_waker.
WriteAsyncWakerArms(v) ==
  CASE v = MESSAGE      -> Arm("drop_mark_fence_take", "Ok")
    [] v = DISCONNECTED -> Arm("drop", "Disconnected")
    [] OTHER            -> Unreachable

WriteAsyncWaker ==
  MatchCas("poll_cas_receiving", EMPTY, RECEIVING, Release,
           Arm("return", "Pending"), WriteAsyncWakerArms)

\* Slip: a poll does not wait for the sender that is waking it.
PollSpinArmsHasty(v) ==
  CASE v = MESSAGE      -> Arm("mark_fence_take", "Ok")
    [] v \in {DISCONNECTED, UNPARKING} -> Arm("return", "Disconnected")
    [] OTHER            -> Unreachable

PollSpinArms(v) ==
  CASE v = MESSAGE      -> Arm("mark_fence_take", "Ok")
    [] v = DISCONNECTED -> Arm("return", "Disconnected")
    [] v = UNPARKING    -> Arm("poll_spin", "none")
    [] OTHER            -> Unreachable

PollSpin == MatchLoad("poll_spin", Relaxed, PollSpinArms)

-----------------------------------------------------------------------------
(* AsyncReceiver::drop *)

AsyncReceiverDrop == Consume("AsyncReceiver", "async_drop")

AsyncDropLoad ==
  MatchLoad("async_drop", Relaxed,
            LAMBDA v : Arm(IF v = RECEIVING THEN "async_drop_cas"
                                            ELSE "async_drop_swap", "none"))

AsyncDropCas ==
  MatchCas("async_drop_cas", RECEIVING, EMPTY, Relaxed,
           Arm("drop_close", "none"), LAMBDA v : Arm("async_drop_swap", "none"))

\* Slip: DISCONNECTED is taken to mean that a message is there.
AsyncDropArmsAlwaysWipe(v) ==
  CASE v = EMPTY        -> Arm("return", "none")
    [] v \in {MESSAGE, DISCONNECTED} -> Arm("wipe_free", "none")
    [] v = UNPARKING    -> Arm("async_drop_spin", "none")
    [] OTHER            -> Unreachable

AsyncDropArms(v) ==
  CASE v = EMPTY        -> Arm("return", "none")
    [] v = MESSAGE      -> Arm("wipe_free", "none")
    [] v = DISCONNECTED -> Arm("free", "none")
    [] v = UNPARKING    -> Arm("async_drop_spin", "none")
    [] OTHER            -> Unreachable

AsyncDropSwap == MatchSwap("async_drop_swap", DISCONNECTED, AcqRel, AsyncDropArms)

\* Slip: the drop expects to find a message when the sender is done waking it.
AsyncDropSpinArmsAlwaysWipe(v) ==
  CASE v \in {MESSAGE, DISCONNECTED} -> Arm("wipe_fence_free", "none")
    [] v = UNPARKING    -> Arm("async_drop_spin", "none")
    [] OTHER            -> Unreachable

AsyncDropSpinArms(v) ==
  CASE v = MESSAGE      -> Arm("wipe_fence_free", "none")
    [] v = DISCONNECTED -> Arm("fence_free", "none")
    [] v = UNPARKING    -> Arm("async_drop_spin", "none")
    [] OTHER            -> Unreachable

AsyncDropSpin == MatchLoad("async_drop_spin", Relaxed, AsyncDropSpinArms)

-----------------------------------------------------------------------------
\* The steps inside a call of the receiving end.
ReceiverStep ==
  \/ WriteWaker \/ DropWaker \/ Mark \/ Fence \/ TakeMessage \/ WipeMessage \/ Free
  \/ Return \/ TryRecvLoad \/ RecvLoad \/ RecvSwap \/ RecvParked
  \/ StartRecvRefLoad \/ RefSwap \/ RefParked \/ DeadlineCheck \/ DeadlineSwap
  \/ wait_for_unpark \/ Park \/ ParkTimeout \/ DropSwap
  \/ PollLoad \/ PollCasEmpty \/ WakeByRef \/ WriteAsyncWaker \/ PollSpin
  \/ AsyncDropLoad \/ AsyncDropCas \/ AsyncDropSwap \/ AsyncDropSpin
  \/ WipeMessagePanic \/ WakeByRefPanic \/ ClonePanic \/ DropWakerPanic

\* The calls of the client, and of the executor that polls its task.
ReceiverCall ==
  \/ try_recv \/ recv \/ recv_ref \/ recv_deadline \/ recv_timeout
  \/ is_closed \/ has_message \/ ReceiverRaw \/ ReceiverDrop
  \/ into_future \/ AsyncReceiverDrop \/ PollWoken
  \/ \E w \in Tasks : poll(w)

-----------------------------------------------------------------------------
Labels == DOMAIN AfterWriteWaker \cup DOMAIN AfterDropWaker \cup DOMAIN AfterMark
  \cup DOMAIN AfterFence \cup DOMAIN AfterTake \cup DOMAIN AfterWipe
  \cup DOMAIN AfterPark
  \cup {"free", "return", "idle", "try_recv", "recv", "recv_swap", "recv_parked",
        "start_recv_ref", "ref_swap", "ref_parked", "deadline", "deadline_swap",
        "unpark_waited", "drop_swap", "poll", "poll_cas_empty", "wake_by_ref",
        "poll_cas_receiving", "poll_spin", "async_drop", "async_drop_cas",
        "async_drop_swap", "async_drop_spin", "unreachable"}

ReceiverTypeOK ==
  /\ rpc \in Labels
  /\ handle \in {"Receiver", "AsyncReceiver", "raw", "none", "lost", "leaked"}
  /\ res \in {"none", "Ok", "Empty", "Disconnected", "Timeout", "Pending", "panic"}
  /\ finish \in {"none", "ref_park", "deadline"}
  /\ expired \in BOOLEAN
  /\ cx \in Tasks \cup {"none"}
  /\ calls \in 0 .. MaxCalls
  /\ promise \in {"none", "closed", "message"}
=============================================================================
