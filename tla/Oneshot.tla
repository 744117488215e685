------------------------------- MODULE Oneshot -------------------------------
(***************************************************************************)
(* One oneshot channel from oneshot::channel() to the end of both ends:    *)
(* the sending end (module Sender) and the receiving end (modules Receiver *)
(* and AsyncReceiver) run concurrently over one Channel.                   *)
(***************************************************************************)
EXTENDS Sender, AsyncReceiver

vars == <<channel, signals, senderVars, receiverVars>>

\* lib.rs: channel() allocates the block and hands out one end of each kind.
Init == ChannelInit /\ SignalsInit /\ SenderInit /\ ReceiverInit

\* Writes of state reach the other end in their own time.
Visibility ==
  /\ \E t \in Threads : Propagate(t)
  /\ UNCHANGED <<message, waker, signals, senderVars, receiverVars>>

SenderNext == (SenderStep \/ SenderCall) /\ UNCHANGED receiverVars

ReceiverNext ==
  (ReceiverStep \/ ReceiverCall \/ SpuriousPark \/ Expire) /\ UNCHANGED senderVars

\* Both ends have gone the way they should ...
Finished == spc \in {"done", "unwoken"} /\ rpc = "idle" /\ handle = "none"

\* ... or have been left behind by the unwinding of a drop.
Ended ==
  /\ spc \in {"done", "unwoken", "leaked"}
  /\ rpc = "idle" /\ handle \in {"none", "lost", "leaked"}

\* The execution is free of undefined behaviour so far.  Nothing is modelled of
\* what follows undefined behaviour; a leak is none.
Defined == faults \subseteq {"leak"}

Next ==
  \/ Defined /\ (SenderNext \/ ReceiverNext \/ Visibility)
  \/ (Ended \/ ~Defined) /\ UNCHANGED vars

Spec == Init /\ [][Next]_vars

-----------------------------------------------------------------------------
(* Fairness: a thread that is inside a call is scheduled again, a write    *)
(* becomes visible, time passes, and the executor polls a woken task.      *)
(* Nobody has to make a call, and park need not return spuriously.         *)

Fairness ==
  /\ WF_vars(Defined /\ SenderStep /\ UNCHANGED receiverVars)
  /\ WF_vars(Defined /\ ReceiverStep /\ UNCHANGED senderVars)
  /\ WF_vars(Defined /\ Visibility)
  /\ WF_vars(Defined /\ Expire /\ UNCHANGED senderVars)
  /\ WF_vars(Defined /\ PollWoken /\ UNCHANGED senderVars)

FairSpec == Spec /\ Fairness

-----------------------------------------------------------------------------
(* Two rare steps break the memory safety of the channel (see the runs     *)
(* cancel_during_wake and timeout_during_wake): AsyncReceiver::drop finds  *)
(* the sender in the middle of waking it, and the park of wait_for_unpark  *)
(* returns without having been unparked.  UncancelledSpec is the channel   *)
(* that does not meet the first, CalmSpec the one that meets neither.      *)

CancelDuringWake  == rpc = "async_drop_swap" /\ rpc' = "async_drop_spin"
WakeWithoutUnpark == rpc = "unpark_wait" /\ rpc' = "unpark_waited" /\ token' = token

UncancelledNext == Next /\ ~CancelDuringWake
UncancelledSpec == Init /\ [][UncancelledNext]_vars

CalmNext == UncancelledNext /\ ~WakeWithoutUnpark
CalmSpec == Init /\ [][CalmNext]_vars

-----------------------------------------------------------------------------
Typed == ChannelTypeOK /\ SignalsTypeOK /\ SenderTypeOK /\ ReceiverTypeOK

\* Every variable has its type, and the state byte is always one of the five values
\* of states.rs, although fetch_add and fetch_xor compute the next one from whatever
\* they find.
TypeOK == Typed /\ state.val \in States

-----------------------------------------------------------------------------
(* Memory safety. *)

\* No `_ => unreachable!()' arm of a match on the state byte is ever taken, by
\* send, by any receive method or by either drop.
NoPanic == rpc # "unreachable" /\ spc # "unreachable"

\* Neither end touches the channel after dealloc, and dealloc runs at most once:
\* the ends agree on which of them is the last (SAFETY comments of lib.rs dealloc).
NoUseAfterFree == "use_after_free" \notin faults

\* Accesses of the two ends to message and waker, and the deallocation, are
\* ordered by happens-before: every ORDERING argument of sender.rs and
\* receiver.rs is strong enough, and a message is received with all of the
\* sender's past visible.
NoDataRace == "data_race" \notin faults

\* assume_init only meets an initialised slot: no message is taken or dropped
\* twice or before it was written, no waker is taken by both ends.
NoUninitAccess == "uninit" \notin faults

\* No message and no waker is overwritten or freed without being dropped, and the
\* block is freed by the time both ends are gone.  This is so even if clone or wake
\* of a task waker, or the drop of a waker in poll, has panicked; only a panic in a
\* drop of SendError, Receiver or AsyncReceiver leaves the block behind.
NoLeak == "leak" \notin faults /\ (Finished => ~alive)

\* No access to a slot races, not even in a channel whose block is freed too early:
\* whoever is about to write, take or drop the message or the waker has the other
\* end's last access of that slot in its view.
SlotsOrdered ==
  /\ rpc \in DOMAIN AfterTake \cup DOMAIN AfterWipe => Race("R", "message") = {}
  /\ rpc \in DOMAIN AfterWriteWaker \cup DOMAIN AfterDropWaker => Race("R", "waker") = {}
  /\ spc \in {"write_message", "error"} => Race("S", "message") = {}
  /\ spc = "take_waker" => Race("S", "waker") = {}

-----------------------------------------------------------------------------
(* What the state byte says. *)

\* The sender has not written state.
Unsent == spc \in {"idle", "raw", "write_message", "fetch_add", "fetch_xor"}

\* The receiver was dropped or consumed, and its last call has let go of the channel.
ReceiverGone == rpc \in {"return", "idle"} /\ handle = "none"

\* Whoever reads state finds what states.rs says the value means, however many calls
\* have set it and set it back: a receiver between two calls in every state, a sender
\* in DISCONNECTED.  The EMPTY that fetch_add and fetch_xor make of DISCONNECTED is
\* false, and nobody is left to read it.
StateIsTrue ==
  /\ rpc = "idle" /\ handle \in {"Receiver", "AsyncReceiver", "raw"} =>
       /\ state.val = EMPTY        => Unsent /\ waker = "none"
       /\ state.val = RECEIVING    => Unsent /\ waker # "none"
       /\ state.val = UNPARKING    => spc \in {"take_waker", "swap"}
       /\ state.val = MESSAGE      => message = "init"
       /\ state.val = DISCONNECTED => sop = "drop" \/ message = "received"
  /\ Unsent => (state.val = DISCONNECTED <=> ReceiverGone)
  /\ spc \in {"error", "dealloc"} => ReceiverGone

-----------------------------------------------------------------------------
(* What the methods promise. *)

\* Sender::is_closed: after it returned true, send returns the message in a
\* SendError and the receiver never gets it.
ClosedForSender ==
  sawClosed /\ sop = "send" /\ spc \notin {"write_message", "fetch_add"}
    => spc = "error" \/ message \in {"returned", "dropped"}

\* Receiver and AsyncReceiver: after is_closed returned true or a message was
\* received, receive methods report disconnection; after has_message returned
\* true, the next one returns the message.
PromisesKept ==
  rpc = "return" /\ res # "none" =>
    /\ promise = "closed"  => res = "Disconnected"
    /\ promise = "message" => res = "Ok"

\* A receive method reports disconnection only if the sender was dropped without
\* sending or the message was received before; it never hides a message.
DisconnectedIsTrue ==
  rpc = "return" /\ res = "Disconnected" => sop = "drop" \/ message = "received"

\* Between two calls a Receiver is not registered: no waker is left behind (by a
\* timed out recv_deadline, say) and the sender is not about to wake anybody.  Nor
\* is a future whose poll or drop panicked registered with the sender.
NoStaleRegistration ==
  /\ rpc = "idle" /\ handle = "Receiver" =>
       waker = "none" /\ state.val \in {EMPTY, MESSAGE, DISCONNECTED}
  /\ rpc = "idle" /\ (handle = "lost" \/ (handle = "AsyncReceiver" /\ res = "panic")) =>
       state.val # RECEIVING

\* No wakeup is lost: once the sender is done a parked thread has its token, and a
\* task that was told Pending has the waker of its LAST poll woken (unless that
\* waker's wake panicked); until then the sender has that waker or will find it.
NoLostWakeup ==
  /\ rpc \in DOMAIN AfterPark /\ spc = "done" => token # {}
  /\ rpc = "idle" /\ handle = "AsyncReceiver" /\ res = "Pending" /\ spc # "unwoken" =>
       cx \in IF spc = "done" THEN woken ELSE {waker, held} \cup woken

-----------------------------------------------------------------------------
(* Liveness, as long as no undefined behaviour has been met. *)

\* Once the sender has sent or is dropped, a receive call, blocked or spinning
\* though it may be, returns.
BlockedCallReturns ==
  (spc \in {"done", "unwoken"} /\ rpc # "idle") ~> (rpc = "idle" \/ ~Defined)

\* recv_deadline returns after its deadline even if the sender never acts.
DeadlineCallReturns ==
  (finish = "deadline" /\ rpc = "start_recv_ref") ~> (rpc = "idle" \/ ~Defined)

\* A task that was told Pending gets its answer once the sender is done, whatever
\* wakers its polls were given, unless it drops the future or its waker panics.
PendingTaskAnswered ==
  (spc = "done" /\ res = "Pending")
    ~> (res \in {"Ok", "Disconnected", "panic"} \/ handle # "AsyncReceiver" \/ ~Defined)
=============================================================================
