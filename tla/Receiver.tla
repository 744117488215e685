------------------------------ MODULE Receiver ------------------------------
(***************************************************************************)
(* src/receiver.rs, Receiver<T>: the receiving end used from a thread.     *)
(* rpc is the access to the channel that is next.  A label made of several *)
(* verbs is the straight-line rest of a match arm: drop(_waker), mark (the *)
(* state DISCONNECTED), fence(Acquire), take(_message), wipe (drop_message)*)
(* and free (dealloc), in the order the code has them.                     *)
(***************************************************************************)
EXTENDS Channel

CONSTANTS
  Features,   \* the cargo features compiled in: a subset of {"std", "async"}
  MaxCalls    \* bound on the calls made through a reference to the receiver

ASSUME FeaturesAssumption == Features \subseteq {"std", "async"}
ASSUME MaxCallsAssumption == MaxCalls \in Nat

VARIABLES
  rpc,      \* the next step of the running call, "idle" between calls
  handle,   \* what the client holds: "Receiver", "AsyncReceiver", "raw", "none";
            \* "lost", "leaked": a drop has unwound before or after closing the channel
  res,      \* the result of the running or the last call
  finish,   \* the closure given to start_recv_ref: its first label
  expired,  \* Instant::now() is past the deadline of recv_deadline
  cx,       \* the waker of the context of the last poll
  calls,    \* calls made through a reference so far
  promise   \* what is_closed, has_message or a received message promise (history)

receiverVars == <<rpc, handle, res, finish, expired, cx, calls, promise>>

ReceiverInit ==
  /\ rpc     = "idle"
  /\ handle  = "Receiver"
  /\ res     = "none"
  /\ finish  = "none"
  /\ expired = FALSE
  /\ cx      = "none"
  /\ calls   = 0
  /\ promise = "none"

\* The call goes on at label pc; r is the result it is going to return.
Arm(pc, r) == [pc |-> pc, res |-> r]
Unreachable == Arm("unreachable", "none")

RGoto(arm) ==
  /\ rpc' = arm.pc
  /\ res' = arm.res
  /\ UNCHANGED <<handle, finish, expired, cx, calls, promise>>

\* match channel.state().load(order)
MatchLoad(at, order, Arms(_)) ==
  /\ rpc = at
  /\ AtomicLoad("R", order)
  /\ RGoto(Arms(Visible("R").val))
  /\ UNCHANGED <<message, waker, signals>>

\* match channel.state().swap(val, order)
MatchSwap(at, val, order, Arms(_)) ==
  /\ rpc = at
  /\ AtomicRmw("R", order, val)
  /\ RGoto(Arms(state.val))
  /\ UNCHANGED <<message, waker, signals>>

-----------------------------------------------------------------------------
(* The straight-line parts of the match arms. *)

Along(next, op) ==
  /\ rpc \in DOMAIN next
  /\ op
  /\ RGoto(Arm(next[rpc], res))
  /\ UNCHANGED signals

AfterWriteWaker ==
  [recv_register |-> "recv_swap", ref_register |-> "ref_swap",
   poll_register |-> "poll_cas_receiving"]

AfterDropWaker ==
  [drop_fence_take_free |-> "fence_take_free", drop_fence_free |-> "fence_free",
   drop_mark_fence_take |-> "mark_fence_take", drop_mark_fence |-> "mark_fence",
   drop                 |-> "return",
   drop_register        |-> "poll_register",   drop_close      |-> "async_drop_swap"]

AfterMark ==
  [mark_fence_take |-> "fence_take", mark_fence |-> "fence",
   mark_take       |-> "take",       mark       |-> "return"]

AfterFence ==
  [fence_take_free |-> "take_free", fence_free |-> "free",
   fence_take      |-> "take",      fence      |-> "return"]

AfterTake == [take_free |-> "free", take |-> "return"]

AfterWipe == [wipe_free |-> "free", wipe_fence_free |-> "fence_free"]

\* ReceiverWaker::current_thread or ReceiverWaker::task_waker.
CurrentWaker == IF handle = "AsyncReceiver" THEN cx ELSE "thread"

\* Slip: no acquire fence between the relaxed load and the accesses it allows.
FenceSkipped == Along(AfterFence, UNCHANGED channel)

WriteWaker  == Along(AfterWriteWaker, write_waker("R", CurrentWaker))
DropWaker   == Along(AfterDropWaker, clear_waker("R"))
Mark        == Along(AfterMark, AtomicStore("R", DISCONNECTED)
                                  /\ UNCHANGED <<message, waker>>)
Fence       == Along(AfterFence, FenceAcquire("R") /\ UNCHANGED <<message, waker>>)
TakeMessage == Along(AfterTake, move_message("R", "received"))
WipeMessage == Along(AfterWipe, move_message("R", "dropped"))
Free        == Along([free |-> "return"], dealloc("R"))

\* The call returns; a message received promises that the channel is closed.
Return ==
  /\ rpc = "return"
  /\ rpc' = "idle"
  /\ promise' = IF res = "Ok" THEN "closed" ELSE promise
  /\ UNCHANGED <<handle, res, finish, expired, cx, calls, channel, signals>>

-----------------------------------------------------------------------------
(* Unwinding, when the client's code has panicked. *)

\* Out of a call through a reference: the client keeps the receiver.
UnwindCall ==
  /\ rpc' = "idle"
  /\ res' = "panic"
  /\ UNCHANGED <<handle, finish, expired, cx, calls, promise>>

\* Out of a drop, the rest of which is never done.
UnwindDrop(end) ==
  /\ rpc' = "idle"
  /\ handle' = end
  /\ UNCHANGED <<res, finish, expired, cx, calls, promise>>

\* The message's Drop panics in drop_message: the channel is not freed.
WipeMessagePanic ==
  /\ rpc \in DOMAIN AfterWipe /\ "drop_message" \in Panics
  /\ move_message("R", "dropped")
  /\ UnwindDrop("leaked")
  /\ UNCHANGED signals

-----------------------------------------------------------------------------
(* The calls of the client. *)

\* A call through &self (or Pin<&mut Self>).
Borrow(kind, entry) ==
  /\ rpc = "idle" /\ handle = kind
  /\ calls < MaxCalls
  /\ calls' = calls + 1
  /\ rpc' = entry
  /\ res' = "none"
  /\ UNCHANGED <<handle, promise, channel>>

\* A call that consumes the handle and frees or gives up the channel itself.
Consume(kind, entry) ==
  /\ rpc = "idle" /\ handle = kind
  /\ handle' = "none"
  /\ rpc' = entry
  /\ res' = "none"
  /\ UNCHANGED <<finish, expired, cx, calls, promise, channel, signals>>

try_recv == Borrow("Receiver", "try_recv") /\ UNCHANGED <<finish, expired, cx, signals>>

\* Slip: no mem::forget(self), so that Drop still runs after recv.
RecvNoForget ==
  /\ "std" \in Features
  /\ rpc = "idle" /\ handle = "Receiver"
  /\ rpc' = "recv"
  /\ res' = "none"
  /\ UNCHANGED <<handle, finish, expired, cx, calls, promise, channel, signals>>

recv == "std" \in Features /\ Consume("Receiver", "recv")

StartRecvRef(closure, late) ==
  /\ "std" \in Features
  /\ Borrow("Receiver", "start_recv_ref")
  /\ finish' = closure
  /\ expired' = late
  /\ UNCHANGED <<cx, signals>>

recv_ref == StartRecvRef("ref_park", FALSE)

\* The deadline may already have passed when the call is made.
recv_deadline == \E late \in BOOLEAN : StartRecvRef("deadline", late)

\* now + timeout may not be representable: then recv_timeout is recv_ref.
recv_timeout == \E overflow \in BOOLEAN :
  IF overflow THEN recv_ref ELSE recv_deadline

ReceiverDrop == Consume("Receiver", "drop_swap")

\* Slip: any state but EMPTY is taken for MESSAGE.
HasMessageNotEmpty ==
  /\ rpc = "idle" /\ handle \in {"Receiver", "AsyncReceiver"}
  /\ AtomicLoad("R", Acquire)
  /\ promise' = IF Visible("R").val # EMPTY THEN "message" ELSE promise
  /\ UNCHANGED <<rpc, handle, res, finish, expired, cx, calls, message, waker, signals>>

\* is_closed and has_message, of either receiver type.
is_closed ==
  /\ rpc = "idle" /\ handle \in {"Receiver", "AsyncReceiver"}
  /\ AtomicLoad("R", Relaxed)
  /\ promise' = IF Visible("R").val = DISCONNECTED THEN "closed" ELSE promise
  /\ UNCHANGED <<rpc, handle, res, finish, expired, cx, calls, message, waker, signals>>

has_message ==
  /\ rpc = "idle" /\ handle \in {"Receiver", "AsyncReceiver"}
  /\ AtomicLoad("R", Acquire)
  /\ promise' = IF Visible("R").val = MESSAGE THEN "message" ELSE promise
  /\ UNCHANGED <<rpc, handle, res, finish, expired, cx, calls, message, waker, signals>>

\* into_raw and from_raw.
ReceiverRaw ==
  /\ rpc = "idle"
  /\ \/ handle = "Receiver" /\ handle' = "raw"
     \/ handle = "raw"      /\ handle' = "Receiver"
  /\ UNCHANGED <<rpc, res, finish, expired, cx, calls, promise, channel, signals>>

-----------------------------------------------------------------------------
(* try_recv *)

TryRecvArms(v) ==
  CASE v = MESSAGE      -> Arm("mark_fence_take", "Ok")
    [] v = EMPTY        -> Arm("return", "Empty")
    [] v = DISCONNECTED -> Arm("return", "Disconnected")
    [] OTHER            -> Unreachable

TryRecvLoad == MatchLoad("try_recv", Relaxed, TryRecvArms)

(* recv *)

RecvArms(v) ==
  CASE v = EMPTY        -> Arm("recv_register", "none")
    [] v = MESSAGE      -> Arm("fence_take_free", "Ok")
    [] v = DISCONNECTED -> Arm("fence_free", "Disconnected")
    [] OTHER            -> Unreachable

RecvLoad == MatchLoad("recv", Relaxed, RecvArms)

RecvSwapArms(v) ==
  CASE v = EMPTY        -> Arm("recv_park", "none")
    [] v = MESSAGE      -> Arm("drop_fence_take_free", "Ok")
    [] v = DISCONNECTED -> Arm("drop_fence_free", "Disconnected")
    [] OTHER            -> Unreachable

\* Slip: the waker is not released to the sender.
RecvSwapRelaxed == MatchSwap("recv_swap", RECEIVING, Relaxed, RecvSwapArms)

RecvSwap == MatchSwap("recv_swap", RECEIVING, Release, RecvSwapArms)

RecvParkedArms(v) ==
  CASE v = MESSAGE      -> Arm("take_free", "Ok")
    [] v = DISCONNECTED -> Arm("free", "Disconnected")
    [] v \in {RECEIVING, UNPARKING} -> Arm("recv_park", "none")
    [] OTHER            -> Unreachable

RecvParked == MatchLoad("recv_parked", Acquire, RecvParkedArms)

(* start_recv_ref, shared by recv_ref and recv_deadline *)

StartRecvRefArms(v) ==
  CASE v = EMPTY        -> Arm("ref_register", "none")
    [] v = MESSAGE      -> Arm("mark_take", "Ok")
    [] v = DISCONNECTED -> Arm("return", "Disconnected")
    [] OTHER            -> Unreachable

StartRecvRefLoad == MatchLoad("start_recv_ref", Acquire, StartRecvRefArms)

RefSwapArms(v) ==
  CASE v = EMPTY        -> Arm(finish, "none")
    [] v = MESSAGE      -> Arm("drop_mark_fence_take", "Ok")
    [] v = DISCONNECTED -> Arm("drop_mark_fence", "Disconnected")
    [] OTHER            -> Unreachable

RefSwap == MatchSwap("ref_swap", RECEIVING, Release, RefSwapArms)

(* The closures: recv_ref's loop ... *)

RefParkedArms(v) ==
  CASE v = MESSAGE      -> Arm("mark_take", "Ok")
    [] v = DISCONNECTED -> Arm("return", "Disconnected")
    [] v \in {RECEIVING, UNPARKING} -> Arm(finish, "none")
    [] OTHER            -> Unreachable

RefParked == MatchLoad("ref_parked", Acquire, RefParkedArms)

(* ... and recv_deadline's. *)

\* Slips: at the deadline the registration is left as it is; the deadline is only
\* ever used to bound the parks.
DeadlineCheckNoSwap ==
  /\ rpc = "deadline"
  /\ RGoto(IF expired THEN Arm("return", "Timeout") ELSE Arm("timed_park", "none"))
  /\ UNCHANGED <<channel, signals>>

DeadlineCheckNever ==
  /\ rpc = "deadline"
  /\ RGoto(Arm("timed_park", "none"))
  /\ UNCHANGED <<channel, signals>>

DeadlineCheck ==
  /\ rpc = "deadline"
  /\ RGoto(Arm(IF expired THEN "deadline_swap" ELSE "timed_park", "none"))
  /\ UNCHANGED <<channel, signals>>

\* Slip: a sender dropped just before the deadline is reported, but EMPTY stays.
DeadlineSwapArmsNoMark(v) ==
  CASE v = RECEIVING    -> Arm("drop", "Timeout")
    [] v = MESSAGE      -> Arm("mark_take", "Ok")
    [] v = DISCONNECTED -> Arm("return", "Disconnected")
    [] v = UNPARKING    -> Arm("unpark_wait", "none")
    [] OTHER            -> Unreachable

DeadlineSwapArms(v) ==
  CASE v = RECEIVING    -> Arm("drop", "Timeout")
    [] v = MESSAGE      -> Arm("mark_take", "Ok")
    [] v = DISCONNECTED -> Arm("mark", "Disconnected")
    [] v = UNPARKING    -> Arm("unpark_wait", "none")
    [] OTHER            -> Unreachable

DeadlineSwap == MatchSwap("deadline_swap", EMPTY, Acquire, DeadlineSwapArms)

\* Slip: any state but MESSAGE is taken to mean that the sender is gone.
WaitForUnparkArmsHasty(v) ==
  CASE v = MESSAGE -> Arm("mark_take", "Ok")
    [] v \in {DISCONNECTED, EMPTY} -> Arm("return", "Disconnected")
    [] OTHER       -> Unreachable

WaitForUnparkArms(v) ==
  CASE v = MESSAGE      -> Arm("mark_take", "Ok")
    [] v = DISCONNECTED -> Arm("return", "Disconnected")
    [] v = EMPTY        -> Arm("unpark_wait", "none")
    [] OTHER            -> Unreachable

wait_for_unpark == MatchLoad("unpark_waited", Relaxed, WaitForUnparkArms)

-----------------------------------------------------------------------------
(* Sleeping. *)

AfterPark ==
  [recv_park  |-> "recv_parked", ref_park    |-> "ref_parked",
   timed_park |-> "ref_parked",  unpark_wait |-> "unpark_waited"]

Park ==
  /\ rpc \in DOMAIN AfterPark
  /\ ParkToken
  /\ RGoto(Arm(AfterPark[rpc], "none"))
  /\ UNCHANGED <<message, waker>>

SpuriousPark ==
  /\ rpc \in DOMAIN AfterPark
  /\ ParkSpurious
  /\ RGoto(Arm(AfterPark[rpc], "none"))
  /\ UNCHANGED <<message, waker>>

ParkTimeout ==
  /\ rpc = "timed_park" /\ expired
  /\ RGoto(Arm(AfterPark[rpc], "none"))
  /\ UNCHANGED <<channel, signals>>

\* Time passes while recv_deadline waits.
Expire ==
  /\ rpc \in {"timed_park", "deadline", "ref_parked"} /\ finish = "deadline"
  /\ ~expired
  /\ expired' = TRUE
  /\ UNCHANGED <<rpc, handle, res, finish, cx, calls, promise, channel, signals>>

-----------------------------------------------------------------------------
(* Receiver::drop *)

\* Slip: the message is not dropped.
ReceiverDropArmsNoWipe(v) ==
  CASE v = EMPTY -> Arm("return", "none")
    [] v \in {MESSAGE, DISCONNECTED} -> Arm("free", "none")
    [] OTHER     -> Unreachable

ReceiverDropArms(v) ==
  CASE v = EMPTY        -> Arm("return", "none")
    [] v = MESSAGE      -> Arm("wipe_free", "none")
    [] v = DISCONNECTED -> Arm("free", "none")
    [] OTHER            -> Unreachable

DropSwap == MatchSwap("drop_swap", DISCONNECTED, AcqRel, ReceiverDropArms)
=============================================================================
