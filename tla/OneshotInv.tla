----------------------------- MODULE OneshotInv -----------------------------
(***************************************************************************)
(* Who owns what, when: the inductive invariant behind the memory safety   *)
(* of a channel whose AsyncReceiver is not dropped while being woken.      *)
(* It is a case distinction on how far the sender has come; each case says *)
(* where the receiver can then be, what the state byte and the two slots   *)
(* hold and how far the receiver's view of the state byte lags behind.     *)
(***************************************************************************)
EXTENDS Oneshot

\* The waker the sender is about to wake is one, or taking it was undefined.
HeldInv == spc \in {"swap", "unpark"} /\ Defined => held \in Wakers

\* start_recv_ref has been given the closure it will call.
FinishInv ==
  rpc \in {"start_recv_ref", "ref_register", "ref_swap", "ref_park", "ref_parked",
           "timed_park", "deadline"}
    => finish \in {"ref_park", "deadline"}

\* A running poll has a context.
PollInv ==
  rpc \in {"poll", "poll_register", "poll_cas_empty", "drop_register", "wake_by_ref"}
    => cx \in Tasks

TypeInv == Typed /\ HeldInv /\ FinishInv /\ PollInv

\* The receiver sets no state the sender's fetch_add and fetch_xor cannot start from.
ByteInv == state.val \in IF Unsent THEN {EMPTY, RECEIVING, DISCONNECTED} ELSE States

\* How far R lags behind the newest write of state.
CaughtUp  == stale["R"] = <<>>
OneBehind(v) == Len(stale["R"]) = 1 /\ stale["R"][1].val = v
TwoBehind == /\ Len(stale["R"]) = 2
             /\ stale["R"][1].val = RECEIVING
             /\ stale["R"][2].val = UNPARKING

\* R has not registered, or has taken its registration back.
Unregistered ==
  {"try_recv", "recv", "start_recv_ref", "drop_swap", "recv_register", "ref_register",
   "poll_register", "recv_swap", "ref_swap", "poll_cas_receiving", "drop",
   "drop_register", "drop_close"}

\* R has registered and waits, or is about to take its registration back.
Registered ==
  {"recv_park", "recv_parked", "ref_park", "ref_parked", "timed_park", "deadline",
   "deadline_swap", "poll_cas_empty", "async_drop_cas"}

\* A future that does not know whether it is registered.
Unsure == {"poll", "async_drop"}

\* Between two calls.
Resting == {"idle", "return"}

\* R owns the waker in the slot.
WakerIsMine ==
  {"recv_swap", "ref_swap", "poll_cas_receiving", "drop_fence_take_free",
   "drop_fence_free", "drop_mark_fence_take", "drop_mark_fence", "drop",
   "drop_register", "drop_close"}

\* R knows that the sender is done, and has the message still to take or drop ...
MessageIsMine ==
  {"drop_fence_take_free", "fence_take_free", "take_free", "drop_mark_fence_take",
   "mark_fence_take", "mark_take", "fence_take", "take", "wipe_free"}

\* ... or has no message to care for.
NothingLeft ==
  {"drop_fence_free", "fence_free", "free", "drop_mark_fence", "mark_fence", "mark",
   "fence"}

\* The calls that consume the receiver, and the others.
Consuming ==
  {"recv", "recv_register", "recv_swap", "recv_park", "recv_parked",
   "drop_fence_take_free", "fence_take_free", "take_free", "drop_fence_free",
   "fence_free", "free", "wipe_free", "drop_swap", "async_drop", "async_drop_cas",
   "async_drop_swap", "drop_close"}
ThreadOnly ==
  {"try_recv", "start_recv_ref", "ref_register", "ref_swap", "ref_park", "ref_parked",
   "timed_park", "deadline", "deadline_swap", "unpark_wait", "unpark_waited"}
TaskOnly ==
  {"poll", "poll_register", "poll_cas_empty", "poll_cas_receiving", "poll_spin",
   "wake_by_ref", "drop_register"}
Borrowing ==
  {"mark_fence_take", "mark_fence", "mark_take", "mark", "fence_take", "fence", "take",
   "drop", "drop_mark_fence_take", "drop_mark_fence"}

-----------------------------------------------------------------------------
\* The client holds what the running call left it, and a thread finds its own waker
\* in the slot.
HandleInv ==
  /\ rpc \in Consuming  => handle = "none"
  /\ rpc \in ThreadOnly => handle = "Receiver"
  /\ rpc \in TaskOnly   => handle = "AsyncReceiver"
  /\ rpc \in Borrowing  => handle \in {"Receiver", "AsyncReceiver"}
  /\ rpc \in {"recv_swap", "ref_swap", "drop_fence_take_free", "drop_fence_free",
              "drop_mark_fence"} => waker = "thread"
  /\ rpc = "drop_mark_fence_take" /\ handle = "Receiver" => waker = "thread"

\* The sender has not written state yet: the channel is R's to play with.
FreshInv ==
  /\ spc \in {"idle", "raw", "write_message", "fetch_add", "fetch_xor"}
  /\ sop = CASE spc \in {"idle", "raw"} -> "none"
             [] spc = "fetch_xor"       -> "drop"
             [] OTHER                   -> "send"
  /\ message = IF spc = "fetch_add" THEN "init" ELSE "uninit"
  /\ alive /\ CaughtUp
  /\ waker # "none" <=> state.val = RECEIVING \/ rpc \in WakerIsMine
  /\ \/ rpc \in Unregistered \cup {"async_drop_swap"} /\ state.val = EMPTY
     \/ rpc \in Registered /\ state.val = RECEIVING
     \/ rpc \in Unsure /\ state.val \in {EMPTY, RECEIVING}
     \/ rpc \in Resting /\ handle \in {"Receiver", "raw", "lost"} /\ state.val = EMPTY
     \/ rpc \in Resting /\ handle = "AsyncReceiver" /\ state.val = EMPTY
     \/ rpc \in Resting /\ handle = "AsyncReceiver" /\ state.val = RECEIVING /\ res = "Pending"
     \/ rpc \in Resting /\ handle = "none" /\ state.val = DISCONNECTED

\* The sender is waking R: the waker is the sender's, and R can but wait, or mark
\* its deadline by setting the state back to EMPTY.
WakingInv ==
  /\ spc \in {"take_waker", "swap"}
  /\ sop \in {"send", "drop"}
  /\ message = IF sop = "send" THEN "init" ELSE "uninit"
  /\ alive
  /\ waker # "none" <=> spc = "take_waker"
  /\ \/ /\ state.val = UNPARKING
        /\ CaughtUp \/ OneBehind(RECEIVING)
        /\ \/ rpc \in Registered \cup Unsure \cup {"async_drop_swap", "wake_by_ref"}
           \/ rpc = "poll_spin" /\ CaughtUp
           \/ rpc \in Resting /\ handle = "AsyncReceiver"
     \/ /\ state.val = EMPTY
        /\ CaughtUp
        /\ rpc \in {"unpark_wait", "unpark_waited"}

\* The receiver was gone first: what is left is the sender's.
OwnerInv ==
  /\ spc \in {"error", "dealloc", "leaked"}
  /\ alive
  /\ rpc \in Resting /\ handle = "none"
  /\ waker = "none"
  /\ message = "init" <=> spc = "error"
  /\ sop \in {"send", "drop"}
  /\ message = "uninit" => sop = "drop"

\* The sender is done and R, if it knows, is not acting on it yet.
OpenInv ==
  /\ alive
  /\ state.val = IF message = "init" THEN MESSAGE ELSE DISCONNECTED
  /\ waker # "none" <=> rpc \in WakerIsMine
  /\ \/ /\ CaughtUp \/ OneBehind(EMPTY)
        /\ \/ rpc \in Unregistered \cup Unsure
           \/ rpc \in {"unpark_wait", "unpark_waited", "async_drop_swap"}
           \/ rpc \in Resting /\ handle \notin {"none", "leaked"}
     \/ /\ CaughtUp \/ OneBehind(UNPARKING) \/ TwoBehind
        /\ \/ rpc \in Registered \cup Unsure \cup {"async_drop_swap", "wake_by_ref"}
           \/ rpc \in Resting /\ handle = "AsyncReceiver"
     \/ /\ CaughtUp \/ OneBehind(UNPARKING)
        /\ rpc = "poll_spin"

\* The sender is done and R is finishing its call.
ClosingInv ==
  /\ alive /\ CaughtUp
  /\ waker # "none" <=> rpc \in WakerIsMine
  /\ \/ rpc \in MessageIsMine /\ message = "init"
     \/ rpc \in NothingLeft /\ message # "init"
  /\ rpc \in {"fence_take", "take", "fence", "wipe_free"} => state.val = DISCONNECTED
  /\ rpc = "drop_mark_fence_take" /\ handle = "AsyncReceiver" => state.val = MESSAGE

\* R has freed the block, or has unwound out of its drop and never will.
FreedInv ==
  /\ \/ ~alive /\ rpc \in Resting /\ handle = "none"
     \/ alive /\ rpc = "idle" /\ handle = "leaked" /\ state.val = DISCONNECTED
  /\ message # "init" /\ waker = "none"

DoneInv ==
  /\ spc \in {"unpark", "unwoken", "done"}
  /\ sop \in {"send", "drop"}
  /\ message = "uninit" => sop = "drop"
  /\ OpenInv \/ ClosingInv \/ FreedInv

PhaseInv == FreshInv \/ WakingInv \/ OwnerInv \/ DoneInv

\* The inductive invariant: the ends of a channel always agree on which of them
\* owns the message, the waker and the allocation, so that no access of either
\* end is to something it does not own.
OwnershipInv ==
  /\ TypeInv
  /\ HandleInv
  /\ faults \subseteq {"data_race"}
  /\ PhaseInv
=============================================================================
