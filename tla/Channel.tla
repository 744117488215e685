------------------------------- MODULE Channel -------------------------------
(***************************************************************************)
(* src/states.rs, src/channel.rs and the dealloc function of src/lib.rs:   *)
(* the channel's state byte, its two MaybeUninit slots and the operations  *)
(* both ends perform on them.  Four of these run code of the client, which *)
(* may panic: the Drop of the message, and clone, drop and wake of a task  *)
(* waker.                                                                  *)
(***************************************************************************)
EXTENDS ReceiverWaker

CONSTANT Panics   \* the callbacks into the client's code that may panic

ASSUME PanicsAssumption == Panics \subseteq {"drop_message", "clone", "drop_waker", "wake"}

\* states.rs: the values are chosen so that fetch_add(1) and fetch_xor(1) work.
RECEIVING    == 0
UNPARKING    == 1
DISCONNECTED == 2
EMPTY        == 3
MESSAGE      == 4

States == {RECEIVING, UNPARKING, DISCONNECTED, EMPTY, MESSAGE}

Plus1(v) == (v + 1) % 256                           \* fetch_add(1) on a u8
Minus1(v) == (v + 255) % 256    \* slip: fetch_sub(1), which wraps on RECEIVING
Xor1(v)  == IF v % 2 = 0 THEN v + 1 ELSE v - 1      \* fetch_xor(0b001)

VARIABLES
  message,  \* the message slot: "uninit", "init", or how the message left it
  waker     \* the waker slot: "none" or an initialised ReceiverWaker

channel == <<memory, message, waker>>

ChannelInit ==
  /\ MemoryInit(EMPTY)
  /\ message = "uninit"
  /\ waker   = "none"

Fault(kind, when) == IF when THEN {kind} ELSE {}

write_message(t) ==
  /\ CellAccess(t, "message", Fault("leak", message = "init"))
  /\ message' = "init"
  /\ waker' = waker

\* take_message and drop_message: the message leaves the slot for good.
move_message(t, fate) ==
  /\ CellAccess(t, "message", Fault("uninit", message # "init"))
  /\ message' = fate
  /\ waker' = waker

\* Channel::message, the shared reference behind SendError::as_inner.
message_ref(t) ==
  /\ CellAccess(t, "message", Fault("uninit", message # "init"))
  /\ UNCHANGED <<message, waker>>

write_waker(t, w) ==
  /\ CellAccess(t, "waker", Fault("leak", waker # "none"))
  /\ waker' = w
  /\ message' = message

\* take_waker and drop_waker: the slot is uninitialised afterwards.
clear_waker(t) ==
  /\ CellAccess(t, "waker", Fault("uninit", waker = "none"))
  /\ waker' = "none"
  /\ message' = message

\* The slots are MaybeUninit: freeing the block drops neither of them.
dealloc(t) ==
  /\ FreeBlock(t, Fault("leak", message = "init" \/ waker # "none"))
  /\ UNCHANGED <<message, waker>>

ChannelTypeOK ==
  /\ MemoryTypeOK
  /\ message \in {"uninit", "init", "received", "returned", "dropped"}
  /\ waker \in Wakers \cup {"none"}
=============================================================================
