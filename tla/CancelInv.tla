------------------------------ MODULE CancelInv ------------------------------
(***************************************************************************)
(* What is left of the invariants once an AsyncReceiver was dropped while  *)
(* the sender was waking it.  Its drop has written DISCONNECTED over       *)
(* UNPARKING and reads that write back, or the sender's final one: the     *)
(* ends no longer agree on who frees the block, but until one of them      *)
(* touches it too late no slot is misread, and nobody is told a lie.       *)
(***************************************************************************)
EXTENDS WakeupInv, RaceInv

\* What the drop can still do.
AfterCancel ==
  {"async_drop_spin", "wipe_fence_free", "fence_free", "free", "return", "idle"}

\* The sender has still to set the final state, over that of the drop ...
UnsetInv ==
  /\ spc = "take_waker" => waker # "none"
  /\ message = IF sop = "send" THEN "init" ELSE "uninit"
  /\ state.val = DISCONNECTED /\ CaughtUp
  /\ rpc # "wipe_fence_free"

\* ... or has set it, and the drop may not see it yet.
SetInv ==
  /\ state.val \in {MESSAGE, DISCONNECTED}
  /\ CaughtUp \/ OneBehind(DISCONNECTED)
  /\ rpc = "async_drop_spin" /\ state.val = MESSAGE => message = "init"
  /\ rpc = "wipe_fence_free" => message = "init"

\* The drop has acquired the message, and the sender the registration.
CancelledOrder == Synced(Message) /\ (spc = "take_waker" => WakerAcquired)

\* The receiver is gone for its client, and the sender is past its last answer.
Cancelled ==
  /\ TypeInv
  /\ CancelledOrder
  /\ "uninit" \notin faults
  /\ rpc \in AfterCancel /\ handle \in {"none", "leaked"} /\ res = "none"
  /\ spc \in {"take_waker", "swap", "unpark", "unwoken", "done"}
  /\ sop \in {"send", "drop"} /\ (sawClosed => sop = "drop")
  /\ Defined => IF spc \in {"take_waker", "swap"} THEN UnsetInv ELSE SetInv

\* The inductive invariant of every channel, whatever its client drops and when.
SpecInv == (OwnershipInv /\ PromiseInv /\ WakeupInv /\ SlotInv) \/ Cancelled
=============================================================================
