----------------------------- MODULE Refinement -----------------------------
(***************************************************************************)
(* Oneshot implements IdealChannel.  A send or a drop of the sender takes  *)
(* effect with its fetch_add or fetch_xor, a drop of the receiver with its *)
(* swap, a receive call that succeeds when it takes the message, and every *)
(* call is answered when it returns.                                       *)
(***************************************************************************)
EXTENDS PromiseInv

IdealSender == IF Unsent THEN "open" ELSE "closed"

\* R's drop has swapped the state, or recv has nothing left to do but free.
Closed ==
  \/ handle = "leaked"
  \/ handle = "none" /\ rpc \in {"idle", "return", "wipe_free", "wipe_fence_free",
                                 "fence_free", "free", "async_drop_spin"}

IdealReceiver ==
  IF handle = "lost" THEN "lost" ELSE IF Closed THEN "closed" ELSE "open"

IdealItem ==
  CASE message = "uninit" \/ (message = "init" /\ Unsent)        -> "none"
    [] message = "init" /\ spc = "error"                         -> "error"
    [] message = "init" /\ ~Unsent /\ spc # "error"              -> "channel"
    [] message = "received" /\ rpc # "idle" /\ res = "Ok"        -> "taken"
    [] message = "received" /\ (rpc = "idle" \/ res # "Ok")      -> "received"
    [] message \in {"returned", "dropped"}                       -> message

IdealAnswer == IF rpc = "idle" THEN res ELSE "none"

Ideal == INSTANCE IdealChannel WITH
  sender <- IdealSender, receiver <- IdealReceiver, item <- IdealItem,
  answer <- IdealAnswer, known <- promise, told <- sawClosed

\* Whatever the two ends of a channel do, and however stale what they read, their
\* clients see the steps of an ideal channel: a message is delivered at most once,
\* never to a receiver that is closed, Disconnected and the answers of is_closed
\* and has_message are true and stay true, and a failed send gives the item back.
Implements == Ideal!Spec
=============================================================================
