------------------------------ MODULE WakeupInv ------------------------------
(***************************************************************************)
(* Who is going to wake a receiver that waits: the inductive invariant     *)
(* that with OwnershipInv and PromiseInv proves that no wakeup is lost.    *)
(***************************************************************************)
EXTENDS PromiseInv

\* The sender holds a waker only from taking it until waking it.
HoldsInv == spc \notin {"swap", "unpark"} => held = "none"

\* The calls of a thread that has registered and sleeps, is about to, or has just
\* been woken.
JustWoken == {"recv_parked", "ref_parked", "unpark_waited"}
ThreadWaits == DOMAIN AfterPark \cup JustWoken \cup {"deadline", "deadline_swap"}

\* The waker of a waiting thread is in the slot, then in the sender's hands, then a
\* token; a thread that has taken its token sees the sender's final write.
ThreadInv ==
  rpc \in ThreadWaits =>
    /\ Unsent \/ spc = "take_waker" => waker = "thread"
    /\ spc \in {"swap", "unpark"}   => held = "thread"
    /\ spc = "done"                 => token # {} \/ (rpc \in JustWoken /\ CaughtUp)
    /\ spc # "unwoken"

\* The waker of the running poll was written to the slot, and the waker of the last
\* poll that returned Pending is in the slot, in the sender's hands, or woken.
TaskInv ==
  /\ rpc = "poll_cas_receiving" => waker = cx /\ cx \in Tasks
  /\ res = "Pending" => handle = "AsyncReceiver" /\ rpc # "drop"
  /\ rpc \in Resting /\ res = "Pending" /\ spc # "unwoken" =>
       cx \in Tasks /\ cx \in {waker, held} \cup woken

\* The inductive invariant behind NoLostWakeup: at every step somebody has what it
\* takes to wake a receiver that waits, and has not used it up.
WakeupInv == HoldsInv /\ ThreadInv /\ TaskInv
=============================================================================
