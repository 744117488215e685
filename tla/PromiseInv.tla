----------------------------- MODULE PromiseInv -----------------------------
(***************************************************************************)
(* What the answers of a channel rest upon: the inductive invariant that   *)
(* with OwnershipInv proves that what the methods tell their clients is    *)
(* true and stays true.                                                    *)
(***************************************************************************)
EXTENDS OneshotInv

\* The first load or swap of a call that consumes or borrows the receiver.
Entries ==
  {"idle", "try_recv", "recv", "start_recv_ref", "drop_swap", "poll", "async_drop",
   "async_drop_swap"}

\* A message that went back to the sender or was dropped had no receiver any more,
\* and a sender that is dropped never had one.
FateInv ==
  /\ message \in {"returned", "dropped"} =>
       rpc \in {"free", "return", "idle"} /\ handle \in {"none", "leaked"}
  /\ sop = "drop" => message = "uninit"

\* Whoever took the message has seen the sender's last write of state, and no later
\* call registers.
ReceivedInv ==
  message = "received" =>
    /\ CaughtUp /\ spc \in {"unpark", "unwoken", "done"}
    /\ rpc \in Entries \cup {"fence_free", "free", "return"}
    /\ rpc # "idle" => res \in {"Ok", "Disconnected", "none"}

\* The call takes the message and returns it.
Taking == MessageIsMine \ {"wipe_free"}

\* The result of the call is decided, and is true.
ResultInv ==
  /\ res # "none" => rpc \in Taking \cup NothingLeft \cup {"drop", "wake_by_ref", "return",
                                                        "idle"}
  /\ res = "Disconnected" => ~Unsent /\ (sop = "drop" \/ message = "received")
  /\ res = "Ok" => rpc \in Taking \/ message = "received"
  /\ rpc \in Taking => res = "Ok"
  /\ rpc \in NothingLeft \ {"free"} => res = "Disconnected"
  /\ res \in {"Empty", "Timeout", "Pending"} /\ rpc # "idle" =>
       handle \in {"Receiver", "AsyncReceiver"}
  /\ res = "panic" => rpc = "idle"

\* Once the client was told that the channel is closed, every load finds it so.
ClosedInv ==
  promise = "closed" =>
    /\ message \in {"uninit", "received"} /\ ~Unsent
    /\ alive => CaughtUp /\ state.val = DISCONNECTED
    /\ \/ rpc \in Entries
       \/ rpc \in {"fence_free", "free", "return"} /\ res \in {"Disconnected", "none"}

\* Once the client was told of a message, the next call takes it or drops it.
MessageInv ==
  promise = "message" =>
    \/ rpc \in Entries /\ message = "init" /\ CaughtUp /\ state.val = MESSAGE
    \/ /\ rpc \in {"mark_fence_take", "mark_take", "fence_take_free", "fence_take",
                   "take_free", "take", "free", "return"}
       /\ res = "Ok"
    \/ rpc \in {"wipe_free", "free", "return"} /\ handle = "none" /\ res = "none"
    \/ rpc = "idle" /\ handle \in {"none", "leaked"}

\* DISCONNECTED is the last write of a receiver that goes first, so that a sender
\* that has read it has read the newest write.
NewestInv ==
  Unsent => \A i \in 1 .. Len(stale["S"]) : stale["S"][i].val # DISCONNECTED

\* A sender that was told that the receiver is gone will find it gone.
SawClosedInv ==
  sawClosed =>
    \/ Unsent /\ state.val = DISCONNECTED
    \/ sop = "drop" \/ spc = "error" \/ message \in {"returned", "dropped"}

\* What the receiver's client is told ...
AnswerInv == FateInv /\ ReceivedInv /\ ResultInv /\ ClosedInv /\ MessageInv

\* ... and the sender's.
ToldInv == NewestInv /\ SawClosedInv

\* The inductive invariant behind the promises of the methods: whatever a client is
\* told of the channel is true, and every later access of either end bears it out.
PromiseInv == AnswerInv /\ ToldInv
=============================================================================
