------------------------------- MODULE Sender -------------------------------
(***************************************************************************)
(* src/sender.rs and the SendError of src/errors.rs: the sending end.      *)
(* send and drop consume the Sender, so at most one of them ever runs.     *)
(* One action per access to the channel; spc is the access that is next.   *)
(***************************************************************************)
EXTENDS Channel

VARIABLES
  spc,        \* "idle": the client holds the Sender; "error": it holds a SendError;
              \* "unwoken", "leaked": how a call ended that unwound
  sop,        \* the consuming call made so far: "none", "send" or "drop"
  held,       \* the waker taken out of the channel and not yet woken
  sawClosed   \* Sender::is_closed has returned true (history)

senderVars == <<spc, sop, held, sawClosed>>

SenderInit == spc = "idle" /\ sop = "none" /\ held = "none" /\ sawClosed = FALSE

SGoto(to) == spc' = to /\ UNCHANGED <<sop, held, sawClosed>>

SConsume(op, to) ==
  /\ spc = "idle"
  /\ spc' = to
  /\ sop' = op
  /\ UNCHANGED <<held, sawClosed, channel, signals>>

-----------------------------------------------------------------------------
send == SConsume("send", "write_message")

SendWrite ==
  /\ spc = "write_message"
  /\ write_message("S")
  /\ SGoto("fetch_add")
  /\ UNCHANGED signals

\* Slip: send to a receiver that is gone is taken for done, and its error forgotten.
SendArmsNoError(v) ==
  CASE v = EMPTY        -> "done"
    [] v = RECEIVING    -> "take_waker"
    [] v = DISCONNECTED -> "done"
    [] OTHER            -> "unreachable"

\* What send does after fetch_add returned v.
SendArms(v) ==
  CASE v = EMPTY        -> "done"
    [] v = RECEIVING    -> "take_waker"
    [] v = DISCONNECTED -> "error"
    [] OTHER            -> "unreachable"

SendFetchAdd ==
  /\ spc = "fetch_add"
  /\ AtomicRmw("S", AcqRel, Plus1(state.val))
  /\ SGoto(SendArms(state.val))
  /\ UNCHANGED <<message, waker, signals>>

SenderDrop == SConsume("drop", "fetch_xor")

\* What Sender::drop does after fetch_xor returned v.
DropArms(v) ==
  CASE v = EMPTY        -> "done"
    [] v = RECEIVING    -> "take_waker"
    [] v = DISCONNECTED -> "dealloc"
    [] OTHER            -> "unreachable"

DropFetchXor ==
  /\ spc = "fetch_xor"
  /\ AtomicRmw("S", AcqRel, Xor1(state.val))
  /\ SGoto(DropArms(state.val))
  /\ UNCHANGED <<message, waker, signals>>

\* The RECEIVING branch of send and of drop: take the waker, set the final
\* state, and only then wake the receiver.
SenderTakeWaker ==
  /\ spc = "take_waker"
  /\ clear_waker("S")
  /\ held' = waker
  /\ spc' = "swap"
  /\ UNCHANGED <<sop, sawClosed, signals>>

FinalState == IF sop = "send" THEN MESSAGE ELSE DISCONNECTED

\* Slip: the receiver is woken but the final state is not set.
SenderSwapForgotten ==
  /\ spc = "swap"
  /\ SGoto("unpark")
  /\ UNCHANGED <<channel, signals>>

SenderSwap ==
  /\ spc = "swap"
  /\ AtomicRmw("S", AcqRel, FinalState)
  /\ SGoto("unpark")
  /\ UNCHANGED <<message, waker, signals>>

SenderUnpark ==
  /\ spc = "unpark"
  /\ unpark("S", held)
  /\ held' = "none"
  /\ spc' = "done"
  /\ UNCHANGED <<sop, sawClosed, channel>>

\* Waker::wake panics: send or drop unwinds, with the channel in its final state.
SenderUnparkPanic ==
  /\ spc = "unpark" /\ held \in Tasks /\ "wake" \in Panics
  /\ held' = "none"
  /\ spc' = "unwoken"
  /\ UNCHANGED <<sop, sawClosed, channel, signals>>

\* Slip: any state but EMPTY is taken to mean that the receiver is gone.
SenderIsClosedNotEmpty ==
  /\ spc = "idle"
  /\ AtomicLoad("S", Relaxed)
  /\ sawClosed' = (sawClosed \/ Visible("S").val # EMPTY)
  /\ UNCHANGED <<spc, sop, held, message, waker, signals>>

SenderIsClosed ==
  /\ spc = "idle"
  /\ AtomicLoad("S", Relaxed)
  /\ sawClosed' = (sawClosed \/ Visible("S").val = DISCONNECTED)
  /\ UNCHANGED <<spc, sop, held, message, waker, signals>>

\* into_raw forgets the handle, from_raw recreates it: the channel is untouched.
SenderRaw ==
  /\ \/ spc = "idle" /\ SGoto("raw")
     \/ spc = "raw"  /\ SGoto("idle")
  /\ UNCHANGED <<channel, signals>>

-----------------------------------------------------------------------------
(* SendError owns the channel: its message and its allocation. *)

as_inner ==
  /\ spc = "error"
  /\ message_ref("S")
  /\ UNCHANGED <<senderVars, signals>>

into_inner ==
  /\ spc = "error"
  /\ move_message("S", "returned")
  /\ SGoto("dealloc")
  /\ UNCHANGED signals

SendErrorDrop ==
  /\ spc = "error"
  /\ move_message("S", "dropped")
  /\ SGoto("dealloc")
  /\ UNCHANGED signals

\* The message's Drop panics: SendError::drop unwinds before it frees the channel.
SendErrorDropPanic ==
  /\ spc = "error" /\ "drop_message" \in Panics
  /\ move_message("S", "dropped")
  /\ SGoto("leaked")
  /\ UNCHANGED signals

SenderDealloc ==
  /\ spc = "dealloc"
  /\ dealloc("S")
  /\ SGoto("done")
  /\ UNCHANGED signals

-----------------------------------------------------------------------------
\* The steps inside a call: once send or drop has been called they need nothing
\* from the client.
SenderStep ==
  \/ SendWrite \/ SendFetchAdd \/ DropFetchXor
  \/ SenderTakeWaker \/ SenderSwap \/ SenderUnpark \/ SenderUnparkPanic
  \/ SenderDealloc

\* The calls of the client that owns the Sender or the SendError.
SenderCall ==
  \/ send \/ SenderDrop \/ SenderIsClosed \/ SenderRaw
  \/ as_inner \/ into_inner \/ SendErrorDrop \/ SendErrorDropPanic

SenderTypeOK ==
  /\ spc \in {"idle", "raw", "write_message", "fetch_add", "fetch_xor", "take_waker",
              "swap", "unpark", "unwoken", "error", "dealloc", "leaked", "done",
              "unreachable"}
  /\ sop \in {"none", "send", "drop"}
  /\ held \in Wakers \cup {"none"}
  /\ sawClosed \in BOOLEAN
=============================================================================
