---------------------------- MODULE IdealChannel ----------------------------
(***************************************************************************)
(* What a oneshot channel promises to its two clients: one item, handed    *)
(* over at most once by steps that are atomic.  There is no state byte, no *)
(* waker, no memory and no waiting here; the receive methods are all the   *)
(* same and differ only in the answers they may give.                      *)
(***************************************************************************)

CONSTANT Panics   \* the callbacks into the client's code that may panic

VARIABLES
  sender,    \* "open" or "closed"
  receiver,  \* "open", "closed", or "lost" in the unwinding of its drop
  item,      \* where the message is, or what became of it
  answer,    \* the answer of the last receive call, "none" while one is running
  known,     \* what the receiver's client knows: "none", "message" or "closed"
  told       \* the sender's client was told that the receiver is closed

ideal == <<sender, receiver, item, answer, known, told>>

Init ==
  /\ sender = "open" /\ receiver = "open"
  /\ item = "none" /\ answer = "none"
  /\ known = "none" /\ told = FALSE

\* Nothing is left to receive, and nothing will come.
Over == item = "received" \/ (sender = "closed" /\ item = "none")

-----------------------------------------------------------------------------
(* The sender's client. *)

\* A receiver that was closed before gets nothing: the item is in the SendError.
Send ==
  /\ sender = "open"
  /\ sender' = "closed"
  /\ item' = IF receiver = "closed" THEN "error" ELSE "channel"
  /\ UNCHANGED <<receiver, answer, known, told>>

CloseSender ==
  /\ sender = "open"
  /\ sender' = "closed"
  /\ UNCHANGED <<receiver, item, answer, known, told>>

Recover ==
  /\ item = "error"
  /\ item' \in {"returned", "dropped"}
  /\ UNCHANGED <<sender, receiver, answer, known, told>>

\* Sender::is_closed returns true.
Tell ==
  /\ sender = "open" /\ receiver = "closed"
  /\ told' = TRUE
  /\ UNCHANGED <<sender, receiver, item, answer, known>>

-----------------------------------------------------------------------------
(* The receiver's client. *)

Call ==
  /\ receiver = "open"
  /\ answer' = "none"
  /\ UNCHANGED <<sender, receiver, item, known, told>>

\* The running call takes the item; recv closes the receiver with it.
Take ==
  /\ receiver = "open" /\ item = "channel"
  /\ item' = "taken"
  /\ receiver' \in {"open", "closed"}
  /\ UNCHANGED <<sender, answer, known, told>>

Deliver ==
  /\ item = "taken" /\ known # "closed"
  /\ item' = "received"
  /\ answer' = "Ok"
  /\ known' = "closed"
  /\ UNCHANGED <<sender, receiver, told>>

ReportDisconnected ==
  /\ Over /\ known # "message"
  /\ answer' = "Disconnected"
  /\ UNCHANGED <<sender, receiver, item, known, told>>

\* The call ends with nothing, which no client that knows better is told.
ReportNothing ==
  /\ receiver = "open" /\ known = "none" /\ item \notin {"taken", "received"}
  /\ answer' \in {"Empty", "Timeout", "Pending", "panic"}
  /\ UNCHANGED <<sender, receiver, item, known, told>>

\* Receiver::is_closed or has_message returns true.
Learn ==
  /\ receiver = "open"
  /\ \/ Over /\ known' = "closed"
     \/ item = "channel" /\ known' = "message"
  /\ UNCHANGED <<sender, receiver, item, answer, told>>

CloseReceiver ==
  /\ receiver = "open" /\ item # "taken"
  /\ receiver' = "closed"
  /\ UNCHANGED <<sender, item, answer, known, told>>

\* The drop of a future unwinds before it has closed the channel.
LoseReceiver ==
  /\ "drop_waker" \in Panics
  /\ receiver = "open" /\ item # "taken"
  /\ receiver' = "lost"
  /\ UNCHANGED <<sender, item, answer, known, told>>

\* A closed receiver drops the item it was sent and did not take.
Discard ==
  /\ receiver = "closed" /\ item = "channel"
  /\ item' = "dropped"
  /\ UNCHANGED <<sender, receiver, answer, known, told>>

-----------------------------------------------------------------------------
Next ==
  \/ Send \/ CloseSender \/ Recover \/ Tell
  \/ Call \/ Take \/ Deliver \/ ReportDisconnected \/ ReportNothing \/ Learn
  \/ CloseReceiver \/ LoseReceiver \/ Discard

Spec == Init /\ [][Next]_ideal
=============================================================================
