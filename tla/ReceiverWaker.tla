--------------------------- MODULE ReceiverWaker ---------------------------
(***************************************************************************)
(* src/waker.rs and src/thread.rs: how the receiving thread or task is put *)
(* to sleep and woken.  The park token belongs to std::thread, the wake    *)
(* flags to the async executor; both are external and modelled by the      *)
(* contract the code relies on.                                            *)
(***************************************************************************)
EXTENDS Memory

CONSTANTS
  Tasks,            \* the task wakers the executor may pass to poll
  SpuriousWakeups   \* whether park may return without a token

ASSUME TasksAssumption == "thread" \notin Tasks /\ "none" \notin Tasks
ASSUME SpuriousAssumption == SpuriousWakeups \in BOOLEAN

VARIABLES
  token,   \* {} or the view the pending unpark of the receiving thread carries
  woken    \* the task wakers that were woken and not yet answered by a poll

signals == <<token, woken>>

Wakers == {"thread"} \cup Tasks   \* ReceiverWaker::Thread or ReceiverWaker::Task

SignalsInit == token = {} /\ woken = {}

\* ReceiverWaker::unpark by thread t.
unpark(t, w) ==
  IF w = "thread"
  THEN token' = {view[t]} /\ woken' = woken
  ELSE woken' = woken \cup {w} /\ token' = token

\* thread::park returns having consumed the token: unpark synchronises with it.
ParkToken ==
  \E v \in token : /\ SyncWith("R", v)
                   /\ token' = {}
                   /\ woken' = woken

\* thread::park returns for no reason, as its contract allows.
ParkSpurious == SpuriousWakeups /\ UNCHANGED <<memory, signals>>

SignalsTypeOK == token \subseteq Views /\ woken \subseteq Tasks
=============================================================================
