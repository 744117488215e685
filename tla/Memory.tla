------------------------------- MODULE Memory -------------------------------
(***************************************************************************)
(* The memory one oneshot channel lives in: a heap block with one atomic   *)
(* byte, `state', and two plain cells, `message' and `waker', shared by    *)
(* the two ends of the channel.  The sender end is thread "S", the         *)
(* receiver end is thread "R".                                             *)
(*                                                                         *)
(* The atomic follows the C11/Rust rules for a single location.  A write   *)
(* carries the view its thread released with it.  A read-modify-write      *)
(* reads the newest write; a plain load reads the oldest write the thread  *)
(* has not moved past (stale[t], oldest first, then `state'), and          *)
(* Propagate moves the thread on.  A view is a vector clock: view[t][u] is *)
(* how much of u's past happens before t's next step.  Each thread's clock *)
(* advances when it releases.  Two accesses of one cell (or an access and  *)
(* the deallocation) by different threads race unless the first is in the  *)
(* view of the thread that makes the second.                               *)
(*                                                                         *)
(* `faults' collects the undefined behaviour and the leaks met so far.     *)
(***************************************************************************)
EXTENDS Naturals, Sequences

Threads   == {"S", "R"}
Other(t)  == IF t = "S" THEN "R" ELSE "S"
Locations == {"state", "message", "waker"}

\* The orderings of core::sync::atomic, by what they synchronise.
Relaxed == {}
Acquire == {"acquire"}
Release == {"release"}
AcqRel  == {"acquire", "release"}

VARIABLES
  state,   \* the newest write of Channel::state: [val, view]
  stale,   \* stale[t]: older writes of state that t may still read
  view,    \* view[t]: what happens before t's next step
  acq,     \* acq[t]: what an acquire fence of t would add to view[t]
  alive,   \* the heap block has not been freed
  last,    \* last[l][t]: t's clock when it last accessed location l
  faults   \* kinds of undefined behaviour and leaks that have occurred

memory == <<state, stale, view, acq, alive, last, faults>>

Views  == [Threads -> Nat]
U8     == 0 .. 255
Writes == [val : U8, view : Views]
Zero   == [t \in Threads |-> 0]

Join(v, w) == [t \in Threads |-> IF v[t] >= w[t] THEN v[t] ELSE w[t]]

MemoryInit(initial) ==
  /\ state  = [val |-> initial, view |-> Zero]
  /\ stale  = [t \in Threads |-> <<>>]
  /\ view   = [t \in Threads |-> [u \in Threads |-> IF u = t THEN 1 ELSE 0]]
  /\ acq    = [t \in Threads |-> Zero]
  /\ alive  = TRUE
  /\ last   = [l \in Locations |-> Zero]
  /\ faults = {}

-----------------------------------------------------------------------------
(* The atomic byte. *)

\* The write a load of t returns.
Visible(t) == IF stale[t] = <<>> THEN state ELSE Head(stale[t])

\* t moves on to the next write in modification order: stores become visible.
Propagate(t) ==
  /\ stale[t] # <<>>
  /\ stale' = [stale EXCEPT ![t] = Tail(@)]
  /\ UNCHANGED <<state, view, acq, alive, last, faults>>

UseAfterFree == IF alive THEN {} ELSE {"use_after_free"}

\* t's access to location l is on record, with the faults it commits.
Touch(t, l, committed) ==
  /\ last'   = [last EXCEPT ![l][t] = view[t][t]]
  /\ faults' = faults \cup UseAfterFree \cup committed
  /\ alive'  = alive

AtomicLoad(t, order) ==
  /\ view' = IF "acquire" \in order
             THEN [view EXCEPT ![t] = Join(@, Visible(t).view)]
             ELSE view
  /\ acq'  = [acq EXCEPT ![t] = Join(@, Visible(t).view)]
  /\ Touch(t, "state", {})
  /\ UNCHANGED <<state, stale>>

\* The newest write is now `new', written by t; the other end may lag behind.
Publish(t, new) ==
  /\ state' = new
  /\ stale' = [u \in Threads |-> IF u = t THEN <<>> ELSE Append(stale[u], state)]

\* fetch_add, fetch_xor, swap, successful compare_exchange.  The write carries on
\* the release sequence of the write it replaces.
AtomicRmw(t, order, val) ==
  LET seen == IF "acquire" \in order THEN Join(view[t], state.view) ELSE view[t]
      rel  == "release" \in order
  IN  /\ Publish(t, [val  |-> val,
                     view |-> IF rel THEN Join(state.view, seen) ELSE state.view])
      /\ view' = [view EXCEPT ![t] =
                    IF rel THEN [seen EXCEPT ![t] = @ + 1] ELSE seen]
      /\ acq'  = [acq EXCEPT ![t] = Join(@, state.view)]
      /\ Touch(t, "state", {})

\* A relaxed store starts no release sequence.
AtomicStore(t, val) ==
  /\ Publish(t, [val |-> val, view |-> Zero])
  /\ Touch(t, "state", {})
  /\ UNCHANGED <<view, acq>>

FenceAcquire(t) ==
  /\ view' = [view EXCEPT ![t] = Join(@, acq[t])]
  /\ UNCHANGED <<state, stale, acq, alive, last, faults>>

\* t synchronises with a point of the other end's past that follows the other
\* end's last write of state, so nothing older can be read any more.
SyncWith(t, v) ==
  /\ view'  = [view EXCEPT ![t] = Join(@, v)]
  /\ stale' = [stale EXCEPT ![t] = <<>>]
  /\ UNCHANGED <<state, acq, alive, last, faults>>

-----------------------------------------------------------------------------
(* The plain cells and the heap block. *)

Race(t, l) ==
  IF last[l][Other(t)] > view[t][Other(t)] THEN {"data_race"} ELSE {}

\* An exclusive access of t to cell l.
CellAccess(t, l, committed) ==
  /\ Touch(t, l, Race(t, l) \cup committed)
  /\ UNCHANGED <<state, stale, view, acq>>

\* Freeing the block must come after every access of either end.
FreeBlock(t, committed) ==
  /\ alive'  = FALSE
  /\ faults' = faults \cup UseAfterFree \cup committed
                 \cup UNION {Race(t, l) : l \in Locations}
  /\ UNCHANGED <<state, stale, view, acq, last>>

-----------------------------------------------------------------------------
FaultKinds == {"use_after_free", "data_race", "uninit", "leak"}

MemoryTypeOK ==
  /\ state \in Writes
  /\ stale \in [Threads -> Seq(Writes)]
  /\ view \in [Threads -> Views]
  /\ acq \in [Threads -> Views]
  /\ alive \in BOOLEAN
  /\ last \in [Locations -> Views]
  /\ faults \subseteq FaultKinds
=============================================================================
