------------------------------- MODULE RaceInv -------------------------------
(***************************************************************************)
(* Why the accesses of the two ends are ordered: the inductive invariant   *)
(* over the vector clocks that with OwnershipInv proves that a calm        *)
(* channel has no data race, and, kept for the message alone, that no      *)
(* access to a slot races in a channel that is not calm either.  The views *)
(* in play are those of the ends, the one an acquire fence of the receiver *)
(* would add, the one that the newest write of state carries and the one   *)
(* that the token of an unpark carries.                                    *)
(***************************************************************************)
EXTENDS OneshotInv

\* View v covers what t has done so far to location l, or to all of the block.
CoversAt(v, t, l) == last[l][t] <= v[t]
Covers(v, t) == \A l \in Locations : CoversAt(v, t, l)

\* What the sender has done to the locations ls happens before the receiver's next
\* step, or would after an acquire fence, or after a read of the newest write that
\* acquires.
Synced(ls)  == \A l \in ls : CoversAt(view["R"], "S", l)
Fenced(ls)  == \A l \in ls : CoversAt(acq["R"], "S", l)
Carried(ls) == \A l \in ls : CoversAt(state.view, "S", l)

Message == {"message"}

\* What the receiver has done, or its registration alone, happens before the sender's
\* next step, or will once the sender acquires the newest write.
DropAcquired  == Covers(view["S"], "R")
DropCarried   == Covers(state.view, "R")
WakerAcquired == CoversAt(view["S"], "R", "waker")
WakerCarried  == CoversAt(state.view, "R", "waker")

\* An unpark hands over what the sender has done.
TokenCovers == \A v \in token : Covers(v, "S")

\* Each end knows its own past.
ClockInv == \A t \in Threads : Covers(view[t], t)

\* R is in a match arm that has a fence still to come, ...
BeforeFence ==
  {"drop_fence_take_free", "fence_take_free", "drop_fence_free", "fence_free",
   "drop_mark_fence_take", "mark_fence_take", "fence_take", "drop_mark_fence",
   "mark_fence", "fence"}

\* ... or in one that needs none any more.
AfterAcquire ==
  {"take_free", "take", "mark_take", "mark", "wipe_free", "free", "unpark_waited"}

\* R accesses the waker slot, or is going to.
UsesWaker == WakerIsMine \cup {"recv_register", "ref_register", "poll_register"}

\* The client has nothing of the receiver left.
Gone == rpc \in Resting /\ handle \in {"none", "leaked"}

-----------------------------------------------------------------------------
\* The sender has not written state: a registration carries the waker, the swap of
\* a drop carries all, and neither end has touched what is the other's.
FreshRace ==
  spc \in {"idle", "raw", "write_message", "fetch_add", "fetch_xor"} =>
    /\ last["message"]["R"] = 0
    /\ last["waker"]["S"] = 0
    /\ state.val = RECEIVING => WakerCarried
    /\ state.val = DISCONNECTED => DropCarried

\* The sender that takes the waker has acquired the registration, and its UNPARKING
\* carries the message.
WakingRace ==
  /\ spc = "take_waker" => WakerAcquired
  /\ spc \in {"take_waker", "swap"} /\ state.val = UNPARKING => Carried(Message)

\* The sender that owns the channel has acquired the receiver's drop.
OwnerRace == spc \in {"error", "dealloc", "leaked"} => DropAcquired

\* The sender's last write of state carries all it has done, until the receiver
\* replaces it by a relaxed store; whoever does that has acquired it, or will with
\* the fence that follows.
DoneRace(ls) ==
  alive /\ spc \in {"unpark", "unwoken", "done"} =>
    /\ Carried(ls) \/ Synced(ls) \/ rpc \in {"fence_take", "fence"}
    /\ rpc \in BeforeFence  => Fenced(ls) \/ Synced(ls)
    /\ rpc \in AfterAcquire => Synced(ls)

\* The token of an unpark is the last thing a sender leaves.
TokenRace == (token # {} => spc = "done") /\ TokenCovers

\* A thread that waits for the unpark that ends the wake has acquired UNPARKING, and
\* in a calm channel it is up to date once it has waited.
Waiting == {"unpark_wait", "unpark_waited"}
WaitRace(ls) ==
  /\ rpc \in Waiting => Synced(Message)
  /\ ls = Locations /\ rpc = "unpark_waited" => spc = "done" /\ CaughtUp

\* A receiver that is to use the waker slot has not been woken through it.
SlotRace ==
  /\ rpc \in UsesWaker => last["waker"]["S"] = 0
  /\ OneBehind(EMPTY) /\ rpc \notin Waiting /\ ~Gone => last["waker"]["S"] = 0

\* Whatever an end is about to access, it has the other end's accesses of it in its
\* view, the deallocation counted in if ls is all of the block.
OrderInv(ls) ==
  /\ ClockInv
  /\ FreshRace /\ WakingRace /\ OwnerRace /\ DoneRace(ls)
  /\ TokenRace /\ WaitRace(ls) /\ SlotRace
  /\ ls = Locations => NoDataRace

\* The inductive invariant behind NoDataRace, of a calm channel ...
RaceInv == OrderInv(Locations)

\* ... and the one behind SlotsOrdered, of every channel that is not cancelled.
SlotInv == OrderInv(Message)
=============================================================================
