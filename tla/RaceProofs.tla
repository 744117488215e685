----------------------------- MODULE RaceProofs -----------------------------
(***************************************************************************)
(* RaceInv is an invariant of CalmSpec, and with it the absence of data    *)
(* races: every ordering that sender.rs, receiver.rs and channel.rs give   *)
(* to an atomic operation is strong enough.  The same steps, followed for  *)
(* the message alone, make SlotInv an invariant of UncancelledSpec.        *)
(***************************************************************************)
EXTENDS RaceInv, OwnershipProofs

-----------------------------------------------------------------------------
(* What the operations on the memory do to the views the invariant is      *)
(* about.                                                                  *)

\* What the invariant is kept for: all of the block, or the message alone.
Scopes == {Locations, Message}

LEMMA ScopesType ==
  /\ \A ls \in Scopes : ls \subseteq Locations /\ Message \subseteq ls
  /\ Message \in Scopes /\ Locations \in Scopes
BY DEF Scopes, Locations, Message

\* A step that commits no data race.
NoNewRace == NoDataRace => NoDataRace'

\* A step of t that accesses the locations in at, at most.
StepOf(t, at) ==
  /\ \A l \in Locations, u \in Threads :
       last'[l][u] = IF l \in at /\ u = t THEN view[t][t] ELSE last[l][u]
  /\ ClocksGrow
  /\ \A u \in Threads : u # t => view'[u] = view[u]

\* The clocks are numbers.
NatClocks ==
  \A t \in Threads, u \in Threads :
    /\ view[t][u] \in Nat /\ acq[t][u] \in Nat /\ state.view[u] \in Nat
    /\ \A l \in Locations : last[l][u] \in Nat

\* They are in a well typed memory, before a step and after it.
LEMMA ClocksAreNat == (MemoryTypeOK => NatClocks) /\ (MemoryTypeOK' => NatClocks')
<1>1. MemoryTypeOK => NatClocks
  BY DEF NatClocks, MemoryTypeOK, Writes, Views
<1>2. MemoryTypeOK' => NatClocks'
  BY DEF NatClocks, MemoryTypeOK, Writes, Views
<1> QED
  BY <1>1, <1>2

\* A thread that accesses a location knows of it.
LEMMA ClockStep ==
  ASSUME MemoryTypeOK, MemoryTypeOK', ClockInv,
         NEW t \in Threads, NEW at, StepOf(t, at)
  PROVE  ClockInv'
<1>1. \A u \in Threads, l \in Locations : last'[l][u] <= view'[u][u]
  <2> TAKE u \in Threads, l \in Locations
  <2>1. last[l][u] <= view[u][u] /\ view'[u][u] >= view[u][u]
    BY DEF ClockInv, Covers, CoversAt, StepOf, ClocksGrow
  <2>2. last'[l][u] = last[l][u] \/ last'[l][u] = view[u][u]
    BY DEF StepOf
  <2>3. last[l][u] \in Nat /\ view[u][u] \in Nat /\ view'[u][u] \in Nat
    BY ClocksAreNat DEF NatClocks
  <2> QED
    BY <2>1, <2>2, <2>3
<1> QED
  BY <1>1 DEF ClockInv, Covers, CoversAt

\* What a step of the receiver leaves as it was or makes better.
ReceiverClocks(ls) ==
  /\ last'["waker"]["S"] = last["waker"]["S"]
  /\ ClockInv => ClockInv'
  /\ Synced(ls) => Synced(ls)'
  /\ Fenced(ls) => Fenced(ls)'
  /\ UNCHANGED state => (Carried(ls) => Carried(ls)')
  /\ Synced(Message) => Synced(Message)'
  /\ UNCHANGED state => (Carried(Message) => Carried(Message)')
  /\ UNCHANGED token => (TokenCovers => TokenCovers')

\* A step of the receiver knows no less of the sender than before.
LEMMA ReceiverStepClocks ==
  ASSUME NEW ls \in Scopes, MemoryTypeOK, MemoryTypeOK', NEW at, StepOf("R", at)
  PROVE  ReceiverClocks(ls)
<1>1. \A l \in Locations : last'[l]["S"] = last[l]["S"]
  BY ConstantsType DEF StepOf
<1>2. ClockInv => ClockInv'
  BY ClockStep, ConstantsType
<1>3. view'["R"]["S"] >= view["R"]["S"] /\ acq'["R"]["S"] >= acq["R"]["S"]
  BY ConstantsType DEF StepOf, ClocksGrow
<1>4. /\ {view["R"]["S"], view'["R"]["S"], acq["R"]["S"], acq'["R"]["S"]} \subseteq Nat
      /\ \A l \in Locations : last[l]["S"] \in Nat
  BY ClocksAreNat, ConstantsType DEF NatClocks
<1>5. /\ (Synced(ls) => Synced(ls)') /\ (Fenced(ls) => Fenced(ls)')
      /\ Synced(Message) => Synced(Message)'
  BY <1>1, <1>3, <1>4, ScopesType DEF Synced, Fenced, CoversAt
<1>6. /\ UNCHANGED state => (Carried(ls) => Carried(ls)')
      /\ UNCHANGED state => (Carried(Message) => Carried(Message)')
      /\ UNCHANGED token => (TokenCovers => TokenCovers')
  BY <1>1, ScopesType DEF Carried, TokenCovers, Covers, CoversAt
<1> QED
  BY <1>1, <1>2, <1>5, <1>6 DEF ReceiverClocks, Locations

\* A load of the receiver learns what the write it returns carries.
LEMMA ReceiverLoadClocks ==
  ASSUME NEW ls \in Scopes, MemoryTypeOK, MemoryTypeOK', NEW order, AtomicLoad("R", order)
  PROVE  /\ ReceiverClocks(ls)
         /\ CaughtUp /\ Carried(ls) => Fenced(ls)'
         /\ CaughtUp /\ Carried(ls) /\ "acquire" \in order => Synced(ls)'
         /\ view'["S"] = view["S"]
         /\ last'["message"]["R"] = last["message"]["R"]
         /\ last'["waker"]["R"] = last["waker"]["R"]
<1>1. \A l \in Locations, u \in Threads :
        last'[l][u] = IF l \in {"state"} /\ u = "R" THEN view["R"]["R"] ELSE last[l][u]
  BY TouchClocks, ConstantsType DEF AtomicLoad, Locations
<1>2. /\ ClocksGrow
      /\ view'["S"] = view["S"]
      /\ acq'["R"]["S"] >= Visible("R").view["S"]
      /\ "acquire" \in order => view'["R"]["S"] >= Visible("R").view["S"]
  BY LoadClocks, ConstantsType
<1>3. StepOf("R", {"state"})
  BY <1>1, <1>2 DEF StepOf, Threads
<1>4. CaughtUp => Visible("R") = state
  BY VisibleEffect
<1>5. /\ {state.view["S"], view'["R"]["S"], acq'["R"]["S"]} \subseteq Nat
      /\ \A l \in Locations : last[l]["S"] \in Nat /\ last'[l]["S"] = last[l]["S"]
  BY <1>1, ClocksAreNat, ConstantsType DEF NatClocks
<1>6. CaughtUp /\ Carried(ls) => Fenced(ls)'
  BY <1>2, <1>4, <1>5, ScopesType DEF Carried, Fenced, CoversAt
<1>7. CaughtUp /\ Carried(ls) /\ "acquire" \in order => Synced(ls)'
  BY <1>2, <1>4, <1>5, ScopesType DEF Carried, Synced, CoversAt
<1> QED
  BY <1>1, <1>2, <1>3, <1>6, <1>7, ReceiverStepClocks, ConstantsType DEF Locations

\* A read-modify-write of the receiver learns what the newest write carries; its own
\* write carries that on, and the receiver's past if it releases.
LEMMA ReceiverRmwClocks ==
  ASSUME NEW ls \in Scopes, MemoryTypeOK, MemoryTypeOK', ClockInv,
         NEW order, NEW val, AtomicRmw("R", order, val)
  PROVE  /\ ReceiverClocks(ls)
         /\ Carried(ls) => Carried(ls)' /\ Fenced(ls)'
         /\ Carried(ls) /\ "acquire" \in order => Synced(ls)'
         /\ Carried(Message) /\ "acquire" \in order => Synced(Message)'
         /\ "release" \in order => DropCarried' /\ WakerCarried'
         /\ view'["S"] = view["S"]
         /\ last'["message"]["R"] = last["message"]["R"]
         /\ last'["waker"]["R"] = last["waker"]["R"]
<1>1. \A l \in Locations, u \in Threads :
        last'[l][u] = IF l \in {"state"} /\ u = "R" THEN view["R"]["R"] ELSE last[l][u]
  BY TouchClocks, ConstantsType DEF AtomicRmw, Locations
<1>2. /\ ClocksGrow
      /\ view'["S"] = view["S"]
      /\ acq'["R"]["S"] >= state.view["S"]
      /\ "acquire" \in order => view'["R"]["S"] >= state.view["S"]
      /\ state'.view["S"] >= state.view["S"]
      /\ "release" \in order => state'.view["R"] >= view["R"]["R"]
  BY RmwClocks, ConstantsType
<1>3. StepOf("R", {"state"})
  BY <1>1, <1>2 DEF StepOf, Threads
<1>4. /\ {state.view["S"], state'.view["S"], view'["R"]["S"], acq'["R"]["S"]} \subseteq Nat
      /\ \A l \in Locations : last[l]["S"] \in Nat /\ last'[l]["S"] = last[l]["S"]
  BY <1>1, ClocksAreNat, ConstantsType DEF NatClocks
<1>5. Carried(ls) => Carried(ls)' /\ Fenced(ls)'
  BY <1>2, <1>4, ScopesType DEF Carried, Fenced, CoversAt
<1>6. /\ Carried(ls) /\ "acquire" \in order => Synced(ls)'
      /\ Carried(Message) /\ "acquire" \in order => Synced(Message)'
  BY <1>2, <1>4, ScopesType DEF Carried, Synced, CoversAt
<1>7. ASSUME "release" \in order PROVE DropCarried' /\ WakerCarried'
  <2>1. /\ {state'.view["R"], view["R"]["R"]} \subseteq Nat
        /\ \A l \in Locations : last[l]["R"] \in Nat /\ last[l]["R"] <= view["R"]["R"]
        /\ \A l \in Locations : last'[l]["R"] \in {last[l]["R"], view["R"]["R"]}
    BY <1>1, ClocksAreNat, ConstantsType DEF NatClocks, ClockInv, Covers, CoversAt
  <2>2. \A l \in Locations : last'[l]["R"] <= state'.view["R"]
    BY <1>2, <1>7, <2>1
  <2> QED
    BY <2>2 DEF DropCarried, WakerCarried, Covers, CoversAt, Locations
<1> QED
  BY <1>1, <1>2, <1>3, <1>5, <1>6, <1>7, ReceiverStepClocks, ConstantsType DEF Locations

\* A store of the receiver learns nothing and carries nothing.
LEMMA ReceiverStoreClocks ==
  ASSUME NEW ls \in Scopes, MemoryTypeOK, MemoryTypeOK', NEW val, AtomicStore("R", val)
  PROVE  ReceiverClocks(ls)
<1>1. \A l \in Locations, u \in Threads :
        last'[l][u] = IF l \in {"state"} /\ u = "R" THEN view["R"]["R"] ELSE last[l][u]
  BY TouchClocks, ConstantsType DEF AtomicStore, Locations
<1>2. UNCHANGED <<view, acq>>
  BY DEF AtomicStore
<1>3. \A t \in Threads, u \in Threads : view[t][u] \in Nat /\ acq[t][u] \in Nat
  BY ClocksAreNat DEF NatClocks
<1>4. ClocksGrow
  BY <1>2, <1>3 DEF ClocksGrow
<1> QED
  BY <1>1, <1>2, <1>4, ReceiverStepClocks DEF StepOf

\* An acquire fence of the receiver makes what it has collected its own.
LEMMA ReceiverFenceClocks ==
  ASSUME NEW ls \in Scopes, MemoryTypeOK, MemoryTypeOK', FenceAcquire("R")
  PROVE  /\ ReceiverClocks(ls)
         /\ Fenced(ls) => Synced(ls)'
         /\ UNCHANGED <<state, stale, alive, faults>>
<1>1. UNCHANGED <<state, stale, alive, last, faults>>
  BY DEF FenceAcquire
<1>2. /\ ClocksGrow
      /\ \A u \in Threads : u # "R" => view'[u] = view[u]
      /\ view'["R"]["S"] >= acq["R"]["S"]
  BY FenceClocks, ConstantsType
<1>3. StepOf("R", {})
  BY <1>1, <1>2 DEF StepOf
<1>4. /\ {acq["R"]["S"], view'["R"]["S"]} \subseteq Nat
      /\ \A l \in Locations : last[l]["S"] \in Nat
  BY ClocksAreNat, ConstantsType DEF NatClocks
<1>5. Fenced(ls) => Synced(ls)'
  BY <1>1, <1>2, <1>4, ScopesType DEF Fenced, Synced, CoversAt
<1> QED
  BY <1>1, <1>3, <1>5, ReceiverStepClocks

\* A park that takes the token makes what the sender has done its own.
LEMMA ReceiverParkClocks ==
  ASSUME NEW ls \in Scopes, MemoryTypeOK, MemoryTypeOK', SignalsTypeOK, TokenCovers, ParkToken
  PROVE  /\ ReceiverClocks(ls)
         /\ Synced(ls)' /\ Synced(Message)' /\ CaughtUp' /\ TokenCovers'
         /\ token # {} /\ token' = {}
         /\ view'["S"] = view["S"]
         /\ UNCHANGED <<state, alive, last, faults>>
<1>1. PICK v \in token : SyncWith("R", v) /\ token' = {}
  BY DEF ParkToken
<1>2. v \in Views
  BY DEF SignalsTypeOK
<1>3. /\ UNCHANGED <<state, alive, last, faults>>
      /\ CaughtUp'
  BY <1>1, ConstantsType DEF SyncWith, CaughtUp, MemoryTypeOK
<1>4. /\ ClocksGrow
      /\ \A u \in Threads : u # "R" => view'[u] = view[u]
      /\ view'["R"]["S"] >= v["S"]
  BY <1>1, <1>2, SyncClocks, ConstantsType
<1>5. StepOf("R", {})
  BY <1>3, <1>4 DEF StepOf
<1>6. /\ v["S"] \in Nat /\ view'["R"]["S"] \in Nat
      /\ \A l \in Locations : last[l]["S"] \in Nat
  BY <1>2, ClocksAreNat, ConstantsType DEF NatClocks, Views
<1>7. Synced(ls)' /\ Synced(Message)'
  BY <1>3, <1>4, <1>6, ScopesType DEF TokenCovers, Synced, Covers, CoversAt
<1>8. TokenCovers'
  BY <1>1 DEF TokenCovers
<1> QED
  BY <1>1, <1>3, <1>4, <1>5, <1>7, <1>8, ReceiverStepClocks, ConstantsType

\* An access of the receiver to a cell whose last access by the sender it knows of is
\* no race.
LEMMA ReceiverCellClocks ==
  ASSUME NEW ls \in Scopes, MemoryTypeOK, MemoryTypeOK', NEW l \in Locations,
         CoversAt(view["R"], "S", l),
         NEW committed, "data_race" \notin committed, CellAccess("R", l, committed)
  PROVE  /\ ReceiverClocks(ls)
         /\ NoNewRace
         /\ UNCHANGED <<state, stale, view, alive>>
         /\ \A m \in Locations : m # l => last'[m]["R"] = last[m]["R"]
<1>1. UNCHANGED <<state, stale, view, acq, alive>>
  BY DEF CellAccess, Touch
<1>2. \A m \in Locations, u \in Threads :
        last'[m][u] = IF m \in {l} /\ u = "R" THEN view["R"]["R"] ELSE last[m][u]
  BY TouchClocks, ConstantsType DEF CellAccess
<1>3. ClocksGrow
  BY <1>1, ClocksAreNat DEF ClocksGrow, NatClocks
<1>4. StepOf("R", {l})
  BY <1>1, <1>2, <1>3 DEF StepOf
<1>5. Race("R", l) = {}
  <2>1. last[l]["S"] \in Nat /\ view["R"]["S"] \in Nat
    BY ClocksAreNat, ConstantsType DEF NatClocks
  <2> QED
    BY <2>1 DEF Race, Other, CoversAt
<1>6. NoNewRace
  BY <1>5 DEF NoNewRace, NoDataRace, CellAccess, Touch, UseAfterFree
<1> QED
  BY <1>1, <1>2, <1>4, <1>6, ReceiverStepClocks, ConstantsType

\* A receiver that knows all the sender has done may free the block.
LEMMA ReceiverFreeClocks ==
  ASSUME NEW ls \in Scopes, MemoryTypeOK, MemoryTypeOK', Synced(ls), dealloc("R")
  PROVE  /\ ReceiverClocks(ls) /\ ~alive' /\ UNCHANGED <<state, stale, view, last>>
         /\ ls = Locations => NoNewRace
<1>1. UNCHANGED <<state, stale, view, acq, last>> /\ ~alive'
  BY DEF dealloc, FreeBlock
<1>2. StepOf("R", {})
  BY <1>1, ClocksAreNat DEF StepOf, ClocksGrow, NatClocks
<1>3. ls = Locations => \A l \in Locations : Race("R", l) = {}
  <2>1. \A l \in Locations : last[l]["S"] \in Nat /\ view["R"]["S"] \in Nat
    BY ClocksAreNat, ConstantsType DEF NatClocks
  <2> QED
    BY <2>1 DEF Race, Other, Synced, CoversAt
<1>4. ls = Locations => NoNewRace
  BY <1>3 DEF NoNewRace, NoDataRace, dealloc, FreeBlock, UseAfterFree, Fault
<1> QED
  BY <1>1, <1>2, <1>4, ReceiverStepClocks

-----------------------------------------------------------------------------
(* The steps of the receiving end. *)

\* Where the sender is, by what OwnershipInv says of the receiver.
LEMMA Placed ==
  ASSUME OwnershipInv
  PROVE  /\ ~Gone => alive
         /\ ~Gone => spc \notin {"error", "dealloc", "leaked"}
         /\ ~Gone /\ state.val = DISCONNECTED => ~FreshInv
         /\ rpc \in MessageIsMine \cup NothingLeft =>
              alive /\ CaughtUp /\ spc \in {"unpark", "unwoken", "done"}
         /\ spc \in {"idle", "raw", "write_message", "fetch_add", "fetch_xor"} => FreshInv
         /\ spc \in {"take_waker", "swap"} => WakingInv
BY DEF OwnershipInv, PhaseInv, FreshInv, WakingInv, OwnerInv, OpenInv, ClosingInv, FreedInv,
   DoneInv, Unregistered, Registered, Unsure, Resting, WakerIsMine, MessageIsMine,
   NothingLeft, Gone, EMPTY, RECEIVING, UNPARKING, MESSAGE, DISCONNECTED

\* A load that returns EMPTY is older than any write of the sender, or returns the
\* write the sender's only one has replaced.
LEMMA SeesEmpty ==
  ASSUME OwnershipInv, ~Gone, Visible("R").val = EMPTY,
         rpc \notin MessageIsMine \cup NothingLeft \cup {"unpark_wait", "unpark_waited"}
  PROVE  FreshInv \/ OneBehind(EMPTY)
<1>1. MemoryTypeOK
  BY DEF OwnershipInv, TypeInv, Typed, ChannelTypeOK
<1>2. /\ CaughtUp => state.val = EMPTY
      /\ ~OneBehind(RECEIVING) /\ ~OneBehind(UNPARKING) /\ ~TwoBehind
  BY <1>1, VisibleEffect DEF EMPTY, RECEIVING, UNPARKING
<1>3. ~ClosingInv
  BY DEF ClosingInv
<1> QED
  BY <1>2, <1>3 DEF OwnershipInv, PhaseInv, WakingInv, OwnerInv, OpenInv, FreedInv, DoneInv,
     Gone, Resting, EMPTY, UNPARKING, MESSAGE, DISCONNECTED

\* A load of the receiver that is acted upon as the code does makes no race.
LEMMA ReceiverReads ==
  ASSUME NEW ls \in Scopes, OwnershipInv, OwnershipInv', OrderInv(ls),
         UNCHANGED <<spc, token>>, NEW order, AtomicLoad("R", order), ~Gone,
         rpc \notin MessageIsMine \cup NothingLeft, rpc # "unpark_wait",
         rpc' # "unpark_waited", rpc' = "unpark_wait" => rpc = "unpark_waited",
         rpc = "unpark_waited" /\ Visible("R").val = EMPTY => rpc' = "unpark_wait",
         rpc' \in AfterAcquire => "acquire" \in order \/ rpc = "unpark_waited",
         rpc' \in UsesWaker => rpc \in UsesWaker
                                \/ (Visible("R").val = EMPTY /\ rpc # "unpark_waited")
  PROVE  OrderInv(ls)'
<1>1. MemoryTypeOK /\ MemoryTypeOK'
  BY DEF OwnershipInv, TypeInv, Typed, ChannelTypeOK
<1>2. alive /\ UNCHANGED <<state, stale, alive, faults>>
  BY LoadEffect, Placed
<1>3. /\ ReceiverClocks(ls)
      /\ CaughtUp /\ Carried(ls) => Fenced(ls)'
      /\ CaughtUp /\ Carried(ls) /\ "acquire" \in order => Synced(ls)'
      /\ view'["S"] = view["S"]
      /\ last'["message"]["R"] = last["message"]["R"]
      /\ last'["waker"]["R"] = last["waker"]["R"]
  BY <1>1, ReceiverLoadClocks
<1>4. /\ last'["waker"]["S"] = last["waker"]["S"]
      /\ ClockInv' /\ TokenCovers' /\ NoNewRace
      /\ (Carried(ls) => Carried(ls)') /\ (Carried(Message) => Carried(Message)')
      /\ (Synced(ls) => Synced(ls)')   /\ (Synced(Message) => Synced(Message)')
      /\ (Fenced(ls) => Fenced(ls)')
  BY <1>2, <1>3 DEF ReceiverClocks, OrderInv, TokenRace, NoNewRace, NoDataRace
<1>5. FreshRace'
  BY <1>2, <1>3, <1>4, Placed DEF OrderInv, FreshRace, WakerCarried, CoversAt
<1>6. WakingRace' /\ OwnerRace'
  BY <1>2, <1>3, <1>4, Placed DEF OrderInv, WakingRace, OwnerRace, WakerAcquired, CoversAt
<1>7. DoneRace(ls)'
  <2>1. rpc' \in BeforeFence \cup AfterAcquire => CaughtUp' \/ rpc' = "unpark_waited"
    BY DEF OwnershipInv, PhaseInv, FreshInv, WakingInv, OwnerInv, OpenInv, ClosingInv,
       FreedInv, DoneInv, Unregistered, Registered, Unsure, Resting, BeforeFence,
       AfterAcquire
  <2>2. CaughtUp' => CaughtUp
    BY <1>2 DEF CaughtUp
  <2>3. spc \in {"unpark", "unwoken", "done"} => Carried(ls) \/ Synced(ls)
    BY <1>2 DEF OrderInv, DoneRace, MessageIsMine, NothingLeft
  <2>4. spc \in {"unpark", "unwoken", "done"} /\ rpc = "unpark_waited" => Synced(ls)
    BY <1>2 DEF OrderInv, DoneRace, AfterAcquire
  <2> QED
    BY <1>3, <1>4, <2>1, <2>2, <2>3, <2>4 DEF DoneRace
<1>8. TokenRace' /\ WaitRace(ls)'
  BY <1>4 DEF OrderInv, TokenRace, WaitRace, Waiting
<1>9. SlotRace'
  <2>1. OneBehind(EMPTY)' => OneBehind(EMPTY)
    BY <1>2 DEF OneBehind, EMPTY
  <2>2. FreshInv => last["waker"]["S"] = 0
    BY DEF FreshInv, OrderInv, FreshRace
  <2>3. OneBehind(EMPTY) /\ rpc' \notin Waiting => rpc \notin Waiting
    BY <1>1, VisibleEffect DEF Waiting, EMPTY
  <2> QED
    BY <1>4, <2>1, <2>2, <2>3, SeesEmpty DEF OrderInv, SlotRace, Waiting
<1> QED
  BY <1>4, <1>5, <1>6, <1>7, <1>8, <1>9 DEF OrderInv, NoNewRace

\* The steps that act upon a load of state.
LEMMA ReceiverLoadsRace ==
  ASSUME NEW ls \in Scopes, OwnershipInv, OwnershipInv', OrderInv(ls), ReceiverNext,
         \/ TryRecvLoad \/ RecvLoad \/ RecvParked \/ StartRecvRefLoad \/ RefParked
         \/ wait_for_unpark \/ PollLoad \/ PollSpin \/ AsyncDropLoad
         \/ AsyncDropSpin \/ is_closed \/ has_message
  PROVE  OrderInv(ls)'
<1>1. spc' = spc
  BY DEF ReceiverNext, senderVars
<1> USE DEF MatchLoad, RGoto, Arm, Unreachable, Gone, Resting, MessageIsMine, NothingLeft,
    AfterAcquire, UsesWaker, WakerIsMine, signals, EMPTY, Relaxed, Acquire
<1>2. CASE TryRecvLoad \/ RecvLoad \/ PollLoad \/ PollSpin \/ AsyncDropLoad \/ AsyncDropSpin
  <2>1. AtomicLoad("R", Relaxed) /\ token' = token /\ ~Gone
    BY <1>2 DEF TryRecvLoad, RecvLoad, PollLoad, PollSpin, AsyncDropLoad, AsyncDropSpin
  <2>2. rpc \in {"try_recv", "recv", "poll", "poll_spin", "async_drop", "async_drop_spin"}
    BY <1>2 DEF TryRecvLoad, RecvLoad, PollLoad, PollSpin, AsyncDropLoad, AsyncDropSpin
  <2>3. /\ rpc' \notin AfterAcquire /\ rpc' # "unpark_wait"
        /\ rpc' \in UsesWaker => Visible("R").val = EMPTY
    BY <1>2 DEF TryRecvLoad, RecvLoad, PollLoad, PollSpin, AsyncDropLoad, AsyncDropSpin,
       TryRecvArms, RecvArms, PollArms, PollSpinArms, AsyncDropSpinArms
  <2> QED
    BY <1>1, <2>1, <2>2, <2>3, ReceiverReads
<1>3. CASE RecvParked \/ StartRecvRefLoad \/ RefParked
  <2>1. AtomicLoad("R", Acquire) /\ token' = token /\ ~Gone
    BY <1>3 DEF RecvParked, StartRecvRefLoad, RefParked
  <2>2. rpc \in {"recv_parked", "start_recv_ref", "ref_parked"}
    BY <1>3 DEF RecvParked, StartRecvRefLoad, RefParked
  <2>3. /\ rpc' \notin {"unpark_wait", "unpark_waited"}
        /\ rpc' \in UsesWaker => Visible("R").val = EMPTY
    BY <1>3 DEF RecvParked, StartRecvRefLoad, RefParked, RecvParkedArms, StartRecvRefArms,
       RefParkedArms, OwnershipInv, TypeInv, FinishInv
  <2> QED
    BY <1>1, <2>1, <2>2, <2>3, ReceiverReads
<1>4. CASE wait_for_unpark
  <2>1. AtomicLoad("R", Relaxed) /\ token' = token /\ ~Gone /\ rpc = "unpark_waited"
    BY <1>4 DEF wait_for_unpark
  <2>2. /\ rpc' # "unpark_waited" /\ rpc' \notin UsesWaker
        /\ Visible("R").val = EMPTY => rpc' = "unpark_wait"
    BY <1>4 DEF wait_for_unpark, WaitForUnparkArms
  <2> QED
    BY <1>1, <2>1, <2>2, ReceiverReads
<1>5. CASE is_closed \/ has_message
  <2>1. /\ AtomicLoad("R", Relaxed) \/ AtomicLoad("R", Acquire)
        /\ token' = token /\ ~Gone /\ rpc = "idle" /\ rpc' = "idle"
    BY <1>5 DEF is_closed, has_message
  <2> QED
    BY <1>1, <2>1, ReceiverReads
<1> QED
  BY <1>2, <1>3, <1>4, <1>5

\* A receiver that has no older write to read is not one write behind.
LEMMA NotBehind == CaughtUp' => ~OneBehind(EMPTY)'
BY DEF CaughtUp, OneBehind

\* A read-modify-write of the receiver that is acted upon as the code does makes no
\* race.
LEMMA ReceiverPublishes ==
  ASSUME NEW ls \in Scopes, OwnershipInv, OwnershipInv', OrderInv(ls),
         UNCHANGED <<spc, token>>, NEW order, NEW val, AtomicRmw("R", order, val), ~Gone,
         rpc \notin MessageIsMine \cup NothingLeft, rpc' # "unpark_waited",
         rpc' = "unpark_wait" => state.val = UNPARKING /\ "acquire" \in order,
         val = EMPTY \/ (val \in {RECEIVING, DISCONNECTED} /\ "release" \in order),
         rpc' \in AfterAcquire => "acquire" \in order,
         rpc' \in UsesWaker => rpc \in UsesWaker \/ state.val = RECEIVING
  PROVE  OrderInv(ls)'
<1>1. MemoryTypeOK /\ MemoryTypeOK'
  BY DEF OwnershipInv, TypeInv, Typed, ChannelTypeOK
<1>2. alive /\ state'.val = val /\ CaughtUp' /\ UNCHANGED <<alive, faults>>
  BY ReceiverRmwEffect, Placed
<1>3. /\ ReceiverClocks(ls)
      /\ Carried(ls) => Carried(ls)' /\ Fenced(ls)'
      /\ Carried(ls) /\ "acquire" \in order => Synced(ls)'
      /\ Carried(Message) /\ "acquire" \in order => Synced(Message)'
      /\ "release" \in order => DropCarried' /\ WakerCarried'
      /\ view'["S"] = view["S"]
      /\ last'["message"]["R"] = last["message"]["R"]
      /\ last'["waker"]["R"] = last["waker"]["R"]
  BY <1>1, ReceiverRmwClocks DEF OrderInv
<1>4. /\ last'["waker"]["S"] = last["waker"]["S"]
      /\ ClockInv' /\ TokenCovers' /\ NoNewRace
      /\ (Fenced(ls) => Fenced(ls)') /\ (Synced(ls) => Synced(ls)')
  BY <1>2, <1>3 DEF ReceiverClocks, OrderInv, TokenRace, NoNewRace, NoDataRace
<1>5. FreshRace'
  BY <1>2, <1>3, <1>4 DEF OrderInv, FreshRace, EMPTY, RECEIVING, DISCONNECTED
<1>6. WakingRace' /\ OwnerRace'
  BY <1>2, <1>3, Placed DEF OrderInv, WakingRace, OwnerRace, WakerAcquired, CoversAt, EMPTY,
     RECEIVING, UNPARKING, DISCONNECTED
<1>7. DoneRace(ls)'
  <2>1. spc \in {"unpark", "unwoken", "done"} => Carried(ls) \/ Synced(ls)
    BY <1>2 DEF OrderInv, DoneRace, MessageIsMine, NothingLeft
  <2> QED
    BY <1>3, <1>4, <2>1 DEF DoneRace
<1>8. TokenRace' /\ WaitRace(ls)'
  <2>1. state.val = UNPARKING => WakingInv
    BY DEF OwnershipInv, PhaseInv, FreshInv, OwnerInv, OpenInv, ClosingInv, FreedInv, DoneInv,
       Gone, Resting, RECEIVING, EMPTY, UNPARKING, MESSAGE, DISCONNECTED
  <2>2. state.val = UNPARKING => Carried(Message)
    BY <2>1 DEF OrderInv, WakingRace, WakingInv
  <2> QED
    BY <1>3, <1>4, <2>2 DEF OrderInv, TokenRace, WaitRace, Waiting
<1>9. SlotRace'
  <2>1. state.val = RECEIVING => FreshInv
    BY DEF OwnershipInv, PhaseInv, WakingInv, OwnerInv, OpenInv, ClosingInv, FreedInv, DoneInv,
       Gone, Resting, RECEIVING, EMPTY, UNPARKING, MESSAGE, DISCONNECTED
  <2>2. FreshInv => last["waker"]["S"] = 0
    BY DEF FreshInv, OrderInv, FreshRace
  <2> QED
    BY <1>2, <1>4, <2>1, <2>2, NotBehind DEF OrderInv, SlotRace
<1> QED
  BY <1>4, <1>5, <1>6, <1>7, <1>8, <1>9 DEF OrderInv, NoNewRace

\* The steps that act upon a swap of state.
LEMMA ReceiverSwapsRace ==
  ASSUME NEW ls \in Scopes, OwnershipInv, OwnershipInv', OrderInv(ls), ReceiverNext,
         \/ RecvSwap \/ RefSwap \/ DeadlineSwap \/ DropSwap \/ AsyncDropSwap
  PROVE  OrderInv(ls)'
<1>1. spc' = spc
  BY DEF ReceiverNext, senderVars
<1> USE DEF MatchSwap, RGoto, Arm, Unreachable, Gone, Resting, MessageIsMine, NothingLeft,
    AfterAcquire, UsesWaker, WakerIsMine, signals, Acquire, Release, AcqRel,
    RECEIVING, EMPTY, DISCONNECTED
<1>2. CASE RecvSwap \/ RefSwap
  <2>1. AtomicRmw("R", Release, RECEIVING) /\ token' = token /\ ~Gone
    BY <1>2 DEF RecvSwap, RefSwap
  <2>2. /\ rpc \in {"recv_swap", "ref_swap"}
        /\ rpc' \notin AfterAcquire /\ rpc' # "unpark_wait"
    BY <1>2 DEF RecvSwap, RefSwap, RecvSwapArms, RefSwapArms, OwnershipInv, TypeInv, FinishInv
  <2> QED
    BY <1>1, <2>1, <2>2, ReceiverPublishes
<1>3. CASE DeadlineSwap
  <2>1. AtomicRmw("R", Acquire, EMPTY) /\ token' = token /\ ~Gone
    BY <1>3 DEF DeadlineSwap
  <2>2. /\ rpc = "deadline_swap" /\ rpc' # "unpark_waited"
        /\ rpc' = "unpark_wait" => state.val = UNPARKING
        /\ rpc' \in UsesWaker => state.val = RECEIVING
    BY <1>3 DEF DeadlineSwap, DeadlineSwapArms
  <2> QED
    BY <1>1, <2>1, <2>2, ReceiverPublishes
<1>4. CASE DropSwap \/ AsyncDropSwap
  <2>1. AtomicRmw("R", AcqRel, DISCONNECTED) /\ token' = token /\ ~Gone
    BY <1>4 DEF DropSwap, AsyncDropSwap
  <2>2. /\ rpc \in {"drop_swap", "async_drop_swap"}
        /\ rpc' \notin UsesWaker \cup {"unpark_wait", "unpark_waited"}
    BY <1>4 DEF DropSwap, AsyncDropSwap, ReceiverDropArms, AsyncDropArms
  <2> QED
    BY <1>1, <2>1, <2>2, ReceiverPublishes
<1> QED
  BY <1>2, <1>3, <1>4

\* The steps that act upon a compare_exchange of state.
LEMMA ReceiverExchangesRace ==
  ASSUME NEW ls \in Scopes, OwnershipInv, OwnershipInv', OrderInv(ls), ReceiverNext,
         \/ PollCasEmpty \/ WriteAsyncWaker \/ AsyncDropCas
  PROVE  OrderInv(ls)'
<1>1. spc' = spc
  BY DEF ReceiverNext, senderVars
<1>2. /\ rpc \in {"poll_cas_empty", "poll_cas_receiving", "async_drop_cas"}
      /\ token' = token
  BY DEF PollCasEmpty, WriteAsyncWaker, AsyncDropCas, MatchCas, signals
<1>3. CASE /\ AtomicLoad("R", Relaxed)
           /\ rpc' \notin AfterAcquire /\ rpc' # "unpark_wait"
           /\ rpc' \in UsesWaker => rpc = "poll_cas_receiving"
  BY <1>1, <1>2, <1>3, ReceiverReads
  DEF Gone, Resting, MessageIsMine, NothingLeft, AfterAcquire, UsesWaker, WakerIsMine
<1>4. CASE /\ state.val = RECEIVING
           /\ AtomicRmw("R", Relaxed, EMPTY)
           /\ rpc' \in {"drop_register", "drop_close"}
  BY <1>1, <1>2, <1>4, ReceiverPublishes
  DEF Gone, Resting, MessageIsMine, NothingLeft, AfterAcquire, RECEIVING, EMPTY, DISCONNECTED
<1>5. CASE AtomicRmw("R", Release, RECEIVING) /\ rpc' = "return"
  BY <1>1, <1>2, <1>5, ReceiverPublishes
  DEF Gone, Resting, MessageIsMine, NothingLeft, AfterAcquire, UsesWaker, WakerIsMine,
      Release
<1> QED
  BY <1>3, <1>4, <1>5
  DEF PollCasEmpty, WriteAsyncWaker, AsyncDropCas, MatchCas, RGoto, Arm, Unreachable,
      PollCasEmptyArms, WriteAsyncWakerArms, AfterAcquire, UsesWaker, WakerIsMine

\* A step of the receiver that leaves the memory alone makes no race.
LEMMA ReceiverElsewhere ==
  ASSUME NEW ls \in Scopes, OrderInv(ls), UNCHANGED <<memory, spc, token>>, Gone => Gone',
         rpc \notin {"fence_take", "fence"},
         rpc' \notin BeforeFence \cup UsesWaker, rpc \in Waiting <=> rpc' \in Waiting,
         rpc' \in AfterAcquire => rpc' = "unpark_waited" /\ ls # Locations
  PROVE  OrderInv(ls)'
<1>1. UNCHANGED <<state, stale, view, acq, alive, last, faults>>
  BY DEF memory
<1>2. /\ ClockInv' /\ NoNewRace /\ TokenCovers'
      /\ Carried(ls)' = Carried(ls) /\ Synced(ls)' = Synced(ls)
      /\ Carried(Message)' = Carried(Message) /\ Synced(Message)' = Synced(Message)
      /\ WakerCarried' = WakerCarried /\ DropCarried' = DropCarried
      /\ WakerAcquired' = WakerAcquired /\ DropAcquired' = DropAcquired
  BY <1>1 DEF OrderInv, ClockInv, NoNewRace, NoDataRace, TokenRace, TokenCovers, Carried,
     Synced, WakerCarried, DropCarried, WakerAcquired, DropAcquired, Covers, CoversAt
<1>3. FreshRace' /\ WakingRace' /\ OwnerRace'
  BY <1>1, <1>2 DEF OrderInv, FreshRace, WakingRace, OwnerRace
<1>4. DoneRace(ls)'
  BY <1>1, <1>2 DEF OrderInv, DoneRace, WaitRace, Waiting, Scopes
<1>5. TokenRace' /\ WaitRace(ls)'
  BY <1>2 DEF OrderInv, TokenRace, WaitRace, AfterAcquire
<1>6. SlotRace'
  <2>1. OneBehind(EMPTY)' => OneBehind(EMPTY)
    BY <1>1 DEF OneBehind, EMPTY
  <2> QED
    BY <1>1, <2>1 DEF OrderInv, SlotRace
<1> QED
  BY <1>2, <1>3, <1>4, <1>5, <1>6 DEF OrderInv, NoNewRace

\* The accesses to the waker slot.
LEMMA ReceiverWakerRace ==
  ASSUME NEW ls \in Scopes, OwnershipInv, OwnershipInv', OrderInv(ls), ReceiverNext,
         WriteWaker \/ DropWaker \/ DropWakerPanic
  PROVE  OrderInv(ls)'
<1>1. UNCHANGED <<spc, token>>
  BY DEF ReceiverNext, senderVars, WriteWaker, DropWaker, DropWakerPanic, Along, signals
<1>2. MemoryTypeOK /\ MemoryTypeOK'
  BY DEF OwnershipInv, TypeInv, Typed, ChannelTypeOK
<1>3. rpc \in UsesWaker
  BY DEF WriteWaker, DropWaker, DropWakerPanic, Along, AfterWriteWaker, AfterDropWaker,
     UsesWaker, WakerIsMine
<1>4. ~Gone /\ rpc \notin {"fence_take", "fence"} /\ rpc \notin Waiting
  BY <1>3 DEF UsesWaker, WakerIsMine, Gone, Resting, Waiting
<1>5. /\ rpc' \notin AfterAcquire \cup Waiting
      /\ rpc' \in BeforeFence => rpc \in BeforeFence
  BY DEF WriteWaker, DropWaker, DropWakerPanic, Along, AfterWriteWaker, AfterDropWaker,
     RGoto, Arm, UnwindCall, UnwindDrop, AfterAcquire, BeforeFence, Waiting
<1>6. PICK committed :
        "data_race" \notin committed /\ CellAccess("R", "waker", committed)
  <2>1. \A kind, when : kind # "data_race" => "data_race" \notin Fault(kind, when)
    BY DEF Fault
  <2> QED
    BY <2>1 DEF WriteWaker, DropWaker, DropWakerPanic, Along, write_waker, clear_waker
<1>7. last["waker"]["S"] = 0
  BY <1>3 DEF OrderInv, SlotRace
<1>8. CoversAt(view["R"], "S", "waker")
  <2>1. view["R"]["S"] \in Nat
    BY <1>2, ClocksAreNat, ConstantsType DEF NatClocks
  <2> QED
    BY <1>7, <2>1 DEF CoversAt
<1>9. /\ ReceiverClocks(ls) /\ NoNewRace
      /\ UNCHANGED <<state, stale, view, alive>>
      /\ last'["message"]["R"] = last["message"]["R"]
  BY <1>2, <1>6, <1>8, ReceiverCellClocks DEF OrderInv, Locations
<1>10. /\ last'["waker"]["S"] = 0
       /\ ClockInv' /\ TokenCovers'
       /\ (Carried(ls) => Carried(ls)') /\ (Fenced(ls) => Fenced(ls)')
       /\ (Synced(ls) => Synced(ls)')
  BY <1>1, <1>7, <1>9 DEF ReceiverClocks, OrderInv, TokenRace
<1>11. spc \in {"idle", "raw", "write_message", "fetch_add", "fetch_xor"} =>
         state.val = EMPTY
  <2>1. FreshInv => state.val = EMPTY
    BY <1>3 DEF FreshInv, Registered, Unsure, Resting, UsesWaker, WakerIsMine
  <2> QED
    BY <2>1, Placed
<1>12. spc \notin {"take_waker", "swap", "error", "dealloc", "leaked"}
  <2>1. ~WakingInv
    BY <1>3 DEF WakingInv, Registered, Unsure, Resting, UsesWaker, WakerIsMine
  <2> QED
    BY <1>4, <2>1, Placed
<1>13. FreshRace' /\ WakingRace' /\ OwnerRace'
  BY <1>1, <1>9, <1>10, <1>11, <1>12
  DEF OrderInv, FreshRace, WakingRace, OwnerRace, EMPTY, RECEIVING, DISCONNECTED
<1>14. DoneRace(ls)'
  BY <1>1, <1>4, <1>5, <1>9, <1>10 DEF OrderInv, DoneRace
<1>15. TokenRace' /\ WaitRace(ls)' /\ SlotRace'
  BY <1>1, <1>5, <1>10 DEF OrderInv, TokenRace, WaitRace, SlotRace, AfterAcquire
<1> QED
  BY <1>9, <1>10, <1>13, <1>14, <1>15 DEF OrderInv, NoNewRace

\* What is left to show of a step of the receiver once the sender is done.
LEMMA ReceiverCloses ==
  ASSUME NEW ls \in Scopes, OrderInv(ls), ReceiverClocks(ls), UNCHANGED <<spc, token>>,
         spc \in {"unpark", "unwoken", "done"},
         CaughtUp', rpc' \notin UsesWaker \cup Waiting, ls = Locations => NoNewRace,
         DoneRace(ls)'
  PROVE  OrderInv(ls)'
<1>1. ClockInv' /\ TokenCovers'
  BY DEF OrderInv, TokenRace, ReceiverClocks
<1>2. FreshRace' /\ WakingRace' /\ OwnerRace'
  BY DEF FreshRace, WakingRace, OwnerRace
<1>3. TokenRace' /\ WaitRace(ls)' /\ SlotRace'
  BY <1>1, NotBehind DEF OrderInv, TokenRace, WaitRace, Waiting, SlotRace
<1> QED
  BY <1>1, <1>2, <1>3 DEF OrderInv, NoNewRace

\* The rest of a match arm once the sender is done: mark, fence, take or wipe, free.
LEMMA ReceiverTailsRace ==
  ASSUME NEW ls \in Scopes, OwnershipInv, OwnershipInv', OrderInv(ls), ReceiverNext,
         \/ Mark \/ Fence \/ TakeMessage \/ WipeMessage \/ WipeMessagePanic \/ Free
  PROVE  OrderInv(ls)'
<1>1. UNCHANGED <<spc, token>>
  BY DEF ReceiverNext, senderVars, Mark, Fence, TakeMessage, WipeMessage, WipeMessagePanic,
     Free, Along, signals
<1>2. MemoryTypeOK /\ MemoryTypeOK'
  BY DEF OwnershipInv, TypeInv, Typed, ChannelTypeOK
<1>3. rpc # "wipe_fence_free"
  BY DEF OwnershipInv, PhaseInv, FreshInv, WakingInv, OwnerInv, OpenInv, ClosingInv, FreedInv,
     DoneInv, Unregistered, Registered, Unsure, Resting, MessageIsMine, NothingLeft
<1>4. /\ rpc \in MessageIsMine \cup NothingLeft
      /\ rpc' \notin UsesWaker \cup Waiting
  BY <1>3 DEF Mark, Fence, TakeMessage, WipeMessage, WipeMessagePanic, Free, Along, AfterMark,
     AfterFence, AfterTake, AfterWipe, RGoto, Arm, UnwindDrop, UsesWaker, WakerIsMine,
     MessageIsMine, NothingLeft, Waiting
<1>5. alive /\ CaughtUp /\ spc \in {"unpark", "unwoken", "done"}
  BY <1>4, Placed
<1>6. /\ Carried(ls) \/ Synced(ls) \/ rpc \in {"fence_take", "fence"}
      /\ rpc \in BeforeFence  => Fenced(ls) \/ Synced(ls)
      /\ rpc \in AfterAcquire => Synced(ls)
  BY <1>5 DEF OrderInv, DoneRace
<1>7. CASE Mark
  <2>1. /\ rpc \in DOMAIN AfterMark /\ rpc' = AfterMark[rpc]
        /\ AtomicStore("R", DISCONNECTED)
    BY <1>7 DEF Mark, Along, RGoto, Arm
  <2>2. CaughtUp' /\ NoNewRace
    BY <1>5, <1>6, <2>1, ReceiverStoreEffect DEF NoNewRace, NoDataRace
  <2>3. ReceiverClocks(ls) /\ (Fenced(ls) => Fenced(ls)') /\ (Synced(ls) => Synced(ls)')
    BY <1>2, <2>1, ReceiverStoreClocks DEF ReceiverClocks
  <2>4. DoneRace(ls)'
    BY <1>6, <2>1, <2>3 DEF DoneRace, AfterMark, BeforeFence, AfterAcquire
  <2> QED
    BY <1>1, <1>4, <1>5, <2>2, <2>3, <2>4, ReceiverCloses
<1>8. CASE Fence
  <2>1. rpc \in DOMAIN AfterFence /\ rpc' = AfterFence[rpc] /\ FenceAcquire("R")
    BY <1>8 DEF Fence, Along, RGoto, Arm
  <2>2. /\ ReceiverClocks(ls) /\ (Fenced(ls) => Synced(ls)') /\ (Synced(ls) => Synced(ls)')
        /\ CaughtUp' /\ NoNewRace
    BY <1>2, <1>5, <1>6, <2>1, ReceiverFenceClocks
    DEF ReceiverClocks, CaughtUp, NoNewRace, NoDataRace
  <2>3. DoneRace(ls)'
    BY <1>6, <2>1, <2>2 DEF DoneRace, AfterFence, BeforeFence, AfterAcquire
  <2> QED
    BY <1>1, <1>4, <1>5, <2>2, <2>3, ReceiverCloses
<1>9. CASE TakeMessage \/ WipeMessage \/ WipeMessagePanic
  <2>1. /\ rpc \in AfterAcquire
        /\ rpc' \in {"free", "return", "idle"}
    BY <1>3, <1>9 DEF TakeMessage, WipeMessage, WipeMessagePanic, Along, AfterTake, AfterWipe,
       RGoto, Arm, UnwindDrop, AfterAcquire
  <2>2. PICK committed :
          "data_race" \notin committed /\ CellAccess("R", "message", committed)
    BY <1>9 DEF TakeMessage, WipeMessage, WipeMessagePanic, Along, move_message, Fault
  <2>3. CoversAt(view["R"], "S", "message")
    BY <1>6, <2>1, ScopesType DEF Synced, Message
  <2>4. ReceiverClocks(ls) /\ NoNewRace /\ CaughtUp' /\ Synced(ls)'
    BY <1>2, <1>5, <1>6, <2>1, <2>2, <2>3, ReceiverCellClocks
    DEF ReceiverClocks, CaughtUp, Locations
  <2>5. DoneRace(ls)'
    BY <2>1, <2>4 DEF DoneRace
  <2> QED
    BY <1>1, <1>4, <1>5, <2>4, <2>5, ReceiverCloses
<1>10. CASE Free
  <2>1. rpc \in AfterAcquire /\ dealloc("R")
    BY <1>10 DEF Free, Along, AfterAcquire
  <2>2. ReceiverClocks(ls) /\ (ls = Locations => NoNewRace) /\ CaughtUp' /\ DoneRace(ls)'
    BY <1>2, <1>5, <1>6, <2>1, ReceiverFreeClocks DEF CaughtUp, DoneRace
  <2> QED
    BY <1>1, <1>4, <1>5, <2>2, ReceiverCloses
<1> QED
  BY <1>7, <1>8, <1>9, <1>10

\* The sleeping, and the steps that only decide where to go.
LEMMA ReceiverSleepsRace ==
  ASSUME NEW ls \in Scopes, OwnershipInv, OwnershipInv', OrderInv(ls), ReceiverNext,
         ls = Locations => ~WakeWithoutUnpark,
         \/ Return \/ DeadlineCheck \/ Park \/ SpuriousPark \/ ParkTimeout
         \/ Expire \/ WakeByRef \/ WakeByRefPanic \/ ClonePanic
  PROVE  OrderInv(ls)'
<1>1. spc' = spc
  BY DEF ReceiverNext, senderVars
<1>2. CASE Park
  <2>1. MemoryTypeOK /\ MemoryTypeOK' /\ SignalsTypeOK
    BY DEF OwnershipInv, TypeInv, Typed, ChannelTypeOK
  <2>2. ParkToken /\ rpc \in DOMAIN AfterPark /\ rpc' = AfterPark[rpc]
    BY <1>2 DEF Park, RGoto, Arm
  <2>3. /\ ReceiverClocks(ls)
        /\ Synced(ls)' /\ Synced(Message)' /\ CaughtUp' /\ TokenCovers'
        /\ token # {} /\ token' = {}
        /\ UNCHANGED <<state, alive, last, faults>>
    BY <2>1, <2>2, ReceiverParkClocks DEF OrderInv, TokenRace
  <2>4. spc = "done" /\ ClockInv' /\ NoNewRace
    BY <2>3 DEF OrderInv, TokenRace, ReceiverClocks, NoNewRace, NoDataRace
  <2>5. FreshRace' /\ WakingRace' /\ OwnerRace'
    BY <1>1, <2>4 DEF FreshRace, WakingRace, OwnerRace
  <2>6. DoneRace(ls)'
    BY <2>3 DEF DoneRace
  <2>7. TokenRace' /\ WaitRace(ls)' /\ SlotRace'
    BY <1>1, <2>2, <2>3, <2>4, NotBehind
    DEF TokenRace, WaitRace, SlotRace, AfterPark, UsesWaker, WakerIsMine
  <2> QED
    BY <2>4, <2>5, <2>6, <2>7 DEF OrderInv, NoNewRace
<1>3. CASE \/ Return \/ DeadlineCheck \/ SpuriousPark \/ ParkTimeout \/ Expire
           \/ WakeByRef \/ WakeByRefPanic \/ ClonePanic
  <2>1. UNCHANGED <<memory, token, handle>>
    BY <1>3 DEF Return, DeadlineCheck, SpuriousPark, ParkTimeout, Expire, WakeByRef,
       WakeByRefPanic, ClonePanic, RGoto, UnwindCall, ParkSpurious, channel, signals
  <2>2. /\ rpc \notin {"fence_take", "fence"}
        /\ rpc \in Resting => rpc' = "idle"
        /\ rpc' \notin BeforeFence \cup UsesWaker
        /\ rpc \in Waiting <=> rpc' \in Waiting
        /\ rpc' \in AfterAcquire => rpc' = "unpark_waited" /\ ls # Locations
    BY <1>3, <2>1 DEF Return, DeadlineCheck, SpuriousPark, ParkTimeout, Expire, WakeByRef,
       WakeByRefPanic, ClonePanic, RGoto, Arm, UnwindCall, AfterPark, WakeWithoutUnpark,
       Resting, BeforeFence, AfterAcquire, UsesWaker, WakerIsMine, Waiting
  <2>3. Gone => Gone'
    BY <2>1, <2>2 DEF Gone, Resting
  <2> QED
    BY <1>1, <2>1, <2>2, <2>3, ReceiverElsewhere
<1> QED
  BY <1>2, <1>3

\* The calls of the receiver's client.
LEMMA ReceiverCallsRace ==
  ASSUME NEW ls \in Scopes, OwnershipInv, OwnershipInv', OrderInv(ls), ReceiverNext,
         ReceiverCall
  PROVE  OrderInv(ls)'
<1>1. spc' = spc
  BY DEF ReceiverNext, senderVars
<1>2. CASE is_closed \/ has_message
  BY <1>2, ReceiverLoadsRace
<1>3. CASE \/ ReceiverRaw \/ into_future \/ recv \/ ReceiverDrop \/ AsyncReceiverDrop
           \/ try_recv \/ recv_ref \/ recv_deadline \/ recv_timeout
           \/ PollWoken \/ \E w \in Tasks : poll(w)
  <2>1. /\ UNCHANGED <<memory, token>>
        /\ rpc = "idle" /\ handle \in {"Receiver", "AsyncReceiver", "raw"}
        /\ rpc' \in {"idle", "recv", "drop_swap", "async_drop", "try_recv",
                     "start_recv_ref", "poll"}
    BY <1>3 DEF ReceiverRaw, into_future, recv, ReceiverDrop, AsyncReceiverDrop, Consume,
       try_recv, recv_ref, recv_deadline, recv_timeout, StartRecvRef, PollWoken, poll,
       Borrow, channel, signals
  <2> QED
    BY <1>1, <2>1, ReceiverElsewhere
    DEF Gone, BeforeFence, AfterAcquire, UsesWaker, WakerIsMine, Waiting
<1> QED
  BY <1>2, <1>3 DEF ReceiverCall

\* No step of the receiving end races; for all of the block, but for a wait_for_unpark
\* that was not unparked.
LEMMA ReceiverRace ==
  ASSUME NEW ls \in Scopes, OwnershipInv, OwnershipInv', OrderInv(ls), ReceiverNext,
         ls = Locations => ~WakeWithoutUnpark
  PROVE  OrderInv(ls)'
BY ReceiverLoadsRace, ReceiverSwapsRace, ReceiverExchangesRace, ReceiverWakerRace,
   ReceiverTailsRace, ReceiverSleepsRace, ReceiverCallsRace, Zenon
DEF ReceiverNext, ReceiverStep

-----------------------------------------------------------------------------
(* The steps of the sending end. *)

\* What a step of the sender leaves as it was or makes better.
SenderClocks ==
  /\ \A l \in Locations : last'[l]["R"] = last[l]["R"]
  /\ ClockInv => ClockInv'
  /\ DropAcquired => DropAcquired'
  /\ last'["message"]["S"] = last["message"]["S"] => (Synced(Message) => Synced(Message)')

\* A step of the sender knows no less of the receiver than before.
LEMMA SenderStepClocks ==
  ASSUME MemoryTypeOK, MemoryTypeOK', NEW at, StepOf("S", at)
  PROVE  SenderClocks
<1>1. \A l \in Locations : last'[l]["R"] = last[l]["R"]
  BY ConstantsType DEF StepOf
<1>2. ClockInv => ClockInv'
  BY ClockStep, ConstantsType
<1>3. view'["S"]["R"] >= view["S"]["R"]
  BY ConstantsType DEF StepOf, ClocksGrow
<1>4. /\ {view["S"]["R"], view'["S"]["R"]} \subseteq Nat
      /\ \A l \in Locations : last[l]["R"] \in Nat
  BY ClocksAreNat, ConstantsType DEF NatClocks
<1>5. DropAcquired => DropAcquired'
  BY <1>1, <1>3, <1>4 DEF DropAcquired, Covers, CoversAt
<1>6. last'["message"]["S"] = last["message"]["S"] => (Synced(Message) => Synced(Message)')
  BY ConstantsType DEF StepOf, Synced, CoversAt, Message
<1> QED
  BY <1>1, <1>2, <1>5, <1>6 DEF SenderClocks

\* A read-modify-write of the sender acquires what the receiver has handed over, and
\* hands over all the sender has done.
LEMMA SenderRmwClocks ==
  ASSUME NEW ls \in Scopes, MemoryTypeOK, MemoryTypeOK', ClockInv,
         NEW val, AtomicRmw("S", AcqRel, val)
  PROVE  /\ SenderClocks
         /\ Carried(ls)' /\ Carried(Message)'
         /\ DropCarried => DropAcquired'
         /\ WakerCarried => WakerAcquired'
         /\ last'["waker"]["S"] = last["waker"]["S"]
         /\ last'["message"]["S"] = last["message"]["S"]
<1>1. \A l \in Locations, u \in Threads :
        last'[l][u] = IF l \in {"state"} /\ u = "S" THEN view["S"]["S"] ELSE last[l][u]
  BY TouchClocks, ConstantsType DEF AtomicRmw, Locations
<1>2. /\ ClocksGrow
      /\ view'["R"] = view["R"]
      /\ view'["S"]["R"] >= state.view["R"]
      /\ state'.view["S"] >= view["S"]["S"]
  BY RmwClocks, ConstantsType DEF AcqRel
<1>3. StepOf("S", {"state"})
  BY <1>1, <1>2 DEF StepOf, Threads
<1>4. /\ {state.view["R"], view'["S"]["R"]} \subseteq Nat
      /\ \A l \in Locations : last[l]["R"] \in Nat /\ last'[l]["R"] = last[l]["R"]
  BY <1>1, ClocksAreNat, ConstantsType DEF NatClocks
<1>5. /\ DropCarried => DropAcquired'
      /\ WakerCarried => WakerAcquired'
  BY <1>2, <1>4 DEF DropCarried, DropAcquired, WakerCarried, WakerAcquired, Covers, CoversAt,
     Locations
<1>6. Carried(ls)' /\ Carried(Message)'
  <2>1. /\ {state'.view["S"], view["S"]["S"]} \subseteq Nat
        /\ \A l \in Locations : last[l]["S"] \in Nat /\ last[l]["S"] <= view["S"]["S"]
        /\ \A l \in Locations : last'[l]["S"] \in {last[l]["S"], view["S"]["S"]}
    BY <1>1, ClocksAreNat, ConstantsType DEF NatClocks, ClockInv, Covers, CoversAt
  <2>2. \A l \in Locations : last'[l]["S"] <= state'.view["S"]
    BY <1>2, <2>1
  <2> QED
    BY <2>2, ScopesType DEF Carried, CoversAt
<1> QED
  BY <1>1, <1>3, <1>5, <1>6, SenderStepClocks, ConstantsType DEF Locations

\* An access of the sender to a cell whose last access by the receiver it knows of is
\* no race.
LEMMA SenderCellClocks ==
  ASSUME MemoryTypeOK, MemoryTypeOK', NEW l \in Locations,
         CoversAt(view["S"], "R", l),
         NEW committed, "data_race" \notin committed, CellAccess("S", l, committed)
  PROVE  /\ SenderClocks
         /\ NoNewRace
         /\ UNCHANGED <<state, stale, view, alive>>
         /\ \A m \in Locations : m # l => last'[m]["S"] = last[m]["S"]
<1>1. UNCHANGED <<state, stale, view, acq, alive>>
  BY DEF CellAccess, Touch
<1>2. \A m \in Locations, u \in Threads :
        last'[m][u] = IF m \in {l} /\ u = "S" THEN view["S"]["S"] ELSE last[m][u]
  BY TouchClocks, ConstantsType DEF CellAccess
<1>3. ClocksGrow
  BY <1>1, ClocksAreNat DEF ClocksGrow, NatClocks
<1>4. StepOf("S", {l})
  BY <1>1, <1>2, <1>3 DEF StepOf
<1>5. Race("S", l) = {}
  <2>1. last[l]["R"] \in Nat /\ view["S"]["R"] \in Nat
    BY ClocksAreNat, ConstantsType DEF NatClocks
  <2> QED
    BY <2>1 DEF Race, Other, CoversAt
<1>6. NoNewRace
  BY <1>5 DEF NoNewRace, NoDataRace, CellAccess, Touch, UseAfterFree
<1> QED
  BY <1>1, <1>2, <1>4, <1>6, SenderStepClocks, ConstantsType

\* The two writes that decide the race: fetch_add and fetch_xor.
LEMMA SenderDecidesRace ==
  ASSUME NEW ls \in Scopes, OwnershipInv, OwnershipInv', OrderInv(ls), SenderNext,
         SendFetchAdd \/ DropFetchXor
  PROVE  OrderInv(ls)'
<1>1. MemoryTypeOK /\ MemoryTypeOK'
  BY DEF OwnershipInv, TypeInv, Typed, ChannelTypeOK
<1>2. UNCHANGED <<rpc, handle, token>>
  BY DEF SenderNext, receiverVars, SendFetchAdd, DropFetchXor, signals
<1>3. FreshInv /\ alive
  BY Placed DEF SendFetchAdd, DropFetchXor, FreshInv
<1>4. state.val \in {EMPTY, RECEIVING, DISCONNECTED}
  BY <1>3 DEF FreshInv
<1>5. PICK val : AtomicRmw("S", AcqRel, val)
  BY DEF SendFetchAdd, DropFetchXor
<1>6. /\ spc \in {"fetch_add", "fetch_xor"}
      /\ state.val = EMPTY => spc' = "done"
      /\ state.val = RECEIVING => spc' = "take_waker"
      /\ state.val = DISCONNECTED => spc' \in {"error", "dealloc"}
  BY DEF SendFetchAdd, DropFetchXor, SGoto, SendArms, DropArms, EMPTY, RECEIVING, DISCONNECTED
<1>7. /\ SenderClocks
      /\ Carried(ls)' /\ Carried(Message)'
      /\ DropCarried => DropAcquired'
      /\ WakerCarried => WakerAcquired'
      /\ last'["waker"]["S"] = last["waker"]["S"]
  BY <1>1, <1>5, SenderRmwClocks DEF OrderInv
<1>8. ClockInv' /\ NoNewRace
  BY <1>3, <1>5, <1>7
  DEF SenderClocks, OrderInv, NoNewRace, NoDataRace, AtomicRmw, Touch, UseAfterFree
<1>9. FreshRace' /\ WakingRace' /\ OwnerRace'
  BY <1>4, <1>6, <1>7 DEF OrderInv, FreshRace, WakingRace, OwnerRace
<1>10. rpc \notin BeforeFence \cup AfterAcquire \cup Waiting
  BY <1>3 DEF FreshInv, Unregistered, Registered, Unsure, Resting, BeforeFence, AfterAcquire,
     Waiting
<1>11. DoneRace(ls)'
  BY <1>2, <1>7, <1>10 DEF DoneRace
<1>12. token = {} /\ last["waker"]["S"] = 0
  BY <1>6 DEF OrderInv, TokenRace, FreshRace
<1>13. TokenRace' /\ WaitRace(ls)' /\ SlotRace'
  BY <1>2, <1>7, <1>10, <1>12 DEF TokenRace, TokenCovers, WaitRace, SlotRace, AfterAcquire
<1> QED
  BY <1>8, <1>9, <1>11, <1>13 DEF OrderInv, NoNewRace

\* The rest of the wake: the waker is taken, the final state set, the receiver woken.
LEMMA SenderWakesRace ==
  ASSUME NEW ls \in Scopes, OwnershipInv, OwnershipInv', OrderInv(ls), SenderNext,
         SenderTakeWaker \/ SenderSwap \/ SenderUnpark \/ SenderUnparkPanic
  PROVE  OrderInv(ls)'
<1>1. MemoryTypeOK /\ MemoryTypeOK'
  BY DEF OwnershipInv, TypeInv, Typed, ChannelTypeOK
<1>2. UNCHANGED <<rpc, handle>>
  BY DEF SenderNext, receiverVars
<1>3. token = {} /\ (ls = Locations => rpc # "unpark_waited")
  BY DEF OrderInv, TokenRace, WaitRace, SenderTakeWaker, SenderSwap, SenderUnpark,
     SenderUnparkPanic
<1>4. CASE SenderTakeWaker
  <2>1. spc = "take_waker" /\ spc' = "swap" /\ token' = {}
    BY <1>3, <1>4 DEF SenderTakeWaker, signals
  <2>2. PICK committed :
          "data_race" \notin committed /\ CellAccess("S", "waker", committed)
    BY <1>4 DEF SenderTakeWaker, clear_waker, Fault
  <2>3. WakerAcquired /\ ClockInv
    BY <2>1 DEF OrderInv, WakingRace
  <2>4. /\ SenderClocks /\ NoNewRace /\ UNCHANGED <<state, stale>>
        /\ last'["message"]["S"] = last["message"]["S"]
    BY <1>1, <2>2, <2>3, SenderCellClocks DEF WakerAcquired, Locations
  <2>5. /\ FreshRace' /\ WakingRace' /\ OwnerRace' /\ DoneRace(ls)'
        /\ ClockInv'
    BY <2>1, <2>3, <2>4
    DEF OrderInv, FreshRace, WakingRace, OwnerRace, DoneRace, SenderClocks, Carried, CoversAt,
        Message
  <2>6. TokenRace' /\ WaitRace(ls)'
    BY <1>2, <1>3, <2>1, <2>4 DEF OrderInv, TokenRace, TokenCovers, WaitRace, SenderClocks
  <2>7. rpc \notin UsesWaker /\ (CaughtUp \/ OneBehind(RECEIVING))
    <3>1. WakingInv
      BY <2>1, Placed
    <3> QED
      BY <3>1 DEF WakingInv, Registered, Unsure, Resting, UsesWaker, WakerIsMine
  <2>8. ~OneBehind(EMPTY)'
    BY <2>4, <2>7 DEF CaughtUp, OneBehind, EMPTY, RECEIVING
  <2> QED
    BY <1>2, <2>4, <2>5, <2>6, <2>7, <2>8 DEF OrderInv, SlotRace, NoNewRace
<1>5. CASE SenderSwap
  <2>1. spc = "swap" /\ spc' = "unpark" /\ token' = {} /\ AtomicRmw("S", AcqRel, FinalState)
    BY <1>3, <1>5 DEF SenderSwap, SGoto, signals
  <2>2. SenderClocks /\ Carried(ls)' /\ last'["message"]["S"] = last["message"]["S"]
    BY <1>1, <2>1, SenderRmwClocks DEF OrderInv
  <2>3. WakingInv /\ alive
    BY <2>1, Placed DEF WakingInv
  <2>4. ClockInv' /\ NoNewRace
    BY <2>1, <2>2, <2>3
    DEF SenderClocks, OrderInv, NoNewRace, NoDataRace, AtomicRmw, Touch, UseAfterFree
  <2>5. /\ rpc \notin UsesWaker \cup BeforeFence
        /\ rpc \in AfterAcquire => rpc = "unpark_waited"
    BY <2>3 DEF WakingInv, Registered, Unsure, Resting, UsesWaker, WakerIsMine, BeforeFence,
       AfterAcquire
  <2>6. TokenRace' /\ WaitRace(ls)'
    BY <1>2, <1>3, <2>1, <2>2 DEF OrderInv, TokenRace, TokenCovers, WaitRace, SenderClocks
  <2>7. FreshRace' /\ WakingRace' /\ OwnerRace' /\ DoneRace(ls)'
    BY <1>2, <1>3, <2>1, <2>2, <2>5, <2>6
    DEF FreshRace, WakingRace, OwnerRace, DoneRace, WaitRace, Waiting, Scopes
  <2>8. rpc \notin Waiting => ~OneBehind(EMPTY)'
    <3>1. /\ state.val = UNPARKING /\ CaughtUp => OneBehind(UNPARKING)'
          /\ state.val = UNPARKING /\ OneBehind(RECEIVING) => TwoBehind'
      BY <1>1, <2>1, <2>3, SenderRmwEffect
    <3>2. /\ OneBehind(UNPARKING)' => ~OneBehind(EMPTY)'
          /\ TwoBehind' => ~OneBehind(EMPTY)'
      BY DEF OneBehind, TwoBehind, EMPTY, UNPARKING
    <3> QED
      BY <2>3, <3>1, <3>2 DEF WakingInv, Waiting
  <2> QED
    BY <1>2, <2>4, <2>5, <2>6, <2>7, <2>8 DEF OrderInv, SlotRace, NoNewRace
<1>6. CASE SenderUnpark \/ SenderUnparkPanic
  <2>1. /\ spc = "unpark"
        /\ UNCHANGED <<state, stale, view, acq, alive, last, faults>>
        /\ \/ spc' = "unwoken" /\ token' = {}
           \/ spc' = "done" /\ token' = {}
           \/ spc' = "done" /\ token' = {view["S"]}
    BY <1>3, <1>6 DEF SenderUnpark, SenderUnparkPanic, unpark, signals, channel, memory
  <2>2. /\ Carried(ls)' = Carried(ls) /\ Synced(ls)' = Synced(ls) /\ Fenced(ls)' = Fenced(ls)
        /\ Synced(Message)' = Synced(Message)
        /\ ClockInv' /\ NoNewRace
    BY <2>1 DEF OrderInv, ClockInv, NoNewRace, NoDataRace, Carried, Synced, Fenced, Covers,
       CoversAt
  <2>3. FreshRace' /\ WakingRace' /\ OwnerRace' /\ DoneRace(ls)'
    BY <1>2, <2>1, <2>2 DEF OrderInv, FreshRace, WakingRace, OwnerRace, DoneRace
  <2>4. TokenCovers'
    BY <2>1, <2>2, ConstantsType DEF TokenCovers, ClockInv, Covers, CoversAt
  <2>5. TokenRace' /\ WaitRace(ls)'
    BY <1>2, <1>3, <2>1, <2>2, <2>4 DEF OrderInv, TokenRace, WaitRace
  <2>6. SlotRace'
    <3>1. OneBehind(EMPTY)' => OneBehind(EMPTY)
      BY <2>1 DEF OneBehind, EMPTY
    <3> QED
      BY <1>2, <2>1, <3>1 DEF OrderInv, SlotRace, Gone
  <2> QED
    BY <2>2, <2>3, <2>5, <2>6 DEF OrderInv, NoNewRace
<1> QED
  BY <1>4, <1>5, <1>6

\* The steps of a sender that has not written state yet.
LEMMA SenderPreparesRace ==
  ASSUME NEW ls \in Scopes, OwnershipInv, OwnershipInv', OrderInv(ls), SenderNext,
         send \/ SenderDrop \/ SenderRaw \/ SenderIsClosed \/ SendWrite
  PROVE  OrderInv(ls)'
<1>1. MemoryTypeOK /\ MemoryTypeOK'
  BY DEF OwnershipInv, TypeInv, Typed, ChannelTypeOK
<1>2. UNCHANGED <<rpc, handle, token>>
  BY DEF SenderNext, receiverVars, send, SenderDrop, SenderRaw, SConsume, SenderIsClosed,
     SendWrite, signals
<1>3. /\ spc \in {"idle", "raw", "write_message", "fetch_add", "fetch_xor"}
      /\ spc' \in {"idle", "raw", "write_message", "fetch_add", "fetch_xor"}
  BY DEF send, SenderDrop, SenderRaw, SConsume, SenderIsClosed, SendWrite, SGoto
<1>4. /\ last["message"]["R"] = 0 /\ last["waker"]["S"] = 0
      /\ state.val = RECEIVING => WakerCarried
      /\ state.val = DISCONNECTED => DropCarried
      /\ ClockInv /\ token = {} /\ rpc \notin Waiting
  BY <1>3, Placed DEF OrderInv, FreshRace, TokenRace, FreshInv, Unregistered, Registered,
     Unsure, Resting, Waiting
<1>5. /\ SenderClocks /\ NoNewRace /\ UNCHANGED state
      /\ last'["waker"]["S"] = last["waker"]["S"]
  <2>1. CASE send \/ SenderDrop \/ SenderRaw
    <3>1. UNCHANGED <<state, stale, view, acq, alive, last, faults>>
      BY <2>1 DEF send, SenderDrop, SenderRaw, SConsume, channel, memory
    <3> QED
      BY <1>4, <3>1
      DEF SenderClocks, NoNewRace, NoDataRace, ClockInv, DropAcquired, Synced, Covers,
          CoversAt
  <2>2. CASE SenderIsClosed
    <3>1. AtomicLoad("S", Relaxed) /\ state' = state
      BY <2>2 DEF SenderIsClosed, AtomicLoad
    <3>2. \A l \in Locations, u \in Threads :
            last'[l][u] = IF l \in {"state"} /\ u = "S" THEN view["S"]["S"] ELSE last[l][u]
      BY <1>1, <3>1, TouchClocks, ConstantsType DEF AtomicLoad, Locations
    <3>3. StepOf("S", {"state"})
      BY <1>1, <3>1, <3>2, LoadClocks, ConstantsType DEF StepOf
    <3>4. NoNewRace
      BY <1>1, <1>3, <3>1, Placed
      DEF NoNewRace, NoDataRace, AtomicLoad, Touch, UseAfterFree
    <3> QED
      BY <1>1, <3>1, <3>2, <3>3, <3>4, SenderStepClocks, ConstantsType DEF Locations
  <2>3. CASE SendWrite
    <3>1. PICK committed :
            "data_race" \notin committed /\ CellAccess("S", "message", committed)
      BY <2>3 DEF SendWrite, write_message, Fault
    <3>2. view["S"]["R"] \in Nat
      BY <1>1, ClocksAreNat, ConstantsType DEF NatClocks
    <3>3. CoversAt(view["S"], "R", "message")
      BY <1>4, <3>2 DEF CoversAt
    <3> QED
      BY <1>1, <1>4, <3>1, <3>3, SenderCellClocks DEF Locations
  <2> QED
    BY <2>1, <2>2, <2>3
<1>6. FreshRace'
  BY <1>4, <1>5 DEF FreshRace, SenderClocks, WakerCarried, DropCarried, Covers, CoversAt,
     Locations
<1>7. WakingRace' /\ OwnerRace' /\ DoneRace(ls)'
  BY <1>3 DEF WakingRace, OwnerRace, DoneRace
<1>8. TokenRace' /\ WaitRace(ls)' /\ SlotRace'
  BY <1>2, <1>4, <1>5 DEF TokenRace, TokenCovers, WaitRace, Waiting, SlotRace
<1> QED
  BY <1>4, <1>5, <1>6, <1>7, <1>8 DEF OrderInv, NoNewRace, SenderClocks

\* The steps of a sender that owns the channel.
LEMMA SenderOwnsRace ==
  ASSUME NEW ls \in Scopes, OwnershipInv, OwnershipInv', OrderInv(ls), SenderNext,
         as_inner \/ into_inner \/ SendErrorDrop \/ SendErrorDropPanic \/ SenderDealloc
  PROVE  OrderInv(ls)'
<1>1. MemoryTypeOK /\ MemoryTypeOK'
  BY DEF OwnershipInv, TypeInv, Typed, ChannelTypeOK
<1>2. UNCHANGED <<rpc, handle, token>>
  BY DEF SenderNext, receiverVars, as_inner, into_inner, SendErrorDrop, SendErrorDropPanic,
     SenderDealloc, signals
<1>3. /\ spc \in {"error", "dealloc"}
      /\ spc' \in {"error", "dealloc", "leaked", "done"}
      /\ spc' = "done" => SenderDealloc
  BY DEF as_inner, into_inner, SendErrorDrop, SendErrorDropPanic, SenderDealloc, SGoto,
     senderVars
<1>4. Gone /\ DropAcquired /\ ClockInv /\ token = {}
  BY <1>3, Placed DEF OrderInv, OwnerRace, TokenRace
<1>5. /\ ClockInv' /\ NoNewRace
      /\ spc' # "done" => DropAcquired'
      /\ spc' = "done" => ~alive'
  <2>1. CASE as_inner \/ into_inner \/ SendErrorDrop \/ SendErrorDropPanic
    <3>1. PICK committed :
            "data_race" \notin committed /\ CellAccess("S", "message", committed)
      BY <2>1 DEF as_inner, into_inner, SendErrorDrop, SendErrorDropPanic, move_message,
         message_ref, Fault
    <3>2. CoversAt(view["S"], "R", "message")
      BY <1>4 DEF DropAcquired, Covers, Locations
    <3>3. spc' # "done"
      BY <2>1 DEF as_inner, into_inner, SendErrorDrop, SendErrorDropPanic, SGoto, senderVars
    <3> QED
      BY <1>1, <1>4, <3>1, <3>2, <3>3, SenderCellClocks DEF Locations, SenderClocks
  <2>2. CASE SenderDealloc
    <3>1. FreeBlock("S", Fault("leak", message = "init" \/ waker # "none")) /\ spc' = "done"
      BY <2>2 DEF SenderDealloc, dealloc, SGoto
    <3>2. UNCHANGED <<view, last>> /\ ~alive'
      BY <3>1 DEF FreeBlock
    <3>3. \A l \in Locations : Race("S", l) = {}
      <4>1. \A l \in Locations : last[l]["R"] \in Nat /\ view["S"]["R"] \in Nat
        BY <1>1, ClocksAreNat, ConstantsType DEF NatClocks
      <4> QED
        BY <1>4, <4>1 DEF Race, Other, DropAcquired, Covers, CoversAt
    <3>4. NoNewRace
      BY <1>4, <3>1, <3>3 DEF NoNewRace, NoDataRace, FreeBlock, UseAfterFree, Fault
    <3> QED
      BY <1>4, <3>1, <3>2, <3>4 DEF ClockInv, Covers, CoversAt
  <2> QED
    BY <2>1, <2>2
<1>6. FreshRace' /\ WakingRace' /\ OwnerRace' /\ DoneRace(ls)'
  BY <1>3, <1>5 DEF FreshRace, WakingRace, OwnerRace, DoneRace
<1>7. rpc \notin UsesWaker \cup Waiting
  BY <1>4 DEF Gone, Resting, UsesWaker, WakerIsMine, Waiting
<1>8. TokenRace' /\ WaitRace(ls)' /\ SlotRace'
  BY <1>2, <1>4, <1>7 DEF TokenRace, TokenCovers, WaitRace, Waiting, SlotRace, Gone
<1> QED
  BY <1>5, <1>6, <1>8 DEF OrderInv, NoNewRace

\* No step of the sending end races.
LEMMA SenderRace ==
  ASSUME NEW ls \in Scopes, OwnershipInv, OwnershipInv', OrderInv(ls), SenderNext
  PROVE  OrderInv(ls)'
BY SenderPreparesRace, SenderDecidesRace, SenderWakesRace, SenderOwnsRace, Zenon
DEF SenderNext, SenderStep, SenderCall

-----------------------------------------------------------------------------
(* A calm channel has no data race. *)

\* A write becoming visible makes no race.
LEMMA VisibilityRace ==
  ASSUME NEW ls \in Scopes, OwnershipInv, OrderInv(ls), Visibility
  PROVE  OrderInv(ls)'
<1>1. MemoryTypeOK
  BY DEF OwnershipInv, TypeInv, Typed, ChannelTypeOK
<1>2. PICK t \in Threads : Propagate(t)
  BY DEF Visibility
<1>3. /\ UNCHANGED <<spc, rpc, handle, token>>
      /\ UNCHANGED <<state, view, acq, alive, last, faults>>
  BY <1>2 DEF Visibility, Propagate, senderVars, receiverVars, signals
<1>4. /\ ClockInv' /\ NoNewRace /\ TokenCovers'
      /\ Carried(ls)' = Carried(ls) /\ Synced(ls)' = Synced(ls) /\ Fenced(ls)' = Fenced(ls)
      /\ Carried(Message)' = Carried(Message) /\ Synced(Message)' = Synced(Message)
      /\ WakerCarried' = WakerCarried /\ DropCarried' = DropCarried
      /\ WakerAcquired' = WakerAcquired /\ DropAcquired' = DropAcquired
  BY <1>3 DEF OrderInv, ClockInv, NoNewRace, NoDataRace, TokenRace, TokenCovers, Carried,
     Synced, Fenced, WakerCarried, DropCarried, WakerAcquired, DropAcquired, Covers, CoversAt
<1>5. FreshRace' /\ WakingRace' /\ OwnerRace' /\ DoneRace(ls)'
  BY <1>3, <1>4 DEF OrderInv, FreshRace, WakingRace, OwnerRace, DoneRace
<1>6. CaughtUp => CaughtUp'
  BY <1>1, <1>2, PropagateEffect
<1>7. TokenRace' /\ WaitRace(ls)'
  BY <1>3, <1>4, <1>6 DEF OrderInv, TokenRace, WaitRace
<1>8. OneBehind(EMPTY)' => OneBehind(EMPTY) \/ Gone
  <2>1. CaughtUp' \/ OneBehind(RECEIVING)' \/ OneBehind(UNPARKING)' \/ TwoBehind'
          => ~OneBehind(EMPTY)'
    BY DEF CaughtUp, OneBehind, TwoBehind, EMPTY, RECEIVING, UNPARKING
  <2>2. \/ CaughtUp \/ OneBehind(EMPTY) \/ OneBehind(RECEIVING) \/ OneBehind(UNPARKING)
        \/ TwoBehind \/ Gone
    BY DEF OwnershipInv, PhaseInv, FreshInv, WakingInv, OwnerInv, OpenInv, ClosingInv,
       FreedInv, DoneInv, Gone, Resting
  <2> QED
    BY <1>1, <1>2, <2>1, <2>2, PropagateEffect
<1>9. SlotRace'
  BY <1>3, <1>8 DEF OrderInv, SlotRace, Gone
<1> QED
  BY <1>4, <1>5, <1>7, <1>9 DEF OrderInv, NoNewRace

\* A channel fresh from channel() has been accessed by nobody.
LEMMA InitRace ==
  ASSUME NEW ls \in Scopes, Init
  PROVE  OrderInv(ls)
<1>1. /\ \A l \in Locations, t \in Threads : last[l][t] = 0
      /\ \A t \in Threads : view[t][t] = 1
      /\ state.val = EMPTY /\ spc = "idle" /\ rpc = "idle" /\ token = {} /\ faults = {}
      /\ CaughtUp
  BY ConstantsType
  DEF Init, ChannelInit, MemoryInit, SignalsInit, SenderInit, ReceiverInit, Zero, CaughtUp
<1>2. ClockInv /\ NoDataRace
  BY <1>1 DEF ClockInv, Covers, CoversAt, NoDataRace
<1>3. FreshRace /\ WakingRace /\ OwnerRace /\ DoneRace(ls) /\ TokenRace
  BY <1>1, ConstantsType
  DEF FreshRace, WakingRace, OwnerRace, DoneRace, TokenRace, TokenCovers, Locations, EMPTY,
      RECEIVING, DISCONNECTED
<1>4. WaitRace(ls) /\ SlotRace
  BY <1>1, ConstantsType DEF WaitRace, Waiting, SlotRace, Locations
<1> QED
  BY <1>2, <1>3, <1>4 DEF OrderInv

\* Every step of a channel that is not cancelled keeps the accesses of its ends in order;
\* the deallocation too, if the channel is calm.
LEMMA NextOrder ==
  ASSUME NEW ls \in Scopes, OwnershipInv, OrderInv(ls), [UncancelledNext]_vars,
         ls = Locations => [CalmNext]_vars
  PROVE  OrderInv(ls)'
<1>1. OwnershipInv'
  BY NextOwned
<1>2. CASE UNCHANGED vars
  BY <1>2
  DEF vars, channel, memory, signals, senderVars, receiverVars, OrderInv, ClockInv, FreshRace,
      WakingRace, OwnerRace, DoneRace, TokenRace, WaitRace, SlotRace, NoDataRace, Covers,
      CoversAt, Synced, Fenced, Carried, DropAcquired, DropCarried, WakerAcquired,
      WakerCarried, TokenCovers, Gone, CaughtUp, OneBehind, EMPTY
<1>3. CASE SenderNext
  BY <1>1, <1>3, SenderRace
<1>4. CASE ReceiverNext /\ (ls = Locations => ~WakeWithoutUnpark)
  BY <1>1, <1>4, ReceiverRace
<1>5. CASE Visibility
  BY <1>5, VisibilityRace
<1> QED
  BY <1>2, <1>3, <1>4, <1>5 DEF CalmNext, UncancelledNext, Next

\* In a calm channel that holds for all of the block, ...
LEMMA NextRace ==
  OwnershipInv /\ RaceInv /\ [CalmNext]_vars => OwnershipInv' /\ RaceInv'
BY NextOwned, NextOrder, ScopesType DEF RaceInv, CalmNext

\* ... in every other one for the slots.
LEMMA NextSlots ==
  OwnershipInv /\ SlotInv /\ [UncancelledNext]_vars => SlotInv'
<1>1. Message # Locations
  BY DEF Message, Locations
<1> QED
  BY <1>1, NextOrder, ScopesType DEF SlotInv

\* Whatever an end of a calm channel is about to access or to free, it has the other
\* end's accesses of it in its view, however their steps interleave and however late
\* the writes of state become visible.
THEOREM Races == CalmSpec => []RaceInv
<1>1. Init => RaceInv
  BY InitRace, ScopesType DEF RaceInv
<1> QED
  BY <1>1, InitOwned, NextRace, PTL DEF CalmSpec

\* A calm channel has no data race: the Relaxed, Acquire, Release and AcqRel that the
\* operations on state are given, and the fences that follow them, are enough.
THEOREM RaceFreedom == CalmSpec => []NoDataRace
<1>1. RaceInv => NoDataRace
  BY DEF RaceInv, OrderInv
<1> QED
  BY <1>1, Races, PTL
=============================================================================
