---------------------------- MODULE MemoryProofs ----------------------------
(***************************************************************************)
(* What the operations of module Memory preserve and do, for every thread, *)
(* value and view.                                                         *)
(***************************************************************************)
EXTENDS Memory, TLAPS

\* Two views have a join.
LEMMA JoinType ==
  ASSUME NEW v \in Views, NEW w \in Views
  PROVE  Join(v, w) \in Views
BY DEF Join, Views

\* A load returns a write.
LEMMA VisibleType ==
  ASSUME MemoryTypeOK, NEW t \in Threads
  PROVE  Visible(t) \in Writes
<1>1. CASE stale[t] = <<>>
  BY <1>1 DEF Visible, MemoryTypeOK
<1>2. CASE stale[t] # <<>>
  <2>1. stale[t] \in Seq(Writes)
    BY DEF MemoryTypeOK
  <2>2. Head(stale[t]) \in Writes
    BY <1>2, <2>1
  <2> QED
    BY <1>2, <2>2 DEF Visible
<1> QED
  BY <1>1, <1>2

\* Recording an access, and the faults it commits, keeps the types.
LEMMA TouchType ==
  ASSUME MemoryTypeOK, NEW t \in Threads, NEW l \in Locations,
         NEW committed \in SUBSET FaultKinds, Touch(t, l, committed)
  PROVE  /\ last' \in [Locations -> Views]
         /\ faults' \subseteq FaultKinds
         /\ alive' \in BOOLEAN
<1>1. last' \in [Locations -> Views]
  BY DEF MemoryTypeOK, Touch, Views, Threads, Locations
<1>2. faults' \subseteq FaultKinds
  BY DEF MemoryTypeOK, Touch, UseAfterFree, FaultKinds
<1> QED
  BY <1>1, <1>2 DEF MemoryTypeOK, Touch

\* A load keeps the memory well typed.
LEMMA AtomicLoadType ==
  ASSUME MemoryTypeOK, NEW t \in Threads, NEW order, AtomicLoad(t, order)
  PROVE  MemoryTypeOK'
<1>1. Visible(t).view \in Views
  BY VisibleType DEF Writes
<1>2. view' \in [Threads -> Views]
  BY <1>1, JoinType DEF MemoryTypeOK, AtomicLoad
<1>3. acq' \in [Threads -> Views]
  BY <1>1, JoinType DEF MemoryTypeOK, AtomicLoad
<1>4. /\ last' \in [Locations -> Views]
      /\ faults' \subseteq FaultKinds
      /\ alive' \in BOOLEAN
  BY TouchType DEF AtomicLoad, Locations
<1> QED
  BY <1>2, <1>3, <1>4 DEF MemoryTypeOK, AtomicLoad

\* Publishing a write keeps the newest and the older writes well typed.
LEMMA PublishType ==
  ASSUME MemoryTypeOK, NEW t \in Threads, NEW new \in Writes, Publish(t, new)
  PROVE  state' \in Writes /\ stale' \in [Threads -> Seq(Writes)]
BY DEF MemoryTypeOK, Publish

\* A read-modify-write keeps the memory well typed.
LEMMA AtomicRmwType ==
  ASSUME MemoryTypeOK, NEW t \in Threads, NEW order, NEW val \in U8,
         AtomicRmw(t, order, val)
  PROVE  MemoryTypeOK'
<1> DEFINE seen == IF "acquire" \in order THEN Join(view[t], state.view) ELSE view[t]
           rel  == "release" \in order
           new  == [val  |-> val,
                    view |-> IF rel THEN Join(state.view, seen) ELSE state.view]
<1>1. state.view \in Views /\ view[t] \in Views
  BY DEF MemoryTypeOK, Writes
<1>2. seen \in Views
  BY <1>1, JoinType
<1>3. new \in Writes
  BY <1>1, <1>2, JoinType DEF Writes
<1>4. Publish(t, new)
  BY DEF AtomicRmw
<1>5. state' \in Writes /\ stale' \in [Threads -> Seq(Writes)]
  <2> HIDE DEF new
  <2> QED BY <1>3, <1>4, PublishType
<1>6. [seen EXCEPT ![t] = @ + 1] \in Views
  <2> HIDE DEF seen
  <2> QED BY <1>2 DEF Views
<1>7. view' = [view EXCEPT ![t] = IF rel THEN [seen EXCEPT ![t] = @ + 1] ELSE seen]
  BY DEF AtomicRmw
<1>8. view' \in [Threads -> Views]
  <2> HIDE DEF seen, rel
  <2> QED BY <1>2, <1>6, <1>7 DEF MemoryTypeOK
<1>9. acq' \in [Threads -> Views]
  BY <1>1, JoinType DEF MemoryTypeOK, AtomicRmw
<1>10. /\ last' \in [Locations -> Views]
       /\ faults' \subseteq FaultKinds
       /\ alive' \in BOOLEAN
  BY TouchType DEF AtomicRmw, Locations
<1> QED
  BY <1>5, <1>8, <1>9, <1>10 DEF MemoryTypeOK

\* A relaxed store keeps the memory well typed.
LEMMA AtomicStoreType ==
  ASSUME MemoryTypeOK, NEW t \in Threads, NEW val \in U8, AtomicStore(t, val)
  PROVE  MemoryTypeOK'
<1>1. [val |-> val, view |-> Zero] \in Writes
  BY DEF Writes, Views, Zero
<1>2. state' \in Writes /\ stale' \in [Threads -> Seq(Writes)]
  BY <1>1, PublishType DEF AtomicStore
<1>3. /\ last' \in [Locations -> Views]
      /\ faults' \subseteq FaultKinds
      /\ alive' \in BOOLEAN
  BY TouchType DEF AtomicStore, Locations
<1> QED
  BY <1>2, <1>3 DEF MemoryTypeOK, AtomicStore

\* A fence keeps the memory well typed.
LEMMA FenceAcquireType ==
  ASSUME MemoryTypeOK, NEW t \in Threads, FenceAcquire(t)
  PROVE  MemoryTypeOK'
BY JoinType DEF MemoryTypeOK, FenceAcquire

\* Synchronising with the other end keeps the memory well typed.
LEMMA SyncWithType ==
  ASSUME MemoryTypeOK, NEW t \in Threads, NEW v \in Views, SyncWith(t, v)
  PROVE  MemoryTypeOK'
BY JoinType DEF MemoryTypeOK, SyncWith

\* A write becoming visible keeps the memory well typed.
LEMMA PropagateType ==
  ASSUME MemoryTypeOK, NEW t \in Threads, Propagate(t)
  PROVE  MemoryTypeOK'
<1>1. stale[t] \in Seq(Writes) /\ stale[t] # <<>>
  BY DEF MemoryTypeOK, Propagate
<1>2. Tail(stale[t]) \in Seq(Writes)
  BY <1>1
<1> QED
  BY <1>2 DEF MemoryTypeOK, Propagate

\* A race is the one fault that an access commits by its timing.
LEMMA RaceType ==
  ASSUME NEW t, NEW l
  PROVE  Race(t, l) \subseteq {"data_race"}
BY DEF Race

\* An access to a cell keeps the memory well typed.
LEMMA CellAccessType ==
  ASSUME MemoryTypeOK, NEW t \in Threads, NEW l \in Locations,
         NEW committed \in SUBSET FaultKinds, CellAccess(t, l, committed)
  PROVE  MemoryTypeOK'
<1>1. Race(t, l) \cup committed \in SUBSET FaultKinds
  BY RaceType DEF FaultKinds
<1>2. /\ last' \in [Locations -> Views]
      /\ faults' \subseteq FaultKinds
      /\ alive' \in BOOLEAN
  BY <1>1, TouchType DEF CellAccess
<1> QED
  BY <1>2 DEF MemoryTypeOK, CellAccess

\* The deallocation keeps the memory well typed.
LEMMA FreeBlockType ==
  ASSUME MemoryTypeOK, NEW t \in Threads,
         NEW committed \in SUBSET FaultKinds, FreeBlock(t, committed)
  PROVE  MemoryTypeOK'
<1>1. UNION {Race(t, l) : l \in Locations} \subseteq {"data_race"}
  BY RaceType
<1>2. faults' \subseteq FaultKinds
  BY <1>1 DEF MemoryTypeOK, FreeBlock, UseAfterFree, FaultKinds
<1> QED
  BY <1>2 DEF MemoryTypeOK, FreeBlock

-----------------------------------------------------------------------------
(* What the operations do to the clocks. *)

\* The join of two views knows what either knows.
LEMMA JoinGrows ==
  ASSUME NEW v \in Views, NEW w \in Views, NEW t \in Threads
  PROVE  Join(v, w)[t] >= v[t] /\ Join(v, w)[t] >= w[t]
BY DEF Join, Views

\* An access is recorded with the clock of its thread and nowhere else.
LEMMA TouchClocks ==
  ASSUME MemoryTypeOK, NEW t \in Threads, NEW l \in Locations, NEW committed,
         Touch(t, l, committed)
  PROVE  \A m \in Locations, u \in Threads :
           last'[m][u] = IF m = l /\ u = t THEN view[t][t] ELSE last[m][u]
BY DEF MemoryTypeOK, Touch, Views

\* What grows whichever operation is executed.
ClocksGrow ==
  \A u \in Threads, w \in Threads : view'[u][w] >= view[u][w] /\ acq'[u][w] >= acq[u][w]

\* A load adds what the write it returns carries to what a fence would acquire, or
\* acquires it.
LEMMA LoadClocks ==
  ASSUME MemoryTypeOK, NEW t \in Threads, NEW order, AtomicLoad(t, order)
  PROVE  /\ ClocksGrow
         /\ \A u \in Threads : u # t => view'[u] = view[u]
         /\ \A w \in Threads :
              /\ acq'[t][w] >= Visible(t).view[w]
              /\ "acquire" \in order => view'[t][w] >= Visible(t).view[w]
<1> DEFINE seen == Visible(t).view
<1>1. seen \in Views
  BY VisibleType DEF Writes
<1>2. view \in [Threads -> Views] /\ acq \in [Threads -> Views]
  BY DEF MemoryTypeOK
<1>3. /\ acq' = [acq EXCEPT ![t] = Join(acq[t], seen)]
      /\ view' = IF "acquire" \in order THEN [view EXCEPT ![t] = Join(view[t], seen)]
                                        ELSE view
  BY DEF AtomicLoad
<1> HIDE DEF seen
<1>4. \A w \in Threads : /\ Join(acq[t], seen)[w] >= acq[t][w]
                         /\ Join(acq[t], seen)[w] >= seen[w]
                         /\ Join(view[t], seen)[w] >= view[t][w]
                         /\ Join(view[t], seen)[w] >= seen[w]
  BY <1>1, <1>2, JoinGrows
<1>5. \A u \in Threads, w \in Threads : view[u][w] \in Nat /\ acq[u][w] \in Nat
  BY <1>2 DEF Views
<1>6. ClocksGrow
  BY <1>2, <1>3, <1>4, <1>5 DEF ClocksGrow
<1>7. \A u \in Threads : u # t => view'[u] = view[u]
  BY <1>2, <1>3
<1>8. \A w \in Threads : /\ acq'[t][w] >= seen[w]
                         /\ "acquire" \in order => view'[t][w] >= seen[w]
  BY <1>2, <1>3, <1>4
<1> QED
  BY <1>6, <1>7, <1>8 DEF seen

\* A read-modify-write reads the newest write, and its own write carries on what that
\* one carried, and the past of its thread if it releases.
LEMMA RmwClocks ==
  ASSUME MemoryTypeOK, NEW t \in Threads, NEW order, NEW val, AtomicRmw(t, order, val)
  PROVE  /\ ClocksGrow
         /\ \A u \in Threads : u # t => view'[u] = view[u]
         /\ \A w \in Threads :
              /\ acq'[t][w] >= state.view[w]
              /\ "acquire" \in order => view'[t][w] >= state.view[w]
              /\ state'.view[w] >= state.view[w]
              /\ "release" \in order => state'.view[w] >= view[t][w]
<1> DEFINE seen == IF "acquire" \in order THEN Join(view[t], state.view) ELSE view[t]
           next == IF "release" \in order THEN [seen EXCEPT ![t] = @ + 1] ELSE seen
<1>1. /\ view \in [Threads -> Views] /\ acq \in [Threads -> Views]
      /\ state.view \in Views /\ view[t] \in Views /\ acq[t] \in Views
  BY DEF MemoryTypeOK, Writes
<1>2. seen \in Views
  BY <1>1, JoinType
<1>3. /\ acq' = [acq EXCEPT ![t] = Join(acq[t], state.view)]
      /\ view' = [view EXCEPT ![t] = next]
      /\ state'.view = IF "release" \in order THEN Join(state.view, seen) ELSE state.view
  BY DEF AtomicRmw, Publish
<1>4. \A w \in Threads : /\ seen[w] >= view[t][w]
                         /\ "acquire" \in order => seen[w] >= state.view[w]
  <2>1. \A w \in Threads : view[t][w] \in Nat
    BY <1>1 DEF Views
  <2>2. CASE "acquire" \in order
    BY <1>1, <2>2, JoinGrows
  <2>3. CASE "acquire" \notin order
    <3>1. seen = view[t]
      BY <2>3
    <3> HIDE DEF seen
    <3>2. \A n \in Nat : n >= n
      OBVIOUS
    <3> QED BY <2>1, <2>3, <3>1, <3>2, Zenon
  <2> QED BY <2>2, <2>3
<1>5. \A w \in Threads : /\ Join(acq[t], state.view)[w] >= acq[t][w]
                         /\ Join(acq[t], state.view)[w] >= state.view[w]
  BY <1>1, JoinGrows
<1>6. \A w \in Threads : /\ Join(state.view, seen)[w] >= state.view[w]
                         /\ Join(state.view, seen)[w] >= seen[w]
                         /\ Join(state.view, seen)[w] \in Nat
  <2> HIDE DEF seen
  <2> QED BY <1>1, <1>2, JoinGrows, JoinType DEF Views
<1>7. \A w \in Threads : next[w] >= seen[w] /\ next[w] \in Nat
  <2> HIDE DEF seen
  <2> QED BY <1>2 DEF Views
<1> HIDE DEF seen, next
<1>8. \A u \in Threads, w \in Threads :
        /\ view[u][w] \in Nat /\ acq[u][w] \in Nat /\ state.view[w] \in Nat /\ seen[w] \in Nat
  BY <1>1, <1>2 DEF Views
<1>9. view'[t] = next /\ acq'[t] = Join(acq[t], state.view)
  BY <1>1, <1>3
<1>10. \A u \in Threads : u # t => view'[u] = view[u] /\ acq'[u] = acq[u]
  BY <1>1, <1>3
<1>11. \A w \in Threads : /\ next[w] >= view[t][w]
                          /\ "acquire" \in order => next[w] >= state.view[w]
  <2> TAKE w \in Threads
  <2>1. /\ seen[w] >= view[t][w] /\ next[w] >= seen[w]
        /\ "acquire" \in order => seen[w] >= state.view[w]
    BY <1>4, <1>7
  <2>2. {seen[w], next[w], view[t][w], state.view[w]} \subseteq Nat
    BY <1>7, <1>8
  <2> QED BY <2>1, <2>2
<1>12. ClocksGrow
  <2> SUFFICES ASSUME NEW u \in Threads, NEW w \in Threads
               PROVE  view'[u][w] >= view[u][w] /\ acq'[u][w] >= acq[u][w]
    BY DEF ClocksGrow
  <2> QED
    BY <1>5, <1>8, <1>9, <1>10, <1>11
<1>13. \A w \in Threads : /\ state'.view[w] >= state.view[w]
                          /\ "release" \in order => state'.view[w] >= view[t][w]
  BY <1>3, <1>4, <1>6, <1>8
<1> QED
  BY <1>5, <1>9, <1>10, <1>11, <1>12, <1>13

\* A fence acquires what the loads before it have collected.
LEMMA FenceClocks ==
  ASSUME MemoryTypeOK, NEW t \in Threads, FenceAcquire(t)
  PROVE  /\ ClocksGrow
         /\ \A u \in Threads : u # t => view'[u] = view[u]
         /\ \A w \in Threads : view'[t][w] >= acq[t][w]
<1>1. view \in [Threads -> Views] /\ acq \in [Threads -> Views]
  BY DEF MemoryTypeOK
<1>2. view' = [view EXCEPT ![t] = Join(view[t], acq[t])] /\ acq' = acq
  BY DEF FenceAcquire
<1>3. \A w \in Threads : /\ Join(view[t], acq[t])[w] >= view[t][w]
                         /\ Join(view[t], acq[t])[w] >= acq[t][w]
  BY <1>1, JoinGrows
<1>4. \A u \in Threads, w \in Threads : view[u][w] \in Nat /\ acq[u][w] \in Nat
  BY <1>1 DEF Views
<1> QED
  BY <1>1, <1>2, <1>3, <1>4 DEF ClocksGrow

\* So does synchronising with the other end.
LEMMA SyncClocks ==
  ASSUME MemoryTypeOK, NEW t \in Threads, NEW v \in Views, SyncWith(t, v)
  PROVE  /\ ClocksGrow
         /\ \A u \in Threads : u # t => view'[u] = view[u]
         /\ \A w \in Threads : view'[t][w] >= v[w]
<1>1. view \in [Threads -> Views] /\ acq \in [Threads -> Views]
  BY DEF MemoryTypeOK
<1>2. view' = [view EXCEPT ![t] = Join(view[t], v)] /\ acq' = acq
  BY DEF SyncWith
<1>3. \A w \in Threads : Join(view[t], v)[w] >= view[t][w] /\ Join(view[t], v)[w] >= v[w]
  BY <1>1, JoinGrows
<1>4. \A u \in Threads, w \in Threads : view[u][w] \in Nat /\ acq[u][w] \in Nat
  BY <1>1 DEF Views
<1> QED
  BY <1>1, <1>2, <1>3, <1>4 DEF ClocksGrow
=============================================================================
