--------------------------- MODULE PoolFeedProofs ---------------------------
(***************************************************************************)
(* Proofs about Graph and, after them, about PoolFeed, for every set of    *)
(* tokens, pools, objects, thresholds, tick arrays and windows.  The       *)
(* inductive invariant of the graph is the conjunction of the safety       *)
(* properties of its run and BuildInv.  The handlers implement the graph,  *)
(* so every invariant of the graph holds under them; their own invariants  *)
(* rest on that.                                                           *)
(***************************************************************************)
EXTENDS PoolFeed, FiniteSetTheorems, TLAPS

\* The two directions of a pool are directed pairs of tokens.
LEMMA EdgesOfPool == ASSUME NEW p \in Pool PROVE EdgesOf(p) \subseteq Edge
  BY MintAssumption DEF EdgesOf, Edge

\* Each edit of an adjacency map yields an adjacency map.
LEMMA AddListing ==
  ASSUME NEW l \in Listing, NEW o \in Obj PROVE addPoolToAdj(l, o) \in Listing
  BY DEF addPoolToAdj, Listing

LEMMA RemoveListing ==
  ASSUME NEW l \in Listing, NEW p \in Pool PROVE removePoolFromAdj(l, p) \in Listing
  BY DEF removePoolFromAdj, Listing

LEMMA UpdateListing ==
  ASSUME NEW l \in Listing, NEW o \in Obj, NEW first, NEW over
  PROVE  updatePoolInAdj(l, o, first, over) \in Listing
  BY DEF updatePoolInAdj, Listing

\* A set of pools has a size.
LEMMA KnownCount ==
  ASSUME NEW S \in SUBSET Pool PROVE Cardinality(S) \in Nat
  BY FiniteAssumption, FS_Subset, FS_CardinalityType

-----------------------------------------------------------------------------
(* Types.                                                                  *)

\* The empty sequence is a sequence over anything.
LEMMA EmptySeq == ASSUME NEW S PROVE <<>> \in Seq(S)
  OBVIOUS

LEMMA InitType == Init => TypeOK
  <1>1. EmptyListing \in Listing /\ [p \in Pool |-> None] \in Directory
    BY DEF EmptyListing, Listing, Directory
  <1>2. NoWork \in Work
    BY <1>1 DEF NoWork, Work
  <1>3. Init => snap \in Snapshot
    BY <1>1 DEF Init, Snapshot
  <1> QED BY <1>1, <1>2, <1>3, EmptySeq DEF Init, TypeOK

\* The work record a rebuild starts with.
LEMMA BeginRebuildType ==
  ASSUME TypeOK, NEW d \in Directory, NEW a \in Listing, BeginRebuild(d, a)
  PROVE  /\ added' \in Seq(Obj) /\ updated' \in Seq(Obj) /\ removed' \in Seq(Pool)
         /\ phase' = "rebuild"
         /\ work' \in Work
  <1>1. Cardinality(ReadyIn(d)) \in Nat
    BY KnownCount DEF ReadyIn, Known
  <1>2. EmptyListing \in Listing
    BY DEF EmptyListing, Listing
  <1> QED BY <1>1, <1>2 DEF BeginRebuild, Work

\* A draft of an incremental update is a work record.
LEMMA DraftType ==
  ASSUME NEW d \in Directory, NEW l \in Listing, NEW S \in SUBSET Edge, NEW n \in Int
  PROVE  Draft(d, l, S, n) \in Work
  BY DEF Draft, Work

LEMMA StoreType ==
  ASSUME TypeOK, NEW fast \in BOOLEAN, Store(fast) PROVE TypeOK'
  <1>1. Cardinality(Known(work.pools)) \in Nat
    BY KnownCount DEF Known
  <1>2. NoWork \in Work
    BY DEF NoWork, Work, Directory, Listing, EmptyListing
  <1> QED BY <1>1, <1>2 DEF Store, TypeOK, Work, Snapshot, pending

LEMMA WriterType == ASSUME TypeOK, Writer PROVE TypeOK'
  <1>1. ASSUME NEW o \in Obj, SetReady(o) PROVE TypeOK'
    BY <1>1 DEF SetReady, TypeOK, pending
  <1>2. ASSUME NEW o \in Obj, AddNewPool(o) PROVE TypeOK'
    <2>1. addPoolToAdj(adj, o) \in Listing
      BY AddListing DEF TypeOK
    <2>2. [pools EXCEPT ![AddrOf[o]] = o] \in Directory
      BY DEF TypeOK, Directory
    <2> QED BY <1>2, <2>1, <2>2 DEF AddNewPool, TypeOK
  <1>3. ASSUME NEW o \in Obj, ReplacePool(o) PROVE TypeOK'
    <2>1. [pools EXCEPT ![AddrOf[o]] = o] \in Directory
      BY DEF TypeOK, Directory
    <2> QED BY <1>3, <2>1 DEF ReplacePool, TypeOK
  <1>4. ASSUME NEW p \in Pool, RemovePool(p) PROVE TypeOK'
    <2>1. removePoolFromAdj(adj, p) \in Listing
      BY RemoveListing DEF TypeOK
    <2>2. [pools EXCEPT ![p] = None] \in Directory
      BY DEF TypeOK, Directory
    <2> QED BY <1>4, <2>1, <2>2 DEF RemovePool, TypeOK
  <1>5. ASSUME NEW S \in SUBSET Obj, AddPoolsBatch(S) PROVE TypeOK'
    <2>1. pools' \in Directory
      BY <1>5 DEF AddPoolsBatch, TypeOK, Directory
    <2>2. adj' \in Listing
      BY <1>5 DEF AddPoolsBatch, TypeOK, Listing
    <2>3. BeginRebuild(pools', adj')
      BY <1>5 DEF AddPoolsBatch
    <2> QED BY <1>5, <2>1, <2>2, <2>3, BeginRebuildType DEF AddPoolsBatch, TypeOK
  <1>6. CASE MarkDirty
    BY <1>6 DEF MarkDirty, TypeOK, pending
  <1>7. CASE RefreshSnapshot
    <2>1. BeginRebuild(pools, adj)
      BY <1>7 DEF RefreshSnapshot
    <2> QED BY <1>7, <2>1, BeginRebuildType DEF RefreshSnapshot, TypeOK
  <1> QED BY <1>1, <1>2, <1>3, <1>4, <1>5, <1>6, <1>7 DEF Writer, AddPool

LEMMA RefresherType == ASSUME TypeOK, ClaimDirty \/ LockForRefresh PROVE TypeOK'
  <1>1. CASE ClaimDirty
    BY <1>1 DEF ClaimDirty, TypeOK, pending
  <1>2. CASE StartIncremental
    BY <1>2, DraftType DEF StartIncremental, TypeOK, Snapshot, pending
  <1>3. CASE StartRebuild
    <2>1. BeginRebuild(pools, adj)
      BY <1>3 DEF StartRebuild
    <2> QED BY <1>3, <2>1, BeginRebuildType DEF StartRebuild, TypeOK
  <1> QED BY <1>1, <1>2, <1>3 DEF LockForRefresh

LEMMA HolderType == ASSUME TypeOK, Holder PROVE TypeOK'
  <1>1. ASSUME NEW e \in Edge, RebuildPair(e) PROVE TypeOK'
    <2>1. PICK T \in SUBSET Obj :
            work' = [work EXCEPT !.adj[e] = T, !.todo = @ \ {e}]
      BY <1>1 DEF RebuildPair, TypeOK, Listing
    <2>2. work' \in Work
      BY <2>1 DEF TypeOK, Work, Listing
    <2> QED BY <1>1, <2>2 DEF RebuildPair, TypeOK, pending
  <1>2. CASE PublishRebuild
    BY <1>2, StoreType DEF PublishRebuild
  <1> /\ work.pools \in Directory /\ work.adj \in Listing /\ work \in Work
      /\ work.shared \in SUBSET Edge /\ work.ready \in Int
      /\ work.ready - 1 \in Int /\ work.ready + 1 \in Int
      /\ \A S : work.shared \ S \in SUBSET Edge
      /\ snap.adj \in Listing /\ snap \in Snapshot
    BY DEF TypeOK, Work, Snapshot
  <1>3. CASE ApplyRemoved
    <2> DEFINE p == Head(removed)
               o == work.pools[p]
    <2>1. p \in Pool /\ Tail(removed) \in Seq(Pool)
      BY <1>3 DEF ApplyRemoved, TypeOK
    <2>2. removePoolFromAdj(work.adj, p) \in Listing
      BY <2>1, RemoveListing
    <2>3. [work.pools EXCEPT ![p] = None] \in Directory
      BY <2>1 DEF Directory
    <2>4. \/ work' = work
          \/ work' = Draft([work.pools EXCEPT ![p] = None],
                          removePoolFromAdj(work.adj, p), work.shared \ EdgesOf(p),
                          IF ready[o] THEN work.ready - 1 ELSE work.ready)
      BY <1>3 DEF ApplyRemoved
    <2>5. work' \in Work
      BY <2>2, <2>3, <2>4, DraftType
    <2> QED BY <1>3, <2>1, <2>5 DEF ApplyRemoved, TypeOK
  <1>4. CASE ApplyUpdated
    <2> DEFINE o == Head(updated)
               p == AddrOf[o]
               d == [work.pools EXCEPT ![p] = o]
    <2>1. o \in Obj /\ p \in Pool /\ Tail(updated) \in Seq(Obj)
      <3>1. updated \in Seq(Obj) /\ updated # <<>>
        BY <1>4 DEF ApplyUpdated, TypeOK
      <3> QED BY <3>1, ObjAssumption
    <2>2. d \in Directory
      BY <2>1 DEF Directory
    <2>3. /\ removePoolFromAdj(work.adj, p) \in Listing
          /\ addPoolToAdj(work.adj, o) \in Listing
          /\ \A first, over : /\ updatePoolInAdj(work.adj, o, first, over) \in Listing
                             /\ updatePoolInAdj(snap.adj, o, first, over) \in Listing
      BY <2>1, RemoveListing, AddListing, UpdateListing
    <2>4. \/ work' = Draft(d, work.adj, work.shared, work.ready)
          \/ work' = Draft(d, removePoolFromAdj(work.adj, p),
                          work.shared \ EdgesOf(p), work.ready - 1)
          \/ \E moved : work' = Draft(d, addPoolToAdj(work.adj, o),
                                     work.shared \ moved, work.ready + 1)
          \/ \E first : work' = Draft(d, updatePoolInAdj(work.adj, o, first, Edge),
                                     work.shared, work.ready)
      BY <1>4 DEF ApplyUpdated
    <2>5. work' \in Work
      <3> HIDE DEF d, p, o
      <3>1. CASE work' = Draft(d, work.adj, work.shared, work.ready)
        BY <3>1, <2>2, DraftType
      <3>2. CASE work' = Draft(d, removePoolFromAdj(work.adj, p),
                               work.shared \ EdgesOf(p), work.ready - 1)
        BY <3>2, <2>2, <2>3, DraftType
      <3>3. ASSUME NEW moved, work' = Draft(d, addPoolToAdj(work.adj, o),
                                            work.shared \ moved, work.ready + 1)
            PROVE  work' \in Work
        BY <3>3, <2>2, <2>3, DraftType
      <3>4. ASSUME NEW first,
                   work' = Draft(d, updatePoolInAdj(work.adj, o, first, Edge),
                                 work.shared, work.ready)
            PROVE  work' \in Work
        BY <3>4, <2>2, <2>3, DraftType
      <3> QED BY <3>1, <3>2, <3>3, <3>4, <2>4
    <2>6. \/ snap' = snap
          \/ \E first : snap' = [snap EXCEPT !.adj =
                                  updatePoolInAdj(snap.adj, o, first, work.shared)]
      BY <1>4 DEF ApplyUpdated
    <2>7. snap' \in Snapshot
      BY <2>3, <2>6 DEF Snapshot
    <2> QED BY <1>4, <2>1, <2>5, <2>7 DEF ApplyUpdated, TypeOK
  <1>5. CASE ApplyAdded
    <2> DEFINE o == Head(added)
               d == [work.pools EXCEPT ![AddrOf[o]] = o]
    <2>1. o \in Obj /\ AddrOf[o] \in Pool /\ Tail(added) \in Seq(Obj)
      BY <1>5, ObjAssumption DEF ApplyAdded, TypeOK
    <2>2. d \in Directory
      BY <2>1 DEF Directory
    <2>3. addPoolToAdj(work.adj, o) \in Listing
      BY <2>1, AddListing
    <2>4. \/ work' = Draft(d, work.adj, work.shared, work.ready)
          \/ \E moved \in SUBSET EdgesOf(AddrOf[o]) :
               work' = Draft(d, addPoolToAdj(work.adj, o),
                             work.shared \ moved, work.ready + 1)
      BY <1>5 DEF ApplyAdded
    <2>5. work' \in Work
      <3> HIDE DEF d, o
      <3>1. CASE work' = Draft(d, work.adj, work.shared, work.ready)
        BY <3>1, <2>2, DraftType
      <3>2. ASSUME NEW moved, work' = Draft(d, addPoolToAdj(work.adj, o),
                                            work.shared \ moved, work.ready + 1)
            PROVE  work' \in Work
        BY <3>2, <2>2, <2>3, DraftType
      <3> QED BY <3>1, <3>2, <2>4
    <2> QED BY <1>5, <2>1, <2>5 DEF ApplyAdded, TypeOK
  <1>6. CASE PublishIncremental
    BY <1>6, StoreType DEF PublishIncremental
  <1> QED BY <1>1, <1>2, <1>3, <1>4, <1>5, <1>6 DEF Holder

LEMMA TypeStep == TypeOK /\ [Next]_vars => TypeOK'
  <1>1. TypeOK /\ UNCHANGED vars => TypeOK'
    BY DEF vars, TypeOK
  <1> QED BY <1>1, WriterType, RefresherType, HolderType DEF Next

\* Type correctness of the graph.
THEOREM TypeCorrect == Spec => []TypeOK
  BY InitType, TypeStep, PTL DEF Spec

-----------------------------------------------------------------------------
(* The two mutable maps.                                                   *)

\* Only four operations touch the mutable maps.
LEMMA MapsTouched ==
  ASSUME [Next]_vars
  PROVE  \/ \E o \in Obj : AddNewPool(o) \/ ReplacePool(o)
         \/ \E p \in Pool : RemovePool(p)
         \/ \E S \in SUBSET Obj : AddPoolsBatch(S)
         \/ UNCHANGED <<pools, adj>>
  BY DEF Next, vars, Writer, AddPool, SetReady, MarkDirty, RefreshSnapshot, ClaimDirty,
         LockForRefresh, StartIncremental, StartRebuild, Holder, RebuildPair,
         PublishRebuild, PublishIncremental, Store, ApplyRemoved, ApplyUpdated,
         ApplyAdded

LEMMA FilesStep ==
  TypeOK /\ AdjFilesEachPoolOnce /\ [Next]_vars => AdjFilesEachPoolOnce'
  <1> SUFFICES ASSUME TypeOK, AdjFilesEachPoolOnce, [Next]_vars
               PROVE  AdjFilesEachPoolOnce'
    OBVIOUS
  <1> USE ObjAssumption, EdgesOfPool
  <1> /\ adj \in [Edge -> SUBSET Obj]
      /\ pools \in [Pool -> Obj \cup {None}]
    BY DEF TypeOK, Listing, Directory
  <1>1. ASSUME NEW o \in Obj, AddNewPool(o) PROVE AdjFilesEachPoolOnce'
    <2>1. /\ pools' = [pools EXCEPT ![AddrOf[o]] = o] /\ pools[AddrOf[o]] = None
          /\ adj' = [e \in Edge |-> IF e \in EdgesOf(AddrOf[o]) THEN adj[e] \cup {o}
                                                              ELSE adj[e]]
      BY <1>1 DEF AddNewPool, addPoolToAdj
    <2>2. ASSUME NEW e \in Edge, NEW x \in adj'[e] PROVE e \in EdgesOf(AddrOf[x])
      BY <2>1, <2>2 DEF AdjFilesEachPoolOnce
    <2>3. ASSUME NEW p \in Pool, pools'[p] = None, NEW e \in Edge, NEW x \in adj'[e]
          PROVE  AddrOf[x] # p
      BY <2>1, <2>3 DEF AdjFilesEachPoolOnce
    <2>4. ASSUME NEW p \in Pool, pools'[p] # None
          PROVE  \E y \in Obj : /\ AddrOf[y] = p
                               /\ \A e \in EdgesOf(p) : {x \in adj'[e] : AddrOf[x] = p} = {y}
      <3>1. CASE p = AddrOf[o]
        <4>1. \A e \in EdgesOf(p) : {x \in adj'[e] : AddrOf[x] = p} = {o}
          BY <3>1, <2>1 DEF AdjFilesEachPoolOnce
        <4> QED BY <3>1, <4>1
      <3>2. CASE p # AddrOf[o]
        <4>1. pools[p] # None
          BY <2>1, <2>4, <3>2
        <4>2. PICK y \in Obj : /\ AddrOf[y] = p
                               /\ \A e \in EdgesOf(p) : {x \in adj[e] : AddrOf[x] = p} = {y}
          BY <4>1 DEF AdjFilesEachPoolOnce
        <4>3. ASSUME NEW e \in EdgesOf(p)
              PROVE  {x \in adj'[e] : AddrOf[x] = p} = {x \in adj[e] : AddrOf[x] = p}
          BY <2>1, <3>2
        <4> QED BY <4>2, <4>3
      <3> QED BY <3>1, <3>2
    <2> QED BY <2>2, <2>3, <2>4 DEF AdjFilesEachPoolOnce
  <1>2. ASSUME NEW o \in Obj, ReplacePool(o) PROVE AdjFilesEachPoolOnce'
    <2>1. /\ pools' = [pools EXCEPT ![AddrOf[o]] = o]
          /\ pools[AddrOf[o]] # None /\ adj' = adj
      BY <1>2 DEF ReplacePool
    <2>2. \A p \in Pool : pools'[p] = None <=> pools[p] = None
      BY <2>1
    <2> QED BY <2>1, <2>2 DEF AdjFilesEachPoolOnce
  <1>3. ASSUME NEW q \in Pool, RemovePool(q) PROVE AdjFilesEachPoolOnce'
    <2>1. /\ pools' = [pools EXCEPT ![q] = None] /\ pools[q] # None
          /\ adj' = [e \in Edge |-> IF e \in EdgesOf(q)
                                    THEN {o \in adj[e] : AddrOf[o] # q} ELSE adj[e]]
      BY <1>3 DEF RemovePool, removePoolFromAdj
    <2>2. ASSUME NEW e \in Edge, NEW x \in adj'[e]
          PROVE  e \in EdgesOf(AddrOf[x]) /\ x \in adj[e] /\ AddrOf[x] # q
      BY <2>1, <2>2 DEF AdjFilesEachPoolOnce
    <2>3. ASSUME NEW p \in Pool, pools'[p] = None, NEW e \in Edge, NEW x \in adj'[e]
          PROVE  AddrOf[x] # p
      BY <2>1, <2>2, <2>3 DEF AdjFilesEachPoolOnce
    <2>4. ASSUME NEW p \in Pool, pools'[p] # None
          PROVE  \E y \in Obj : /\ AddrOf[y] = p
                               /\ \A e \in EdgesOf(p) : {x \in adj'[e] : AddrOf[x] = p} = {y}
      <3>1. p # q /\ pools[p] # None
        BY <2>1, <2>4
      <3>2. PICK y \in Obj : /\ AddrOf[y] = p
                             /\ \A e \in EdgesOf(p) : {x \in adj[e] : AddrOf[x] = p} = {y}
        BY <3>1 DEF AdjFilesEachPoolOnce
      <3>3. ASSUME NEW e \in EdgesOf(p)
            PROVE  {x \in adj'[e] : AddrOf[x] = p} = {x \in adj[e] : AddrOf[x] = p}
        BY <2>1, <3>1
      <3> QED BY <3>2, <3>3
    <2> QED BY <2>2, <2>3, <2>4 DEF AdjFilesEachPoolOnce
  <1>4. ASSUME NEW S \in SUBSET Obj, AddPoolsBatch(S) PROVE AdjFilesEachPoolOnce'
    <2>1. /\ \A p \in Pool : pools'[p] = IF \E o \in S : AddrOf[o] = p
                                       THEN CHOOSE o \in S : AddrOf[o] = p ELSE pools[p]
          /\ \A o1, o2 \in S : AddrOf[o1] = AddrOf[o2] => o1 = o2
          /\ adj' = [e \in Edge |->
                      adj[e] \cup {o \in S : /\ pools[AddrOf[o]] = None
                                             /\ e \in EdgesOf(AddrOf[o])}]
      BY <1>4 DEF AddPoolsBatch
    <2>2. ASSUME NEW e \in Edge, NEW x \in adj'[e] PROVE e \in EdgesOf(AddrOf[x])
      BY <2>1, <2>2 DEF AdjFilesEachPoolOnce
    <2>3. \A p \in Pool : pools'[p] = None <=> pools[p] = None /\ \A o \in S : AddrOf[o] # p
      BY <2>1
    <2>4. ASSUME NEW p \in Pool, pools'[p] = None, NEW e \in Edge, NEW x \in adj'[e]
          PROVE  AddrOf[x] # p
      BY <2>1, <2>3, <2>4 DEF AdjFilesEachPoolOnce
    <2>5. ASSUME NEW p \in Pool, pools'[p] # None
          PROVE  \E y \in Obj : /\ AddrOf[y] = p
                               /\ \A e \in EdgesOf(p) : {x \in adj'[e] : AddrOf[x] = p} = {y}
      <3>1. CASE pools[p] = None
        <4>1. PICK y \in S : AddrOf[y] = p
          BY <3>1, <2>3, <2>5
        <4>2. ASSUME NEW e \in EdgesOf(p) PROVE {x \in adj'[e] : AddrOf[x] = p} = {y}
          <5>1. \A x \in adj[e] : AddrOf[x] # p
            BY <3>1 DEF AdjFilesEachPoolOnce
          <5> QED BY <5>1, <4>1, <2>1, <3>1
        <4> QED BY <4>1, <4>2
      <3>2. CASE pools[p] # None
        <4>1. PICK y \in Obj : /\ AddrOf[y] = p
                               /\ \A e \in EdgesOf(p) : {x \in adj[e] : AddrOf[x] = p} = {y}
          BY <3>2 DEF AdjFilesEachPoolOnce
        <4>2. ASSUME NEW e \in EdgesOf(p)
              PROVE  {x \in adj'[e] : AddrOf[x] = p} = {x \in adj[e] : AddrOf[x] = p}
          BY <2>1, <3>2
        <4> QED BY <4>1, <4>2
      <3> QED BY <3>1, <3>2
    <2> QED BY <2>2, <2>4, <2>5 DEF AdjFilesEachPoolOnce
  <1>5. CASE UNCHANGED <<pools, adj>>
    BY <1>5 DEF AdjFilesEachPoolOnce
  <1> QED BY <1>1, <1>2, <1>3, <1>4, <1>5, MapsTouched

LEMMA InitFiles == Init => AdjFilesEachPoolOnce
  BY ObjAssumption DEF Init, AdjFilesEachPoolOnce, EmptyListing

\* The mutable maps agree for any pools, objects and interleaving.
THEOREM MapsAgree == Spec => []AdjFilesEachPoolOnce
  BY InitType, TypeStep, InitFiles, FilesStep, PTL DEF Spec

-----------------------------------------------------------------------------
(* The refresher always hears of a change.                                 *)

\* The diff is empty exactly when it counts no change.
LEMMA NoChanges ==
  ASSUME TypeOK PROVE Changes > 0 <=> ~(added = <<>> /\ removed = <<>> /\ updated = <<>>)
  <1>1. /\ Len(added) \in Nat /\ Len(removed) \in Nat /\ Len(updated) \in Nat
        /\ Len(added) = 0 <=> added = <<>>
        /\ Len(removed) = 0 <=> removed = <<>>
        /\ Len(updated) = 0 <=> updated = <<>>
    BY DEF TypeOK
  <1> QED BY <1>1 DEF Changes

\* What NoLostWakeup says, without arithmetic.
WakeupPending ==
  \/ added = <<>> /\ removed = <<>> /\ updated = <<>>
  \/ dirty \/ refresher = "claimed" \/ phase = "apply"

LEMMA WakeupStep ==
  TypeOK /\ WakeupPending /\ [Next]_vars => WakeupPending'
  <1> SUFFICES ASSUME TypeOK, WakeupPending, [Next]_vars PROVE WakeupPending'
    OBVIOUS
  <1> USE DEF WakeupPending, pending
  <1>1. CASE Writer
    BY <1>1 DEF Writer, SetReady, AddPool, AddNewPool, ReplacePool, RemovePool,
                AddPoolsBatch, MarkDirty, RefreshSnapshot, BeginRebuild
  <1>2. CASE ClaimDirty \/ LockForRefresh
    BY <1>2 DEF ClaimDirty, LockForRefresh, StartIncremental, StartRebuild, BeginRebuild
  <1>3. CASE Holder
    <2>1. CASE \E e \in Edge : RebuildPair(e)
      BY <2>1 DEF RebuildPair
    <2>2. CASE PublishRebuild
      BY <2>2 DEF PublishRebuild, Store
    <2>3. CASE ApplyRemoved
      BY <2>3 DEF ApplyRemoved
    <2>4. CASE ApplyUpdated
      BY <2>4 DEF ApplyUpdated
    <2>5. CASE ApplyAdded
      BY <2>5 DEF ApplyAdded
    <2>6. CASE PublishIncremental
      BY <2>6 DEF PublishIncremental, Store
    <2> QED BY <1>3, <2>1, <2>2, <2>3, <2>4, <2>5, <2>6 DEF Holder
  <1>4. CASE UNCHANGED vars
    BY <1>4 DEF vars
  <1> QED BY <1>1, <1>2, <1>3, <1>4 DEF Next

\* A recorded change is never left with nobody to apply it.
THEOREM WakeupsAreKept == Spec => []NoLostWakeup
  <1>1. Init => WakeupPending
    BY DEF Init, WakeupPending
  <1>2. TypeOK /\ WakeupPending => NoLostWakeup
    BY NoChanges DEF WakeupPending, NoLostWakeup
  <1> QED BY <1>1, <1>2, InitType, TypeStep, WakeupStep, PTL DEF Spec

-----------------------------------------------------------------------------
(* What the holder of mu builds.                                           *)

\* The steps that neither build nor publish nor touch the map.
LEMMA BuildInvStep ==
  ASSUME TypeOK, AdjFilesEachPoolOnce, BuildInv, ListedPoolsAreFound, [Next]_vars
  PROVE  BuildInv' /\ ListedPoolsAreFound'
  <1> USE ObjAssumption
  <1> /\ adj \in [Edge -> SUBSET Obj] /\ pools \in [Pool -> Obj \cup {None}]
      /\ work.adj \in [Edge -> SUBSET Obj] /\ work.pools \in [Pool -> Obj \cup {None}]
      /\ snap.adj \in [Edge -> SUBSET Obj] /\ snap.pools \in [Pool -> Obj \cup {None}]
      /\ work \in Work /\ snap \in Snapshot
    BY DEF TypeOK, Listing, Directory, Work, Snapshot
  <1> DEFINE Coherent(l, d) == \A e \in Edge : \A o \in l[e] :
                                 e \in EdgesOf(AddrOf[o]) /\ d[AddrOf[o]] # None
  <1>s. Coherent(snap.adj, snap.pools)
    BY DEF BuildInv, ListedPoolsAreFound
  <1>w. Coherent(work.adj, work.pools)
    BY DEF BuildInv
  <1>a. Coherent(adj, pools)
    BY DEF AdjFilesEachPoolOnce
  <1>e. ASSUME NEW d PROVE Coherent(EmptyListing, d)
    BY DEF EmptyListing
  <1>q. ASSUME Coherent(snap'.adj, snap'.pools), Coherent(work'.adj, work'.pools),
               phase' = "rebuild" => work'.pools = pools' /\ removed' = <<>>
        PROVE  BuildInv' /\ ListedPoolsAreFound'
    BY <1>q DEF BuildInv, ListedPoolsAreFound
  <1>1. CASE UNCHANGED <<work, snap, phase, pools, removed>>
    BY <1>1, <1>s, <1>w, <1>q DEF BuildInv
  <1>2. ASSUME phase = "free", UNCHANGED <<work, snap, phase>> PROVE BuildInv' /\ ListedPoolsAreFound'
    BY <1>2, <1>s, <1>w, <1>q
  <1>3. ASSUME BeginRebuild(pools', adj'), UNCHANGED snap PROVE BuildInv' /\ ListedPoolsAreFound'
    <2>1. work'.adj = EmptyListing /\ work'.pools = pools' /\ removed' = <<>>
      BY <1>3 DEF BeginRebuild
    <2> QED BY <2>1, <1>3, <1>s, <1>e, <1>q
  <1>4. CASE StartIncremental
    <2>1. work'.adj = snap.adj /\ work'.pools = snap.pools /\ phase' = "apply" /\ snap' = snap
      BY <1>4 DEF StartIncremental, Draft
    <2> QED BY <2>1, <1>s, <1>q
  <1>5. ASSUME NEW fast, Store(fast) PROVE BuildInv' /\ ListedPoolsAreFound'
    <2>1. /\ work'.adj = EmptyListing /\ phase' = "free"
          /\ snap'.adj = work.adj /\ snap'.pools = work.pools
      BY <1>5 DEF Store, NoWork
    <2> QED BY <2>1, <1>w, <1>e, <1>q
  <1>6. ASSUME NEW e \in Edge, RebuildPair(e) PROVE BuildInv' /\ ListedPoolsAreFound'
    <2>1. PICK T : T \subseteq adj[e] /\ work' = [work EXCEPT !.adj[e] = T, !.todo = @ \ {e}]
      BY <1>6 DEF RebuildPair
    <2>2. /\ work'.adj = [work.adj EXCEPT ![e] = T] /\ work'.pools = work.pools
          /\ work.pools = pools /\ pools' = pools /\ snap' = snap
          /\ removed = <<>> /\ removed' = removed
      BY <1>6, <2>1 DEF RebuildPair, BuildInv, Work, pending
    <2>3. Coherent(work'.adj, work'.pools)
      BY <2>1, <2>2, <1>w, <1>a
    <2> QED BY <2>2, <2>3, <1>s, <1>q
  <1>7. CASE ApplyRemoved
    <2> DEFINE p == Head(removed)
    <2>1. snap' = snap /\ phase' = "apply" /\ p \in Pool
      BY <1>7 DEF ApplyRemoved, TypeOK
    <2>2. \/ work' = work
          \/ /\ work'.pools = [work.pools EXCEPT ![p] = None]
             /\ work'.adj = removePoolFromAdj(work.adj, p)
      BY <1>7 DEF ApplyRemoved, Draft
    <2>3. Coherent(work'.adj, work'.pools)
      <3> HIDE DEF p
      <3> QED BY <2>1, <2>2, <1>w DEF removePoolFromAdj
    <2> QED BY <2>1, <2>3, <1>s, <1>q
  <1>8. CASE ApplyUpdated
    <2> DEFINE o == Head(updated)
               p == AddrOf[o]
    <2>1. o \in Obj /\ p \in Pool /\ phase' = "apply"
      BY <1>8 DEF ApplyUpdated, TypeOK
    <2>2. /\ work'.pools = [work.pools EXCEPT ![p] = o]
          /\ \/ work'.adj = work.adj /\ snap' = snap
             \/ work'.adj = removePoolFromAdj(work.adj, p) /\ snap' = snap
             \/ work'.adj = addPoolToAdj(work.adj, o) /\ snap' = snap
             \/ \E first \in FirstEntries(work.adj, p) :
                  /\ work'.adj = updatePoolInAdj(work.adj, o, first, Edge)
                  /\ snap'.adj = updatePoolInAdj(snap.adj, o, first, work.shared)
                  /\ snap'.pools = snap.pools
      BY <1>8 DEF ApplyUpdated, Draft, Snapshot
    <2>3. ASSUME NEW first \in FirstEntries(work.adj, p), NEW over,
                 NEW l \in [Edge -> SUBSET Obj], NEW d, Coherent(l, d)
          PROVE  Coherent(updatePoolInAdj(l, o, first, over), d)
      <3>1. \A e \in EdgesOf(p) : first[e] # None => first[e] \in Obj /\ AddrOf[first[e]] = p
        BY DEF FirstEntries
      <3> HIDE DEF p, o
      <3>2. p = AddrOf[o]
        BY DEF p
      <3> QED BY <2>1, <2>3, <3>1, <3>2 DEF updatePoolInAdj
    <2>4. Coherent(work.adj, work'.pools)
      BY <2>1, <2>2, <1>w
    <2>5. Coherent(removePoolFromAdj(work.adj, p), work'.pools)
      BY <2>4 DEF removePoolFromAdj
    <2>6. Coherent(addPoolToAdj(work.adj, o), work'.pools)
      BY <2>1, <2>2, <2>4 DEF addPoolToAdj
    <2>7. Coherent(work'.adj, work'.pools) /\ Coherent(snap'.adj, snap'.pools)
      <3> HIDE DEF Coherent, p, o
      <3> QED BY <2>2, <2>3, <2>4, <2>5, <2>6, <1>s
    <2> QED BY <2>1, <2>7, <1>q
  <1>9. CASE ApplyAdded
    <2> DEFINE o == Head(added)
    <2>1. o \in Obj /\ AddrOf[o] \in Pool /\ phase' = "apply" /\ snap' = snap
      BY <1>9 DEF ApplyAdded, TypeOK
    <2>2. /\ work'.pools = [work.pools EXCEPT ![AddrOf[o]] = o]
          /\ work'.adj = work.adj \/ work'.adj = addPoolToAdj(work.adj, o)
      BY <1>9 DEF ApplyAdded, Draft
    <2>3. Coherent(work'.adj, work'.pools)
      <3> HIDE DEF o
      <3> QED BY <2>1, <2>2, <1>w DEF addPoolToAdj
    <2> QED BY <2>1, <2>3, <1>s, <1>q
  <1>10. CASE Writer
    <2>1. CASE (\E o \in Obj : SetReady(o)) \/ MarkDirty
      BY <2>1, <1>1 DEF SetReady, MarkDirty, pending
    <2>2. CASE (\E o \in Obj : AddPool(o)) \/ (\E p \in Pool : RemovePool(p))
      BY <2>2, <1>2 DEF AddPool, AddNewPool, ReplacePool, RemovePool
    <2>3. CASE RefreshSnapshot
      BY <2>3, <1>3 DEF RefreshSnapshot
    <2>4. ASSUME NEW S \in SUBSET Obj, AddPoolsBatch(S) PROVE BuildInv' /\ ListedPoolsAreFound'
      BY <2>4, <1>3 DEF AddPoolsBatch
    <2> QED BY <1>10, <2>1, <2>2, <2>3, <2>4 DEF Writer
  <1>11. CASE ClaimDirty \/ StartRebuild
    BY <1>11, <1>1, <1>3 DEF ClaimDirty, StartRebuild, pending
  <1>12. CASE Holder
    BY <1>12, <1>5, <1>6, <1>7, <1>8, <1>9 DEF Holder, PublishRebuild, PublishIncremental
  <1>13. CASE UNCHANGED vars
    BY <1>13, <1>1 DEF vars
  <1> QED BY <1>4, <1>10, <1>11, <1>12, <1>13 DEF Next, LockForRefresh

LEMMA BuildInvInit == Init => BuildInv /\ ListedPoolsAreFound
  BY DEF Init, BuildInv, ListedPoolsAreFound, NoWork, EmptyListing

\* Whatever can be routed through can be found by its address.
THEOREM ListedAreFound == Spec => []ListedPoolsAreFound
  <1>1. TypeOK /\ AdjFilesEachPoolOnce /\ (BuildInv /\ ListedPoolsAreFound) /\ [Next]_vars
          => (BuildInv /\ ListedPoolsAreFound)'
    BY BuildInvStep
  <1> QED BY <1>1, InitType, TypeStep, InitFiles, FilesStep, BuildInvInit, PTL DEF Spec

\* A rebuild works on the current map, and lists and map are built together.
THEOREM BuildsCohere == Spec => []BuildInv
  <1>1. TypeOK /\ AdjFilesEachPoolOnce /\ (BuildInv /\ ListedPoolsAreFound) /\ [Next]_vars
          => (BuildInv /\ ListedPoolsAreFound)'
    BY BuildInvStep
  <1> QED BY <1>1, InitType, TypeStep, InitFiles, FilesStep, BuildInvInit, PTL DEF Spec

-----------------------------------------------------------------------------
(* No known pool falls between the diff and the snapshot.                  *)

\* The entries of a pending list.
Elems(s) == {s[i] : i \in DOMAIN s}

LEMMA ElemsEmpty == Elems(<<>>) = {}
  BY DEF Elems

LEMMA ElemsAppend ==
  ASSUME NEW S, NEW s \in Seq(S), NEW x \in S
  PROVE  Elems(Append(s, x)) = Elems(s) \cup {x}
  <1>1. /\ DOMAIN s = 1 .. Len(s) /\ Len(s) \in Nat
        /\ DOMAIN Append(s, x) = 1 .. Len(s) + 1
        /\ \A i \in 1 .. Len(s) : Append(s, x)[i] = s[i]
        /\ Append(s, x)[Len(s) + 1] = x
    OBVIOUS
  <1>2. 1 .. Len(s) + 1 = (1 .. Len(s)) \cup {Len(s) + 1}
    BY <1>1
  <1> QED BY <1>1, <1>2 DEF Elems

LEMMA ElemsTail ==
  ASSUME NEW S, NEW s \in Seq(S), s # <<>>
  PROVE  Elems(s) = {Head(s)} \cup Elems(Tail(s))
  <1>1. /\ DOMAIN s = 1 .. Len(s) /\ Len(s) \in Nat \ {0}
        /\ DOMAIN Tail(s) = 1 .. Len(s) - 1
        /\ \A i \in 1 .. Len(s) - 1 : Tail(s)[i] = s[i + 1]
        /\ Head(s) = s[1]
    OBVIOUS
  <1>2. ASSUME NEW x \in Elems(s) PROVE x \in {Head(s)} \cup Elems(Tail(s))
    <2>1. PICK i \in 1 .. Len(s) : x = s[i]
      BY <1>1 DEF Elems
    <2>2. CASE i = 1
      BY <2>1, <2>2, <1>1
    <2>3. CASE i # 1
      <3>1. i - 1 \in 1 .. Len(s) - 1 /\ Tail(s)[i - 1] = x
        BY <2>1, <2>3, <1>1
      <3> QED BY <3>1, <1>1 DEF Elems
    <2> QED BY <2>2, <2>3
  <1>3. ASSUME NEW x \in {Head(s)} \cup Elems(Tail(s)) PROVE x \in Elems(s)
    <2>1. CASE x = Head(s)
      BY <2>1, <1>1 DEF Elems
    <2>2. CASE x \in Elems(Tail(s))
      <3>1. PICK i \in 1 .. Len(s) - 1 : x = Tail(s)[i]
        BY <2>2, <1>1 DEF Elems
      <3>2. i + 1 \in 1 .. Len(s) /\ x = s[i + 1]
        BY <3>1, <1>1
      <3> QED BY <3>2, <1>1 DEF Elems
    <2> QED BY <1>3, <2>1, <2>2
  <1> QED BY <1>2, <1>3

\* KnownIsPublishedOrPending for one pool, in terms of Elems.
NextPools == IF phase = "apply" THEN work.pools ELSE snap.pools
Safe(p) == \/ \E o \in Elems(added) : AddrOf[o] = p
           \/ NextPools[p] # None /\ p \notin Elems(removed)
           \/ phase = "rebuild"

LEMMA SafeMeans ==
  KnownIsPublishedOrPending <=> \A p \in Known(pools) : Safe(p)
  BY DEF KnownIsPublishedOrPending, Safe, NextPools, Elems

\* A pool that was safe stays safe in any step that leaves it known.
LEMMA SafeStep ==
  ASSUME TypeOK, BuildInv, [Next]_vars,
         NEW p \in Pool, pools[p] # None => Safe(p), pools'[p] # None
  PROVE  Safe(p)'
  <1> USE ObjAssumption, ElemsEmpty DEF Safe, NextPools, pending
  <1> /\ added \in Seq(Obj) /\ updated \in Seq(Obj) /\ removed \in Seq(Pool)
      /\ pools \in [Pool -> Obj \cup {None}] /\ work.pools \in [Pool -> Obj \cup {None}]
    BY DEF TypeOK, Directory, Work
  <1>1. CASE UNCHANGED <<pools, added, removed, phase, work, snap>>
    BY <1>1
  <1>2. ASSUME NEW o \in Obj, AddNewPool(o) PROVE Safe(p)'
    <2>1. Elems(added') = Elems(added) \cup {o}
      BY <1>2, ElemsAppend DEF AddNewPool
    <2>2. p = AddrOf[o] \/ pools[p] # None
      BY <1>2 DEF AddNewPool
    <2> QED BY <1>2, <2>1, <2>2 DEF AddNewPool
  <1>3. ASSUME NEW o \in Obj, ReplacePool(o) PROVE Safe(p)'
    BY <1>3 DEF ReplacePool
  <1>4. ASSUME NEW q \in Pool, RemovePool(q) PROVE Safe(p)'
    <2>1. Elems(removed') = Elems(removed) \cup {q}
      BY <1>4, ElemsAppend DEF RemovePool
    <2> QED BY <1>4, <2>1 DEF RemovePool
  <1>5. ASSUME phase' = "rebuild" PROVE Safe(p)'
    BY <1>5
  <1>6. CASE StartIncremental
    BY <1>6 DEF StartIncremental, Draft
  <1>7. CASE PublishRebuild
    <2>1. snap'.pools = pools /\ pools' = pools /\ phase' = "free" /\ removed' = removed
      BY <1>7 DEF PublishRebuild, Store, BuildInv
    <2>2. removed = <<>>
      BY <1>7 DEF PublishRebuild, BuildInv
    <2>3. p \notin Elems(removed)
      BY <2>1, <2>2
    <2> QED BY <2>1, <2>2, <2>3
  <1>8. CASE PublishIncremental
    BY <1>8 DEF PublishIncremental, Store
  <1>9. CASE ApplyRemoved
    <2> DEFINE q == Head(removed)
    <2>1. q \in Pool /\ removed \in Seq(Pool) /\ removed # <<>>
      BY <1>9 DEF ApplyRemoved
    <2>2. Elems(removed) = {q} \cup Elems(removed')
      BY <1>9, <2>1, ElemsTail DEF ApplyRemoved
    <2>3. p # q => work'.pools[p] = work.pools[p]
      BY <1>9, <2>1 DEF ApplyRemoved, Draft
    <2> QED BY <1>9, <2>2, <2>3 DEF ApplyRemoved
  <1>10. CASE ApplyUpdated
    <2> DEFINE o == Head(updated)
    <2>1. o \in Obj /\ AddrOf[o] \in Pool
      BY <1>10 DEF ApplyUpdated
    <2>2. work'.pools = [work.pools EXCEPT ![AddrOf[o]] = o]
      BY <1>10 DEF ApplyUpdated, Draft
    <2>3. work.pools[p] # None => work'.pools[p] # None
      BY <2>1, <2>2
    <2> QED BY <1>10, <2>3 DEF ApplyUpdated
  <1>11. CASE ApplyAdded
    <2> DEFINE o == Head(added)
    <2>1. o \in Obj /\ AddrOf[o] \in Pool
      BY <1>11 DEF ApplyAdded
    <2>2. work'.pools = [work.pools EXCEPT ![AddrOf[o]] = o]
      BY <1>11 DEF ApplyAdded, Draft
    <2>3. Elems(added) = {o} \cup Elems(added')
      BY <1>11, ElemsTail DEF ApplyAdded
    <2>4. AddrOf[o] = p \/ work.pools[p] # None => work'.pools[p] # None
      BY <2>1, <2>2
    <2> QED BY <1>11, <2>3, <2>4 DEF ApplyAdded
  <1>12. CASE Writer
    <2>1. CASE (\E o \in Obj : SetReady(o)) \/ MarkDirty
      BY <2>1, <1>1 DEF SetReady, MarkDirty
    <2>2. CASE RefreshSnapshot \/ \E S \in SUBSET Obj : AddPoolsBatch(S)
      BY <2>2, <1>5 DEF RefreshSnapshot, AddPoolsBatch, BeginRebuild
    <2> QED BY <1>12, <2>1, <2>2, <1>2, <1>3, <1>4 DEF Writer, AddPool
  <1>13. CASE ClaimDirty \/ LockForRefresh
    BY <1>13, <1>1, <1>5, <1>6 DEF ClaimDirty, LockForRefresh, StartRebuild, BeginRebuild
  <1>14. CASE Holder
    <2>1. CASE \E e \in Edge : RebuildPair(e)
      BY <2>1, <1>1, <1>5 DEF RebuildPair
    <2> QED BY <1>14, <2>1, <1>7, <1>8, <1>9, <1>10, <1>11 DEF Holder
  <1>15. CASE UNCHANGED vars
    BY <1>15, <1>1 DEF vars
  <1> QED BY <1>12, <1>13, <1>14, <1>15 DEF Next

LEMMA KnownStep ==
  TypeOK /\ BuildInv /\ KnownIsPublishedOrPending /\ [Next]_vars
    => KnownIsPublishedOrPending'
  <1> SUFFICES ASSUME TypeOK, BuildInv, KnownIsPublishedOrPending, [Next]_vars
               PROVE  KnownIsPublishedOrPending'
    OBVIOUS
  <1>1. \A p \in Pool : pools[p] # None => Safe(p)
    BY SafeMeans DEF Known
  <1>2. \A p \in Pool : pools'[p] # None => Safe(p)'
    BY <1>1, SafeStep
  <1>3. KnownIsPublishedOrPending' <=> \A p \in Known(pools') : Safe(p)'
    BY DEF KnownIsPublishedOrPending, Safe, NextPools, Elems, Known
  <1> QED BY <1>2, <1>3 DEF Known

\* Every pool the graph was given is in the snapshot or on its way there.
THEOREM KnownIsSafe == Spec => []KnownIsPublishedOrPending
  <1>1. Init => KnownIsPublishedOrPending
    BY DEF Init, KnownIsPublishedOrPending, Known
  <1> QED BY <1>1, KnownStep, BuildsCohere, InitType, TypeStep, PTL DEF Spec

-----------------------------------------------------------------------------
(* For the pools nobody removes the graph implements PoolDirectory (the    *)
(* safety part; the fairness of DirSpec is left to TLC).                   *)

\* No unknown pool that is kept is published or pending.
NothingInvented ==
  /\ \A o \in Elems(added) \cup Elems(updated) :
       AddrOf[o] \in Kept => pools[AddrOf[o]] # None
  /\ \A p \in Kept : snap.pools[p] # None => pools[p] # None
  /\ phase = "apply" => \A p \in Kept : work.pools[p] # None => pools[p] # None

LEMMA InventedInit == Init => NothingInvented
  BY ElemsEmpty DEF Init, NothingInvented, Kept

LEMMA InventedStep ==
  ASSUME TypeOK, BuildInv, NothingInvented, [Next]_vars
  PROVE  NothingInvented'
  <1> USE ObjAssumption, ElemsEmpty DEF NothingInvented, pending, Kept
  <1> /\ added \in Seq(Obj) /\ updated \in Seq(Obj)
      /\ pools \in [Pool -> Obj \cup {None}] /\ work.pools \in [Pool -> Obj \cup {None}]
      /\ snap \in Snapshot
    BY DEF TypeOK, Directory, Work
  <1>1. CASE UNCHANGED <<pools, added, updated, removed, phase, work, snap>>
    BY <1>1
  <1>2. ASSUME NEW o \in Obj, AddNewPool(o) PROVE NothingInvented'
    <2>1. Elems(added') = Elems(added) \cup {o}
      BY <1>2, ElemsAppend DEF AddNewPool
    <2>2. Elems(added) \subseteq Obj /\ Elems(updated) \subseteq Obj
      BY DEF Elems
    <2> QED BY <1>2, <2>1, <2>2 DEF AddNewPool
  <1>3. ASSUME NEW o \in Obj, ReplacePool(o) PROVE NothingInvented'
    <2>1. Elems(updated') = Elems(updated) \cup {o}
      BY <1>3, ElemsAppend DEF ReplacePool
    <2>2. Elems(added) \subseteq Obj /\ Elems(updated) \subseteq Obj
      BY DEF Elems
    <2> QED BY <1>3, <2>1, <2>2 DEF ReplacePool
  <1>4. ASSUME NEW S \in SUBSET Obj, AddPoolsBatch(S) PROVE NothingInvented'
    <2>1. \A p \in Pool : pools'[p] = IF \E o \in S : AddrOf[o] = p
                                   THEN CHOOSE o \in S : AddrOf[o] = p ELSE pools[p]
      BY <1>4 DEF AddPoolsBatch
    <2>2. \A p \in Pool : pools[p] # None => pools'[p] # None
      BY <2>1
    <2> QED BY <1>4, <2>2 DEF AddPoolsBatch, BeginRebuild
  <1>5. CASE RefreshSnapshot \/ StartRebuild
    BY <1>5 DEF RefreshSnapshot, StartRebuild, BeginRebuild
  <1>6. CASE StartIncremental
    BY <1>6 DEF StartIncremental, Draft
  <1>7. CASE PublishRebuild \/ PublishIncremental
    BY <1>7 DEF PublishRebuild, PublishIncremental, Store, BuildInv
  <1>8. CASE ApplyUpdated
    <2> DEFINE o == Head(updated)
    <2>1. o \in Obj /\ AddrOf[o] \in Pool
      BY <1>8 DEF ApplyUpdated
    <2>2. work'.pools = [work.pools EXCEPT ![AddrOf[o]] = o]
      BY <1>8 DEF ApplyUpdated, Draft
    <2>5. snap'.pools = snap.pools
      BY <1>8 DEF ApplyUpdated, Snapshot
    <2>3. Elems(updated) = {o} \cup Elems(updated')
      BY <1>8, ElemsTail DEF ApplyUpdated
    <2>4. UNCHANGED <<pools, added, removed, phase>> /\ phase = "apply"
      BY <1>8 DEF ApplyUpdated
    <2> HIDE DEF o
    <2> QED BY <2>1, <2>2, <2>3, <2>4, <2>5
  <1>9. CASE ApplyAdded
    <2> DEFINE o == Head(added)
    <2>1. o \in Obj /\ AddrOf[o] \in Pool
      BY <1>9 DEF ApplyAdded
    <2>2. work'.pools = [work.pools EXCEPT ![AddrOf[o]] = o] /\ snap'.pools = snap.pools
      BY <1>9 DEF ApplyAdded, Draft
    <2>3. Elems(added) = {o} \cup Elems(added')
      BY <1>9, ElemsTail DEF ApplyAdded
    <2>4. UNCHANGED <<pools, updated, removed, phase>> /\ phase = "apply"
      BY <1>9 DEF ApplyAdded
    <2> HIDE DEF o
    <2> QED BY <2>1, <2>2, <2>3, <2>4
  <1>10. CASE Writer
    <2>1. CASE (\E o \in Obj : SetReady(o)) \/ MarkDirty
      BY <2>1, <1>1 DEF SetReady, MarkDirty
    <2>2. ASSUME NEW p \in Pool, RemovePool(p) PROVE NothingInvented'
      <3>1. /\ p \notin Kept /\ pools' = [pools EXCEPT ![p] = None]
            /\ UNCHANGED <<added, updated, phase, work, snap>>
        BY <2>2 DEF RemovePool
      <3>2. \A q \in Kept : pools'[q] = pools[q]
        BY <3>1
      <3> QED BY <3>1, <3>2
    <2> QED BY <1>10, <2>1, <2>2, <1>2, <1>3, <1>4, <1>5 DEF Writer, AddPool
  <1>11. CASE ClaimDirty
    BY <1>11, <1>1 DEF ClaimDirty
  <1>12. CASE Holder
    <2>1. CASE \E e \in Edge : RebuildPair(e)
      BY <2>1 DEF RebuildPair
    <2>2. CASE ApplyRemoved
      <3>1. /\ \A p \in Pool : work'.pools[p] # None => work.pools[p] # None
            /\ UNCHANGED <<pools, added, updated, phase, snap>>
        BY <2>2 DEF ApplyRemoved, Draft
      <3> QED BY <3>1
    <2> QED BY <1>12, <2>1, <2>2, <1>7, <1>8, <1>9 DEF Holder
  <1>13. CASE UNCHANGED vars
    BY <1>13, <1>1 DEF vars
  <1> QED BY <1>5, <1>6, <1>10, <1>11, <1>12, <1>13 DEF Next, LockForRefresh

\* Every step of the graph is a step of the directory or a stutter.
LEMMA DirectoryStep ==
  ASSUME TypeOK, BuildInv, KnownIsPublishedOrPending, NothingInvented, [Next]_vars
  PROVE  [PublishedDirectory!DirNext]_(PublishedDirectory!dirVars)
  <1> USE ObjAssumption
  <1> DEFINE In(d) == Known(d) \cap Kept
             Stutter == In(pools') = In(pools) /\ In(snap'.pools) = In(snap.pools)
             Shown == In(pools') = In(pools) /\ In(snap'.pools) = In(pools)
  <1> /\ pools \in [Pool -> Obj \cup {None}] /\ snap \in Snapshot
    BY DEF TypeOK, Directory
  <1>1. ASSUME Stutter \/ Shown PROVE [PublishedDirectory!DirNext]_(PublishedDirectory!dirVars)
    BY <1>1 DEF PublishedDirectory!DirNext, PublishedDirectory!dirVars,
                PublishedDirectory!Publish, Known
  <1>2. ASSUME NEW S \in SUBSET Pool, Known(pools') = Known(pools) \cup S, snap' = snap
        PROVE  [PublishedDirectory!DirNext]_(PublishedDirectory!dirVars)
    <2>1. In(pools') = In(pools) \cup (S \cap Kept) /\ S \cap Kept \in SUBSET Kept
      BY <1>2
    <2> QED BY <2>1, <1>2 DEF PublishedDirectory!DirNext, PublishedDirectory!Learn
  <1>3. ASSUME NEW o \in Obj, AddPool(o)
        PROVE  [PublishedDirectory!DirNext]_(PublishedDirectory!dirVars)
    <2>1. pools' = [pools EXCEPT ![AddrOf[o]] = o] /\ snap' = snap
      BY <1>3 DEF AddPool, AddNewPool, ReplacePool
    <2>2. Known(pools') = Known(pools) \cup {AddrOf[o]}
      BY <2>1 DEF Known
    <2>3. {AddrOf[o]} \in SUBSET Pool
      OBVIOUS
    <2> QED BY <2>1, <2>2, <2>3, <1>2
  <1>4. ASSUME NEW S \in SUBSET Obj, AddPoolsBatch(S)
        PROVE  [PublishedDirectory!DirNext]_(PublishedDirectory!dirVars)
    <2> DEFINE A == {p \in Pool : \E o \in S : AddrOf[o] = p}
    <2>1. /\ \A p \in Pool : pools'[p] = IF \E o \in S : AddrOf[o] = p
                                      THEN CHOOSE o \in S : AddrOf[o] = p ELSE pools[p]
          /\ snap' = snap
      BY <1>4 DEF AddPoolsBatch
    <2>2. \A p \in A : pools'[p] # None
      BY <2>1
    <2>3. Known(pools') = Known(pools) \cup A /\ A \in SUBSET Pool
      BY <2>1, <2>2 DEF Known
    <2> QED BY <2>1, <2>3, <1>2
  <1>5. CASE PublishRebuild
    BY <1>5, <1>1 DEF PublishRebuild, Store, BuildInv
  <1>6. CASE PublishIncremental
    <2>1. /\ snap'.pools = work.pools /\ pools' = pools /\ phase = "apply"
          /\ added = <<>> /\ removed = <<>>
      BY <1>6 DEF PublishIncremental, Store
    <2>2. Known(pools) \subseteq Known(work.pools)
      BY <2>1 DEF KnownIsPublishedOrPending, Known
    <2>3. In(work.pools) \subseteq Known(pools)
      BY <2>1 DEF NothingInvented, Known, Kept
    <2> QED BY <2>1, <2>2, <2>3, <1>1
  <1>7. CASE ApplyUpdated
    <2>1. snap'.pools = snap.pools /\ pools' = pools
      BY <1>7 DEF ApplyUpdated, Snapshot
    <2> QED BY <2>1, <1>1
  <1>8. CASE UNCHANGED <<pools, snap>>
    BY <1>8, <1>1
  <1>9. CASE Writer
    <2>1. CASE (\E o \in Obj : SetReady(o)) \/ MarkDirty \/ RefreshSnapshot
      BY <2>1, <1>8 DEF SetReady, MarkDirty, RefreshSnapshot
    <2>2. ASSUME NEW p \in Pool, RemovePool(p) PROVE Stutter
      <3>1. p \notin Kept /\ pools' = [pools EXCEPT ![p] = None] /\ snap' = snap
        BY <2>2 DEF RemovePool, Kept
      <3> QED BY <3>1 DEF Known, Kept
    <2> QED BY <1>9, <2>1, <2>2, <1>1, <1>3, <1>4 DEF Writer
  <1>10. CASE ClaimDirty \/ LockForRefresh
    BY <1>10, <1>8 DEF ClaimDirty, LockForRefresh, StartIncremental, StartRebuild
  <1>11. CASE Holder
    <2>1. CASE (\E e \in Edge : RebuildPair(e)) \/ ApplyRemoved \/ ApplyAdded
      BY <2>1, <1>8 DEF RebuildPair, ApplyRemoved, ApplyAdded
    <2> QED BY <1>11, <2>1, <1>5, <1>6, <1>7 DEF Holder
  <1>12. CASE UNCHANGED vars
    BY <1>12, <1>8 DEF vars
  <1> QED BY <1>9, <1>10, <1>11, <1>12 DEF Next

\* For the pools nobody removes: the graph starts as an empty directory, and from
\* then on readers are switched
\* to exactly the known pools, one publication at a time.
THEOREM DirectoryRefinement ==
  Spec => /\ PublishedDirectory!DirInit
          /\ [][PublishedDirectory!DirNext]_(PublishedDirectory!dirVars)
  <1>1. Init => PublishedDirectory!DirInit
    BY DEF Init, PublishedDirectory!DirInit, Known
  <1>2. TypeOK /\ BuildInv /\ NothingInvented /\ [Next]_vars => NothingInvented'
    BY InventedStep
  <1>3. TypeOK /\ BuildInv /\ KnownIsPublishedOrPending /\ NothingInvented /\ [Next]_vars
          => [PublishedDirectory!DirNext]_(PublishedDirectory!dirVars)
    BY DirectoryStep
  <1> QED BY <1>1, <1>2, <1>3, InventedInit, TypeCorrect, BuildsCohere, KnownIsSafe, PTL
          DEF Spec


-----------------------------------------------------------------------------
(* The handlers of the market feed.                                        *)

\* The ways a handler may act on the graph.
LEMMA FeedStepOnGraph ==
  ASSUME TypeOK, FeedTypeOK, FeedNext PROVE [Next]_vars
  <1>1. ASSUME NEW o, NEW b, PutReady(o, b) PROVE [Next]_vars
    <2>1. CASE SetReady(o)
      <3>1. o \in Obj
        BY <2>1 DEF SetReady, TypeOK
      <3> QED BY <2>1, <3>1 DEF Next, Writer
    <2> QED BY <1>1, <2>1 DEF PutReady
  <1>2. CASE LoadStored
    BY <1>2 DEF LoadStored, FeedTypeOK, Next, Writer
  <1>3. CASE StartEmpty \/ HistoricalDone
    BY <1>3 DEF StartEmpty, HistoricalDone
  <1>4. ASSUME NEW f \in Feed, ProcessVortexPool(f) PROVE [Next]_vars
    <2>1. ASSUME NEW p, NEW w, LookUpPool(f, p, w) PROVE [Next]_vars
      BY <2>1 DEF LookUpPool
    <2>2. CASE UpdateFound(f)
      BY <2>2, <1>1 DEF UpdateFound
    <2>3. CASE MarkAfterUpdate(f)
      BY <2>3 DEF MarkAfterUpdate, Next, Writer
    <2>4. CASE AddMissing(f)
      BY <2>4 DEF AddMissing, Next, Writer
    <2>5. CASE RegisterArrays(f)
      BY <2>5 DEF RegisterArrays
    <2> QED BY <1>4, <2>1, <2>2, <2>3, <2>4, <2>5 DEF ProcessVortexPool
  <1>5. CASE ProcessTickArray
    <2>1. ASSUME NEW a, LookUpArray(a) PROVE [Next]_vars
      BY <2>1 DEF LookUpArray
    <2>2. CASE StoreArray
      BY <2>2, <1>1 DEF StoreArray
    <2>3. CASE RefreshAfterArray
      BY <2>3 DEF RefreshAfterArray, Next, Writer
    <2> QED BY <1>5, <2>1, <2>2, <2>3 DEF ProcessTickArray
  <1>6. CASE Hydrate
    <2>1. CASE ScanPool \/ MakeParsed \/ ListRequests
      BY <2>1 DEF ScanPool, MakeParsed, ListRequests
    <2>2. ASSUME NEW r, DropRequest(r) \/ StoreFetched(r) PROVE [Next]_vars
      BY <2>2, <1>1 DEF DropRequest, StoreFetched
    <2> QED BY <1>6, <2>1, <2>2 DEF Hydrate
  <1>7. CASE GraphStep
    BY <1>7 DEF GraphStep, Next
  <1> QED BY <1>2, <1>3, <1>4, <1>5, <1>6, <1>7 DEF FeedNext

-----------------------------------------------------------------------------
(* Types of the handlers' variables.                                       *)

LEMMA FeedInitType == FeedInit => TypeOK /\ FeedTypeOK
  <1>1. FeedInit => FeedTypeOK
    BY DEF FeedInit, FeedTypeOK, Idle, Hydration
  <1> QED BY <1>1, InitType DEF FeedInit

\* The entries registered for an array of a known pool are entries.
LEMMA EntriesType ==
  ASSUME NEW w \in Seq(Array), NEW p \in Pool, NEW a
  PROVE  Entries(w, p, a) \subseteq [pool : Pool, index : Nat]
  BY DEF Entries

LEMMA BlankType ==
  ASSUME NEW w \in Seq(Array) PROVE Blank(w) \in Seq(Array \cup {None})
  BY DEF Blank

LEMMA ExceptSeq ==
  ASSUME NEW S, NEW s \in Seq(S), NEW i, NEW x \in S
  PROVE  [s EXCEPT ![i] = x] \in Seq(S)
  <1>1. PICK n \in Nat : s \in [1 .. n -> S]
    OBVIOUS
  <1>2. [s EXCEPT ![i] = x] \in [1 .. n -> S]
    BY <1>1
  <1> QED BY <1>2

LEMMA FeedStart ==
  ASSUME TypeOK, FeedTypeOK, LoadStored \/ StartEmpty \/ HistoricalDone
  PROVE  FeedTypeOK'
  <1>1. CASE LoadStored
    <2>1. PICK w \in [stored -> Window], liquid \in SUBSET stored :
            /\ \A o \in stored : w[o] \in WindowsOf[AddrOf[o]]
            /\ window' = [o \in Obj |-> IF o \in stored THEN w[o] ELSE window[o]]
            /\ owner' = [a \in Array |->
                 LET new == UNION {Entries(w[o], AddrOf[o], a) : o \in liquid}
                 IN  IF new = {} THEN owner[a] ELSE CHOOSE x \in new : TRUE]
      BY <1>1 DEF LoadStored
    <2>2. \A o \in stored : w[o] \in Seq(Array) /\ AddrOf[o] \in Pool
      BY <2>1, ObjAssumption, WindowAssumption DEF FeedTypeOK
    <2>3. window' \in [Obj -> Seq(Array)]
      BY <2>1, <2>2 DEF FeedTypeOK
    <2>4. \A a \in Array : UNION {Entries(w[o], AddrOf[o], a) : o \in liquid}
                             \subseteq [pool : Pool, index : Nat]
      BY <2>2, EntriesType
    <2>5. owner' \in [Array -> [pool : Pool, index : Nat] \cup {None}]
      BY <2>1, <2>4 DEF FeedTypeOK
    <2>6. hyd' = Hydration("next", stored, None, {}) /\ proc' = [f \in Feed |-> Idle]
          /\ UNCHANGED <<parsed, tick, toFetch, wg, stored>>
      BY <1>1 DEF LoadStored
    <2> QED BY <2>3, <2>5, <2>6 DEF FeedTypeOK, Hydration
  <1>2. CASE StartEmpty
    BY <1>2 DEF StartEmpty, FeedTypeOK
  <1>3. CASE HistoricalDone
    BY <1>3 DEF HistoricalDone, FeedTypeOK
  <1> QED BY <1>1, <1>2, <1>3

LEMMA ProcessPoolType ==
  ASSUME TypeOK, FeedTypeOK, NEW f \in Feed, ProcessVortexPool(f) PROVE FeedTypeOK'
  <1> DEFINE Tasks == [at : {"found", "missing", "mark", "register"},
                       pool : Pool, obj : Obj \cup {None}, win : Seq(Array)]
  <1>1. ASSUME NEW t \in Tasks \cup {Idle}, Goto(f, t)
        PROVE  proc' \in [Feed -> {[at |-> "starting"], Idle} \cup Tasks]
    BY <1>1 DEF Goto, FeedTypeOK
  <1>2. ASSUME proc[f].at \in {"found", "missing", "mark", "register"}
        PROVE  proc[f] \in Tasks
    BY <1>2 DEF FeedTypeOK, Idle
  <1>3. ASSUME NEW p \in Pool, NEW w \in WindowsOf[p], LookUpPool(f, p, w)
        PROVE  FeedTypeOK'
    <2>1. w \in Seq(Array) /\ pools[p] \in Obj \cup {None}
      BY WindowAssumption DEF TypeOK, Directory
    <2>2. Task(IF pools[p] = None THEN "missing" ELSE "found", p, pools[p], w) \in Tasks
      BY <2>1 DEF Task
    <2> QED BY <1>1, <1>3, <2>2 DEF LookUpPool, FeedTypeOK
  <1>4. CASE UpdateFound(f)
    <2>1. proc[f] \in Tasks
      BY <1>4, <1>2 DEF UpdateFound
    <2>2. Task("mark", proc[f].pool, proc[f].obj, proc[f].win) \in Tasks
      BY <2>1 DEF Task
    <2>3. \/ /\ window' = [window EXCEPT ![proc[f].obj] = proc[f].win]
             /\ parsed' = [parsed EXCEPT ![proc[f].obj] = <<>>]
          \/ /\ window' = window
             /\ parsed' = parsed
      BY <1>4 DEF UpdateFound
    <2>4. /\ proc[f].win \in Seq(Array) /\ <<>> \in Seq(Array \cup {None})
          /\ window \in [Obj -> Seq(Array)] /\ parsed \in [Obj -> Seq(Array \cup {None})]
      BY <2>1, EmptySeq DEF FeedTypeOK
    <2>5. window' \in [Obj -> Seq(Array)]
      BY <2>3, <2>4
    <2>6. parsed' \in [Obj -> Seq(Array \cup {None})]
      BY <2>3, <2>4
    <2> QED BY <1>1, <1>4, <2>2, <2>5, <2>6 DEF UpdateFound, FeedTypeOK
  <1>5. CASE MarkAfterUpdate(f)
    <2>1. Task("register", proc[f].pool, proc[f].obj, proc[f].win) \in Tasks
      BY <1>5, <1>2 DEF MarkAfterUpdate, Task
    <2> QED BY <1>1, <1>5, <2>1 DEF MarkAfterUpdate, FeedTypeOK
  <1>6. CASE AddMissing(f)
    <2>1. proc[f] \in Tasks
      BY <1>6, <1>2 DEF AddMissing
    <2>2. Task("register", proc[f].pool, proc[f].obj, proc[f].win) \in Tasks
      BY <2>1 DEF Task
    <2>3. window' \in [Obj -> Seq(Array)]
      BY <1>6, <2>1 DEF AddMissing, FeedTypeOK
    <2> QED BY <1>1, <1>6, <2>2, <2>3 DEF AddMissing, FeedTypeOK
  <1>7. CASE RegisterArrays(f)
    <2>1. proc[f] \in Tasks
      BY <1>7, <1>2 DEF RegisterArrays
    <2>2. \A a \in Array : Entries(proc[f].win, proc[f].pool, a)
                             \subseteq [pool : Pool, index : Nat]
      BY <2>1, EntriesType
    <2>3. owner' \in [Array -> [pool : Pool, index : Nat] \cup {None}]
      BY <1>7, <2>2 DEF RegisterArrays, FeedTypeOK
    <2> QED BY <1>1, <1>7, <2>3 DEF RegisterArrays, FeedTypeOK
  <1> QED BY <1>3, <1>4, <1>5, <1>6, <1>7 DEF ProcessVortexPool

LEMMA ProcessArrayType ==
  ASSUME TypeOK, FeedTypeOK, ProcessTickArray PROVE FeedTypeOK'
  <1>1. ASSUME NEW a \in Array, LookUpArray(a) PROVE FeedTypeOK'
    <2>1. owner[a] \in [pool : Pool, index : Nat]
      BY <1>1 DEF LookUpArray, FeedTypeOK
    <2>2. pools[owner[a].pool] \in Obj
      BY <1>1, <2>1 DEF LookUpArray, TypeOK, Directory
    <2>3. [at |-> "store", obj |-> pools[owner[a].pool], index |-> owner[a].index, array |-> a]
            \in [at : {"store"}, obj : Obj, index : Nat, array : Array]
      BY <2>1, <2>2
    <2> QED BY <1>1, <2>3 DEF LookUpArray, FeedTypeOK
  <1>2. CASE StoreArray
    <2>1. tick \in [at : {"store"}, obj : Obj, index : Nat, array : Array]
      BY <1>2 DEF StoreArray, FeedTypeOK, Idle
    <2> DEFINE o == tick.obj
               old == IF parsed[o] = <<>> THEN Blank(window[o]) ELSE parsed[o]
               new == IF tick.index \in DOMAIN old
                      THEN [old EXCEPT ![tick.index] = tick.array] ELSE old
    <2>2. o \in Obj /\ tick.array \in Array \cup {None}
      BY <2>1
    <2>3. old \in Seq(Array \cup {None})
      BY <2>2, BlankType DEF FeedTypeOK
    <2>4. new \in Seq(Array \cup {None})
      BY <2>2, <2>3
    <2>5. parsed' = [parsed EXCEPT ![o] = new]
      BY <1>2 DEF StoreArray
    <2>6. parsed' \in [Obj -> Seq(Array \cup {None})]
      <3> HIDE DEF new, o
      <3> QED BY <2>4, <2>5 DEF FeedTypeOK
    <2> QED BY <1>2, <2>6 DEF StoreArray, FeedTypeOK
  <1>3. CASE RefreshAfterArray
    BY <1>3 DEF RefreshAfterArray, FeedTypeOK
  <1> QED BY <1>1, <1>2, <1>3 DEF ProcessTickArray

LEMMA HydrateType == ASSUME TypeOK, FeedTypeOK, Hydrate PROVE FeedTypeOK'
  <1> DEFINE Hyd == [at : {"none", "next", "make", "list", "panicked"},
                     objs : SUBSET Obj, cur : Obj \cup {None},
                     reqs : SUBSET (Obj \X Nat \X Array)]
             CurOK == hyd'.at \in {"make", "list"} => hyd'.cur \in Obj
  <1>1. /\ hyd.objs \in SUBSET Obj /\ hyd.cur \in Obj \cup {None}
        /\ hyd.reqs \in SUBSET (Obj \X Nat \X Array)
    BY DEF FeedTypeOK
  <1>2. ASSUME NEW at \in {"none", "next", "make", "list", "panicked"},
               NEW S \in SUBSET Obj, NEW c \in Obj \cup {None},
               NEW Q \in SUBSET (Obj \X Nat \X Array),
               hyd' = Hydration(at, S, c, Q), at \in {"make", "list"} => c \in Obj
        PROVE  hyd' \in Hyd /\ CurOK
    BY <1>2 DEF Hydration
  <1> HIDE DEF Hyd, CurOK
  <1>3. CASE ScanPool
    <2>1. PICK o \in hyd.objs :
            \E step \in {"next", IF window[o] = <<>> THEN "next"
                                 ELSE IF parsed[o] = <<>> THEN "make" ELSE "list"} :
              hyd' = Hydration(step, hyd.objs \ {o}, o, hyd.reqs)
      BY <1>3 DEF ScanPool
    <2>2. hyd' \in Hyd /\ CurOK
      BY <1>1, <1>2, <2>1
    <2> QED BY <1>3, <2>2 DEF ScanPool, FeedTypeOK, Hyd, CurOK
  <1>4. CASE MakeParsed
    <2>1. hyd' \in Hyd /\ CurOK
      BY <1>1, <1>2, <1>4, ZenonT(60) DEF MakeParsed, FeedTypeOK, Hyd, CurOK
    <2>2. hyd.cur \in Obj => Blank(window[hyd.cur]) \in Seq(Array \cup {None})
      BY BlankType DEF FeedTypeOK
    <2>3. parsed' \in [Obj -> Seq(Array \cup {None})]
      BY <1>4, <2>2 DEF MakeParsed, FeedTypeOK, Hyd, CurOK
    <2> QED BY <1>4, <2>1, <2>3 DEF MakeParsed, FeedTypeOK, Hyd, CurOK
  <1>5. CASE ListRequests
    <2>1. window[hyd.cur] \in Seq(Array) /\ hyd.cur \in Obj
      BY <1>5 DEF ListRequests, FeedTypeOK, Hyd, CurOK
    <2> DEFINE new == {<<hyd.cur, i, window[hyd.cur][i]>> : i \in DOMAIN window[hyd.cur]}
    <2>2. new \subseteq Obj \X Nat \X Array
      BY <2>1
    <2>3. hyd' = Hydration("next", hyd.objs, None, hyd.reqs \cup new)
      BY <1>5 DEF ListRequests
    <2>4. hyd' \in Hyd /\ CurOK
      <3> HIDE DEF new
      <3> QED BY <1>1, <1>2, <2>2, <2>3
    <2> QED BY <1>5, <2>4 DEF ListRequests, FeedTypeOK, Hyd, CurOK
  <1>6. ASSUME NEW r \in hyd.reqs, DropRequest(r) PROVE FeedTypeOK'
    <2>1. hyd' \in Hyd /\ CurOK
      BY <1>1, <1>2, <1>6 DEF DropRequest
    <2> QED BY <1>6, <2>1 DEF DropRequest, FeedTypeOK, Hyd, CurOK
  <1>7. ASSUME NEW r \in hyd.reqs, StoreFetched(r) PROVE FeedTypeOK'
    <2>1. r \in Obj \X Nat \X Array
      BY <1>1
    <2>2. hyd' = Hydration("next", {}, None, hyd.reqs \ {r})
          \/ hyd' = Hydration("panicked", {}, None, {})
      BY <1>7 DEF StoreFetched
    <2>3. hyd' \in Hyd /\ CurOK
      BY <1>1, <1>2, <2>2
    <2> DEFINE o == r[1]
               new == [parsed[o] EXCEPT ![r[2]] = r[3]]
    <2>4. new \in Seq(Array \cup {None})
      <3>1. parsed[o] \in Seq(Array \cup {None}) /\ r[3] \in Array
        BY <2>1 DEF FeedTypeOK
      <3> QED BY <3>1, ExceptSeq
    <2>5. parsed' = [parsed EXCEPT ![o] = new] \/ parsed' = parsed
      BY <1>7 DEF StoreFetched
    <2>6. parsed' \in [Obj -> Seq(Array \cup {None})]
      <3> HIDE DEF new, o
      <3> QED BY <2>4, <2>5 DEF FeedTypeOK
    <2> QED BY <1>7, <2>3, <2>6 DEF StoreFetched, FeedTypeOK, Hyd, CurOK
  <1> QED BY <1>3, <1>4, <1>5, <1>6, <1>7 DEF Hydrate

LEMMA FeedTypeStep ==
  TypeOK /\ FeedTypeOK /\ [FeedNext]_allVars => TypeOK' /\ FeedTypeOK'
  <1> SUFFICES ASSUME TypeOK, FeedTypeOK, [FeedNext]_allVars
               PROVE  TypeOK' /\ FeedTypeOK'
    OBVIOUS
  <1>1. CASE UNCHANGED allVars
    BY <1>1, TypeStep DEF allVars, feedVars, FeedTypeOK
  <1>2. CASE FeedNext
    <2>1. TypeOK'
      BY <1>2, FeedStepOnGraph, TypeStep
    <2>2. CASE GraphStep
      <3>1. /\ window' = window /\ parsed' = parsed /\ owner' = owner /\ proc' = proc
            /\ tick' = tick /\ hyd' = hyd /\ toFetch' = toFetch /\ wg' = wg
            /\ stored' = stored
        BY <2>2 DEF GraphStep, feedVars
      <3> QED BY <2>1, <3>1 DEF FeedTypeOK
    <2> QED BY <1>2, <2>1, <2>2, FeedStart, ProcessPoolType, ProcessArrayType,
               HydrateType DEF FeedNext
  <1> QED BY <1>1, <1>2

\* The variables of the handlers keep their types.
THEOREM FeedTypeCorrect == FeedSpec => [](TypeOK /\ FeedTypeOK)
  BY FeedInitType, FeedTypeStep, PTL DEF FeedSpec

\* The handlers implement the graph: every step of theirs is one of its steps
\* or leaves it alone.
THEOREM FeedIsGraph == FeedSpec => ImplementsGraph
  <1>1. TypeOK /\ FeedTypeOK /\ [FeedNext]_allVars => [Next]_vars
    BY FeedStepOnGraph DEF allVars
  <1>2. FeedInit => Init
    BY DEF FeedInit
  <1> QED BY <1>1, <1>2, FeedTypeCorrect, PTL DEF FeedSpec, ImplementsGraph

\* What GraphProofs shows of the graph holds under the handlers: their steps are
\* steps of the graph.
THEOREM GraphUnderFeed ==
  FeedSpec => []( /\ AdjFilesEachPoolOnce /\ ListedPoolsAreFound
                  /\ NoLostWakeup /\ KnownIsPublishedOrPending )
  <1>1. FeedSpec => Init /\ [][Next]_vars
    BY FeedIsGraph DEF ImplementsGraph
  <1>2. Init => WakeupPending /\ KnownIsPublishedOrPending
    BY DEF Init, WakeupPending, KnownIsPublishedOrPending, Known
  <1>3. TypeOK /\ WakeupPending => NoLostWakeup
    BY NoChanges DEF WakeupPending, NoLostWakeup
  <1>4. TypeOK /\ AdjFilesEachPoolOnce /\ (BuildInv /\ ListedPoolsAreFound) /\ [Next]_vars
          => (BuildInv /\ ListedPoolsAreFound)'
    BY BuildInvStep
  <1> QED BY <1>1, <1>2, <1>3, <1>4, InitType, TypeStep, InitFiles, FilesStep,
             WakeupStep, BuildInvInit, KnownStep, PTL

-----------------------------------------------------------------------------
(* A ready object keeps its arrays, but for the scan of the hydration.     *)

LEMMA PutReadyValue ==
  ASSUME TypeOK, NEW o, NEW b \in BOOLEAN, PutReady(o, b)
  PROVE  \A x \in Obj : ready'[x] = IF x = o THEN b ELSE ready[x]
  BY DEF PutReady, SetReady, TypeOK, vars

\* A parsed array put into a complete slice leaves a complete slice.
LEMMA ExceptComplete ==
  ASSUME NEW s \in Seq(Array \cup {None}), hasAllTickArrays(s), NEW i, NEW a \in Array,
         a # None
  PROVE  hasAllTickArrays([s EXCEPT ![i] = a])
  BY DEF hasAllTickArrays

LEMMA CompleteStep ==
  ASSUME TypeOK, FeedTypeOK, FeedNext, NEW o \in Obj, Complete(o),
         ~(hyd.at = "make" /\ hyd.cur = o)
  PROVE  Complete(o)'
  <1> ready \in [Obj -> BOOLEAN] /\ parsed \in [Obj -> Seq(Array \cup {None})]
    BY DEF TypeOK, FeedTypeOK
  <1>1. ASSUME ready'[o] = ready[o], parsed'[o] = parsed[o] PROVE Complete(o)'
    BY <1>1 DEF Complete
  <1>2. ASSUME ready' = ready, parsed' = parsed PROVE Complete(o)'
    BY <1>1, <1>2
  <1>3. CASE LoadStored \/ StartEmpty \/ HistoricalDone
    BY <1>2, <1>3 DEF LoadStored, AddPoolsBatch, StartEmpty, HistoricalDone, vars
  \* A slice that gets an array, and the flag if nothing is missing.
  <1>4. ASSUME NEW x \in Obj, NEW old \in Seq(Array \cup {None}), NEW new,
               \/ new = old
               \/ \E i : \E a \in Array : a # None /\ new = [old EXCEPT ![i] = a],
               old = parsed[x] \/ ~hasAllTickArrays(parsed[x]),
               parsed' = [parsed EXCEPT ![x] = new],
               PutReady(x, ready[x] \/ hasAllTickArrays(new))
        PROVE  Complete(o)'
    <2>1. CASE o # x
      BY <1>1, <1>4, <2>1, PutReadyValue
    <2>2. CASE o = x
      <3>1. parsed'[o] = new /\ ready'[o] = (ready[o] \/ hasAllTickArrays(new))
        BY <1>4, <2>2, PutReadyValue DEF hasAllTickArrays
      <3>2. ready[o] => hasAllTickArrays(new)
        BY <1>4, <2>2, ExceptComplete DEF Complete
      <3> QED BY <3>1, <3>2 DEF Complete
    <2> QED BY <2>1, <2>2
  <1>5. ASSUME NEW f \in Feed, ProcessVortexPool(f) PROVE Complete(o)'
    <2>1. ASSUME NEW p \in Pool, NEW w \in WindowsOf[p], LookUpPool(f, p, w)
          PROVE  Complete(o)'
      BY <1>2, <2>1 DEF LookUpPool, vars
    <2>2. CASE UpdateFound(f)
      <3>1. CASE /\ parsed' = [parsed EXCEPT ![proc[f].obj] = <<>>]
                 /\ PutReady(proc[f].obj, FALSE)
        <4>1. \A x \in Obj : ready'[x] = IF x = proc[f].obj THEN FALSE ELSE ready[x]
          BY <3>1, PutReadyValue
        <4> QED BY <1>1, <3>1, <4>1 DEF Complete
      <3>2. CASE UNCHANGED <<vars, window, parsed>>
        BY <1>2, <3>2 DEF vars
      <3> QED BY <2>2, <3>1, <3>2 DEF UpdateFound
    <2>3. CASE MarkAfterUpdate(f)
      BY <1>2, <2>3 DEF MarkAfterUpdate, MarkDirty
    <2>4. CASE AddMissing(f)
      BY <1>2, <2>4 DEF AddMissing, AddPool, AddNewPool, ReplacePool
    <2>5. CASE RegisterArrays(f)
      BY <1>2, <2>5 DEF RegisterArrays, vars
    <2> QED BY <1>5, <2>1, <2>2, <2>3, <2>4, <2>5 DEF ProcessVortexPool
  <1>6. CASE ProcessTickArray
    <2>1. CASE StoreArray
      <3> DEFINE x == tick.obj
                 old == IF parsed[x] = <<>> THEN Blank(window[x]) ELSE parsed[x]
                 new == IF tick.index \in DOMAIN old
                        THEN [old EXCEPT ![tick.index] = tick.array] ELSE old
      <3>1. x \in Obj /\ tick.array \in Array
        BY <2>1 DEF StoreArray, FeedTypeOK, Idle
      <3>2. old \in Seq(Array \cup {None})
        BY <3>1 DEF FeedTypeOK, Blank
      <3>3. old = parsed[x] \/ ~hasAllTickArrays(parsed[x])
        BY DEF hasAllTickArrays
      <3>4. new = old \/ \E i : \E a \in Array : a # None /\ new = [old EXCEPT ![i] = a]
        BY <3>1, WindowAssumption
      <3>5. /\ parsed' = [parsed EXCEPT ![x] = new]
            /\ PutReady(x, ready[x] \/ hasAllTickArrays(new))
        BY <2>1 DEF StoreArray
      <3> HIDE DEF new, old, x
      <3> QED BY <1>4, <3>1, <3>2, <3>3, <3>4, <3>5
    <2>2. CASE RefreshAfterArray
      BY <1>2, <2>2 DEF RefreshAfterArray, RefreshSnapshot
    <2>3. ASSUME NEW a, LookUpArray(a) PROVE Complete(o)'
      BY <1>2, <2>3 DEF LookUpArray, vars
    <2> QED BY <1>6, <2>1, <2>2, <2>3 DEF ProcessTickArray
  <1>7. CASE Hydrate
    <2>1. CASE ScanPool \/ ListRequests
      BY <1>2, <2>1 DEF ScanPool, ListRequests, vars
    <2>2. CASE MakeParsed
      <3>1. hyd.cur # o
        BY <2>2 DEF MakeParsed
      <3> QED BY <1>1, <2>2, <3>1 DEF MakeParsed, vars
    <2>3. ASSUME NEW r \in hyd.reqs, DropRequest(r) PROVE Complete(o)'
      BY <1>2, <2>3 DEF DropRequest, vars
    <2>4. ASSUME NEW r \in hyd.reqs, StoreFetched(r) PROVE Complete(o)'
      <3> DEFINE x == r[1]
                 new == [parsed[x] EXCEPT ![r[2]] = r[3]]
      <3>1. x \in Obj /\ r[3] \in Array
        BY DEF FeedTypeOK
      <3>2. CASE /\ parsed' = [parsed EXCEPT ![x] = new]
                 /\ PutReady(x, ready[x] \/ hasAllTickArrays(new))
        <4>1. \E i : \E a \in Array : a # None /\ new = [parsed[x] EXCEPT ![i] = a]
          <5>1. r[3] \in Array /\ r[3] # None /\ new = [parsed[x] EXCEPT ![r[2]] = r[3]]
            BY <3>1, WindowAssumption
          <5> HIDE DEF new, x
          <5> QED BY <5>1
        <4>2. parsed[x] \in Seq(Array \cup {None})
          BY <3>1
        <4> HIDE DEF new, x
        <4> QED BY <1>4, <3>1, <3>2, <4>1, <4>2
      <3>3. CASE UNCHANGED <<vars, parsed>>
        BY <1>2, <3>3 DEF vars
      <3> QED BY <2>4, <3>2, <3>3 DEF StoreFetched
    <2> QED BY <1>7, <2>1, <2>2, <2>3, <2>4 DEF Hydrate
  <1>8. CASE GraphStep
    <2>1. parsed' = parsed
      BY <1>8 DEF GraphStep, feedVars
    <2>2. ready' = ready
      BY <1>8 DEF GraphStep, ClaimDirty, LockForRefresh, StartIncremental, StartRebuild,
         Holder, RebuildPair, PublishRebuild, PublishIncremental, Store, ApplyRemoved,
         ApplyUpdated, ApplyAdded
    <2> QED BY <1>2, <2>1, <2>2
  <1> QED BY <1>3, <1>5, <1>6, <1>7, <1>8 DEF FeedNext

\* A ready object that has its arrays goes on to have them, whatever the
\* interleaving of the handlers and the workers, until the scan overwrites them.
THEOREM ReadyKeepsItsArrays == FeedSpec => OnlyTheScanEmpties
  <1>1. ASSUME TypeOK, FeedTypeOK, [FeedNext]_allVars, ~UNCHANGED allVars,
               NEW o \in Obj, Complete(o), ~Complete(o)'
        PROVE  hyd.at = "make" /\ hyd.cur = o
    BY <1>1, CompleteStep
  <1>2. TypeOK /\ FeedTypeOK /\ [FeedNext]_allVars
          => [\A o \in Obj : Complete(o) /\ ~Complete(o)'
                               => hyd.at = "make" /\ hyd.cur = o]_allVars
    BY <1>1
  <1> QED BY <1>2, FeedTypeCorrect, PTL DEF FeedSpec, OnlyTheScanEmpties

-----------------------------------------------------------------------------
(* A registered array leads to a pool.                                     *)

\* No handler takes a pool out of the map.
LEMMA KnownStays ==
  ASSUME TypeOK, FeedTypeOK, FeedNext, NEW p \in Pool, pools[p] # None
  PROVE  pools'[p] # None
  <1>1. ASSUME NEW o, NEW b, PutReady(o, b) PROVE pools' = pools
    BY <1>1 DEF PutReady, SetReady, vars
  <1>2. CASE LoadStored
    BY <1>2, ObjAssumption DEF LoadStored, AddPoolsBatch, FeedTypeOK, TypeOK
  <1>3. CASE StartEmpty \/ HistoricalDone
    BY <1>3 DEF StartEmpty, HistoricalDone, vars
  <1>4. ASSUME NEW f \in Feed, ProcessVortexPool(f) PROVE pools'[p] # None
    <2>1. CASE AddMissing(f)
      BY <2>1, ObjAssumption DEF AddMissing, AddPool, AddNewPool, ReplacePool, TypeOK,
         Directory
    <2> QED BY <1>1, <1>4, <2>1 DEF ProcessVortexPool, LookUpPool, UpdateFound,
               MarkAfterUpdate, MarkDirty, RegisterArrays, vars
  <1>5. CASE ProcessTickArray
    BY <1>1, <1>5 DEF ProcessTickArray, LookUpArray, StoreArray, RefreshAfterArray,
       RefreshSnapshot, vars
  <1>6. CASE Hydrate
    BY <1>1, <1>6 DEF Hydrate, ScanPool, MakeParsed, ListRequests, DropRequest,
       StoreFetched, vars
  <1>7. CASE GraphStep
    BY <1>7 DEF GraphStep, ClaimDirty, LockForRefresh, StartIncremental, StartRebuild,
       Holder, RebuildPair, PublishRebuild, PublishIncremental, Store, ApplyRemoved,
       ApplyUpdated, ApplyAdded
  <1> QED BY <1>2, <1>3, <1>4, <1>5, <1>6, <1>7 DEF FeedNext

\* Arrays are registered when the pool of the message has been found or added.
TaskIsKnown ==
  \A f \in Feed : proc[f].at \in {"found", "mark", "register"}
                    => pools[proc[f].pool] # None

LEMMA OwnerStep ==
  TypeOK /\ FeedTypeOK /\ OwnerIsKnown /\ TaskIsKnown /\ [FeedNext]_allVars
    => OwnerIsKnown' /\ TaskIsKnown'
  <1> SUFFICES ASSUME TypeOK, FeedTypeOK, OwnerIsKnown, TaskIsKnown, [FeedNext]_allVars
               PROVE  OwnerIsKnown' /\ TaskIsKnown'
    OBVIOUS
  <1>0. CASE UNCHANGED allVars
    BY <1>0 DEF allVars, feedVars, vars, OwnerIsKnown, TaskIsKnown
  <1> SUFFICES ASSUME FeedNext PROVE OwnerIsKnown' /\ TaskIsKnown'
    BY <1>0
  <1> DEFINE Tasks == [at : {"found", "missing", "mark", "register"},
                       pool : Pool, obj : Obj \cup {None}, win : Seq(Array)]
  <1>1. /\ \A f \in Feed : proc[f] \in {[at |-> "starting"], Idle} \cup Tasks
        /\ \A a \in Array : owner[a] # None => owner[a] \in [pool : Pool, index : Nat]
    BY DEF FeedTypeOK
  <1>2. ASSUME owner' = owner PROVE OwnerIsKnown'
    BY <1>1, <1>2, KnownStays DEF OwnerIsKnown
  <1>3. ASSUME proc' = proc PROVE TaskIsKnown'
    BY <1>1, <1>3, KnownStays DEF TaskIsKnown, Idle
  <1>4. ASSUME NEW f \in Feed, NEW t, Goto(f, t),
               t.at \in {"found", "mark", "register"} => pools'[t.pool] # None
        PROVE  TaskIsKnown'
    <2>1. ASSUME NEW g \in Feed, proc'[g].at \in {"found", "mark", "register"}
          PROVE  pools'[proc'[g].pool] # None
      <3>1. CASE g = f
        BY <1>4, <2>1, <3>1 DEF Goto, FeedTypeOK
      <3>2. CASE g # f
        <4>1. proc'[g] = proc[g]
          BY <1>4, <3>2 DEF Goto, FeedTypeOK
        <4>2. proc[g].pool \in Pool
          BY <1>1, <2>1, <4>1 DEF Idle
        <4> QED BY <2>1, <4>1, <4>2, KnownStays DEF TaskIsKnown
      <3> QED BY <3>1, <3>2
    <2> QED BY <2>1 DEF TaskIsKnown
  <1>5. CASE LoadStored
    <2>1. TaskIsKnown'
      BY <1>5 DEF LoadStored, TaskIsKnown, Idle
    <2>2. PICK w \in [stored -> Window], liquid \in SUBSET stored :
            owner' = [a \in Array |->
              LET new == UNION {Entries(w[o], AddrOf[o], a) : o \in liquid}
              IN  IF new = {} THEN owner[a] ELSE CHOOSE x \in new : TRUE]
      BY <1>5 DEF LoadStored
    <2>3. ASSUME NEW a \in Array, owner'[a] # None PROVE pools'[owner'[a].pool] # None
      <3> DEFINE new == UNION {Entries(w[o], AddrOf[o], a) : o \in liquid}
      <3>1. owner'[a] = IF new = {} THEN owner[a] ELSE CHOOSE x \in new : TRUE
        BY <2>2
      <3>2. CASE new = {}
        BY <1>1, <2>3, <3>1, <3>2, KnownStays DEF OwnerIsKnown
      <3>3. CASE new # {}
        <4>1. PICK o \in liquid : owner'[a] \in Entries(w[o], AddrOf[o], a)
          BY <3>1, <3>3
        <4>2. owner'[a].pool = AddrOf[o]
          BY <4>1 DEF Entries
        <4>3. pools'[AddrOf[o]] # None
          BY <1>5, ObjAssumption DEF LoadStored, AddPoolsBatch, FeedTypeOK
        <4> QED BY <4>2, <4>3
      <3> QED BY <3>2, <3>3
    <2> QED BY <2>1, <2>3 DEF OwnerIsKnown
  <1>6. CASE StartEmpty \/ HistoricalDone
    BY <1>2, <1>3, <1>6 DEF StartEmpty, HistoricalDone, TaskIsKnown, Idle
  <1>7. ASSUME NEW f \in Feed, ProcessVortexPool(f) PROVE OwnerIsKnown' /\ TaskIsKnown'
    <2>1. ASSUME NEW p \in Pool, NEW w \in WindowsOf[p], LookUpPool(f, p, w)
          PROVE  OwnerIsKnown' /\ TaskIsKnown'
      BY <1>2, <1>4, <2>1 DEF LookUpPool, Task, vars
    <2>2. CASE UpdateFound(f)
      <3>1. proc[f].pool \in Pool /\ pools[proc[f].pool] # None
        BY <1>1, <2>2 DEF UpdateFound, TaskIsKnown, Idle
      <3> QED BY <1>2, <1>4, <2>2, <3>1, KnownStays DEF UpdateFound, Task
    <2>3. CASE MarkAfterUpdate(f)
      <3>1. proc[f].pool \in Pool /\ pools[proc[f].pool] # None
        BY <1>1, <2>3 DEF MarkAfterUpdate, TaskIsKnown, Idle
      <3> QED BY <1>2, <1>4, <2>3, <3>1, KnownStays DEF MarkAfterUpdate, Task
    <2>4. CASE AddMissing(f)
      <3>1. pools'[proc[f].pool] # None
        BY <2>4, ObjAssumption DEF AddMissing, AddPool, AddNewPool, ReplacePool, TypeOK,
           Directory
      <3> QED BY <1>2, <1>4, <2>4, <3>1 DEF AddMissing, Task
    <2>5. CASE RegisterArrays(f)
      <3>1. proc[f].pool \in Pool /\ pools[proc[f].pool] # None
        BY <1>1, <2>5 DEF RegisterArrays, TaskIsKnown, Idle
      <3>2. ASSUME NEW a \in Array, owner'[a] # None PROVE pools'[owner'[a].pool] # None
        <4> DEFINE new == Entries(proc[f].win, proc[f].pool, a)
        <4>1. owner'[a] = IF owner[a] # None \/ new = {} THEN owner[a]
                          ELSE CHOOSE x \in new : TRUE
          BY <2>5 DEF RegisterArrays
        <4>2. \A x \in new : x.pool = proc[f].pool
          BY DEF Entries
        <4>3. CASE owner'[a] = owner[a]
          BY <1>1, <3>2, <4>3, KnownStays DEF OwnerIsKnown
        <4>4. CASE owner'[a] \in new
          BY <3>1, <4>2, <4>4, KnownStays
        <4> QED BY <4>1, <4>3, <4>4
      <3>3. TaskIsKnown'
        BY <1>4, <2>5 DEF RegisterArrays, Idle
      <3> QED BY <3>2, <3>3 DEF OwnerIsKnown
    <2> QED BY <1>7, <2>1, <2>2, <2>3, <2>4, <2>5 DEF ProcessVortexPool
  <1>8. CASE ProcessTickArray
    BY <1>2, <1>3, <1>8 DEF ProcessTickArray, LookUpArray, StoreArray, RefreshAfterArray
  <1>9. CASE Hydrate
    BY <1>2, <1>3, <1>9 DEF Hydrate, ScanPool, MakeParsed, ListRequests, DropRequest,
       StoreFetched
  <1>10. CASE GraphStep
    BY <1>2, <1>3, <1>10 DEF GraphStep, feedVars
  <1> QED BY <1>5, <1>6, <1>7, <1>8, <1>9, <1>10 DEF FeedNext

\* A registered tick array leads to a known pool.
THEOREM OwnersAreKnown == FeedSpec => []OwnerIsKnown
  <1>1. FeedInit => OwnerIsKnown /\ TaskIsKnown
    BY DEF FeedInit, OwnerIsKnown, TaskIsKnown
  <1> QED BY <1>1, OwnerStep, FeedTypeCorrect, PTL DEF FeedSpec

=============================================================================
