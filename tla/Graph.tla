------------------------------- MODULE Graph -------------------------------
(***************************************************************************)
(* The routing graph (services/router/graph.go): the mutable pool map and  *)
(* adjacency guarded by mu, the pending diff, the 100 ms refresher and the *)
(* snapshot that quoting goroutines read without a lock.                   *)
(*                                                                         *)
(* A pool object (a *domain.Pool) is distinct from the address it is for:  *)
(* two goroutines may each build an object for one address.  A snapshot    *)
(* list holds objects, so lists are sets of objects; a list cannot receive *)
(* the same pointer twice because each object is handed over once.         *)
(*                                                                         *)
(* mu is held across several steps of the model where the code under it    *)
(* loops over the diff or the adjacency.  Pools are mutated under mu too   *)
(* (the market handlers take it by Graph.Lock), so only the lock-free      *)
(* steps, MarkDirty and the refresher's claim, fall between them.          *)
(***************************************************************************)
EXTENDS Integers, Sequences, FiniteSets

CONSTANTS
  Token,        \* mint addresses
  Pool,         \* pool addresses
  Obj,          \* pool objects (pointers)
  AddrOf,       \* [Obj -> Pool], the Address field
  MintA, MintB, \* [Pool -> Token], the two mints of a pool
  None,         \* the nil pointer
  Threshold,    \* incrementalThreshold, 50 in the code
  MaxPerPair,   \* MaxPoolsPerPair, 5 in the code
  Removable     \* the pools some caller of RemovePool removes

ASSUME ObjAssumption   == AddrOf \in [Obj -> Pool] /\ None \notin Obj
ASSUME MintAssumption  == /\ MintA \in [Pool -> Token]
                          /\ MintB \in [Pool -> Token]
ASSUME BoundAssumption == Threshold \in Nat /\ MaxPerPair \in Nat
ASSUME FiniteAssumption == IsFiniteSet(Pool) /\ IsFiniteSet(Obj)
ASSUME RemovableAssumption == Removable \subseteq Pool

VARIABLES
  pools,      \* g.pools: address -> object or nil
  adj,        \* g.adj: directed pair -> objects
  ready,      \* what isPoolReady answers for an object
  handed,     \* objects passed to AddPool or AddPoolsBatch so far
  added, removed, updated,   \* g.pendingDiff
  dirty,      \* g.snapshotDirty
  refresher,  \* the refresher goroutine: "waiting" for a tick with the flag
              \* set, "claimed" (CAS done, mu not taken) or "applying"
  phase,      \* what the holder of mu is doing: "free" is nobody
  work,       \* newPools, newAdj, readyCount of that holder
  snap        \* g.snapshot with the two counters stored after it

vars == <<pools, adj, ready, handed, added, removed, updated, dirty,
          refresher, phase, work, snap>>
pending == <<added, removed, updated>>

-----------------------------------------------------------------------------
(* Lists of objects per directed pair.                                     *)

Edge == Token \X Token
EdgesOf(p) == {<<MintA[p], MintB[p]>>, <<MintB[p], MintA[p]>>}
Listing == [Edge -> SUBSET Obj]
Directory == [Pool -> Obj \cup {None}]
EmptyListing == [e \in Edge |-> {}]

\* newPools, newAdj and readyCount; the pairs whose list is still the array of
\* the current snapshot; the pairs a rebuild has yet to filter.
Work == [pools : Directory, adj : Listing, shared : SUBSET Edge,
         todo : SUBSET Edge, ready : Int]

\* graphSnapshot, fast saying that adjFast and superEdges are there (their lists
\* are the lists of adj), with the two counters.
Snapshot == [pools : Directory, adj : Listing, fast : BOOLEAN,
             count : Int, ready : Int]

addPoolToAdj(l, o) ==
  [e \in Edge |-> IF e \in EdgesOf(AddrOf[o]) THEN l[e] \cup {o} ELSE l[e]]


\* Mutant: only the first direction is cleaned.
removePoolOneWay(l, p) ==
  [e \in Edge |-> IF e = <<MintA[p], MintB[p]>> THEN {o \in l[e] : AddrOf[o] # p}
                                                ELSE l[e]]

removePoolFromAdj(l, p) ==
  [e \in Edge |-> IF e \in EdgesOf(p) THEN {o \in l[e] : AddrOf[o] # p}
                                      ELSE l[e]]

\* The first entry for the address is overwritten in the array, and an array
\* that an older snapshot shares shows the new entry there too: only pairs in
\* "over" are touched.  first says which entry comes first in each direction.
updatePoolInAdj(l, o, first, over) ==
  [e \in Edge |-> IF e \in over \cap EdgesOf(AddrOf[o]) /\ first[e] \in l[e]
                  THEN (l[e] \ {first[e]}) \cup {o}
                  ELSE l[e]]

FirstEntries(l, p) ==
  {f \in [EdgesOf(p) -> Obj \cup {None}] :
     \A e \in EdgesOf(p) :
       LET same == {o \in l[e] : AddrOf[o] = p}
       IN  f[e] \in (IF same = {} THEN {None} ELSE same)}

Known(d) == {p \in Pool : d[p] # None}
ReadyIn(d) == {p \in Known(d) : ready[d[p]]}

\* newPools, newAdj and readyCount after an entry, and the lists still shared.
Draft(d, l, S, n) ==
  [pools |-> d, adj |-> l, shared |-> S, todo |-> {}, ready |-> n]

-----------------------------------------------------------------------------
(* Configure: empty maps, a first (empty) rebuild, the refresher started.  *)

NoWork == [pools |-> [p \in Pool |-> None], adj |-> EmptyListing,
           shared |-> {}, todo |-> {}, ready |-> 0]

Init ==
  /\ pools = [p \in Pool |-> None]
  /\ adj = EmptyListing
  /\ ready = [o \in Obj |-> FALSE]
  /\ handed = {}
  /\ added = <<>> /\ removed = <<>> /\ updated = <<>>
  /\ dirty = FALSE
  /\ refresher = "waiting" /\ phase = "free"
  /\ work = NoWork
  /\ snap = [pools |-> [p \in Pool |-> None], adj |-> EmptyListing,
             fast |-> TRUE, count |-> 0, ready |-> 0]

-----------------------------------------------------------------------------
(* Writers.                                                                *)

\* A market goroutine flips the readiness of an object in place, inside mu.
SetReady(o) ==
  /\ phase = "free" /\ o \in handed
  /\ ready' = [ready EXCEPT ![o] = ~@]
  /\ UNCHANGED <<pools, adj, handed, pending, dirty, refresher, phase, work, snap>>

\* addPoolLocked for an address that is new: the object is filed both ways.
AddNewPool(o) ==
  /\ phase = "free" /\ o \in Obj \ handed
  /\ pools[AddrOf[o]] = None
  /\ pools' = [pools EXCEPT ![AddrOf[o]] = o]
  /\ adj' = addPoolToAdj(adj, o)
  /\ added' = Append(added, o)
  /\ handed' = handed \cup {o}
  /\ dirty' = TRUE
  /\ UNCHANGED <<ready, removed, updated, refresher, phase, work, snap>>


\* Mutant: addPoolLocked files a replacement in the adjacency too.
ReplaceAndFile(o) ==
  /\ phase = "free" /\ o \in Obj \ handed
  /\ pools[AddrOf[o]] # None
  /\ pools' = [pools EXCEPT ![AddrOf[o]] = o]
  /\ adj' = addPoolToAdj(adj, o)
  /\ updated' = Append(updated, o)
  /\ handed' = handed \cup {o}
  /\ dirty' = TRUE
  /\ UNCHANGED <<ready, added, removed, refresher, phase, work, snap>>

\* addPoolLocked for a known address: the map changes, the adjacency does not.
ReplacePool(o) ==
  /\ phase = "free" /\ o \in Obj \ handed
  /\ pools[AddrOf[o]] # None
  /\ pools' = [pools EXCEPT ![AddrOf[o]] = o]
  /\ updated' = Append(updated, o)
  /\ handed' = handed \cup {o}
  /\ dirty' = TRUE
  /\ UNCHANGED <<adj, ready, added, removed, refresher, phase, work, snap>>

AddPool(o) == AddNewPool(o) \/ ReplacePool(o)

RemovePool(p) ==
  /\ phase = "free" /\ p \in Removable
  /\ pools[p] # None
  /\ pools' = [pools EXCEPT ![p] = None]
  /\ adj' = removePoolFromAdj(adj, p)
  /\ removed' = Append(removed, p)
  /\ dirty' = TRUE
  /\ UNCHANGED <<ready, handed, added, updated, refresher, phase, work, snap>>

MarkDirty ==
  /\ dirty' = TRUE
  /\ UNCHANGED <<pools, adj, ready, handed, pending, refresher, phase, work, snap>>


\* Mutant: the rebuild forgets to drop the recorded updates.
BeginRebuildKeepUpdates(d, a) ==
  /\ added' = <<>> /\ removed' = <<>> /\ updated' = updated
  /\ phase' = "rebuild"
  /\ work' = [pools |-> d, adj |-> EmptyListing, shared |-> {},
              todo |-> {e \in Edge : a[e] # {}}, ready |-> Cardinality(ReadyIn(d))]

\* The start of rebuildSnapshot over the map d and the adjacency a: the pending
\* diff is dropped and the ready pools counted before any list is filtered.
BeginRebuild(d, a) ==
  /\ added' = <<>> /\ removed' = <<>> /\ updated' = <<>>
  /\ phase' = "rebuild"
  /\ work' = [pools |-> d, adj |-> EmptyListing, shared |-> {},
              todo |-> {e \in Edge : a[e] # {}}, ready |-> Cardinality(ReadyIn(d))]

RefreshSnapshot ==
  /\ phase = "free"
  /\ BeginRebuild(pools, adj)
  /\ dirty' = FALSE
  /\ UNCHANGED <<pools, adj, ready, handed, refresher, snap>>


\* Objects loaded from storage, where each address is stored once.
AddPoolsBatch(S) ==
  LET after == [p \in Pool |->
                  IF \E o \in S : AddrOf[o] = p
                  THEN CHOOSE o \in S : AddrOf[o] = p ELSE pools[p]]
  IN  /\ phase = "free"
      /\ S \subseteq Obj \ handed
      /\ \A o1, o2 \in S : AddrOf[o1] = AddrOf[o2] => o1 = o2
      /\ pools' = after
      /\ adj' = [e \in Edge |->
                  adj[e] \cup {o \in S : /\ pools[AddrOf[o]] = None
                                         /\ e \in EdgesOf(AddrOf[o])}]
      /\ handed' = handed \cup S
      /\ dirty' = FALSE
      /\ BeginRebuild(after, adj')
      /\ UNCHANGED <<ready, refresher, snap>>

-----------------------------------------------------------------------------
(* The refresher.                                                          *)

Changes == Len(added) + Len(removed) + Len(updated)


\* On a tick the flag is tested and cleared before mu is taken.
ClaimDirty ==
  /\ refresher = "waiting" /\ dirty
  /\ dirty' = FALSE
  /\ refresher' = "claimed"
  /\ UNCHANGED <<pools, adj, ready, handed, pending, phase, work, snap>>

\* applyPendingChanges with few changes starts from a copy of the maps of the
\* current snapshot, whose lists stay shared until they are replaced.
StartIncremental ==
  /\ refresher = "claimed" /\ phase = "free"
  /\ Changes > 0 /\ Changes < Threshold
  /\ refresher' = "applying" /\ phase' = "apply"
  /\ work' = Draft(snap.pools, snap.adj, Edge, snap.ready)
  /\ UNCHANGED <<pools, adj, ready, handed, pending, dirty, snap>>

\* With no recorded change (MarkDirty alone) or many it rebuilds.
StartRebuild ==
  /\ refresher = "claimed" /\ phase = "free"
  /\ ~(Changes > 0 /\ Changes < Threshold)
  /\ BeginRebuild(pools, adj)
  /\ refresher' = "applying"
  /\ UNCHANGED <<pools, adj, ready, handed, dirty, snap>>

-----------------------------------------------------------------------------
(* Under mu: rebuildSnapshot.                                              *)

\* One directed pair: keep the ready objects, sort by output reserve, cut to
\* MaxPerPair.  Which objects have the largest reserves is left open.
RebuildPair(e) ==
  /\ phase = "rebuild" /\ e \in work.todo
  /\ LET R == {o \in adj[e] : ready[o]}
     IN  \E T \in SUBSET R :
           /\ IF Cardinality(R) > MaxPerPair THEN Cardinality(T) = MaxPerPair
                                             ELSE T = R
           /\ work' = [work EXCEPT !.adj[e] = T, !.todo = @ \ {e}]
  /\ UNCHANGED <<pools, adj, ready, handed, pending, dirty, refresher, phase, snap>>


\* Mutant: the counters are not stored with the maps.
StoreMapsOnly(fast) ==
  /\ snap' = [pools |-> work.pools, adj |-> work.adj, fast |-> fast]
  /\ work' = NoWork
  /\ phase' = "free"
  /\ refresher' = IF refresher = "applying" THEN "waiting" ELSE refresher
  /\ UNCHANGED <<pools, adj, ready, handed, pending, dirty>>

\* The holder of mu stores the snapshot built in work and releases mu.
Store(fast) ==
  /\ snap' = [pools |-> work.pools, adj |-> work.adj, fast |-> fast,
              count |-> Cardinality(Known(work.pools)), ready |-> work.ready]
  /\ work' = NoWork
  /\ phase' = "free"
  /\ refresher' = IF refresher = "applying" THEN "waiting" ELSE refresher
  /\ UNCHANGED <<pools, adj, ready, handed, pending, dirty>>

PublishRebuild == phase = "rebuild" /\ work.todo = {} /\ Store(TRUE)

-----------------------------------------------------------------------------
(* Under mu: applyIncrementalUpdate.  The diff is consumed as it is        *)
(* applied: nobody reads it before mu is released.                         *)


ApplyRemoved ==
  /\ phase = "apply" /\ removed # <<>>
  /\ LET p == Head(removed)
         o == work.pools[p]
     IN  work' = IF o = None THEN work
                 ELSE Draft([work.pools EXCEPT ![p] = None],
                            removePoolFromAdj(work.adj, p),
                            work.shared \ EdgesOf(p),
                            IF ready[o] THEN work.ready - 1 ELSE work.ready)
  /\ removed' = Tail(removed)
  /\ UNCHANGED <<pools, adj, ready, handed, added, updated, dirty, refresher,
                 phase, snap>>

\* Four cases on the readiness, now, of the object the snapshot holds for the
\* address and of the updating object.
ApplyUpdated ==
  /\ phase = "apply" /\ removed = <<>> /\ updated # <<>>
  /\ LET o == Head(updated)
         p == AddrOf[o]
         old == work.pools[p]
         d == [work.pools EXCEPT ![p] = o]
     IN  \/ /\ IF old = None THEN TRUE ELSE ~(ready[old] \/ ready[o])
            /\ work' = Draft(d, work.adj, work.shared, work.ready)
            /\ UNCHANGED snap
         \/ /\ old # None /\ ready[old] /\ ~ready[o]
            /\ work' = Draft(d, removePoolFromAdj(work.adj, p),
                             work.shared \ EdgesOf(p), work.ready - 1)
            /\ UNCHANGED snap
         \/ /\ old # None /\ ~ready[old] /\ ready[o]
            /\ \E moved \in SUBSET EdgesOf(p) :   \* append may reallocate
                 work' = Draft(d, addPoolToAdj(work.adj, o),
                               work.shared \ moved, work.ready + 1)
            /\ UNCHANGED snap
         \/ /\ old # None /\ ready[old] /\ ready[o]
            /\ \E first \in FirstEntries(work.adj, p) :
                 /\ work' = Draft(d, updatePoolInAdj(work.adj, o, first, Edge),
                                  work.shared, work.ready)
                 /\ snap' = [snap EXCEPT !.adj =
                               updatePoolInAdj(snap.adj, o, first, work.shared)]
  /\ updated' = Tail(updated)
  /\ UNCHANGED <<pools, adj, ready, handed, added, removed, dirty, refresher,
                 phase>>


\* Mutant: additions may be applied before removals.
ApplyAddedAnyTime ==
  /\ phase = "apply" /\ updated = <<>> /\ added # <<>>
  /\ LET o == Head(added)
         d == [work.pools EXCEPT ![AddrOf[o]] = o]
     IN  \/ /\ ready[o]
            /\ \E moved \in SUBSET EdgesOf(AddrOf[o]) :
                 work' = Draft(d, addPoolToAdj(work.adj, o),
                               work.shared \ moved, work.ready + 1)
         \/ /\ ~ready[o]
            /\ work' = Draft(d, work.adj, work.shared, work.ready)
  /\ added' = Tail(added)
  /\ UNCHANGED <<pools, adj, ready, handed, removed, updated, dirty, refresher,
                 phase, snap>>

\* Mutant: an addition that is not ready is dropped, as a rebuild drops it from
\* the lists.
ApplyAddedReadyOnly ==
  /\ phase = "apply" /\ removed = <<>> /\ updated = <<>> /\ added # <<>>
  /\ LET o == Head(added)
         d == [work.pools EXCEPT ![AddrOf[o]] = o]
     IN  \/ /\ ready[o]
            /\ \E moved \in SUBSET EdgesOf(AddrOf[o]) :
                 work' = Draft(d, addPoolToAdj(work.adj, o),
                               work.shared \ moved, work.ready + 1)
         \/ ~ready[o] /\ UNCHANGED work
  /\ added' = Tail(added)
  /\ UNCHANGED <<pools, adj, ready, handed, removed, updated, dirty, refresher,
                 phase, snap>>

ApplyAdded ==
  /\ phase = "apply" /\ removed = <<>> /\ updated = <<>> /\ added # <<>>
  /\ LET o == Head(added)
         d == [work.pools EXCEPT ![AddrOf[o]] = o]
     IN  \/ /\ ready[o]
            /\ \E moved \in SUBSET EdgesOf(AddrOf[o]) :
                 work' = Draft(d, addPoolToAdj(work.adj, o),
                               work.shared \ moved, work.ready + 1)
         \/ /\ ~ready[o]
            /\ work' = Draft(d, work.adj, work.shared, work.ready)
  /\ added' = Tail(added)
  /\ UNCHANGED <<pools, adj, ready, handed, removed, updated, dirty, refresher,
                 phase, snap>>

\* The incremental snapshot has only the two maps: no adjFast, no superEdges.
PublishIncremental ==
  /\ phase = "apply" /\ added = <<>> /\ removed = <<>> /\ updated = <<>>
  /\ Store(FALSE)

-----------------------------------------------------------------------------
Writer == \/ \E o \in Obj : SetReady(o) \/ AddPool(o)
          \/ \E p \in Pool : RemovePool(p)
          \/ \E S \in SUBSET Obj : AddPoolsBatch(S)
          \/ MarkDirty \/ RefreshSnapshot

\* What the goroutine inside mu does next.
Holder == \/ \E e \in Edge : RebuildPair(e)
          \/ PublishRebuild
          \/ ApplyRemoved \/ ApplyUpdated \/ ApplyAdded \/ PublishIncremental

LockForRefresh == StartIncremental \/ StartRebuild

Next == Writer \/ ClaimDirty \/ LockForRefresh \/ Holder

\* The ticker keeps firing, a goroutine inside mu keeps running, and a Go mutex
\* in starvation mode is handed to the longest waiter, so the refresher gets it
\* although writers keep taking it.
Fairness == WF_vars(ClaimDirty) /\ SF_vars(LockForRefresh) /\ WF_vars(Holder)

Spec == Init /\ [][Next]_vars /\ Fairness

-----------------------------------------------------------------------------
(* Properties.                                                             *)

\* Every variable has its type; the counters may be any integers.
TypeOK ==
  /\ pools \in Directory /\ adj \in Listing
  /\ ready \in [Obj -> BOOLEAN] /\ handed \in SUBSET Obj
  /\ added \in Seq(Obj) /\ updated \in Seq(Obj) /\ removed \in Seq(Pool)
  /\ dirty \in BOOLEAN
  /\ refresher \in {"waiting", "claimed", "applying"}
  /\ phase \in {"free", "apply", "rebuild"}
  /\ work \in Work /\ snap \in Snapshot

\* The two mutable maps agree: an address in g.pools has exactly one object in
\* g.adj, the same one in both directions, and no other address has any.  Adds
\* of a known address and removals edit the maps by different rules (the map by
\* object, the lists by address), so a mistake shows only after several calls.
AdjFilesEachPoolOnce ==
  /\ \A e \in Edge : \A o \in adj[e] : e \in EdgesOf(AddrOf[o])
  /\ \A p \in Pool :
       IF pools[p] = None
       THEN \A e \in Edge : \A o \in adj[e] : AddrOf[o] # p
       ELSE \E o \in Obj :
              /\ AddrOf[o] = p
              /\ \A e \in EdgesOf(p) : {x \in adj[e] : AddrOf[x] = p} = {o}

\* A recorded change always has somebody who will apply it: the flag is set,
\* or the refresher has cleared it and not yet begun, or the change is being
\* applied.  The flag is cleared outside mu and the diff is cleared inside it,
\* by three different callers.
NoLostWakeup == Changes > 0 => dirty \/ refresher = "claimed" \/ phase = "apply"

\* No known pool falls between the diff and the snapshot: a pool in g.pools is
\* in the next snapshot already, or is in "added" and will be put there, or the
\* holder of mu is building a snapshot from g.pools itself.
KnownIsPublishedOrPending ==
  LET next == IF phase = "apply" THEN work.pools ELSE snap.pools
  IN  \A p \in Known(pools) :
        \/ \E i \in DOMAIN added : AddrOf[added[i]] = p
        \/ next[p] # None /\ \A i \in DOMAIN removed : removed[i] # p
        \/ phase = "rebuild"

\* Every object that can be routed through is for an address GetPool finds: the
\* vault handler looks pools up with GetPool, so a listed pool it cannot find
\* would be quoted on reserves that are never updated again.
ListedPoolsAreFound ==
  \A e \in Edge : \A o \in snap.adj[e] : snap.pools[AddrOf[o]] # None

\* What the holder of mu has built so far hangs together, which is what makes
\* ListedPoolsAreFound hold at the Store: a rebuild works on the current map, and
\* every object in a list is under its own pair and in the map built with it.
BuildInv ==
  /\ phase = "rebuild" => work.pools = pools /\ removed = <<>>
  /\ \A e \in Edge : \A o \in work.adj[e] :
       e \in EdgesOf(AddrOf[o]) /\ work.pools[AddrOf[o]] # None
  /\ \A e \in Edge : \A o \in snap.adj[e] : e \in EdgesOf(AddrOf[o])

\* For the pools nobody removes the graph is a PoolDirectory, whatever happens
\* to the others: readers are switched to all the known pools in one step, no
\* pool is lost or invented on the way, and a change is published in the end.
Kept == Pool \ Removable
PublishedDirectory == INSTANCE PoolDirectory
                      WITH Pool <- Kept, known <- Known(pools) \cap Kept,
                           published <- Known(snap.pools) \cap Kept
ImplementsDirectory == PublishedDirectory!DirSpec

\* The writers have nothing left to publish.
Settled == Changes = 0 /\ ~dirty /\ refresher = "waiting" /\ phase = "free"

=============================================================================
