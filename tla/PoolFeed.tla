------------------------------ MODULE PoolFeed ------------------------------
(***************************************************************************)
(* The market handlers that fill the routing graph                         *)
(* (services/market/vortex_service.go, service.go): pool accounts, from    *)
(* the subscription and from the historical fetch, tick arrays from their  *)
(* subscription, and the hydration that fetches the first tick arrays.     *)
(*                                                                         *)
(* The handlers run over the graph of module Graph and use its actions.    *)
(* Each takes g.mu several times and lets go of it in between, so another  *)
(* goroutine may act between a lookup and what is done with its answer.    *)
(* Messages are delivered in any order and any number of times.  Reserves, *)
(* slots and the queues are left out (module MarketStore has the queues).  *)
(***************************************************************************)
EXTENDS Graph

CONSTANTS
  Array,      \* tick array addresses
  WindowsOf   \* [Pool -> SUBSET Seq(Array)], what GetRelevantTickArrayPDAs may
              \* answer for the pool, by its current tick; <<>> is its failure

ASSUME WindowAssumption == WindowsOf \in [Pool -> SUBSET Seq(Array)] /\ None \notin Array

VARIABLES
  stored,  \* the objects LoadAllPools returns at start, one per address
  window,  \* TickArrays of an object
  parsed,  \* ParsedTickArrays of an object, <<>> for a nil slice
  owner,   \* tickArrayToPool: array -> pool and index, or None
  proc,    \* the two goroutines in processVortexPool
  tick,    \* the tick array goroutine in processTickArray
  hyd,     \* the hydration goroutine
  toFetch, \* accounts of the historical answer yet to be processed
  wg       \* the WaitGroup that fetchHistoricalPools waits for

feedVars == <<window, parsed, owner, proc, tick, hyd, toFetch, wg, stored>>
allVars == <<vars, feedVars>>

-----------------------------------------------------------------------------
Feed == {"subscription", "historical"}
Window == UNION {WindowsOf[p] : p \in Pool}
Blank(w) == [i \in DOMAIN w |-> None]
hasAllTickArrays(s) == s # <<>> /\ \A i \in DOMAIN s : s[i] # None

Idle == [at |-> "idle"]

\* Mutant: the tick arrays of the message are not kept.
TaskWithoutWindow(at, p, o, w) == [at |-> at, pool |-> p, obj |-> o]

\* Where a goroutine is in processVortexPool, with the address, the object it
\* found and the tick arrays computed from the message.
Task(at, p, o, w) == [at |-> at, pool |-> p, obj |-> o, win |-> w]

\* Hydration: the objects left to scan, the one being scanned, the requests.
Hydration(at, objs, cur, reqs) ==
  [at |-> at, objs |-> objs, cur |-> cur, reqs |-> reqs]

Panicked == hyd.at = "panicked"

FeedInit ==
  /\ Init
  /\ window = [o \in Obj |-> <<>>]
  /\ parsed = [o \in Obj |-> <<>>]
  /\ owner = [a \in Array |-> None]
  /\ proc = [f \in Feed |-> [at |-> "starting"]]
  /\ tick = Idle
  /\ hyd = Hydration("none", {}, None, {})
  /\ stored \in SUBSET Obj
  /\ \A o1, o2 \in stored : AddrOf[o1] = AddrOf[o2] => o1 = o2
  /\ toFetch = {} /\ wg = 0

-----------------------------------------------------------------------------
(* Start.                                                                  *)

Entries(w, p, a) == {[pool |-> p, index |-> i] : i \in {j \in DOMAIN w : w[j] = a}}

\* loadPoolsFromStorage: the stored pools go in as one batch, not ready, the
\* arrays of those with liquidity are registered and hydration starts.
LoadStored ==
  /\ proc["subscription"].at = "starting" /\ stored # {}
  /\ AddPoolsBatch(stored)
  /\ \E w \in [stored -> Window], liquid \in SUBSET stored :
       /\ \A o \in stored : w[o] \in WindowsOf[AddrOf[o]]
       /\ window' = [o \in Obj |-> IF o \in stored THEN w[o] ELSE window[o]]
       /\ owner' = [a \in Array |->
            LET new == UNION {Entries(w[o], AddrOf[o], a) : o \in liquid}
            IN  IF new = {} THEN owner[a] ELSE CHOOSE x \in new : TRUE]
  /\ hyd' = Hydration("next", stored, None, {})
  /\ proc' = [f \in Feed |-> Idle]
  /\ UNCHANGED <<parsed, tick, toFetch, wg, stored>>

\* Nothing stored: the historical fetch starts beside the subscription, with a
\* WaitGroup of two and an answer that is empty when the RPC fails.  In dev mode
\* nothing is loaded and nothing fetched.
StartEmpty ==
  /\ proc["subscription"].at = "starting" /\ stored = {}
  /\ proc' = [f \in Feed |-> Idle]
  /\ \/ wg' = 2 /\ \E S \in {Pool, {}} : toFetch' = S
     \/ UNCHANGED <<wg, toFetch>>
  /\ UNCHANGED <<vars, window, parsed, owner, tick, hyd, stored>>

\* The one goroutine of the fetch is done.  fetchHistoricalPools goes on, to
\* hydrate and to save, when the WaitGroup is at zero; nobody else counts it
\* down, so what follows the wait has no action here.
HistoricalDone ==
  /\ wg = 2 /\ toFetch = {} /\ proc["historical"].at = "idle"
  /\ wg' = wg - 1
  /\ UNCHANGED <<vars, window, parsed, owner, proc, tick, hyd, toFetch, stored>>

-----------------------------------------------------------------------------
(* processVortexPool.                                                      *)

\* pool.SetReady(b) inside mu, nothing when the flag is b already.
PutReady(o, b) == \/ ready[o] # b /\ SetReady(o)
                  \/ ready[o] = b /\ UNCHANGED vars

Goto(f, step) == proc' = [proc EXCEPT ![f] = step]

\* Mutant: a missing pool's arrays are registered before the pool is added.
LookUpThenRegister(f, p, w) ==
  /\ proc[f].at = "idle" /\ phase = "free"
  /\ f = "historical" => p \in toFetch
  /\ toFetch' = IF f = "historical" THEN toFetch \ {p} ELSE toFetch
  /\ Goto(f, Task(IF pools[p] = None THEN "register" ELSE "found", p, pools[p], w))
  /\ UNCHANGED <<vars, window, parsed, owner, tick, hyd, wg, stored>>

\* GetPoolMutable: what is known of the address now.
LookUpPool(f, p, w) ==
  /\ proc[f].at = "idle" /\ phase = "free"
  /\ f = "historical" => p \in toFetch
  /\ toFetch' = IF f = "historical" THEN toFetch \ {p} ELSE toFetch
  /\ Goto(f, Task(IF pools[p] = None THEN "missing" ELSE "found", p, pools[p], w))
  /\ UNCHANGED <<vars, window, parsed, owner, tick, hyd, wg, stored>>

\* Mutant: the update does not take mu.
UpdateWithoutLock(f) ==
  /\ proc[f].at = "found"
  /\ LET o == proc[f].obj
         w == proc[f].win
     IN  IF w # <<>> /\ w # window[o]
         THEN /\ window' = [window EXCEPT ![o] = w]
              /\ parsed' = [parsed EXCEPT ![o] = <<>>]
              /\ ready' = [ready EXCEPT ![o] = FALSE]
         ELSE UNCHANGED <<ready, window, parsed>>
  /\ Goto(f, Task("mark", proc[f].pool, proc[f].obj, proc[f].win))
  /\ UNCHANGED <<pools, adj, handed, pending, dirty, refresher, phase, work, snap,
                 owner, tick, hyd, toFetch, wg, stored>>

\* Mutant: an update that drops the parsed arrays leaves the pool ready.
UpdateKeepsReady(f) ==
  /\ proc[f].at = "found" /\ phase = "free"
  /\ LET o == proc[f].obj
         w == proc[f].win
     IN  IF w # <<>> /\ w # window[o]
         THEN /\ window' = [window EXCEPT ![o] = w]
              /\ parsed' = [parsed EXCEPT ![o] = <<>>]
         ELSE UNCHANGED <<window, parsed>>
  /\ Goto(f, Task("mark", proc[f].pool, proc[f].obj, proc[f].win))
  /\ UNCHANGED <<vars, owner, tick, hyd, toFetch, wg, stored>>

\* The object found is updated in place, inside mu.  An account whose tick
\* arrays differ resets what was parsed and takes the pool out of routing.
UpdateFound(f) ==
  /\ proc[f].at = "found" /\ phase = "free"
  /\ LET o == proc[f].obj
         w == proc[f].win
     IN  \/ /\ w # <<>> /\ w # window[o]
            /\ window' = [window EXCEPT ![o] = w]
            /\ parsed' = [parsed EXCEPT ![o] = <<>>]
            /\ PutReady(o, FALSE)
         \/ /\ w = <<>> \/ w = window[o]
            /\ UNCHANGED <<vars, window, parsed>>
  /\ Goto(f, Task("mark", proc[f].pool, proc[f].obj, proc[f].win))
  /\ UNCHANGED <<owner, tick, hyd, toFetch, wg, stored>>

MarkAfterUpdate(f) ==
  /\ proc[f].at = "mark"
  /\ MarkDirty
  /\ Goto(f, Task("register", proc[f].pool, proc[f].obj, proc[f].win))
  /\ UNCHANGED <<window, parsed, owner, tick, hyd, toFetch, wg, stored>>

\* The lookup found nothing, so a new object is added, whatever others have
\* added since.
AddMissing(f) ==
  /\ proc[f].at = "missing"
  /\ \E o \in Obj \ stored :
       /\ AddrOf[o] = proc[f].pool
       /\ AddPool(o)
       /\ window' = [window EXCEPT ![o] = proc[f].win]
  /\ Goto(f, Task("register", proc[f].pool, proc[f].obj, proc[f].win))
  /\ UNCHANGED <<parsed, owner, tick, hyd, toFetch, wg, stored>>

\* registerTickArrays: an address that has an entry keeps it, index and all.
RegisterArrays(f) ==
  /\ proc[f].at = "register"
  /\ owner' = [a \in Array |->
       LET new == Entries(proc[f].win, proc[f].pool, a)
       IN  IF owner[a] # None \/ new = {} THEN owner[a] ELSE CHOOSE x \in new : TRUE]
  /\ Goto(f, Idle)
  /\ UNCHANGED <<vars, window, parsed, tick, hyd, toFetch, wg, stored>>

ProcessVortexPool(f) ==
  \/ \E p \in Pool : \E w \in WindowsOf[p] : LookUpPool(f, p, w)
  \/ UpdateFound(f) \/ MarkAfterUpdate(f) \/ AddMissing(f) \/ RegisterArrays(f)

-----------------------------------------------------------------------------
(* processTickArray.                                                       *)

\* tickArrayToPool, then GetPoolMutable.
LookUpArray(a) ==
  /\ tick.at = "idle" /\ phase = "free"
  /\ owner[a] # None /\ pools[owner[a].pool] # None
  /\ tick' = [at |-> "store", obj |-> pools[owner[a].pool],
              index |-> owner[a].index, array |-> a]
  /\ UNCHANGED <<vars, window, parsed, owner, proc, hyd, toFetch, wg, stored>>

\* Inside mu: the array is put at the index registered for its address, and a
\* pool with no entry missing becomes ready.
StoreArray ==
  /\ tick.at = "store" /\ phase = "free"
  /\ LET o == tick.obj
         old == IF parsed[o] = <<>> THEN Blank(window[o]) ELSE parsed[o]
         new == IF tick.index \in DOMAIN old
                THEN [old EXCEPT ![tick.index] = tick.array] ELSE old
     IN  /\ parsed' = [parsed EXCEPT ![o] = new]
         /\ PutReady(o, ready[o] \/ hasAllTickArrays(new))
  /\ tick' = [at |-> "refresh"]
  /\ UNCHANGED <<window, owner, proc, hyd, toFetch, wg, stored>>

RefreshAfterArray ==
  /\ tick.at = "refresh"
  /\ RefreshSnapshot
  /\ tick' = Idle
  /\ UNCHANGED <<window, parsed, owner, proc, hyd, toFetch, wg, stored>>

ProcessTickArray ==
  (\E a \in Array : LookUpArray(a)) \/ StoreArray \/ RefreshAfterArray

-----------------------------------------------------------------------------
(* fetchInitialTickArraysBatched.                                          *)

\* The scan reads and makes ParsedTickArrays without mu: a nil slice is seen
\* in one step and replaced in another.  A pool without tick arrays is skipped,
\* and so is one without liquidity, which may be any.
ScanPool ==
  /\ hyd.at = "next"
  /\ \E o \in hyd.objs :
       \E step \in {"next", IF window[o] = <<>> THEN "next"
                            ELSE IF parsed[o] = <<>> THEN "make" ELSE "list"} :
         hyd' = Hydration(step, hyd.objs \ {o}, o, hyd.reqs)
  /\ UNCHANGED <<vars, window, parsed, owner, proc, tick, toFetch, wg, stored>>

MakeParsed ==
  /\ hyd.at = "make"
  /\ parsed' = [parsed EXCEPT ![hyd.cur] = Blank(window[hyd.cur])]
  /\ hyd' = Hydration("list", hyd.objs, hyd.cur, hyd.reqs)
  /\ UNCHANGED <<vars, window, owner, proc, tick, toFetch, wg, stored>>

ListRequests ==
  /\ hyd.at = "list"
  /\ LET w == window[hyd.cur]
     IN  hyd' = Hydration("next", hyd.objs, None,
                          hyd.reqs \cup {<<hyd.cur, i, w[i]>> : i \in DOMAIN w})
  /\ UNCHANGED <<vars, window, parsed, owner, proc, tick, toFetch, wg, stored>>

\* Twenty workers answer the requests in any order.  A batch whose fetch failed
\* three times is dropped.
DropRequest(r) ==
  /\ hyd.at = "next" /\ hyd.objs = {} /\ r \in hyd.reqs
  /\ hyd' = Hydration("next", {}, None, hyd.reqs \ {r})
  /\ UNCHANGED <<vars, window, parsed, owner, proc, tick, toFetch, wg, stored>>

\* Inside mu.  The index is the one of the scan; the slice is the one of now,
\* and an index outside it panics.  No refresh follows.
StoreFetched(r) ==
  /\ hyd.at = "next" /\ hyd.objs = {} /\ r \in hyd.reqs /\ phase = "free"
  /\ LET o == r[1]
         new == [parsed[o] EXCEPT ![r[2]] = r[3]]
     IN  \/ /\ r[2] \in DOMAIN parsed[o]
            /\ parsed' = [parsed EXCEPT ![o] = new]
            /\ PutReady(o, ready[o] \/ hasAllTickArrays(new))
            /\ hyd' = Hydration("next", {}, None, hyd.reqs \ {r})
         \/ /\ r[2] \notin DOMAIN parsed[o]
            /\ hyd' = Hydration("panicked", {}, None, {})
            /\ UNCHANGED <<vars, parsed>>
  /\ UNCHANGED <<window, owner, proc, tick, toFetch, wg, stored>>

Hydrate == \/ ScanPool \/ MakeParsed \/ ListRequests
           \/ \E r \in hyd.reqs : DropRequest(r) \/ StoreFetched(r)

-----------------------------------------------------------------------------
\* The graph's own goroutines: the refresher, and whoever is inside mu.
GraphStep == (ClaimDirty \/ LockForRefresh \/ Holder) /\ UNCHANGED feedVars

\* A panic in a worker ends the process.
FeedNext ==
  /\ ~Panicked
  /\ \/ LoadStored \/ StartEmpty \/ HistoricalDone
     \/ \E f \in Feed : ProcessVortexPool(f)
     \/ ProcessTickArray \/ Hydrate \/ GraphStep

\* Goroutines that are inside mu or can take it go on; the historical fetch has
\* a timeout on its one RPC.
FeedFairness == /\ WF_allVars(~Panicked /\ GraphStep)
                /\ SF_allVars(~Panicked /\ ProcessVortexPool("historical"))
                /\ WF_allVars(~Panicked /\ (LoadStored \/ StartEmpty \/ HistoricalDone))

FeedSpec == FeedInit /\ [][FeedNext]_allVars /\ FeedFairness

-----------------------------------------------------------------------------
(* Properties.                                                             *)

\* Every variable of the handlers has its type.
FeedTypeOK ==
  /\ stored \subseteq Obj /\ toFetch \subseteq Pool /\ wg \in 0..2
  /\ window \in [Obj -> Seq(Array)]
  /\ parsed \in [Obj -> Seq(Array \cup {None})]
  /\ owner \in [Array -> [pool : Pool, index : Nat] \cup {None}]
  /\ proc \in [Feed -> {[at |-> "starting"], Idle}
                       \cup [at : {"found", "missing", "mark", "register"},
                            pool : Pool, obj : Obj \cup {None}, win : Seq(Array)]]
  /\ tick \in {Idle, [at |-> "refresh"]}
              \cup [at : {"store"}, obj : Obj, index : Nat, array : Array]
  /\ hyd \in [at : {"none", "next", "make", "list", "panicked"},
              objs : SUBSET Obj, cur : Obj \cup {None},
              reqs : SUBSET (Obj \X Nat \X Array)]
  /\ hyd.at \in {"make", "list"} => hyd.cur \in Obj

\* Whatever the handlers do is something the graph allows: they change the map,
\* the diff and the readiness of an object only while nobody is building a
\* snapshot, so what is proved of Graph holds under them.
ImplementsGraph == Init /\ [][Next]_vars

\* An object that is ready has all its tick arrays parsed.
Complete(o) == ready[o] => hasAllTickArrays(parsed[o])

\* The quoter walks the slice of a ready pool.  Four handlers make, fill and drop
\* that slice and two of them set the flag, in critical sections of their own; yet
\* the flag never gets ahead of the slice and no slice is emptied behind the flag,
\* but by the one write that is outside the lock: the scan of the hydration, which
\* puts a blank slice (line 436) where it saw nil, whatever was filled in since.
OnlyTheScanEmpties ==
  [][\A o \in Obj : Complete(o) /\ ~Complete(o)' => hyd.at = "make" /\ hyd.cur = o]_allVars

\* A registered tick array leads to a pool that GetPoolMutable finds, so an
\* update that arrives for it is not lost.
OwnerIsKnown == \A a \in Array : owner[a] # None => pools[owner[a].pool] # None

-----------------------------------------------------------------------------
(* What comments say and the code does not do.                             *)

FeedSettled == /\ Settled /\ tick.at = "idle"
               /\ \A f \in Feed : proc[f].at = "idle"

\* graph.go:332 "Build adjacency with only ready pools pre-filtered", and
\* graph.go:546 "MarkDirty marks the snapshot as needing rebuild": once the work
\* is done, what readers route through is ready.
RoutedIsReady ==
  FeedSettled => \A e \in Edge : \A o \in snap.adj[e] : ready[o]

=============================================================================
