---------------------------- MODULE MarketStore ----------------------------
(***************************************************************************)
(* How the market service stores the pools it hears of                     *)
(* (services/market/service.go, adapters/persistence/boltdb.go): the queue *)
(* of pools to save, the loop that empties it every few seconds, and what  *)
(* survives a stop, a crash and a start.                                   *)
(*                                                                         *)
(* The graph is the PoolDirectory it implements.  What an account says is  *)
(* left out but for whether the store has heard of it.  The registrations  *)
(* of vaults and tick arrays are in Subscriptions: here a report may come  *)
(* for any pool its handler would find.                                    *)
(***************************************************************************)
EXTENDS PoolDirectory

CONSTANT Stream  \* the subscriptions of vaults, each with a goroutine

VARIABLES
  up,         \* the process runs, its Start done
  store,      \* addresses in the pools bucket
  unheard,    \* what has been written to a pool that the store has not heard of
  queue,      \* pendingPools
  batch,      \* the pools persistPendingPools has taken from the queue
  since,      \* what was written to a pool after the batch was encoded
  saver,      \* persistPendingPools: "idle", "taken", "encoded"
  handler,    \* where each goroutine that handles updates is
  toFetch,    \* accounts of the historical answer yet to be processed
  hydrating,  \* pools whose balances the hydration may yet write
  doubled     \* pools that two goroutines have made an object for

saveVars == <<store, unheard, queue, batch, since, saver>>
startVars == <<toFetch, hydrating, doubled>>
storeVars == <<known, published, up, saveVars, handler, startVars>>

-----------------------------------------------------------------------------
\* The pool subscription, the historical fetch and the streams of vaults.
PoolFeeder == {"pools", "historical"}
Feeder == PoolFeeder \cup Stream
Idle == [at |-> "idle"]

\* A goroutine that holds a pool.
Holding(at, p) == [at |-> at, pool |-> p]
Goto(h, step) == handler' = [handler EXCEPT ![h] = step]

\* What is written to a pool: by a handler that goes on to queue it, or by one
\* that does not.
News == {"queued", "silent"}
NoNews == [p \in Pool |-> {}]

\* Memory after an exit.
Cleared ==
  /\ up' = FALSE /\ known' = {} /\ published' = {}
  /\ unheard' = NoNews /\ since' = NoNews
  /\ queue' = {} /\ batch' = {} /\ saver' = "idle"
  /\ handler' = [h \in Feeder |-> Idle]
  /\ toFetch' = {} /\ hydrating' = {} /\ doubled' = {}

StoreInit ==
  /\ DirInit
  /\ up = FALSE
  /\ store \in SUBSET Pool
  /\ unheard = NoNews /\ since = NoNews
  /\ queue = {} /\ batch = {} /\ saver = "idle"
  /\ handler = [h \in Feeder |-> Idle]
  /\ toFetch = {} /\ hydrating = {} /\ doubled = {}

-----------------------------------------------------------------------------
(* Start and exit.                                                         *)

\* loadPoolsFromStorage puts the stored pools in the graph and goes on to fetch
\* the balances of those with liquidity.  In dev mode, and when the bucket cannot
\* be read, nothing is loaded; when no pool is loaded the historical fetch begins,
\* or fails.  It never gets to its own hydration and save (see PoolFeed).
Start ==
  /\ ~up /\ up' = TRUE
  /\ \E S \in {store, {}} :
       /\ known' = S /\ published' = S
       /\ hydrating' \in SUBSET S
       /\ toFetch' \in IF S = {} THEN SUBSET Pool ELSE {{}}
  /\ UNCHANGED <<saveVars, handler, doubled>>

\* Stop saves the pools GetAllPools finds, in one batch that may fail.
Stop(saved) ==
  /\ up /\ Cleared
  /\ store' = IF saved THEN store \cup published ELSE store

Crash == up /\ Cleared /\ UNCHANGED store

\* The graph's refresher.
Refresh ==
  /\ up /\ Publish
  /\ UNCHANGED <<up, saveVars, handler, startVars>>

-----------------------------------------------------------------------------
(* Updates.                                                                *)

\* Something is written to a pool.
Write(p, news) ==
  /\ unheard' = [unheard EXCEPT ![p] = @ \cup {news}]
  /\ since' = IF saver = "encoded" THEN [since EXCEPT ![p] = @ \cup {news}] ELSE since

\* processVortexPool looks the pool up; the historical fetch does so once for
\* each account of its answer.
ReceivePool(h, p) ==
  /\ up /\ handler[h] = Idle
  /\ h = "historical" => p \in toFetch
  /\ toFetch' = IF h = "historical" THEN toFetch \ {p} ELSE toFetch
  /\ Goto(h, Holding(IF p \in known THEN "found" ELSE "missing", p))
  /\ UNCHANGED <<known, published, up, saveVars, hydrating, doubled>>

\* The object that was found is updated; a pool that was missing is added, even
\* if another goroutine has added it since: its address then has two objects.
WritePool(h) ==
  /\ handler[h].at \in {"found", "missing"}
  /\ LET p == handler[h].pool
     IN  /\ Learn({p})
         /\ doubled' = IF handler[h].at = "missing" THEN doubled \cup ({p} \cap known)
                       ELSE doubled
         /\ Write(p, "queued")
         /\ Goto(h, Holding("queue", p))
  /\ UNCHANGED <<up, store, queue, batch, saver, toFetch, hydrating>>

\* handleVaultUpdate finds the pool of a vault with GetPool.
ReceiveVault(h, p) ==
  /\ up /\ handler[h] = Idle /\ p \in published
  /\ Write(p, "queued")
  /\ Goto(h, Holding("queue", p))
  /\ UNCHANGED <<known, published, up, store, queue, batch, saver, startVars>>

\* processTickArray sets LastUpdatedSlot, which is stored, and queues nothing.
ReceiveTickArray(p) ==
  /\ up /\ p \in known
  /\ Write(p, "silent")
  /\ UNCHANGED <<known, published, up, store, queue, batch, saver, handler, startVars>>

\* fetchInitialVaultsBatched writes a reserve, which is stored, and queues nothing;
\* the other reserve of the pool may follow.
FetchBalance(p) ==
  /\ up /\ p \in hydrating
  /\ hydrating' \in {hydrating, hydrating \ {p}}
  /\ Write(p, "silent")
  /\ UNCHANGED <<known, published, up, store, queue, batch, saver, handler, toFetch,
                 doubled>>

\* queuePoolForPersistence.
QueuePool(h) ==
  /\ handler[h].at = "queue"
  /\ queue' = queue \cup {handler[h].pool}
  /\ Goto(h, Idle)
  /\ UNCHANGED <<known, published, up, store, unheard, batch, since, saver, startVars>>

Update(h) == WritePool(h) \/ QueuePool(h)

-----------------------------------------------------------------------------
(* persistPendingPools.                                                    *)

TakePools ==
  /\ up /\ saver = "idle" /\ queue # {}
  /\ batch' = queue /\ queue' = {}
  /\ saver' = "taken"
  /\ UNCHANGED <<known, published, up, store, unheard, since, handler, startVars>>

\* SavePoolBatch encodes the objects as they are now, without the graph's lock.
\* What is written to an object while it is encoded counts as written after it.
EncodePools ==
  /\ saver = "taken" /\ saver' = "encoded"
  /\ UNCHANGED <<known, published, up, store, unheard, queue, batch, since, handler,
                 startVars>>

\* Mutant: what was saved stays the batch.
ExecuteAndKeep ==
  /\ saver = "encoded" /\ saver' = "idle"
  /\ store' = store \cup batch
  /\ unheard' = [p \in Pool |-> IF p \in batch THEN since[p] ELSE unheard[p]]
  /\ since' = NoNews
  /\ UNCHANGED <<known, published, up, queue, batch, handler, startVars>>

ExecuteBatch ==
  /\ saver = "encoded" /\ saver' = "idle"
  /\ store' = store \cup batch
  /\ unheard' = [p \in Pool |-> IF p \in batch THEN since[p] ELSE unheard[p]]
  /\ batch' = {} /\ since' = NoNews
  /\ UNCHANGED <<known, published, up, queue, handler, startVars>>

\* Mutant: what was taken is dropped when the save fails.
ForgetBatch ==
  /\ saver \in {"taken", "encoded"} /\ saver' = "idle"
  /\ batch' = {} /\ since' = NoNews
  /\ UNCHANGED <<known, published, up, store, unheard, queue, handler, startVars>>

\* An error puts the pools behind those queued since.
FailBatch ==
  /\ saver \in {"taken", "encoded"} /\ saver' = "idle"
  /\ queue' = queue \cup batch
  /\ batch' = {} /\ since' = NoNews
  /\ UNCHANGED <<known, published, up, store, unheard, handler, startVars>>

-----------------------------------------------------------------------------
StoreNext ==
  \/ Start \/ Crash \/ Refresh
  \/ \E saved \in BOOLEAN : Stop(saved)
  \/ \E h \in PoolFeeder, p \in Pool : ReceivePool(h, p)
  \/ \E h \in Stream, p \in Pool : ReceiveVault(h, p)
  \/ \E p \in Pool : ReceiveTickArray(p)
  \/ \E p \in hydrating : FetchBalance(p)
  \/ \E h \in Feeder : Update(h)
  \/ TakePools \/ EncodePools \/ ExecuteBatch \/ FailBatch

\* Handlers and loops go on while the process runs.  A save may fail any number of
\* times and not for ever.
StoreFairness ==
  /\ \A h \in Feeder : WF_storeVars(Update(h))
  /\ WF_storeVars(TakePools) /\ WF_storeVars(EncodePools \/ FailBatch)
  /\ WF_storeVars(ExecuteBatch \/ FailBatch) /\ SF_storeVars(ExecuteBatch)
  /\ SF_storeVars(EncodePools)

StoreSpec == StoreInit /\ [][StoreNext]_storeVars /\ StoreFairness

-----------------------------------------------------------------------------
(* Properties.                                                             *)

\* Every variable has its type; nothing is in memory while the process is down.
StoreTypeOK ==
  /\ up \in BOOLEAN /\ known \subseteq Pool /\ published \subseteq known
  /\ store \subseteq Pool
  /\ unheard \in [Pool -> SUBSET News] /\ since \in [Pool -> SUBSET News]
  /\ queue \subseteq Pool /\ batch \subseteq Pool
  /\ saver \in {"idle", "taken", "encoded"}
  /\ handler \in [Feeder ->
       {Idle} \cup [at : {"found", "missing", "queue"}, pool : Pool]]
  /\ toFetch \subseteq Pool /\ hydrating \subseteq Pool
  /\ doubled \subseteq known
  /\ (saver = "idle" => batch = {}) /\ (saver # "encoded" => since = NoNews)
  /\ ~up => /\ known = {} /\ queue = {} /\ saver = "idle"
            /\ unheard = NoNews /\ \A h \in Feeder : handler[h] = Idle

\* What the handlers of pools and vaults wrote to a pool and the store has not
\* heard of is on its way there: in the queue, in the batch being saved, or with
\* the handler that is about to queue the pool.  The save encodes the pools outside
\* the graph's lock and may fail at any point.  Not promised by the code: the slot
\* of a tick array and the balances of the initial fetch, which queue nothing; and
\* two objects of one address, of which the one queued last is stored.
UpdateIsOnItsWay ==
  \A p \in known \ doubled :
    \/ "queued" \notin unheard[p]
    \/ p \in queue \cup batch
    \/ \E h \in Feeder : handler[h].at = "queue" /\ handler[h].pool = p

\* Every pool the process knows is stored in the end, unless it exits first.
KnownIsStored == \A p \in Pool : p \in known ~> (p \in store \/ ~up)

=============================================================================
