---------------------------- MODULE Subscriptions ----------------------------
(***************************************************************************)
(* How the market service comes to watch the vaults and the tick arrays of *)
(* its pools (services/market/service.go, vortex_service.go): the maps     *)
(* that name what is registered, the queues of what is to be subscribed to *)
(* and the loops that empty them every five seconds.                       *)
(*                                                                         *)
(* This is the other half of the service whose saves are in MarketStore:   *)
(* the same two goroutines, after they have queued a pool for the store.   *)
(* The halves share no variable.                                           *)
(***************************************************************************)
EXTENDS MarketStore, Sequences

CONSTANTS
  Array,    \* the tick arrays of a pool, by their position in the pool's prices
  Windows   \* the tick arrays that one report of a pool may name

ASSUME WindowsAssumption == Windows \subseteq Seq(Array)

VARIABLES
  running,     \* the process runs, its Start done
  answer,      \* accounts of the historical answer yet to be processed
  registrar,   \* where each goroutine that registers is
  preset,      \* what the start registered from the store
  tracked,     \* vaultToPool and tickArrayToPool
  waiting,     \* pendingVaults and pendingTickArrays
  taken,       \* what a loop has taken from its queue and asks for
  subscribed   \* accounts the stream has been asked for

mapVars == <<preset, tracked>>
watchVars == <<running, answer, registrar, mapVars, waiting, taken, subscribed>>

-----------------------------------------------------------------------------
Kind == {"vaults", "arrays"}
Vault == {"A", "B"}
Address(k) == Pool \X IF k = "vaults" THEN Vault ELSE Array

\* registerTickArrays and registerVaults for a pool: the addresses yet to be looked
\* up, and those that were not in the map.
Registering(at, kind, p, look, new) ==
  [at |-> at, kind |-> kind, pool |-> p, look |-> look, new |-> new]
Step(h, step) == registrar' = [registrar EXCEPT ![h] = step]

NoAddress == [k \in Kind |-> {}]
Put(f, k, S) == [f EXCEPT ![k] = @ \cup S]

Forgotten ==
  /\ running' = FALSE /\ answer' = {}
  /\ registrar' = [h \in PoolFeeder |-> Idle]
  /\ preset' = NoAddress /\ tracked' = NoAddress
  /\ waiting' = NoAddress /\ taken' = NoAddress /\ subscribed' = NoAddress

WatchInit ==
  /\ running = FALSE /\ answer = {}
  /\ registrar = [h \in PoolFeeder |-> Idle]
  /\ preset = NoAddress /\ tracked = NoAddress
  /\ waiting = NoAddress /\ taken = NoAddress /\ subscribed = NoAddress

-----------------------------------------------------------------------------
\* Start puts the vaults and the tick arrays of the stored pools with liquidity in
\* the maps, and queues nothing.  When no pool is stored, the historical fetch has an
\* account of each pool at most.
StartWatching ==
  /\ ~running /\ running' = TRUE
  /\ \E S \in SUBSET Pool : \E w \in [S -> Windows] :
       /\ preset' = [k \in Kind |->
            IF k = "vaults" THEN S \X Vault
            ELSE {pa \in S \X Array : \E i \in DOMAIN w[pa[1]] : w[pa[1]][i] = pa[2]}]
       /\ tracked' = preset'
       /\ answer' \in IF S = {} THEN SUBSET Pool ELSE {{}}
  /\ UNCHANGED <<registrar, waiting, taken, subscribed>>

\* The process exits, by Stop or otherwise.
Exit == running /\ Forgotten

-----------------------------------------------------------------------------
(* processVortexPool, from registerTickArrays on.                          *)

RegisterPool(h, p) ==
  /\ running /\ registrar[h] = Idle
  /\ h = "historical" => p \in answer
  /\ answer' = IF h = "historical" THEN answer \ {p} ELSE answer
  /\ \E w \in Windows : Step(h, Registering("register", "arrays", p, w, <<>>))
  /\ UNCHANGED <<running, mapVars, waiting, taken, subscribed>>

\* Exists: registerTickArrays is done with an address before it looks at the next,
\* registerVaults looks at both vaults first.
TestAddress(h) ==
  /\ registrar[h].at = "register" /\ registrar[h].look # <<>>
  /\ registrar[h].kind = "arrays" => registrar[h].new = <<>>
  /\ LET a == Head(registrar[h].look)
         there == <<registrar[h].pool, a>> \in tracked[registrar[h].kind]
     IN  Step(h, [registrar[h] EXCEPT !.look = Tail(@),
                                      !.new = IF there THEN @ ELSE Append(@, a)])
  /\ UNCHANGED <<running, answer, mapVars, waiting, taken, subscribed>>

\* Set, whatever the map has got meanwhile.
TrackAddress(h) ==
  /\ registrar[h].at = "register" /\ registrar[h].new # <<>>
  /\ registrar[h].kind = "vaults" => registrar[h].look = <<>>
  /\ tracked' = Put(tracked, registrar[h].kind,
                    {<<registrar[h].pool, Head(registrar[h].new)>>})
  /\ Step(h, [registrar[h] EXCEPT !.at = "tracked"])
  /\ UNCHANGED <<running, answer, preset, waiting, taken, subscribed>>

\* queueTickArrayForSubscription, queueVaultForSubscription.
QueueAddress(h) ==
  /\ registrar[h].at = "tracked"
  /\ waiting' = Put(waiting, registrar[h].kind,
                    {<<registrar[h].pool, Head(registrar[h].new)>>})
  /\ Step(h, [registrar[h] EXCEPT !.at = "register", !.new = Tail(@)])
  /\ UNCHANGED <<running, answer, mapVars, taken, subscribed>>

\* The tick arrays are done, then the vaults.
Registered(h) ==
  /\ registrar[h].at = "register"
  /\ registrar[h].look = <<>> /\ registrar[h].new = <<>>
  /\ Step(h, IF registrar[h].kind = "arrays"
             THEN Registering("register", "vaults", registrar[h].pool, <<"A", "B">>,
                              <<>>)
             ELSE Idle)
  /\ UNCHANGED <<running, answer, mapVars, waiting, taken, subscribed>>

Register(h) == TestAddress(h) \/ TrackAddress(h) \/ QueueAddress(h) \/ Registered(h)

-----------------------------------------------------------------------------
(* subscribePendingVaults and subscribePendingTickArrays.                  *)

TakeWaiting(k) ==
  /\ running /\ taken[k] = {} /\ waiting[k] # {}
  /\ taken' = [taken EXCEPT ![k] = waiting[k]]
  /\ waiting' = [waiting EXCEPT ![k] = {}]
  /\ UNCHANGED <<running, answer, registrar, mapVars, subscribed>>

\* SubscribeToVaults asks for every vault in the map, the ones asked for before
\* included; subscribeToTickArrayAddresses for the ones taken.
Subscribe(k) ==
  /\ taken[k] # {}
  /\ subscribed' = Put(subscribed, k, IF k = "vaults" THEN tracked[k] ELSE taken[k])
  /\ taken' = [taken EXCEPT ![k] = {}]
  /\ UNCHANGED <<running, answer, registrar, mapVars, waiting>>

\* Mutant: a subscription that fails is not tried again.
GiveUpSubscribing(k) ==
  /\ taken[k] # {}
  /\ taken' = [taken EXCEPT ![k] = {}]
  /\ UNCHANGED <<running, answer, registrar, mapVars, waiting, subscribed>>

FailSubscribe(k) ==
  /\ taken[k] # {}
  /\ waiting' = Put(waiting, k, taken[k])
  /\ taken' = [taken EXCEPT ![k] = {}]
  /\ UNCHANGED <<running, answer, registrar, mapVars, subscribed>>

-----------------------------------------------------------------------------
WatchNext ==
  \/ StartWatching \/ Exit
  \/ \E h \in PoolFeeder : Register(h) \/ \E p \in Pool : RegisterPool(h, p)
  \/ \E k \in Kind : TakeWaiting(k) \/ Subscribe(k) \/ FailSubscribe(k)

\* Goroutines and loops go on while the process runs.  A subscription may fail any
\* number of times and not for ever.
WatchFairness ==
  /\ \A h \in PoolFeeder : WF_watchVars(Register(h))
  /\ \A k \in Kind : WF_watchVars(TakeWaiting(k)) /\ SF_watchVars(Subscribe(k))

WatchSpec == WatchInit /\ [][WatchNext]_watchVars /\ WatchFairness

-----------------------------------------------------------------------------
(* Properties.                                                             *)

\* Every vault and every tick array that a report registered is subscribed to in
\* the end, unless the process exits: though a subscription fails, though only
\* one goroutine queues what both found missing, and though the queue is emptied
\* between one address of a pool and the next.
RegisteredIsSubscribed ==
  \A k \in Kind : \A x \in Address(k) :
    x \in tracked[k] \ preset[k] ~> (x \in subscribed[k] \/ ~running)

-----------------------------------------------------------------------------
(* What a comment says and the code does not do.                           *)


=============================================================================
