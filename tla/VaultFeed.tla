------------------------------ MODULE VaultFeed ------------------------------
(***************************************************************************)
(* The reserves of a pool: the balances of its two vaults as the market    *)
(* service knows them (services/market/vortex_service.go, service.go).     *)
(* Accounts change on the chain; each subscription delivers the changes of *)
(* its accounts in order, at its own pace.  The updates of pool, tick      *)
(* arrays and vaults share one slot number, and an initial fetch writes    *)
(* balances without one.                                                   *)
(*                                                                         *)
(* The pool is the object that the graph has in its map.  Two goroutines   *)
(* that both find none make two objects, and the second replaces the first:*)
(* what is still written to the first is not seen any more, and left out.  *)
(*                                                                         *)
(* A balance is named by the number of the change that made it; 0 is what  *)
(* the pool begins with (zero, or what the store had).                     *)
(***************************************************************************)
EXTENDS Naturals, Sequences, FiniteSetsExt

CONSTANTS
  MaxChanges, MaxSlot, MaxSubs,   \* bounds
  Touches                         \* the sets of accounts a change may touch

Vault == {"A", "B"}
Other == {"pool", "ticks"}        \* the accounts that are not vaults

ASSUME VaultAssumption ==
  /\ MaxChanges \in Nat /\ MaxSlot \in Nat /\ MaxSubs \in Nat
  /\ Touches \subseteq SUBSET (Vault \cup Other)

VARIABLES
  at,         \* the slot of each change so far
  written,    \* the changes that touched each vault
  pool,       \* the pool object, and whether the snapshot has it
  adding,     \* the handlers of pool accounts that have found no object
  registered, \* its vaults in vaultToPool
  subs,       \* the subscriptions of vaults: what each covers, and its queue
  others,     \* the queues of the updates of pool and tick arrays
  fetch,      \* the initial fetch of the balances
  smooth,     \* nothing came in the way of the last change, see ReserveIsBalance
  bypassed    \* a write did not respect the slots, see ReservesGoForward

vars == <<at, written, pool, adding, registered, subs, others, fetch, smooth, bypassed>>

-----------------------------------------------------------------------------
NoPool == [known |-> FALSE, published |-> FALSE, last |-> 0,
           reserve |-> [v \in Vault |-> 0]]

Slot == IF at = <<>> THEN 0 ELSE at[Len(at)]
SlotOf(n) == IF n = 0 THEN 0 ELSE at[n]
Balance(v) == Max(written[v])

Fetch(stage, got) == [stage |-> stage, got |-> got]

\* The goroutines that handle pool accounts: of the stream, and of the historical
\* fetch.
PoolHandler == {"pool", "history"}

\* An empty store: pools come from the stream, and once from the historical fetch,
\* which says slot 0, may fail, and never gets to its fetch of balances (see PoolFeed).
StartEmpty ==
  /\ pool = NoPool /\ registered = {}
  /\ \E found \in {<<>>, <<0>>} :
       others = [o \in Other \cup {"history"} |-> IF o = "history" THEN found ELSE <<>>]
  /\ fetch = Fetch("over", <<>>)

\* A stored pool is known, its vaults are in the map, though not queued for a
\* subscription, and their balances are fetched in the background.
StartLoaded ==
  /\ pool = [NoPool EXCEPT !.known = TRUE] /\ registered = Vault
  /\ others = [o \in Other \cup {"history"} |-> <<>>]
  /\ fetch = Fetch("asked", <<>>)

VaultInit ==
  /\ at = <<>> /\ written = [v \in Vault |-> {0}]
  /\ StartEmpty \/ StartLoaded
  /\ adding = {} /\ subs = <<>> /\ smooth = TRUE /\ bypassed = FALSE

-----------------------------------------------------------------------------
\* What a subscription is told of a change: of vault A before vault B (external).
Told(v, touched, slot, n) ==
  IF v \in touched THEN <<[vault |-> v, slot |-> slot, change |-> n]>> ELSE <<>>

News(touched, slot, n) == Told("A", touched, slot, n) \o Told("B", touched, slot, n)

\* Accounts change on the chain (external), in this slot or the next, and those who
\* subscribed will hear of it.  A swap touches the pool and both vaults.
Change ==
  /\ Len(at) < MaxChanges
  /\ \E slot \in {s \in {Slot, Slot + 1} : s > 0 /\ s <= MaxSlot}, t \in Touches :
       LET n == Len(at) + 1
       IN  /\ at' = Append(at, slot)
           /\ written' = [v \in Vault |-> IF v \in t THEN written[v] \cup {n} ELSE written[v]]
           /\ others' = [o \in DOMAIN others |->
                           IF o \in t THEN Append(others[o], slot) ELSE others[o]]
           /\ subs' = [i \in DOMAIN subs |-> [subs[i] EXCEPT !.queue =
                         @ \o News(t \cap subs[i].covers, slot, n)]]
           /\ smooth' = /\ Vault \subseteq t
                        /\ \E i \in DOMAIN subs : subs[i].covers = Vault
  /\ UNCHANGED <<pool, adding, registered, fetch, bypassed>>

\* The snapshot is refreshed (Graph).
Publish ==
  /\ pool.known /\ ~pool.published
  /\ pool' = [pool EXCEPT !.published = TRUE]
  /\ UNCHANGED <<at, written, adding, registered, subs, others, fetch, smooth, bypassed>>

\* processVortexPool and processTickArray set the slot of the object they find,
\* whatever it was.
HandleOther(o) ==
  /\ others[o] # <<>> /\ o \notin adding /\ pool.known
  /\ LET slot == Head(others[o])
     IN  /\ pool' = [pool EXCEPT !.last = slot]
         /\ bypassed' = (bypassed \/ slot < pool.last)
  /\ others' = [others EXCEPT ![o] = Tail(@)]
  /\ UNCHANGED <<at, written, adding, registered, subs, fetch, smooth>>

\* The tick arrays of a pool that is not known are not looked at.
SkipTickArray ==
  /\ others["ticks"] # <<>> /\ ~pool.known
  /\ others' = [others EXCEPT !["ticks"] = Tail(@)]
  /\ UNCHANGED <<at, written, pool, adding, registered, subs, fetch, smooth, bypassed>>

\* processVortexPool finds no object ...
FindNone(o) ==
  /\ others[o] # <<>> /\ o \notin adding /\ ~pool.known
  /\ adding' = adding \cup {o}
  /\ UNCHANGED <<at, written, pool, registered, subs, others, fetch, smooth, bypassed>>

\* ... and adds one, with empty reserves, though there may be one by then, which
\* readers have until the next refresh.
AddPool(o) ==
  /\ o \in adding /\ adding' = adding \ {o}
  /\ pool' = [NoPool EXCEPT !.known = TRUE, !.last = Head(others[o])]
  /\ others' = [others EXCEPT ![o] = Tail(@)]
  /\ smooth' = FALSE
  /\ UNCHANGED <<at, written, registered, subs, fetch, bypassed>>

\* registerVaults, of a pool that was updated.
RegisterVault(v) ==
  /\ pool.known /\ v \notin registered /\ (v = "B" => "A" \in registered)
  /\ registered' = registered \cup {v}
  /\ UNCHANGED <<at, written, pool, adding, subs, others, fetch, smooth, bypassed>>

\* SubscribeToVaults: whenever vaults of some pool have been queued, all vaults in
\* the map are subscribed to, once more.
SubscribeToVaults ==
  /\ registered # {} /\ Len(subs) < MaxSubs
  /\ subs' = Append(subs, [covers |-> registered, queue |-> <<>>])
  /\ UNCHANGED <<at, written, pool, adding, registered, others, fetch, smooth, bypassed>>

Heard(i) == subs' = [subs EXCEPT ![i].queue = Tail(@)]

\* An update of a pool that the snapshot does not have is dropped, or goes to the
\* object that was replaced.
DropUnpublished(i) ==
  /\ subs[i].queue # <<>> /\ ~pool.published
  /\ Heard(i)
  /\ smooth' = FALSE
  /\ UNCHANGED <<at, written, pool, adding, registered, others, fetch, bypassed>>

\* Mutant: the second vault of a swap counts as old.
DropOldOrSame(i) ==
  /\ subs[i].queue # <<>> /\ pool.published
  /\ Head(subs[i].queue).slot <= pool.last
  /\ Heard(i)
  /\ UNCHANGED <<at, written, pool, adding, registered, others, fetch, smooth, bypassed>>

DropOld(i) ==
  /\ subs[i].queue # <<>> /\ pool.published
  /\ Head(subs[i].queue).slot < pool.last
  /\ Heard(i)
  /\ UNCHANGED <<at, written, pool, adding, registered, others, fetch, smooth, bypassed>>

\* Mutants: each vault is taken for the other; the slot is not compared.
StoreOther(i) ==
  /\ subs[i].queue # <<>> /\ pool.published
  /\ LET m == Head(subs[i].queue) IN
       /\ m.slot >= pool.last
       /\ pool' = [pool EXCEPT !.reserve = [v \in Vault |->
                     IF v # m.vault THEN m.change ELSE @[v]], !.last = m.slot]
  /\ Heard(i)
  /\ smooth' = (smooth /\ fetch.stage = "over")
  /\ UNCHANGED <<at, written, adding, registered, others, fetch, bypassed>>

StoreAny(i) ==
  /\ subs[i].queue # <<>> /\ pool.published
  /\ LET m == Head(subs[i].queue) IN
       pool' = [pool EXCEPT !.reserve[m.vault] = m.change, !.last = m.slot]
  /\ Heard(i)
  /\ smooth' = (smooth /\ fetch.stage = "over")
  /\ UNCHANGED <<at, written, adding, registered, others, fetch, bypassed>>

StoreBalance(i) ==
  /\ subs[i].queue # <<>> /\ pool.published
  /\ LET m == Head(subs[i].queue) IN
       /\ m.slot >= pool.last
       /\ pool' = [pool EXCEPT !.reserve[m.vault] = m.change, !.last = m.slot]
  /\ Heard(i)
  /\ smooth' = (smooth /\ fetch.stage = "over")
  /\ UNCHANGED <<at, written, adding, registered, others, fetch, bypassed>>

HandleVaultUpdate(i) == DropUnpublished(i) \/ DropOld(i) \/ StoreBalance(i)

\* fetchInitialVaultsBatched.  The node answers for a finalized slot, which may be
\* an old one; accounts may be missing, and three failures end it.
AnswerFetch ==
  /\ fetch.stage = "asked"
  /\ \E found \in SUBSET Vault : \E got \in [found -> 0..Len(at)] :
       /\ \A v \in found : got[v] \in written[v]
       /\ fetch' = Fetch(IF found = {} THEN "over" ELSE "write", got)
  /\ UNCHANGED <<at, written, pool, adding, registered, subs, others, smooth, bypassed>>

WriteFetched(v) ==
  /\ fetch.stage = "write" /\ v \in DOMAIN fetch.got
  /\ pool' = [pool EXCEPT !.reserve[v] = fetch.got[v]]
  /\ fetch' = LET left == DOMAIN fetch.got \ {v}
              IN  Fetch(IF left = {} THEN "over" ELSE "write", [w \in left |-> fetch.got[w]])
  /\ bypassed' = TRUE
  /\ UNCHANGED <<at, written, adding, registered, subs, others, smooth>>

Next ==
  \/ Change \/ Publish \/ SubscribeToVaults \/ AnswerFetch \/ SkipTickArray
  \/ \E o \in DOMAIN others : HandleOther(o)
  \/ \E o \in PoolHandler : FindNone(o) \/ AddPool(o)
  \/ \E v \in Vault : RegisterVault(v) \/ WriteFetched(v)
  \/ \E i \in DOMAIN subs : HandleVaultUpdate(i)

Spec == VaultInit /\ [][Next]_vars

-----------------------------------------------------------------------------
VaultTypeOK ==
  /\ Len(at) <= MaxChanges /\ \A n \in DOMAIN at : at[n] \in 1..MaxSlot
  /\ \A v \in Vault : written[v] \subseteq 0..Len(at) /\ pool.reserve[v] \in written[v]
  /\ pool.last \in 0..Slot /\ (pool.published => pool.known)
  /\ registered \subseteq Vault /\ Len(subs) <= MaxSubs
  /\ \A i \in DOMAIN subs : \A k \in DOMAIN subs[i].queue :
       subs[i].queue[k].vault \in subs[i].covers /\ subs[i].queue[k].change \in DOMAIN at
  /\ adding \subseteq {o \in PoolHandler : others[o] # <<>>}
  /\ fetch.stage \in {"asked", "write", "over"}

\* What is said of the last change has arrived everywhere.
Drained == fetch.stage = "over" /\ \A i \in DOMAIN subs : subs[i].queue = <<>>

\* When all has been delivered, the reserves are the balances, provided that the last
\* change touched both vaults and was subscribed to, that since then no vault was
\* reported before the pool was in the snapshot, or before the fetch of balances was
\* over, and that no object of the pool was added to the graph.  The three handlers
\* share a slot, the vaults of a swap have the same one, and several subscriptions
\* report each change at different times.
ReserveIsBalance ==
  Drained /\ smooth /\ at # <<>> => \A v \in Vault : pool.reserve[v] = Balance(v)

\* A reserve never goes back to the balance of an earlier slot, as long as only the
\* vault subscriptions write it and the updates of pool and tick arrays come in the
\* order of their slots: the fetch writes what it has, and an update that lowers
\* the slot lets old balances in.  A second object of the pool begins with nothing,
\* and its reserves go forward again from there.
ReservesGoForward ==
  [][\/ \A v \in Vault : SlotOf(pool.reserve[v])' >= SlotOf(pool.reserve[v])
     \/ bypassed' \/ \E o \in PoolHandler : AddPool(o)]_vars
=============================================================================
