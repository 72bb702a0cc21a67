-------------------------- MODULE VaultFeedProofs --------------------------
(***************************************************************************)
(* Proofs about VaultFeed, for any number of changes, slots and            *)
(* subscriptions.                                                          *)
(***************************************************************************)
EXTENDS VaultFeed, TLAPS

Message == [vault : Vault, slot : Nat, change : Nat]
Subscription == [covers : SUBSET Vault, queue : Seq(Message)]

FetchRecord ==
  [stage : {"asked", "write", "over"}, got : UNION {[S -> Nat] : S \in SUBSET Vault}]

\* The types of the variables, and what every message and answer says is true.
Types ==
  /\ at \in Seq(Nat)
  /\ written \in [Vault -> SUBSET Nat]
  /\ pool \in [known : BOOLEAN, published : BOOLEAN, last : Nat, reserve : [Vault -> Nat]]
  /\ adding \in SUBSET PoolHandler
  /\ registered \in SUBSET Vault
  /\ subs \in Seq(Subscription)
  /\ others \in [Other \cup {"history"} -> Seq(Nat)]
  /\ fetch \in FetchRecord
  /\ smooth \in BOOLEAN /\ bypassed \in BOOLEAN

\* The slots of the changes go up, and nothing is known of a later one.
Slots ==
  /\ Len(at) <= MaxChanges
  /\ \A n \in DOMAIN at : at[n] \in 1..MaxSlot
  /\ \A m, n \in DOMAIN at : m <= n => at[m] <= at[n]
  /\ pool.last <= Slot
  /\ \A o \in DOMAIN others : \A k \in DOMAIN others[o] : others[o][k] <= Slot

\* What is stored, fetched or under way is a change of the vault.
IsTrue(m, covers) ==
  /\ m.vault \in covers /\ m.change \in DOMAIN at
  /\ m.change \in written[m.vault] /\ m.slot = at[m.change]

Sources ==
  /\ \A v \in Vault : /\ written[v] \subseteq 0..Len(at) /\ 0 \in written[v]
                      /\ pool.reserve[v] \in written[v]
  /\ \A o \in adding : others[o] # <<>>
  /\ \A v \in DOMAIN fetch.got : fetch.got[v] \in written[v]
  /\ pool.published => pool.known
  /\ Len(subs) <= MaxSubs
  /\ \A i \in DOMAIN subs : \A k \in DOMAIN subs[i].queue :
       IsTrue(subs[i].queue[k], subs[i].covers)

TypeInv == Types /\ Slots /\ Sources

\* The last change reached both vaults; whoever will hear of a vault will hear of that
\* change of it last; and it is stored, or will be after the fetch.
Under(v) == \E i \in DOMAIN subs : \E k \in DOMAIN subs[i].queue :
              subs[i].queue[k].vault = v /\ subs[i].queue[k].change = Len(at)

LastIsLatest ==
  smooth /\ at # <<>> =>
    /\ \A v \in Vault : Len(at) \in written[v]
    /\ \A i \in DOMAIN subs : \A k \in DOMAIN subs[i].queue :
         \E l \in DOMAIN subs[i].queue :
           /\ k <= l /\ subs[i].queue[l].vault = subs[i].queue[k].vault
           /\ subs[i].queue[l].change = Len(at)
    /\ \A v \in Vault :
         Under(v) \/ (fetch.stage = "over" /\ pool.reserve[v] = Len(at))

\* As long as nothing bypassed the slots, no reserve is ahead of the pool's slot.
ReserveBehindSlot == \A v \in Vault : bypassed \/ SlotOf(pool.reserve[v]) <= pool.last
-----------------------------------------------------------------------------
(* Sequences.                                                              *)

LEMMA SeqParts ==
  ASSUME NEW S, NEW s \in Seq(S)
  PROVE  /\ Len(s) \in Nat /\ DOMAIN s = 1..Len(s)
         /\ \A i \in DOMAIN s : s[i] \in S
  OBVIOUS

LEMMA SeqOf ==
  ASSUME NEW S, NEW n \in Nat, NEW s \in [1..n -> S] PROVE s \in Seq(S) /\ Len(s) = n
  OBVIOUS

\* Two sequences, one behind the other.
LEMMA SeqJoin ==
  ASSUME NEW S, NEW s \in Seq(S), NEW r \in Seq(S)
  PROVE  /\ s \o r \in Seq(S) /\ Len(s \o r) = Len(s) + Len(r)
         /\ \A k \in DOMAIN s : (s \o r)[k] = s[k]
         /\ \A k \in DOMAIN r : (s \o r)[Len(s) + k] = r[k]
         /\ \A k \in DOMAIN (s \o r) : k > Len(s) =>
              k - Len(s) \in DOMAIN r /\ (s \o r)[k] = r[k - Len(s)]
  OBVIOUS

\* A sequence without its head.
LEMMA SeqTail ==
  ASSUME NEW S, NEW s \in Seq(S), s # <<>>
  PROVE  /\ Len(s) \in Nat \ {0} /\ Head(s) = s[1] /\ Head(s) \in S
         /\ Tail(s) \in Seq(S) /\ Len(Tail(s)) = Len(s) - 1
         /\ \A k \in DOMAIN Tail(s) : k + 1 \in DOMAIN s /\ Tail(s)[k] = s[k + 1]
  OBVIOUS

\* A record of two fields with the second replaced.
LEMMA RecordWith ==
  ASSUME NEW C, NEW Q, NEW r \in [covers : C, queue : Q], NEW q
  PROVE  [r EXCEPT !.queue = q] = [covers |-> r.covers, queue |-> q]
  OBVIOUS

-----------------------------------------------------------------------------
(* Queues.                                                                 *)

\* Messages that tell of one change, of every vault in S.
Tells(r, S, slot, n) ==
  /\ r \in Seq(Message)
  /\ \A k \in DOMAIN r : r[k].vault \in S /\ r[k].slot = slot /\ r[k].change = n
  /\ \A v \in S : \E k \in DOMAIN r : r[k].vault = v

\* What one subscription is told of one change is that change, once for each vault.
LEMMA NewsOfChange ==
  ASSUME NEW S \in SUBSET Vault, NEW slot \in Nat, NEW n \in Nat,
         NEW r, r = News(S, slot, n)
  PROVE  Tells(r, S, slot, n)
  <1> DEFINE M(v) == [vault |-> v, slot |-> slot, change |-> n]
  <1>1. M("A") \in Message /\ M("B") \in Message
    BY DEF Message, Vault
  <1>2. CASE "A" \in S /\ "B" \in S
    <2>1. r = <<M("A")>> \o <<M("B")>>
      BY <1>2 DEF News, Told
    <2> DEFINE a == <<M("A")>>
               b == <<M("B")>>
    <2>2. a \in Seq(Message) /\ b \in Seq(Message) /\ Len(a) = 1 /\ Len(b) = 1
          /\ a[1] = M("A") /\ b[1] = M("B") /\ DOMAIN a = 1..1 /\ DOMAIN b = 1..1
      BY <1>1
    <2> HIDE DEF a, b, M
    <2>7. /\ a \o b \in Seq(Message) /\ Len(a \o b) = Len(a) + Len(b)
          /\ \A k \in DOMAIN a : (a \o b)[k] = a[k]
          /\ \A k \in DOMAIN b : (a \o b)[Len(a) + k] = b[k]
      BY <2>2, SeqJoin
    <2>3. /\ a \o b \in Seq(Message) /\ Len(a \o b) = 2
          /\ (a \o b)[1] = M("A") /\ (a \o b)[1 + 1] = M("B")
      BY <2>2, <2>7
    <2>4. DOMAIN (a \o b) = 1..2
      BY <2>3, SeqParts
    <2>5. DOMAIN r = {1, 2} /\ r \in Seq(Message)
          /\ r[1] = M("A") /\ r[2] = M("B")
      BY <2>1, <2>3, <2>4 DEF a, b
    <2>6. S = {"A", "B"}
      BY <1>2 DEF Vault
    <2> QED BY <2>5, <2>6 DEF M, Tells
  <1>3. CASE "A" \in S /\ "B" \notin S
    <2>1. r = <<M("A")>>
      BY <1>3 DEF News, Told
    <2> QED BY <1>1, <1>3, <2>1 DEF Vault, Tells
  <1>4. CASE "A" \notin S /\ "B" \in S
    <2>1. r = <<M("B")>>
      BY <1>4 DEF News, Told
    <2> QED BY <1>1, <1>4, <2>1 DEF Vault, Tells
  <1>5. CASE "A" \notin S /\ "B" \notin S
    <2>1. r = <<>>
      BY <1>5 DEF News, Told
    <2> QED BY <1>5, <2>1 DEF Vault, Tells
  <1> QED BY <1>2, <1>3, <1>4, <1>5

\* Hearing a message takes it off the front of its queue and changes no other.
LEMMA HeardQueue ==
  ASSUME subs \in Seq(Subscription), NEW i \in DOMAIN subs, subs[i].queue # <<>>, Heard(i)
  PROVE  /\ subs' \in Seq(Subscription) /\ Len(subs') = Len(subs)
         /\ DOMAIN subs' = DOMAIN subs
         /\ \A j \in DOMAIN subs : subs'[j].covers = subs[j].covers
         /\ \A j \in DOMAIN subs \ {i} : subs'[j] = subs[j]
         /\ Len(subs[i].queue) \in Nat \ {0} /\ DOMAIN subs[i].queue = 1..Len(subs[i].queue)
         /\ DOMAIN subs'[i].queue = 1..Len(subs[i].queue) - 1
         /\ \A k \in DOMAIN subs'[i].queue : subs'[i].queue[k] = subs[i].queue[k + 1]
         /\ Head(subs[i].queue) = subs[i].queue[1] /\ Head(subs[i].queue) \in Message
  <1> DEFINE rest == [covers |-> subs[i].covers, queue |-> Tail(subs[i].queue)]
  <1>1. subs[i] \in Subscription
    BY SeqParts
  <1>2. subs[i].queue \in Seq(Message)
    BY <1>1 DEF Subscription
  <1>3. subs' = [subs EXCEPT ![i] = rest]
    <2>1. [subs[i] EXCEPT !.queue = Tail(@)] = rest
      <3> DEFINE sub == subs[i]
      <3>1. sub \in Subscription
        BY <1>1
      <3> HIDE DEF sub
      <3>2. [sub EXCEPT !.queue = Tail(sub.queue)] = [covers |-> sub.covers, queue |-> Tail(sub.queue)]
        BY <3>1, RecordWith DEF Subscription
      <3> QED BY <3>2 DEF sub
    <2>2. subs' = [subs EXCEPT ![i] = [subs[i] EXCEPT !.queue = Tail(@)]]
      BY DEF Heard
    <2> QED BY <2>1, <2>2
  <1>4. rest \in Subscription
    BY <1>1, <1>2, SeqTail DEF Subscription
  <1>5. subs' \in Seq(Subscription) /\ Len(subs') = Len(subs) /\ DOMAIN subs' = DOMAIN subs
    <2> HIDE DEF rest
    <2> QED BY <1>3, <1>4
  <1>6. subs'[i] = rest /\ \A j \in DOMAIN subs \ {i} : subs'[j] = subs[j]
    BY <1>3
  <1>7. subs'[i].queue = Tail(subs[i].queue) /\ subs'[i].covers = subs[i].covers
    BY <1>6
  <1>8. Tail(subs[i].queue) \in Seq(Message) /\ Len(Tail(subs[i].queue)) = Len(subs[i].queue) - 1
    BY <1>2, SeqTail
  <1>9. DOMAIN Tail(subs[i].queue) = 1..Len(subs[i].queue) - 1
    BY <1>8, SeqParts
  <1>10. DOMAIN subs[i].queue = 1..Len(subs[i].queue)
    BY <1>2, SeqParts
  <1>11. /\ Len(subs[i].queue) \in Nat \ {0} /\ Head(subs[i].queue) = subs[i].queue[1]
         /\ Head(subs[i].queue) \in Message
         /\ \A k \in DOMAIN Tail(subs[i].queue) : Tail(subs[i].queue)[k] = subs[i].queue[k + 1]
    <2> HIDE DEF Message
    <2> QED BY <1>2, SeqTail
  <1>12. \A j \in DOMAIN subs : subs'[j].covers = subs[j].covers
    BY <1>6, <1>7
  <1>13. \A k \in DOMAIN subs'[i].queue : subs'[i].queue[k] = subs[i].queue[k + 1]
    BY <1>7, <1>11
  <1>14. DOMAIN subs'[i].queue = 1..Len(subs[i].queue) - 1
    BY <1>7, <1>9
  <1> QED BY <1>5, <1>6, <1>10, <1>11, <1>12, <1>13, <1>14

\* A queue r that is q with the news of a change behind it.
Follows(r, q, S, slot, n) ==
  /\ r \in Seq(Message) /\ Len(r) \in Nat
  /\ Len(q) \in Nat /\ Len(r) >= Len(q)
  /\ DOMAIN q = 1..Len(q) /\ DOMAIN r = 1..Len(r)
  /\ \A k \in DOMAIN q : r[k] = q[k]
  /\ \A k \in DOMAIN r : k > Len(q) =>
       r[k].vault \in S /\ r[k].slot = slot /\ r[k].change = n
  /\ \A v \in S : \E k \in DOMAIN r : k > Len(q) /\ r[k].vault = v /\ r[k].change = n

LEMMA QueueWithNews ==
  ASSUME NEW q \in Seq(Message), NEW S \in SUBSET Vault, NEW slot \in Nat, NEW n \in Nat,
         NEW r, r = q \o News(S, slot, n)
  PROVE  Follows(r, q, S, slot, n)
  <1> DEFINE news == News(S, slot, n)
  <1>1. /\ news \in Seq(Message)
        /\ \A k \in DOMAIN news : news[k].vault \in S /\ news[k].slot = slot /\ news[k].change = n
        /\ \A v \in S : \E k \in DOMAIN news : news[k].vault = v
    <2> HIDE DEF news
    <2>1. news = News(S, slot, n)
      BY DEF news
    <2>2. Tells(news, S, slot, n)
      BY <2>1, NewsOfChange
    <2> QED BY <2>2 DEF Tells
  <1>0. r = q \o news
    OBVIOUS
  <1> HIDE DEF news
  <1>2. /\ r \in Seq(Message) /\ Len(r) = Len(q) + Len(news)
        /\ \A k \in DOMAIN q : r[k] = q[k]
        /\ \A k \in DOMAIN news : r[Len(q) + k] = news[k]
        /\ \A k \in DOMAIN r : k > Len(q) => k - Len(q) \in DOMAIN news /\ r[k] = news[k - Len(q)]
    BY <1>0, <1>1, SeqJoin
  <1>3. Len(q) \in Nat /\ DOMAIN q = 1..Len(q) /\ Len(news) \in Nat /\ DOMAIN news = 1..Len(news)
    BY <1>1, SeqParts
  <1>4. Len(r) \in Nat /\ Len(r) >= Len(q) /\ DOMAIN r = 1..Len(r)
    BY <1>2, <1>3, SeqParts
  <1>5. ASSUME NEW v \in S PROVE \E k \in DOMAIN r : k > Len(q) /\ r[k].vault = v /\ r[k].change = n
    <2>1. PICK l \in DOMAIN news : news[l].vault = v
      BY <1>1
    <2>2. Len(q) + l \in DOMAIN r /\ Len(q) + l > Len(q)
      BY <1>2, <1>3, <1>4
    <2>3. r[Len(q) + l] = news[l] /\ news[l].change = n
      BY <2>1, <1>1, <1>2
    <2> QED BY <2>1, <2>2, <2>3
  <1>6. ASSUME NEW k \in DOMAIN r, k > Len(q)
        PROVE  r[k].vault \in S /\ r[k].slot = slot /\ r[k].change = n
    BY <1>1, <1>2, <1>6
  <1>7. r \in Seq(Message) /\ \A k \in DOMAIN q : r[k] = q[k]
    BY <1>2
  <1> QED BY <1>3, <1>4, <1>5, <1>6, <1>7 DEF Follows

\* A change adds its news to the end of every queue.
AllHear(t, slot, n) ==
  subs' = [i \in DOMAIN subs |-> [subs[i] EXCEPT !.queue =
             @ \o News(t \cap subs[i].covers, slot, n)]]

LEMMA ChangedQueues ==
  ASSUME subs \in Seq(Subscription), NEW slot \in Nat, NEW n \in Nat, NEW t, AllHear(t, slot, n)
  PROVE  /\ subs' \in Seq(Subscription) /\ Len(subs') = Len(subs)
         /\ DOMAIN subs' = DOMAIN subs
         /\ \A i \in DOMAIN subs :
              /\ subs[i].covers \in SUBSET Vault /\ subs'[i].covers = subs[i].covers
              /\ Follows(subs'[i].queue, subs[i].queue, t \cap subs[i].covers, slot, n)
  <1> DEFINE all(i) == subs[i].queue \o News(t \cap subs[i].covers, slot, n)
  <1>1. ASSUME NEW i \in DOMAIN subs
        PROVE  /\ subs[i] \in Subscription /\ subs[i].queue \in Seq(Message)
               /\ subs[i].covers \in SUBSET Vault
    <2>1. subs[i] \in Subscription
      BY <1>1, SeqParts
    <2> QED BY <2>1 DEF Subscription
  <1>2. ASSUME NEW i \in DOMAIN subs
        PROVE  all(i) \in Seq(Message) /\ Follows(all(i), subs[i].queue, t \cap subs[i].covers, slot, n)
    <2> DEFINE S == t \cap subs[i].covers
               q == subs[i].queue
               r == all(i)
    <2>1. S \in SUBSET Vault /\ q \in Seq(Message) /\ r = q \o News(S, slot, n)
      BY <1>1, <1>2
    <2> HIDE DEF S, q, r
    <2>2. Follows(r, q, S, slot, n)
      BY <2>1, QueueWithNews, Zenon
    <2>3. r \in Seq(Message)
      BY <2>2 DEF Follows
    <2> QED BY <2>2, <2>3 DEF r, q, S
  <1> HIDE DEF all
  <1>3. subs' = [i \in DOMAIN subs |-> [subs[i] EXCEPT !.queue = all(i)]]
    BY DEF all, AllHear
  <1>4. ASSUME NEW i \in DOMAIN subs
        PROVE  subs'[i] = [covers |-> subs[i].covers, queue |-> all(i)]
    <2>1. subs'[i] = [subs[i] EXCEPT !.queue = all(i)]
      BY <1>3, <1>4
    <2> QED BY <1>1, <1>4, <2>1 DEF Subscription
  <1>5. ASSUME NEW i \in DOMAIN subs PROVE subs'[i] \in Subscription
    <2> DEFINE c == subs[i].covers
               q == all(i)
    <2>1. c \in SUBSET Vault /\ q \in Seq(Message) /\ subs'[i] = [covers |-> c, queue |-> q]
      BY <1>1, <1>2, <1>4, <1>5
    <2> HIDE DEF c, q
    <2> QED BY <2>1 DEF Subscription
  <1>6. Len(subs) \in Nat /\ DOMAIN subs = 1..Len(subs) /\ DOMAIN subs' = DOMAIN subs
    BY <1>3, SeqParts
  <1>7. subs' \in Seq(Subscription) /\ Len(subs') = Len(subs)
    <2>1. subs' \in [1..Len(subs) -> Subscription]
      BY <1>3, <1>5, <1>6
    <2> QED BY <2>1, <1>6, SeqOf
  <1>8. ASSUME NEW i \in DOMAIN subs
        PROVE  /\ subs[i].covers \in SUBSET Vault /\ subs'[i].covers = subs[i].covers
               /\ Follows(subs'[i].queue, subs[i].queue, t \cap subs[i].covers, slot, n)
    <2> DEFINE c == subs[i].covers
               q == all(i)
    <2>2. subs'[i] = [covers |-> c, queue |-> q]
      BY <1>4, <1>8
    <2> HIDE DEF c, q
    <2>3. subs'[i].covers = c /\ subs'[i].queue = q
      BY <2>2
    <2>1. subs'[i].covers = subs[i].covers /\ subs'[i].queue = all(i)
      BY <2>3 DEF c, q
    <2> QED BY <2>1, <1>1, <1>2, <1>8
  <1> QED BY <1>6, <1>7, <1>8

-----------------------------------------------------------------------------
(* Types.                                                                  *)

LEMMA InitTypes == VaultInit => TypeInv
  <1> SUFFICES ASSUME VaultInit PROVE TypeInv
    OBVIOUS
  <1>1. Slot = 0 /\ at = <<>> /\ subs = <<>>
    BY DEF VaultInit, Slot
  <1>2. fetch \in FetchRecord /\ DOMAIN fetch.got = {}
    <2>1. <<>> \in [{} -> Nat] /\ DOMAIN <<>> = {}
      OBVIOUS
    <2>2. <<>> \in UNION {[S -> Nat] : S \in SUBSET Vault}
      BY <2>1
    <2>3. PICK stage \in {"asked", "over"} : fetch = [stage |-> stage, got |-> <<>>]
      BY DEF VaultInit, StartEmpty, StartLoaded, Fetch
    <2> QED BY <2>1, <2>2, <2>3 DEF FetchRecord
  <1>3. others \in [Other \cup {"history"} -> Seq(Nat)]
        /\ \A o \in DOMAIN others : \A k \in DOMAIN others[o] : others[o][k] = 0
    <2>1. <<0>> \in Seq(Nat) /\ <<>> \in Seq(Nat) /\ \A k \in DOMAIN <<0>> : <<0>>[k] = 0
      OBVIOUS
    <2>2. DOMAIN others = Other \cup {"history"} /\ others = [o \in DOMAIN others |-> others[o]]
      BY DEF VaultInit, StartEmpty, StartLoaded
    <2>3. \A o \in Other \cup {"history"} : others[o] = <<0>> \/ others[o] = <<>>
      BY DEF VaultInit, StartEmpty, StartLoaded
    <2>4. \A o \in Other \cup {"history"} :
            others[o] \in Seq(Nat) /\ \A k \in DOMAIN others[o] : others[o][k] = 0
      <3> TAKE o \in Other \cup {"history"}
      <3>1. CASE others[o] = <<0>>
        BY <2>1, <3>1
      <3>2. CASE others[o] = <<>>
        BY <2>1, <3>2
      <3> QED BY <2>3, <3>1, <3>2
    <2> QED BY <2>2, <2>4
  <1>4. pool.reserve = [v \in Vault |-> 0] /\ pool.last = 0 /\ pool.published = FALSE
        /\ pool \in [known : BOOLEAN, published : BOOLEAN, last : Nat, reserve : [Vault -> Nat]]
    <2>1. PICK known \in BOOLEAN :
            pool = [known |-> known, published |-> FALSE, last |-> 0, reserve |-> [v \in Vault |-> 0]]
      BY DEF VaultInit, StartEmpty, StartLoaded, NoPool
    <2> QED BY <2>1
  <1>8. /\ written = [v \in Vault |-> {0}] /\ registered \in SUBSET Vault
        /\ smooth = TRUE /\ bypassed = FALSE /\ adding = {}
    BY DEF VaultInit, StartEmpty, StartLoaded
  <1>5. Types
    <2>1. at \in Seq(Nat) /\ subs \in Seq(Subscription)
      BY <1>1
    <2> QED BY <2>1, <1>2, <1>3, <1>4, <1>8 DEF Types
  <1>6. Slots
    BY <1>1, <1>3, <1>4, VaultAssumption DEF Slots
  <1>7. Sources
    BY <1>1, <1>2, <1>4, <1>8, VaultAssumption DEF Sources
  <1> QED BY <1>5, <1>6, <1>7 DEF TypeInv

\* The slot of the last change, and how another change moves it.
LEMMA SlotNow ==
  ASSUME TypeInv
  PROVE  /\ Len(at) \in Nat /\ DOMAIN at = 1..Len(at) /\ Slot \in Nat
         /\ \A n \in DOMAIN at : at[n] \in Nat /\ at[n] <= Slot
         /\ at # <<>> => Len(at) \in DOMAIN at /\ Slot = at[Len(at)]
  BY DEF TypeInv, Types, Slots, Slot

LEMMA SlotNext ==
  ASSUME TypeInv, NEW slot \in {Slot, Slot + 1}, at' = Append(at, slot)
  PROVE  /\ Len(at') = Len(at) + 1 /\ at' # <<>> /\ at' \in Seq(Nat)
         /\ DOMAIN at' = 1..Len(at) + 1
         /\ \A n \in DOMAIN at : at'[n] = at[n]
         /\ at'[Len(at) + 1] = slot /\ Slot' = slot /\ Slot <= slot /\ slot \in Nat
  <1>1. at \in Seq(Nat) /\ slot \in Nat /\ Slot \in Nat
    BY SlotNow DEF TypeInv, Types
  <1>2. Len(at') = Len(at) + 1 /\ at' # <<>> /\ at' \in Seq(Nat) /\ DOMAIN at' = 1..Len(at) + 1
        /\ at'[Len(at) + 1] = slot /\ \A n \in DOMAIN at : at'[n] = at[n]
    BY <1>1
  <1>3. Slot' = slot
    BY <1>2 DEF Slot
  <1>4. Slot <= slot
    BY <1>1
  <1> QED BY <1>1, <1>2, <1>3, <1>4

LEMMA ChangeTypes == ASSUME TypeInv, Change PROVE TypeInv'
  <1>1. PICK slot \in {x \in {Slot, Slot + 1} : x > 0 /\ x <= MaxSlot}, t \in Touches :
          /\ at' = Append(at, slot)
          /\ written' = [v \in Vault |-> IF v \in t THEN written[v] \cup {Len(at) + 1} ELSE written[v]]
          /\ others' = [o \in DOMAIN others |->
                          IF o \in t THEN Append(others[o], slot) ELSE others[o]]
          /\ AllHear(t, slot, Len(at) + 1)
          /\ smooth' \in BOOLEAN
    BY DEF Change, AllHear
  <1>2. Len(at) < MaxChanges /\ UNCHANGED <<pool, adding, registered, fetch, bypassed>>
    BY DEF Change
  <1>3. /\ Len(at') = Len(at) + 1 /\ at' # <<>> /\ at' \in Seq(Nat)
        /\ DOMAIN at' = 1..Len(at) + 1
        /\ \A n \in DOMAIN at : at'[n] = at[n]
        /\ at'[Len(at) + 1] = slot /\ Slot' = slot /\ Slot <= slot /\ slot \in Nat
    BY <1>1, SlotNext
  <1>4. /\ Len(at) \in Nat /\ DOMAIN at = 1..Len(at) /\ Slot \in Nat
        /\ \A n \in DOMAIN at : at[n] \in Nat /\ at[n] <= Slot
    BY SlotNow
  <1>5. /\ subs \in Seq(Subscription) /\ Len(at) + 1 \in Nat
        /\ others \in [Other \cup {"history"} -> Seq(Nat)] /\ DOMAIN others = Other \cup {"history"}
        /\ written \in [Vault -> SUBSET Nat]
    BY <1>4 DEF TypeInv, Types
  <1>6. /\ subs' \in Seq(Subscription) /\ Len(subs') = Len(subs)
        /\ DOMAIN subs' = DOMAIN subs
        /\ \A i \in DOMAIN subs :
             /\ subs[i].covers \in SUBSET Vault /\ subs'[i].covers = subs[i].covers
             /\ Follows(subs'[i].queue, subs[i].queue, t \cap subs[i].covers, slot, Len(at) + 1)
    <2> DEFINE n == Len(at) + 1
    <2>1. subs \in Seq(Subscription) /\ slot \in Nat /\ n \in Nat /\ AllHear(t, slot, n)
      BY <1>1, <1>3, <1>5
    <2> HIDE DEF n
    <2>2. /\ subs' \in Seq(Subscription) /\ Len(subs') = Len(subs)
          /\ DOMAIN subs' = DOMAIN subs
          /\ \A i \in DOMAIN subs :
               /\ subs[i].covers \in SUBSET Vault /\ subs'[i].covers = subs[i].covers
               /\ Follows(subs'[i].queue, subs[i].queue, t \cap subs[i].covers, slot, n)
      BY <2>1, ChangedQueues
    <2> QED BY <2>2 DEF n
  <1>7. ASSUME NEW o \in DOMAIN others
        PROVE  /\ others'[o] \in Seq(Nat) /\ \A k \in DOMAIN others'[o] : others'[o][k] <= slot
               /\ others[o] # <<>> => others'[o] # <<>>
    <2> DEFINE q == others[o]
               r == others'[o]
    <2>1. q \in Seq(Nat) /\ \A k \in DOMAIN q : q[k] <= Slot
      BY <1>5, <1>7 DEF TypeInv, Slots
    <2>2. r = q \/ r = Append(q, slot)
      BY <1>1, <1>7
    <2> HIDE DEF q, r
    <2>3. CASE r = q
      BY <1>3, <1>4, <2>1, <2>3 DEF r, q
    <2>4. CASE r = Append(q, slot)
      <3>1. r \in Seq(Nat) /\ r # <<>> /\ DOMAIN r = DOMAIN q \cup {Len(q) + 1}
            /\ r[Len(q) + 1] = slot /\ \A k \in DOMAIN q : r[k] = q[k]
        BY <1>3, <2>1, <2>4
      <3>2. \A k \in DOMAIN r : r[k] <= slot
        BY <1>3, <1>4, <2>1, <3>1
      <3> QED BY <3>1, <3>2 DEF r
    <2> QED BY <2>2, <2>3, <2>4
  <1>8. DOMAIN others' = DOMAIN others
    BY <1>1
  <1>9. others' \in [Other \cup {"history"} -> Seq(Nat)]
    BY <1>1, <1>5, <1>7
  <1>10. ASSUME NEW v \in Vault
         PROVE  /\ written'[v] \in SUBSET Nat /\ written[v] \subseteq written'[v]
                /\ written'[v] \subseteq 0..Len(at') /\ 0 \in written'[v]
                /\ v \in t => Len(at') \in written'[v]
    <2>1. written[v] \subseteq 0..Len(at) /\ 0 \in written[v]
      BY <1>10 DEF TypeInv, Sources
    <2>2. written'[v] = IF v \in t THEN written[v] \cup {Len(at) + 1} ELSE written[v]
      BY <1>1, <1>10
    <2> QED BY <2>1, <2>2, <1>3, <1>4
  <1>11. written' \in [Vault -> SUBSET Nat]
    BY <1>1, <1>10
  <1>12. Types'
    BY <1>1, <1>2, <1>3, <1>6, <1>9, <1>11 DEF TypeInv, Types
  <1>13. Slots'
    <2>1. Len(at') <= MaxChanges
      BY <1>2, <1>3, <1>4, VaultAssumption
    <2>2. ASSUME NEW n \in DOMAIN at' PROVE at'[n] \in 1..MaxSlot
      BY <1>1, <1>3, <1>4, <2>2 DEF TypeInv, Slots
    <2>3. ASSUME NEW m \in DOMAIN at', NEW n \in DOMAIN at', m <= n PROVE at'[m] <= at'[n]
      <3>1. m \in 1..Len(at) \/ m = Len(at) + 1
        BY <1>3, <1>4
      <3>2. CASE n \in DOMAIN at
        BY <1>3, <1>4, <3>1, <3>2, <2>3 DEF TypeInv, Slots
      <3>3. CASE n = Len(at) + 1 /\ m \in DOMAIN at
        BY <1>3, <1>4, <3>3
      <3>4. CASE n = Len(at) + 1 /\ m = Len(at) + 1
        BY <1>3, <3>4
      <3> QED BY <1>3, <1>4, <3>1, <3>2, <3>3, <3>4
    <2>4. pool'.last <= Slot'
      BY <1>2, <1>3, <1>4 DEF TypeInv, Slots, Types
    <2> QED BY <2>1, <2>2, <2>3, <2>4, <1>3, <1>7, <1>8 DEF Slots
  <1>14. Sources'
    <2>1. ASSUME NEW i \in DOMAIN subs', NEW k \in DOMAIN subs'[i].queue
          PROVE  IsTrue(subs[i].queue[k], subs[i].covers)'
      <3> DEFINE q == subs[i].queue
                 S == t \cap subs[i].covers
                 r == subs'[i].queue
      <3>1. S \in SUBSET Vault /\ Follows(r, q, S, slot, Len(at) + 1)
        BY <1>6, <2>1
      <3> HIDE DEF q, S, r
      <3>2. /\ Len(q) \in Nat /\ DOMAIN q = 1..Len(q) /\ DOMAIN r = 1..Len(r) /\ Len(r) \in Nat
            /\ \A l \in DOMAIN q : r[l] = q[l]
            /\ \A l \in DOMAIN r : l > Len(q) =>
                 r[l].vault \in S /\ r[l].slot = slot /\ r[l].change = Len(at) + 1
        BY <3>1 DEF Follows
      <3>3. k \in DOMAIN r /\ subs'[i].covers = subs[i].covers
        BY <1>6, <2>1 DEF r
      <3>4. CASE k > Len(q)
        <4>1. r[k].vault \in S /\ r[k].slot = slot /\ r[k].change = Len(at')
          BY <3>2, <3>3, <3>4, <1>3
        <4>2. r[k].vault \in t /\ r[k].vault \in subs[i].covers /\ r[k].vault \in Vault
          BY <4>1, <3>1 DEF S
        <4>3. r[k].change \in written'[r[k].vault] /\ r[k].change \in DOMAIN at'
              /\ r[k].slot = at'[r[k].change]
          BY <4>1, <4>2, <1>3, <1>4, <1>10
        <4> QED BY <4>2, <4>3, <3>3 DEF IsTrue, r
      <3>5. CASE k \in DOMAIN q
        <4>1. IsTrue(q[k], subs[i].covers)
          BY <1>6, <2>1, <3>5 DEF TypeInv, Sources, q
        <4>2. q[k].vault \in Vault
          BY <4>1, <1>6, <2>1 DEF IsTrue
        <4>3. r[k] = q[k]
          BY <3>2, <3>5
        <4>4. r[k].change \in written'[r[k].vault] /\ r[k].change \in DOMAIN at'
              /\ r[k].slot = at'[r[k].change] /\ r[k].vault \in subs[i].covers
          BY <4>1, <4>2, <4>3, <1>3, <1>4, <1>10 DEF IsTrue
        <4> QED BY <4>4, <3>3 DEF IsTrue, r
      <3>6. k > Len(q) \/ k \in DOMAIN q
        BY <3>2, <3>3, SeqParts
      <3> QED BY <3>4, <3>5, <3>6
    <2>2. \A v \in DOMAIN fetch.got : v \in Vault
      BY DEF TypeInv, Types, FetchRecord
    <2>3. \A v \in Vault : /\ written'[v] \subseteq 0..Len(at') /\ 0 \in written'[v]
                           /\ pool'.reserve[v] \in written'[v]
      BY <1>2, <1>10 DEF TypeInv, Sources
    <2>4. \A v \in DOMAIN fetch'.got : fetch'.got[v] \in written'[v]
      BY <2>2, <1>2, <1>10 DEF TypeInv, Sources
    <2>5. (pool'.published => pool'.known) /\ Len(subs') <= MaxSubs
      BY <1>2, <1>6 DEF TypeInv, Sources
    <2>6. \A o \in adding' : others'[o] # <<>>
      <3>1. adding' = adding /\ \A o \in adding : o \in DOMAIN others /\ others[o] # <<>>
        BY <1>2, <1>5 DEF TypeInv, Types, Sources, PoolHandler, Other
      <3> QED BY <3>1, <1>7
    <2> QED BY <2>1, <2>3, <2>4, <2>5, <2>6 DEF Sources
  <1> QED BY <1>12, <1>13, <1>14 DEF TypeInv

\* Hearing a message leaves what is true of the others.
LEMMA HeardSources ==
  ASSUME TypeInv, NEW i \in DOMAIN subs, subs[i].queue # <<>>, Heard(i),
         UNCHANGED <<at, written>>
  PROVE  /\ subs' \in Seq(Subscription) /\ Len(subs') = Len(subs)
         /\ \A j \in DOMAIN subs' : \A k \in DOMAIN subs'[j].queue :
              IsTrue(subs[j].queue[k], subs[j].covers)'
         /\ Head(subs[i].queue) \in Message /\ IsTrue(Head(subs[i].queue), subs[i].covers)
  <1>1. /\ subs' \in Seq(Subscription) /\ Len(subs') = Len(subs)
        /\ DOMAIN subs' = DOMAIN subs
        /\ \A j \in DOMAIN subs : subs'[j].covers = subs[j].covers
        /\ \A j \in DOMAIN subs \ {i} : subs'[j] = subs[j]
        /\ Len(subs[i].queue) \in Nat \ {0} /\ DOMAIN subs[i].queue = 1..Len(subs[i].queue)
        /\ DOMAIN subs'[i].queue = 1..Len(subs[i].queue) - 1
        /\ \A k \in DOMAIN subs'[i].queue : subs'[i].queue[k] = subs[i].queue[k + 1]
        /\ Head(subs[i].queue) = subs[i].queue[1] /\ Head(subs[i].queue) \in Message
    <2>1. subs \in Seq(Subscription)
      BY DEF TypeInv, Types
    <2> QED BY <2>1, HeardQueue
  <1>2. \A j \in DOMAIN subs : \A k \in DOMAIN subs[j].queue : IsTrue(subs[j].queue[k], subs[j].covers)
    BY DEF TypeInv, Sources
  <1>3. ASSUME NEW j \in DOMAIN subs', NEW k \in DOMAIN subs'[j].queue
        PROVE  \E l \in DOMAIN subs[j].queue : subs'[j].queue[k] = subs[j].queue[l]
    <2>1. CASE j = i
      <3>1. k + 1 \in DOMAIN subs[i].queue
        BY <1>1, <1>3, <2>1
      <3> QED BY <1>1, <1>3, <2>1, <3>1
    <2>2. CASE j # i
      BY <1>1, <1>3, <2>2
    <2> QED BY <2>1, <2>2
  <1>4. ASSUME NEW j \in DOMAIN subs', NEW k \in DOMAIN subs'[j].queue
        PROVE  IsTrue(subs[j].queue[k], subs[j].covers)'
    <2>1. PICK l \in DOMAIN subs[j].queue : subs'[j].queue[k] = subs[j].queue[l]
      BY <1>3, <1>4
    <2>2. IsTrue(subs[j].queue[l], subs[j].covers) /\ subs'[j].covers = subs[j].covers
      BY <1>1, <1>2, <1>4
    <2> QED BY <2>1, <2>2 DEF IsTrue
  <1>5. IsTrue(subs[i].queue[1], subs[i].covers)
    <2>1. 1 \in DOMAIN subs[i].queue
      BY <1>1
    <2> QED BY <2>1, <1>2
  <1> QED BY <1>1, <1>4, <1>5

\* The message at the head of a queue is of a vault, a change of it, and has its slot.
LEMMA HeadIsTrue ==
  ASSUME TypeInv, NEW i \in DOMAIN subs, subs[i].queue # <<>>
  PROVE  LET m == Head(subs[i].queue) IN
           /\ m.vault \in Vault /\ m.change \in written[m.vault] /\ m.change \in DOMAIN at
           /\ m.slot = at[m.change] /\ m.slot \in Nat /\ m.slot <= Slot /\ m.change \in Nat \ {0}
  <1>1. subs[i] \in Subscription
    BY SeqParts DEF TypeInv, Types
  <1>2. subs[i].queue \in Seq(Message)
    BY <1>1 DEF Subscription
  <1>3. 1 \in DOMAIN subs[i].queue /\ Head(subs[i].queue) = subs[i].queue[1]
        /\ Head(subs[i].queue) \in Message
    <2>1. Len(subs[i].queue) \in Nat \ {0} /\ DOMAIN subs[i].queue = 1..Len(subs[i].queue)
      BY <1>2, SeqTail, SeqParts
    <2> QED BY <1>2, <2>1, SeqTail
  <1>4. IsTrue(Head(subs[i].queue), subs[i].covers)
    BY <1>3 DEF TypeInv, Sources
  <1> QED BY <1>3, <1>4, SlotNow DEF IsTrue, Message

\* What a balance that is stored does to the record of the pool.
LEMMA Stored ==
  ASSUME NEW p \in [known : BOOLEAN, published : BOOLEAN, last : Nat, reserve : [Vault -> Nat]],
         NEW v \in Vault, NEW c \in Nat, NEW s \in Nat, NEW q,
         q = [p EXCEPT !.reserve[v] = c, !.last = s]
  PROVE  /\ q \in [known : BOOLEAN, published : BOOLEAN, last : Nat, reserve : [Vault -> Nat]]
         /\ q.known = p.known /\ q.published = p.published /\ q.last = s
         /\ q.reserve[v] = c /\ \A w \in Vault \ {v} : q.reserve[w] = p.reserve[w]
  <1> DEFINE r == [p.reserve EXCEPT ![v] = c]
  <1>1. q = [known |-> p.known, published |-> p.published, last |-> s, reserve |-> r]
    OBVIOUS
  <1>2. r \in [Vault -> Nat] /\ r[v] = c /\ \A w \in Vault \ {v} : r[w] = p.reserve[w]
    OBVIOUS
  <1> HIDE DEF r
  <1> QED BY <1>1, <1>2

LEMMA HandleTypes ==
  ASSUME TypeInv, NEW i \in DOMAIN subs, HandleVaultUpdate(i) PROVE TypeInv'
  <1> DEFINE m == Head(subs[i].queue)
  <1>1. /\ subs[i].queue # <<>> /\ Heard(i)
        /\ UNCHANGED <<at, written, adding, registered, others, fetch, bypassed>>
    BY DEF HandleVaultUpdate, DropUnpublished, DropOld, StoreBalance
  <1>2. /\ subs' \in Seq(Subscription) /\ Len(subs') = Len(subs)
        /\ \A j \in DOMAIN subs' : \A k \in DOMAIN subs'[j].queue :
              IsTrue(subs[j].queue[k], subs[j].covers)'
    BY <1>1, HeardSources
  <1>3. /\ m.vault \in Vault /\ m.change \in written[m.vault] /\ m.slot \in Nat
        /\ m.slot <= Slot /\ m.change \in Nat
    BY <1>1, HeadIsTrue
  <1> HIDE DEF m
  <1>4. \/ pool' = pool
        \/ pool' = [pool EXCEPT !.reserve[m.vault] = m.change, !.last = m.slot]
    BY DEF HandleVaultUpdate, DropUnpublished, DropOld, StoreBalance, m
  <1>5. smooth' \in BOOLEAN
    BY DEF HandleVaultUpdate, DropUnpublished, DropOld, StoreBalance, TypeInv, Types
  <1>6. /\ pool' \in [known : BOOLEAN, published : BOOLEAN, last : Nat, reserve : [Vault -> Nat]]
        /\ pool'.last <= Slot /\ (pool'.published => pool'.known)
        /\ \A v \in Vault : pool'.reserve[v] \in written[v]
    <2>1. /\ pool \in [known : BOOLEAN, published : BOOLEAN, last : Nat, reserve : [Vault -> Nat]]
          /\ pool.last <= Slot /\ (pool.published => pool.known)
          /\ \A v \in Vault : pool.reserve[v] \in written[v]
      BY DEF TypeInv, Types, Slots, Sources
    <2>2. CASE pool' = pool
      BY <2>1, <2>2
    <2>3. CASE pool' = [pool EXCEPT !.reserve[m.vault] = m.change, !.last = m.slot]
      BY <1>3, <2>1, <2>3, Stored, ZenonT(60)
    <2> QED BY <1>4, <2>2, <2>3
  <1>7. Slot' = Slot
    BY <1>1 DEF Slot
  <1>8. Types'
    BY <1>1, <1>2, <1>5, <1>6 DEF TypeInv, Types
  <1>9. Slots'
    BY <1>1, <1>6, <1>7 DEF TypeInv, Slots
  <1>10. Sources'
    BY <1>1, <1>2, <1>6 DEF TypeInv, Sources
  <1> QED BY <1>8, <1>9, <1>10 DEF TypeInv

\* What is queued is left as it is, and true, by a step that only adds subscriptions.
LEMMA SubscribeTypes == ASSUME TypeInv, SubscribeToVaults PROVE TypeInv'
  <1> DEFINE new == [covers |-> registered, queue |-> <<>>]
  <1>1. subs \in Seq(Subscription) /\ new \in Subscription /\ new.queue = <<>>
    <2>1. <<>> \in Seq(Message) /\ registered \in SUBSET Vault
      BY DEF TypeInv, Types
    <2> QED BY <2>1 DEF Subscription, TypeInv, Types
  <1>2. subs' = Append(subs, new) /\ UNCHANGED <<at, written, pool, adding, registered, others, fetch, smooth, bypassed>>
        /\ Len(subs) < MaxSubs
    BY DEF SubscribeToVaults
  <1> HIDE DEF new
  <1>3. /\ subs' \in Seq(Subscription) /\ Len(subs') = Len(subs) + 1 /\ DOMAIN subs' = 1..Len(subs) + 1
        /\ Len(subs) \in Nat /\ DOMAIN subs = 1..Len(subs)
        /\ \A j \in DOMAIN subs : subs'[j] = subs[j]
        /\ subs'[Len(subs) + 1] = new
    BY <1>1, <1>2
  <1>4. ASSUME NEW j \in DOMAIN subs', NEW k \in DOMAIN subs'[j].queue
        PROVE  j \in DOMAIN subs /\ subs'[j] = subs[j]
    <2>1. CASE j \in DOMAIN subs
      BY <1>3, <2>1
    <2>2. CASE j = Len(subs) + 1
      <3>1. DOMAIN subs'[j].queue = {}
        BY <1>1, <1>3, <2>2
      <3> QED BY <3>1, <1>4
    <2> QED BY <1>3, <2>1, <2>2
  <1>5. ASSUME NEW j \in DOMAIN subs', NEW k \in DOMAIN subs'[j].queue
        PROVE  IsTrue(subs[j].queue[k], subs[j].covers)'
    <2>1. j \in DOMAIN subs /\ subs'[j] = subs[j]
      BY <1>4, <1>5
    <2>2. IsTrue(subs[j].queue[k], subs[j].covers)
      BY <2>1, <1>5 DEF TypeInv, Sources
    <2> QED BY <2>1, <2>2, <1>2 DEF IsTrue
  <1>6. Types'
    BY <1>2, <1>3 DEF TypeInv, Types
  <1>7. Slots'
    BY <1>2 DEF TypeInv, Slots, Slot
  <1>8. Len(subs') <= MaxSubs
    BY <1>2, <1>3, VaultAssumption
  <1>9. Sources'
    BY <1>2, <1>5, <1>8 DEF TypeInv, Sources
  <1> QED BY <1>6, <1>7, <1>9 DEF TypeInv

\* What the steps that leave chain and subscriptions alone have to show.
LEMMA PoolTypes ==
  ASSUME TypeInv, UNCHANGED <<at, written, subs>>, smooth' \in BOOLEAN,
         pool' \in [known : BOOLEAN, published : BOOLEAN, last : Nat, reserve : [Vault -> Nat]],
         pool'.last <= Slot, pool'.published => pool'.known,
         \A v \in Vault : pool'.reserve[v] \in written[v],
         registered' \in SUBSET Vault, bypassed' \in BOOLEAN,
         others' \in [Other \cup {"history"} -> Seq(Nat)],
         adding' \in SUBSET PoolHandler, \A o \in adding' : others'[o] # <<>>,
         \A o \in DOMAIN others' : \A k \in DOMAIN others'[o] : others'[o][k] <= Slot,
         fetch' \in FetchRecord,
         \A v \in DOMAIN fetch'.got : fetch'.got[v] \in written[v]
  PROVE  TypeInv'
  <1>1. Slot' = Slot
    BY DEF Slot
  <1>2. Types'
    BY DEF TypeInv, Types
  <1>3. Slots'
    BY <1>1 DEF TypeInv, Slots
  <1>4. ASSUME NEW i \in DOMAIN subs', NEW k \in DOMAIN subs'[i].queue
        PROVE  IsTrue(subs[i].queue[k], subs[i].covers)'
    <2>1. IsTrue(subs[i].queue[k], subs[i].covers)
      BY <1>4 DEF TypeInv, Sources
    <2> QED BY <2>1 DEF IsTrue
  <1>5. Sources'
    BY <1>4 DEF TypeInv, Sources
  <1> QED BY <1>2, <1>3, <1>5 DEF TypeInv

\* What TypeInv says of the parts that those steps change.
LEMMA PartTypes ==
  ASSUME TypeInv
  PROVE  /\ pool \in [known : BOOLEAN, published : BOOLEAN, last : Nat, reserve : [Vault -> Nat]]
         /\ pool.last <= Slot /\ (pool.published => pool.known)
         /\ \A v \in Vault : pool.reserve[v] \in written[v] /\ 0 \in written[v]
         /\ adding \in SUBSET PoolHandler /\ \A o \in adding : others[o] # <<>>
         /\ registered \in SUBSET Vault /\ bypassed \in BOOLEAN /\ smooth \in BOOLEAN
         /\ others \in [Other \cup {"history"} -> Seq(Nat)]
         /\ \A o \in DOMAIN others : \A k \in DOMAIN others[o] : others[o][k] <= Slot
         /\ fetch \in FetchRecord
         /\ \A v \in DOMAIN fetch.got : v \in Vault /\ fetch.got[v] \in written[v]
  BY DEF TypeInv, Types, Slots, Sources, FetchRecord

\* Taking a message off the queue of another account.
LEMMA OtherHeard ==
  ASSUME TypeInv, NEW o \in DOMAIN others, others[o] # <<>>,
         others' = [others EXCEPT ![o] = Tail(@)]
  PROVE  /\ Head(others[o]) \in Nat /\ Head(others[o]) <= Slot
         /\ others' \in [Other \cup {"history"} -> Seq(Nat)]
         /\ \A p \in DOMAIN others' : \A k \in DOMAIN others'[p] : others'[p][k] <= Slot
         /\ \A p \in adding \ {o} : others'[p] # <<>>
  <1> DEFINE q == others[o]
  <1>1. q \in Seq(Nat) /\ \A k \in DOMAIN q : q[k] <= Slot
    BY PartTypes
  <1>2. q # <<>> /\ others' = [others EXCEPT ![o] = Tail(q)] /\ Head(q) = Head(others[o])
    OBVIOUS
  <1> HIDE DEF q
  <1>3. /\ Head(q) \in Nat /\ Head(q) <= Slot /\ Tail(q) \in Seq(Nat)
        /\ \A k \in DOMAIN Tail(q) : Tail(q)[k] <= Slot
    <2>1. 1 \in DOMAIN q
      BY <1>1, <1>2
    <2> QED BY <1>1, <1>2, <2>1, SeqTail
  <1>4. others' \in [Other \cup {"history"} -> Seq(Nat)]
    BY <1>2, <1>3, PartTypes
  <1>5. \A p \in DOMAIN others' : \A k \in DOMAIN others'[p] : others'[p][k] <= Slot
    <2> TAKE p \in DOMAIN others'
    <2>1. p \in DOMAIN others /\ (others'[p] = others[p] \/ others'[p] = Tail(q))
      BY <1>2
    <2> QED BY <2>1, <1>3, PartTypes
  <1>6. \A p \in adding \ {o} : others'[p] # <<>>
    <2> TAKE p \in adding \ {o}
    <2>1. p \in DOMAIN others /\ others[p] # <<>>
      BY PartTypes DEF PoolHandler, Other
    <2> QED BY <2>1, <1>2
  <1> QED BY <1>2, <1>3, <1>4, <1>5, <1>6

LEMMA HandleOtherTypes ==
  ASSUME TypeInv, NEW o \in DOMAIN others, HandleOther(o) PROVE TypeInv'
  <1> DEFINE slot == Head(others[o])
  <1>1. /\ others[o] # <<>> /\ o \notin adding /\ others' = [others EXCEPT ![o] = Tail(@)]
        /\ pool' = [pool EXCEPT !.last = slot]
        /\ bypassed' = (bypassed \/ slot < pool.last)
        /\ UNCHANGED <<at, written, adding, registered, subs, fetch, smooth>>
    BY DEF HandleOther
  <1>2. /\ slot \in Nat /\ slot <= Slot
        /\ others' \in [Other \cup {"history"} -> Seq(Nat)]
        /\ \A p \in DOMAIN others' : \A k \in DOMAIN others'[p] : others'[p][k] <= Slot
        /\ \A p \in adding \ {o} : others'[p] # <<>>
    BY <1>1, OtherHeard
  <1> HIDE DEF slot
  <1>3. /\ pool' \in [known : BOOLEAN, published : BOOLEAN, last : Nat, reserve : [Vault -> Nat]]
        /\ pool'.last <= Slot /\ (pool'.published => pool'.known) /\ pool'.reserve = pool.reserve
    BY <1>1, <1>2, PartTypes
  <1>4. bypassed' \in BOOLEAN
    BY <1>1, PartTypes
  <1> QED BY <1>1, <1>2, <1>3, <1>4, PartTypes, PoolTypes

LEMMA AddPoolTypes ==
  ASSUME TypeInv, NEW o \in PoolHandler, AddPool(o) PROVE TypeInv'
  <1> DEFINE slot == Head(others[o])
  <1>1. /\ o \in adding /\ adding' = adding \ {o} /\ others' = [others EXCEPT ![o] = Tail(@)]
        /\ pool' = [NoPool EXCEPT !.known = TRUE, !.last = slot]
        /\ smooth' = FALSE
        /\ UNCHANGED <<at, written, registered, subs, fetch, bypassed>>
    BY DEF AddPool
  <1>2. o \in DOMAIN others /\ others[o] # <<>>
    BY <1>1, PartTypes DEF PoolHandler, Other
  <1>3. /\ slot \in Nat /\ slot <= Slot
        /\ others' \in [Other \cup {"history"} -> Seq(Nat)]
        /\ \A p \in DOMAIN others' : \A k \in DOMAIN others'[p] : others'[p][k] <= Slot
        /\ \A p \in adding \ {o} : others'[p] # <<>>
    BY <1>1, <1>2, OtherHeard
  <1> HIDE DEF slot
  <1>4. pool' = [known |-> TRUE, published |-> FALSE, last |-> slot, reserve |-> [v \in Vault |-> 0]]
    BY <1>1 DEF NoPool
  <1>5. /\ pool' \in [known : BOOLEAN, published : BOOLEAN, last : Nat, reserve : [Vault -> Nat]]
        /\ pool'.last <= Slot /\ (pool'.published => pool'.known)
        /\ \A v \in Vault : pool'.reserve[v] \in written[v]
    BY <1>3, <1>4, PartTypes
  <1>6. adding' \in SUBSET PoolHandler /\ \A p \in adding' : others'[p] # <<>>
    BY <1>1, <1>3, PartTypes
  <1> QED BY <1>1, <1>3, <1>5, <1>6, PartTypes, PoolTypes

LEMMA FindTypes ==
  ASSUME TypeInv, SkipTickArray \/ \E o \in PoolHandler : FindNone(o)
  PROVE  TypeInv'
  <1>1. CASE SkipTickArray
    <2>1. /\ "ticks" \in DOMAIN others /\ others["ticks"] # <<>> /\ "ticks" \notin adding
          /\ others' = [others EXCEPT !["ticks"] = Tail(@)]
          /\ UNCHANGED <<at, written, pool, adding, registered, subs, fetch, smooth, bypassed>>
      BY <1>1, PartTypes DEF SkipTickArray, Other, PoolHandler
    <2>2. /\ others' \in [Other \cup {"history"} -> Seq(Nat)]
          /\ \A p \in DOMAIN others' : \A k \in DOMAIN others'[p] : others'[p][k] <= Slot
          /\ \A p \in adding \ {"ticks"} : others'[p] # <<>>
      BY <2>1, OtherHeard
    <2> QED BY <2>1, <2>2, PartTypes, PoolTypes
  <1>2. ASSUME NEW o \in PoolHandler, FindNone(o) PROVE TypeInv'
    <2>1. /\ others[o] # <<>> /\ adding' = adding \cup {o}
          /\ UNCHANGED <<at, written, pool, registered, subs, others, fetch, smooth, bypassed>>
      BY <1>2 DEF FindNone
    <2>2. adding' \in SUBSET PoolHandler /\ \A p \in adding' : others'[p] # <<>>
      BY <2>1, PartTypes
    <2> QED BY <2>1, <2>2, PartTypes, PoolTypes
  <1> QED BY <1>1, <1>2

LEMMA FetchTypes ==
  ASSUME TypeInv, AnswerFetch \/ (\E v \in Vault : WriteFetched(v)) PROVE TypeInv'
  <1>1. CASE AnswerFetch
    <2>5. PICK found \in SUBSET Vault : \E got \in [found -> 0..Len(at)] :
            /\ \A v \in found : got[v] \in written[v]
            /\ fetch' = Fetch(IF found = {} THEN "over" ELSE "write", got)
      BY <1>1 DEF AnswerFetch
    <2>1. PICK got \in [found -> 0..Len(at)] :
            /\ \A v \in found : got[v] \in written[v]
            /\ fetch' = Fetch(IF found = {} THEN "over" ELSE "write", got)
      BY <2>5
    <2>2. UNCHANGED <<at, written, pool, adding, registered, subs, others, smooth, bypassed>>
      BY <1>1 DEF AnswerFetch
    <2>3. got \in [found -> Nat]
      BY SlotNow
    <2>4. fetch' \in FetchRecord
          /\ fetch'.got = got
      BY <2>1, <2>3 DEF Fetch, FetchRecord
    <2> QED BY <2>1, <2>2, <2>4, PartTypes, PoolTypes
  <1>2. ASSUME NEW v \in Vault, WriteFetched(v) PROVE TypeInv'
    <2> DEFINE left == DOMAIN fetch.got \ {v}
               got == [w \in left |-> fetch.got[w]]
               c == fetch.got[v]
    <2>1. /\ v \in DOMAIN fetch.got /\ bypassed' = TRUE
          /\ pool' = [pool EXCEPT !.reserve[v] = c]
          /\ fetch' = Fetch(IF left = {} THEN "over" ELSE "write", got)
          /\ UNCHANGED <<at, written, adding, registered, subs, others, smooth>>
      BY <1>2 DEF WriteFetched
    <2>2. \A w \in DOMAIN fetch.got : w \in Vault /\ fetch.got[w] \in Nat /\ fetch.got[w] \in written[w]
      BY PartTypes DEF FetchRecord
    <2>3. left \in SUBSET Vault /\ got \in [left -> Nat] /\ \A w \in left : got[w] \in written[w]
      BY <2>2
    <2>4. c \in Nat /\ c \in written[v]
      BY <2>1, <2>2
    <2> HIDE DEF left, got, c
    <2>5. fetch' \in FetchRecord
          /\ fetch'.got = got /\ DOMAIN got = left
      BY <2>1, <2>3 DEF Fetch, FetchRecord
    <2>6. /\ pool' \in [known : BOOLEAN, published : BOOLEAN, last : Nat, reserve : [Vault -> Nat]]
          /\ pool'.last <= Slot /\ (pool'.published => pool'.known)
          /\ \A w \in Vault : pool'.reserve[w] \in written[w]
      <3> DEFINE r == [pool.reserve EXCEPT ![v] = c]
      <3>1. pool' = [pool EXCEPT !.reserve = r]
        BY <2>1
      <3>2. r \in [Vault -> Nat] /\ \A w \in Vault : r[w] \in written[w]
        BY <2>4, PartTypes
      <3> HIDE DEF r
      <3> QED BY <3>1, <3>2, PartTypes
    <2> QED BY <2>1, <2>3, <2>5, <2>6, PartTypes, PoolTypes
  <1> QED BY <1>1, <1>2

LEMMA StepTypes == ASSUME TypeInv, [Next]_vars PROVE TypeInv'
  <1>1. CASE Change
    BY <1>1, ChangeTypes
  <1>2. CASE Publish
    BY <1>2, PartTypes, PoolTypes DEF Publish
  <1>3. CASE SubscribeToVaults
    BY <1>3, SubscribeTypes
  <1>4. CASE AnswerFetch \/ \E v \in Vault : WriteFetched(v)
    BY <1>4, FetchTypes
  <1>5. ASSUME NEW o \in DOMAIN others, HandleOther(o) PROVE TypeInv'
    BY <1>5, HandleOtherTypes
  <1>6. ASSUME NEW v \in Vault, RegisterVault(v) PROVE TypeInv'
    <2>1. registered' \in SUBSET Vault
      BY <1>6, PartTypes DEF RegisterVault
    <2> QED BY <1>6, <2>1, PartTypes, PoolTypes DEF RegisterVault
  <1>7. ASSUME NEW i \in DOMAIN subs, HandleVaultUpdate(i) PROVE TypeInv'
    BY <1>7, HandleTypes
  <1>8. CASE UNCHANGED vars
    BY <1>8, PartTypes, PoolTypes DEF vars
  <1>9. CASE SkipTickArray \/ \E o \in PoolHandler : FindNone(o)
    BY <1>9, FindTypes
  <1>10. ASSUME NEW o \in PoolHandler, AddPool(o) PROVE TypeInv'
    BY <1>10, AddPoolTypes
  <1> QED BY <1>1, <1>2, <1>3, <1>4, <1>5, <1>6, <1>7, <1>8, <1>9, <1>10 DEF Next

\* Whatever is stored, fetched or queued for a vault is a balance that the vault had, with
\* the slot it had it in, for any number of changes, slots and subscriptions.
THEOREM SourcesAreTrue == Spec => []TypeInv
  BY InitTypes, StepTypes, PTL DEF Spec

LEMMA TypeInvIsStronger == TypeInv => VaultTypeOK
  <1> SUFFICES ASSUME TypeInv PROVE VaultTypeOK
    OBVIOUS
  <1>1. \A n \in DOMAIN at : at[n] \in 1..MaxSlot
    BY DEF TypeInv, Slots
  <1>2. pool.last \in 0..Slot
    BY PartTypes, SlotNow
  <1>3. \A i \in DOMAIN subs : \A k \in DOMAIN subs[i].queue :
          subs[i].queue[k].vault \in subs[i].covers /\ subs[i].queue[k].change \in DOMAIN at
    BY DEF TypeInv, Sources, IsTrue
  <1>4. adding \subseteq {o \in PoolHandler : others[o] # <<>>}
    BY PartTypes
  <1>5. fetch.stage \in {"asked", "write", "over"}
    BY PartTypes DEF FetchRecord
  <1> QED BY <1>1, <1>2, <1>3, <1>4, <1>5, PartTypes DEF VaultTypeOK, TypeInv, Slots, Sources

\* The vault handlers keep every variable within its type: a balance that is stored is one
\* the vault had, and the slot of the pool is never ahead of the chain.
THEOREM VaultTypeCorrect == Spec => []VaultTypeOK
  BY SourcesAreTrue, TypeInvIsStronger, PTL

-----------------------------------------------------------------------------
(* Reserves go forward.                                                    *)

LEMMA SlotOfReserve ==
  ASSUME TypeInv, NEW v \in Vault
  PROVE  /\ SlotOf(pool.reserve[v]) \in Nat /\ pool.last \in Nat
         /\ pool.reserve[v] = 0 \/ pool.reserve[v] \in DOMAIN at
  <1>1. pool.reserve[v] \in 0..Len(at)
    BY PartTypes DEF TypeInv, Sources
  <1>2. pool.reserve[v] = 0 \/ pool.reserve[v] \in DOMAIN at
    BY <1>1, SlotNow
  <1> QED BY <1>2, PartTypes, SlotNow DEF SlotOf

\* A step that leaves chain and reserves alone.
LEMMA SameReserves ==
  ASSUME TypeInv, ReserveBehindSlot, at' = at, pool'.reserve = pool.reserve,
         bypassed' \in BOOLEAN, pool'.last \in Nat,
         bypassed' \/ (~bypassed /\ pool.last <= pool'.last)
  PROVE  /\ ReserveBehindSlot'
         /\ \A v \in Vault : SlotOf(pool.reserve[v])' >= SlotOf(pool.reserve[v])
  <1>1. ASSUME NEW v \in Vault
        PROVE  /\ SlotOf(pool.reserve[v])' >= SlotOf(pool.reserve[v])
               /\ bypassed' \/ SlotOf(pool.reserve[v])' <= pool'.last
    <2>1. SlotOf(pool.reserve[v])' = SlotOf(pool.reserve[v])
      BY DEF SlotOf
    <2>2. bypassed \/ SlotOf(pool.reserve[v]) <= pool.last
      BY <1>1 DEF ReserveBehindSlot
    <2> QED BY <1>1, <2>1, <2>2, SlotOfReserve
  <1> QED BY <1>1 DEF ReserveBehindSlot

LEMMA StepForward ==
  ASSUME TypeInv, ReserveBehindSlot, [Next]_vars
  PROVE  /\ ReserveBehindSlot'
         /\ \/ \A v \in Vault : SlotOf(pool.reserve[v])' >= SlotOf(pool.reserve[v])
            \/ bypassed' \/ \E o \in PoolHandler : AddPool(o)
  <1> DEFINE Goal ==
        /\ ReserveBehindSlot'
        /\ \/ \A v \in Vault : SlotOf(pool.reserve[v])' >= SlotOf(pool.reserve[v])
           \/ bypassed' \/ \E o \in PoolHandler : AddPool(o)
  <1>1. CASE Change
    <2>1. PICK slot \in {Slot, Slot + 1} : at' = Append(at, slot)
      BY <1>1 DEF Change
    <2>2. pool' = pool /\ bypassed' = bypassed
      BY <1>1 DEF Change
    <2>3. ASSUME NEW v \in Vault
          PROVE  SlotOf(pool.reserve[v])' = SlotOf(pool.reserve[v])
      <3>1. \A n \in DOMAIN at : at'[n] = at[n]
        BY <2>1, SlotNext
      <3> QED BY <2>2, <3>1, SlotOfReserve DEF SlotOf
    <2>4. \A v \in Vault : SlotOf(pool.reserve[v])' >= SlotOf(pool.reserve[v])
      BY <2>3, SlotOfReserve
    <2> QED BY <2>2, <2>3, <2>4 DEF ReserveBehindSlot
  <1>2. CASE \/ Publish \/ SubscribeToVaults \/ AnswerFetch \/ SkipTickArray
             \/ (\E v \in Vault : RegisterVault(v)) \/ (\E o \in PoolHandler : FindNone(o))
             \/ UNCHANGED vars
    <2>1. at' = at /\ pool'.reserve = pool.reserve /\ pool'.last = pool.last /\ bypassed' = bypassed
      BY <1>2, PartTypes DEF Publish, SubscribeToVaults, AnswerFetch, SkipTickArray,
                             RegisterVault, FindNone, vars
    <2>2. Goal
      <3>1. pool.last \in Nat /\ bypassed \in BOOLEAN
        BY PartTypes
      <3>2. CASE bypassed
        BY <2>1, <3>1, <3>2, SameReserves
      <3>3. CASE ~bypassed
        BY <2>1, <3>1, <3>3, SameReserves
      <3> QED BY <3>1, <3>2, <3>3
    <2> QED BY <2>2
  <1>3. ASSUME NEW o \in DOMAIN others, HandleOther(o) PROVE Goal
    <2> DEFINE slot == Head(others[o])
    <2>1. /\ others[o] # <<>> /\ others' = [others EXCEPT ![o] = Tail(@)] /\ at' = at
          /\ pool' = [pool EXCEPT !.last = slot] /\ bypassed' = (bypassed \/ slot < pool.last)
      BY <1>3 DEF HandleOther
    <2>2. slot \in Nat
      BY <2>1, OtherHeard
    <2> HIDE DEF slot
    <2>3. pool.last \in Nat /\ bypassed \in BOOLEAN
      BY PartTypes
    <2>4. pool'.reserve = pool.reserve /\ pool'.last = slot
      BY <2>1, PartTypes
    <2>5. bypassed' \in BOOLEAN /\ (bypassed' \/ (~bypassed /\ pool.last <= pool'.last))
      <3>1. CASE slot < pool.last
        BY <2>1, <3>1
      <3>2. CASE ~(slot < pool.last)
        <4>1. pool.last <= pool'.last
          BY <2>2, <2>3, <2>4, <3>2
        <4>2. bypassed' = bypassed
          BY <2>1, <2>3, <3>2
        <4> QED BY <2>3, <4>1, <4>2
      <3> QED BY <3>1, <3>2
    <2> QED BY <2>1, <2>2, <2>4, <2>5, SameReserves
  <1>4. ASSUME NEW v \in Vault, WriteFetched(v) PROVE Goal
    BY <1>4 DEF WriteFetched, ReserveBehindSlot
  <1>5. ASSUME NEW i \in DOMAIN subs, HandleVaultUpdate(i) PROVE Goal
    <2>1. subs[i].queue # <<>> /\ at' = at /\ bypassed' = bypassed
      BY <1>5 DEF HandleVaultUpdate, DropUnpublished, DropOld, StoreBalance
    <2>2. PICK v \in Vault, c \in DOMAIN at, slot \in Nat :
            /\ slot = at[c] /\ c # 0
            /\ v = Head(subs[i].queue).vault /\ c = Head(subs[i].queue).change
            /\ slot = Head(subs[i].queue).slot
      BY <2>1, HeadIsTrue
    <2>3. \/ pool' = pool
          \/ /\ slot >= pool.last
             /\ pool' = [pool EXCEPT !.reserve[v] = c, !.last = slot]
      BY <1>5, <2>2 DEF HandleVaultUpdate, DropUnpublished, DropOld, StoreBalance
    <2>4. CASE pool' = pool
      <3>1. bypassed \in BOOLEAN /\ pool.last \in Nat
        BY PartTypes
      <3>2. CASE bypassed
        BY <2>1, <2>4, <3>1, <3>2, SameReserves
      <3>3. CASE ~bypassed
        BY <2>1, <2>4, <3>1, <3>3, SameReserves
      <3> QED BY <3>1, <3>2, <3>3
    <2>5. CASE /\ slot >= pool.last
               /\ pool' = [pool EXCEPT !.reserve[v] = c, !.last = slot]
      <3>6. pool \in [known : BOOLEAN, published : BOOLEAN, last : Nat, reserve : [Vault -> Nat]]
            /\ c \in Nat
        BY PartTypes, SlotNow
      <3>1. /\ pool'.last = slot /\ pool'.reserve[v] = c
            /\ \A w \in Vault \ {v} : pool'.reserve[w] = pool.reserve[w]
        BY <2>5, <3>6, Stored, ZenonT(60)
      <3>2. SlotOf(pool.reserve[v])' = slot
        BY <2>1, <2>2, <3>1 DEF SlotOf
      <3>3. \A w \in Vault \ {v} : SlotOf(pool.reserve[w])' = SlotOf(pool.reserve[w])
        BY <2>1, <3>1 DEF SlotOf
      <3>4. \A w \in Vault : bypassed \/ SlotOf(pool.reserve[w]) <= pool.last
        BY DEF ReserveBehindSlot
      <3>5. ASSUME NEW w \in Vault
            PROVE  /\ bypassed' \/ SlotOf(pool.reserve[w])' <= pool'.last
                   /\ SlotOf(pool.reserve[w])' >= SlotOf(pool.reserve[w]) \/ bypassed'
        <4>1. SlotOf(pool.reserve[w]) \in Nat /\ pool.last \in Nat
          BY SlotOfReserve
        <4>2. CASE w = v
          BY <2>1, <2>5, <3>1, <3>2, <3>4, <4>1, <4>2
        <4>3. CASE w # v
          BY <2>1, <2>5, <3>1, <3>3, <3>4, <4>1, <4>3
        <4> QED BY <4>2, <4>3
      <3> QED BY <3>5 DEF ReserveBehindSlot
    <2> QED BY <2>3, <2>4, <2>5
  <1>6. ASSUME NEW o \in PoolHandler, AddPool(o) PROVE Goal
    <2>1. pool'.reserve = [v \in Vault |-> 0] /\ pool'.last = Head(others[o]) /\ at' = at
      BY <1>6 DEF AddPool, NoPool
    <2>2. pool'.last \in Nat
      <3>1. o \in DOMAIN others /\ others[o] # <<>>
        BY <1>6, PartTypes DEF AddPool, PoolHandler, Other
      <3> QED BY <1>6, <2>1, <3>1, OtherHeard DEF AddPool
    <2>3. \A v \in Vault : SlotOf(pool.reserve[v])' = 0
      BY <2>1 DEF SlotOf
    <2> QED BY <1>6, <2>2, <2>3 DEF ReserveBehindSlot
  <1> QED BY <1>1, <1>2, <1>3, <1>4, <1>5, <1>6 DEF Next

LEMMA InitBehind == VaultInit => ReserveBehindSlot
  BY DEF VaultInit, StartEmpty, StartLoaded, NoPool, ReserveBehindSlot, SlotOf

\* However the updates of the accounts interleave, a reserve never goes back to the balance
\* of an earlier slot, unless the fetch or an update with a lower slot has come between, or
\* another object of the pool is added.
THEOREM ForwardOnly == Spec => ReservesGoForward
  <1>1. VaultInit => TypeInv /\ ReserveBehindSlot
    BY InitTypes, InitBehind
  <1>2. TypeInv /\ ReserveBehindSlot /\ [Next]_vars => (TypeInv /\ ReserveBehindSlot)'
    BY StepTypes, StepForward
  <1>3. TypeInv /\ ReserveBehindSlot /\ [Next]_vars =>
          [\/ \A v \in Vault : SlotOf(pool.reserve[v])' >= SlotOf(pool.reserve[v])
           \/ bypassed' \/ \E o \in PoolHandler : AddPool(o)]_vars
    BY StepForward
  <1> QED BY <1>1, <1>2, <1>3, PTL DEF Spec, ReservesGoForward

-----------------------------------------------------------------------------
(* Reserves end at the balances.                                           *)

\* A change that is smooth is the last message of each vault in every queue, and waits in one.
LEMMA ChangeLatest == ASSUME TypeInv, Change PROVE LastIsLatest'
  <1> SUFFICES ASSUME smooth'
      PROVE  /\ \A v \in Vault : Len(at') \in written'[v]
             /\ \A i \in DOMAIN subs' : \A k \in DOMAIN subs'[i].queue :
                  \E l \in DOMAIN subs'[i].queue :
                    /\ k <= l /\ subs'[i].queue[l].vault = subs'[i].queue[k].vault
                    /\ subs'[i].queue[l].change = Len(at')
             /\ \A v \in Vault : Under(v)'
    BY DEF LastIsLatest
  <1>1. PICK slot \in {Slot, Slot + 1}, t \in Touches :
          /\ at' = Append(at, slot)
          /\ written' = [v \in Vault |-> IF v \in t THEN written[v] \cup {Len(at) + 1} ELSE written[v]]
          /\ AllHear(t, slot, Len(at) + 1)
          /\ Vault \subseteq t /\ \E i \in DOMAIN subs : subs[i].covers = Vault
    BY DEF Change, AllHear
  <1>2. Len(at') = Len(at) + 1 /\ slot \in Nat /\ Len(at') \in Nat
    BY <1>1, SlotNext, SlotNow
  <1>3. subs \in Seq(Subscription)
    BY DEF TypeInv, Types
  <1> DEFINE n == Len(at')
  <1>4. slot \in Nat /\ n \in Nat /\ AllHear(t, slot, n)
    BY <1>1, <1>2
  <1> HIDE DEF n
  <1>5. /\ DOMAIN subs' = DOMAIN subs
        /\ \A i \in DOMAIN subs :
             /\ subs[i].covers \in SUBSET Vault /\ subs'[i].covers = subs[i].covers
             /\ Follows(subs'[i].queue, subs[i].queue, t \cap subs[i].covers, slot, n)
    BY <1>3, <1>4, ChangedQueues
  <1>6. \A v \in Vault : n \in written'[v]
    BY <1>1, <1>2 DEF n
  <1>7. ASSUME NEW i \in DOMAIN subs', NEW k \in DOMAIN subs'[i].queue
        PROVE  \E l \in DOMAIN subs'[i].queue :
                 /\ k <= l /\ subs'[i].queue[l].vault = subs'[i].queue[k].vault
                 /\ subs'[i].queue[l].change = n
    <2> DEFINE q == subs[i].queue
               r == subs'[i].queue
               S == t \cap subs[i].covers
    <2>1. Follows(r, q, S, slot, n) /\ k \in DOMAIN r
      BY <1>5, <1>7
    <2>2. \A l \in DOMAIN q : q[l].vault \in S
      <3>1. \A l \in DOMAIN q : q[l].vault \in subs[i].covers
        BY <1>5, <1>7 DEF TypeInv, Sources, IsTrue
      <3> QED BY <3>1, <1>1, <1>5, <1>7
    <2> HIDE DEF q, r, S
    <2>3. /\ Len(q) \in Nat /\ DOMAIN q = 1..Len(q) /\ DOMAIN r = 1..Len(r) /\ Len(r) \in Nat
          /\ \A l \in DOMAIN q : r[l] = q[l]
          /\ \A l \in DOMAIN r : l > Len(q) => r[l].vault \in S /\ r[l].change = n
          /\ \A v \in S : \E l \in DOMAIN r : l > Len(q) /\ r[l].vault = v /\ r[l].change = n
      BY <2>1 DEF Follows
    <2>4. CASE k > Len(q)
      BY <2>1, <2>3, <2>4 DEF r
    <2>5. CASE k \in DOMAIN q
      <3>1. r[k].vault \in S
        BY <2>2, <2>3, <2>5
      <3>2. PICK l \in DOMAIN r : l > Len(q) /\ r[l].vault = r[k].vault /\ r[l].change = n
        BY <2>3, <3>1
      <3>3. k <= l
        BY <2>1, <2>3, <2>5, <3>2
      <3> QED BY <3>2, <3>3 DEF r
    <2> QED BY <2>1, <2>3, <2>4, <2>5
  <1>8. ASSUME NEW v \in Vault PROVE Under(v)'
    <2>1. PICK i \in DOMAIN subs : subs[i].covers = Vault
      BY <1>1
    <2>2. v \in t \cap subs[i].covers
      BY <1>1, <1>8, <2>1
    <2>3. \E k \in DOMAIN subs'[i].queue : subs'[i].queue[k].vault = v /\ subs'[i].queue[k].change = n
      BY <1>5, <2>2 DEF Follows
    <2> QED BY <2>3, <1>5 DEF Under, n
  <1> QED BY <1>6, <1>7, <1>8 DEF n

\* A message that is heard is not the last of its vault, unless it is the last change's.
LEMMA HeardLatest ==
  ASSUME TypeInv, LastIsLatest, smooth, at # <<>>, NEW i \in DOMAIN subs,
         subs[i].queue # <<>>, Heard(i), at' = at
  PROVE  /\ \A j \in DOMAIN subs' : \A k \in DOMAIN subs'[j].queue :
              \E l \in DOMAIN subs'[j].queue :
                /\ k <= l /\ subs'[j].queue[l].vault = subs'[j].queue[k].vault
                /\ subs'[j].queue[l].change = Len(at)
         /\ \A v \in Vault : Under(v) =>
              Under(v)' \/ (Head(subs[i].queue).vault = v /\ Head(subs[i].queue).change = Len(at))
         /\ \A v \in Vault :
              v = Head(subs[i].queue).vault /\ Head(subs[i].queue).change # Len(at) => Under(v)'
  <1>1. /\ DOMAIN subs' = DOMAIN subs
        /\ \A j \in DOMAIN subs \ {i} : subs'[j] = subs[j]
        /\ Len(subs[i].queue) \in Nat \ {0} /\ DOMAIN subs[i].queue = 1..Len(subs[i].queue)
        /\ DOMAIN subs'[i].queue = 1..Len(subs[i].queue) - 1
        /\ \A k \in DOMAIN subs'[i].queue : subs'[i].queue[k] = subs[i].queue[k + 1]
        /\ Head(subs[i].queue) = subs[i].queue[1]
    <2>1. subs \in Seq(Subscription)
      BY DEF TypeInv, Types
    <2> QED BY <2>1, HeardQueue
  <1>2. \A j \in DOMAIN subs : \A k \in DOMAIN subs[j].queue :
          \E l \in DOMAIN subs[j].queue :
            /\ k <= l /\ subs[j].queue[l].vault = subs[j].queue[k].vault
            /\ subs[j].queue[l].change = Len(at)
    BY DEF LastIsLatest
  <1>3. \A l \in DOMAIN subs[i].queue : l > 1 =>
          l - 1 \in DOMAIN subs'[i].queue /\ subs'[i].queue[l - 1] = subs[i].queue[l]
    BY <1>1
  <1>4. ASSUME NEW j \in DOMAIN subs', NEW k \in DOMAIN subs'[j].queue
        PROVE  \E l \in DOMAIN subs'[j].queue :
                 /\ k <= l /\ subs'[j].queue[l].vault = subs'[j].queue[k].vault
                 /\ subs'[j].queue[l].change = Len(at)
    <2>1. CASE j # i
      <3>1. j \in DOMAIN subs /\ subs'[j] = subs[j]
        BY <1>1, <1>4, <2>1
      <3>2. k \in DOMAIN subs[j].queue
        BY <1>4, <3>1
      <3>3. PICK l \in DOMAIN subs[j].queue :
              /\ k <= l /\ subs[j].queue[l].vault = subs[j].queue[k].vault
              /\ subs[j].queue[l].change = Len(at)
        BY <1>2, <3>1, <3>2
      <3> QED BY <3>1, <3>3
    <2>2. CASE j = i
      <3>1. k \in Nat /\ k + 1 \in DOMAIN subs[i].queue /\ subs'[i].queue[k] = subs[i].queue[k + 1]
        BY <1>1, <1>4, <2>2
      <3>2. PICK l \in DOMAIN subs[i].queue :
              /\ k + 1 <= l /\ subs[i].queue[l].vault = subs[i].queue[k + 1].vault
              /\ subs[i].queue[l].change = Len(at)
        BY <1>2, <3>1
      <3>3. l \in Nat /\ l > 1 /\ k <= l - 1
        BY <1>1, <1>4, <2>2, <3>1, <3>2
      <3>4. l - 1 \in DOMAIN subs'[i].queue /\ subs'[i].queue[l - 1] = subs[i].queue[l]
        BY <1>3, <3>3
      <3> QED BY <2>2, <3>1, <3>2, <3>3, <3>4
    <2> QED BY <2>1, <2>2
  <1>5. ASSUME NEW v \in Vault, Under(v),
               ~(Head(subs[i].queue).vault = v /\ Head(subs[i].queue).change = Len(at))
        PROVE  Under(v)'
    <2>1. PICK j \in DOMAIN subs : \E k \in DOMAIN subs[j].queue :
            subs[j].queue[k].vault = v /\ subs[j].queue[k].change = Len(at)
      BY <1>5 DEF Under
    <2>2. PICK k \in DOMAIN subs[j].queue :
            subs[j].queue[k].vault = v /\ subs[j].queue[k].change = Len(at)
      BY <2>1
    <2>3. CASE j # i
      BY <1>1, <2>2, <2>3 DEF Under
    <2>4. CASE j = i
      <3>1. k > 1
        BY <1>1, <1>5, <2>2, <2>4
      <3>2. k - 1 \in DOMAIN subs'[i].queue /\ subs'[i].queue[k - 1] = subs[i].queue[k]
        BY <1>3, <2>4, <3>1
      <3> QED BY <1>1, <2>2, <2>4, <3>2 DEF Under
    <2> QED BY <2>3, <2>4
  <1>6. ASSUME NEW v \in Vault, v = Head(subs[i].queue).vault, Head(subs[i].queue).change # Len(at)
        PROVE  Under(v)'
    <2>1. 1 \in DOMAIN subs[i].queue
      BY <1>1
    <2>2. PICK l \in DOMAIN subs[i].queue :
            /\ 1 <= l /\ subs[i].queue[l].vault = subs[i].queue[1].vault
            /\ subs[i].queue[l].change = Len(at)
      BY <1>2, <2>1
    <2>3. l > 1
      BY <1>1, <1>6, <2>2
    <2>4. l - 1 \in DOMAIN subs'[i].queue /\ subs'[i].queue[l - 1] = subs[i].queue[l]
      BY <1>3, <2>3
    <2>5. subs'[i].queue[l - 1].vault = v /\ subs'[i].queue[l - 1].change = Len(at)
      BY <1>1, <1>6, <2>2, <2>4
    <2> QED BY <1>1, <2>4, <2>5 DEF Under
  <1> QED BY <1>4, <1>5, <1>6

LEMMA HandleLatest ==
  ASSUME TypeInv, LastIsLatest, NEW i \in DOMAIN subs, HandleVaultUpdate(i)
  PROVE  LastIsLatest'
  <1> SUFFICES ASSUME smooth', at # <<>> PROVE LastIsLatest'
    BY DEF LastIsLatest, HandleVaultUpdate, DropUnpublished, DropOld, StoreBalance
  <1>1. /\ subs[i].queue # <<>> /\ Heard(i)
        /\ UNCHANGED <<at, written, adding, registered, others, fetch, bypassed>>
    BY DEF HandleVaultUpdate, DropUnpublished, DropOld, StoreBalance
  <1>2. DropOld(i) \/ StoreBalance(i)
    BY DEF HandleVaultUpdate, DropUnpublished
  <1>3. smooth
    BY <1>2, PartTypes DEF DropOld, StoreBalance
  <1>4. /\ \A v \in Vault : Len(at) \in written[v]
        /\ \A v \in Vault : Under(v) \/ (fetch.stage = "over" /\ pool.reserve[v] = Len(at))
    BY <1>3 DEF LastIsLatest
  <1>5. PICK v \in Vault, c \in Nat, slot \in Nat :
          /\ v = Head(subs[i].queue).vault /\ c = Head(subs[i].queue).change
          /\ slot = Head(subs[i].queue).slot /\ c \in DOMAIN at /\ slot = at[c]
    BY <1>1, HeadIsTrue
  <1>6. /\ \A j \in DOMAIN subs' : \A k \in DOMAIN subs'[j].queue :
              \E l \in DOMAIN subs'[j].queue :
                /\ k <= l /\ subs'[j].queue[l].vault = subs'[j].queue[k].vault
                /\ subs'[j].queue[l].change = Len(at)
        /\ \A w \in Vault : Under(w) => Under(w)' \/ (v = w /\ c = Len(at))
        /\ c # Len(at) => Under(v)'
    BY <1>1, <1>3, <1>5, HeardLatest
  <1>7. ASSUME NEW w \in Vault
        PROVE  Under(w)' \/ (fetch'.stage = "over" /\ pool'.reserve[w] = Len(at))
    <2>1. CASE DropOld(i)
      <3>1. pool' = pool /\ slot < pool.last
        BY <2>1, <1>5 DEF DropOld
      <3>2. c # Len(at)
        <4>1. Slot = at[Len(at)] /\ pool.last <= Slot /\ pool.last \in Nat /\ Slot \in Nat
          BY SlotNow, PartTypes
        <4> QED BY <4>1, <3>1, <1>5
      <3> QED BY <1>1, <1>4, <1>6, <1>7, <3>1, <3>2
    <2>2. CASE StoreBalance(i)
      <3>1. fetch.stage = "over" /\ pool' = [pool EXCEPT !.reserve[v] = c, !.last = slot]
        BY <2>2, <1>5, PartTypes DEF StoreBalance
      <3>2. pool \in [known : BOOLEAN, published : BOOLEAN, last : Nat, reserve : [Vault -> Nat]]
        BY PartTypes
      <3>3. pool'.reserve[v] = c /\ \A u \in Vault \ {v} : pool'.reserve[u] = pool.reserve[u]
        <4>1. pool' = [pool EXCEPT !.reserve[v] = c, !.last = slot]
          BY <3>1
        <4> QED BY <3>2, <4>1, Stored, ZenonT(60)
      <3>4. CASE w = v
        BY <1>1, <1>6, <3>1, <3>3, <3>4
      <3>5. CASE w # v
        BY <1>1, <1>4, <1>6, <1>7, <3>1, <3>3, <3>5
      <3> QED BY <3>4, <3>5
    <2> QED BY <1>2, <2>1, <2>2
  <1> QED BY <1>1, <1>4, <1>6, <1>7 DEF LastIsLatest

LEMMA StepLatest ==
  ASSUME TypeInv, LastIsLatest, [Next]_vars PROVE LastIsLatest'
  <1>1. CASE Change
    BY <1>1, ChangeLatest
  <1>2. ASSUME NEW i \in DOMAIN subs, HandleVaultUpdate(i) PROVE LastIsLatest'
    BY <1>2, HandleLatest
  <1>3. ASSUME UNCHANGED <<at, written, subs, smooth>>,
               \A v \in Vault : fetch.stage = "over" /\ pool.reserve[v] = Len(at) =>
                                  fetch'.stage = "over" /\ pool'.reserve[v] = Len(at)
        PROVE  LastIsLatest'
    <2>1. \A v \in Vault : Under(v)' <=> Under(v)
      BY <1>3 DEF Under
    <2> QED BY <1>3, <2>1 DEF LastIsLatest
  <1>4. CASE \/ Publish \/ AnswerFetch \/ SkipTickArray \/ UNCHANGED vars
             \/ \E v \in Vault : RegisterVault(v) \/ WriteFetched(v)
             \/ \E o \in DOMAIN others : HandleOther(o)
             \/ \E o \in PoolHandler : FindNone(o)
    <2>1. UNCHANGED <<at, written, subs, smooth>>
      BY <1>4 DEF Publish, AnswerFetch, SkipTickArray, RegisterVault, WriteFetched,
                  HandleOther, FindNone, vars
    <2>2. (fetch.stage = "over" => fetch' = fetch /\ pool'.reserve = pool.reserve)
      BY <1>4, PartTypes DEF Publish, AnswerFetch, SkipTickArray, RegisterVault,
                             WriteFetched, HandleOther, FindNone, vars
    <2> QED BY <2>1, <2>2, <1>3
  <1>5. CASE SubscribeToVaults
    <2> DEFINE new == [covers |-> registered, queue |-> <<>>]
    <2>1. /\ subs' = Append(subs, new) /\ subs \in Seq(Subscription) /\ new.queue = <<>>
          /\ UNCHANGED <<at, written, pool, fetch, smooth>>
      BY <1>5 DEF SubscribeToVaults, TypeInv, Types
    <2> HIDE DEF new
    <2>2. /\ Len(subs) \in Nat /\ DOMAIN subs' = 1..Len(subs) + 1 /\ DOMAIN subs = 1..Len(subs)
          /\ \A j \in DOMAIN subs : subs'[j] = subs[j]
          /\ subs'[Len(subs) + 1] = new
      BY <2>1
    <2>3. ASSUME NEW j \in DOMAIN subs', NEW k \in DOMAIN subs'[j].queue
          PROVE  j \in DOMAIN subs /\ subs'[j] = subs[j]
      <3>1. CASE j \in DOMAIN subs
        BY <2>2, <3>1
      <3>2. CASE j = Len(subs) + 1
        <4>1. DOMAIN subs'[j].queue = {}
          BY <2>1, <2>2, <3>2
        <4> QED BY <4>1, <2>3
      <3> QED BY <2>2, <3>1, <3>2
    <2>4. \A v \in Vault : Under(v) => Under(v)'
      <3> TAKE v \in Vault
      <3>1. DOMAIN subs \subseteq DOMAIN subs'
        BY <2>2
      <3> QED BY <2>1, <2>2, <3>1 DEF Under
    <2>5. ASSUME smooth, at # <<>>, NEW j \in DOMAIN subs', NEW k \in DOMAIN subs'[j].queue
          PROVE  \E l \in DOMAIN subs'[j].queue :
                   /\ k <= l /\ subs'[j].queue[l].vault = subs'[j].queue[k].vault
                   /\ subs'[j].queue[l].change = Len(at)
      <3>1. j \in DOMAIN subs /\ subs'[j] = subs[j]
        BY <2>3, <2>5
      <3>2. k \in DOMAIN subs[j].queue
        BY <2>5, <3>1
      <3>3. PICK l \in DOMAIN subs[j].queue :
              /\ k <= l /\ subs[j].queue[l].vault = subs[j].queue[k].vault
              /\ subs[j].queue[l].change = Len(at)
        BY <2>5, <3>1, <3>2 DEF LastIsLatest
      <3> QED BY <3>1, <3>3
    <2> QED BY <2>1, <2>4, <2>5 DEF LastIsLatest
  <1>6. CASE \E o \in PoolHandler : AddPool(o)
    BY <1>6 DEF AddPool, LastIsLatest
  <1> QED BY <1>1, <1>2, <1>4, <1>5, <1>6 DEF Next

LEMMA LatestIsBalance == TypeInv /\ LastIsLatest => ReserveIsBalance
  <1> SUFFICES ASSUME TypeInv, LastIsLatest, Drained, smooth, at # <<>>, NEW v \in Vault
      PROVE  pool.reserve[v] = Balance(v)
    BY DEF ReserveIsBalance
  <1>1. ~Under(v)
    BY DEF Drained, Under
  <1>2. pool.reserve[v] = Len(at) /\ Len(at) \in written[v]
    BY <1>1 DEF LastIsLatest
  <1>3. written[v] \subseteq 0..Len(at) /\ Len(at) \in Nat
    BY SlotNow DEF TypeInv, Sources
  <1>4. \A x \in written[v] : x \in Nat /\ Len(at) >= x
    BY <1>3
  <1>5. Balance(v) \in written[v] /\ \A x \in written[v] : Balance(v) >= x
    BY <1>2, <1>4 DEF Balance, Max
  <1>6. Balance(v) \in Nat /\ Len(at) >= Balance(v) /\ Balance(v) >= Len(at)
    BY <1>2, <1>4, <1>5
  <1> QED BY <1>2, <1>3, <1>6

\* Once everything has been delivered, the reserves are the balances, whatever the order and
\* the number of the deliveries, if nothing came in the way of the last change.
THEOREM EndsAtBalances == Spec => []ReserveIsBalance
  <1>1. VaultInit => TypeInv /\ LastIsLatest
    BY InitTypes DEF VaultInit, LastIsLatest
  <1>2. TypeInv /\ LastIsLatest /\ [Next]_vars => (TypeInv /\ LastIsLatest)'
    BY StepTypes, StepLatest
  <1> QED BY <1>1, <1>2, LatestIsBalance, PTL DEF Spec
=============================================================================
