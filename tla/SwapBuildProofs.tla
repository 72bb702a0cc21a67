--------------------------- MODULE SwapBuildProofs ---------------------------
(***************************************************************************)
(* What holds of the transaction that is built and of the hash it is given,*)
(* for every number of requests, every delay within DelayAssumption, all   *)
(* pools, lists, paths and amounts, and every quoter that answers with     *)
(* numbers (QuotesNumbers).                                                *)
(*                                                                         *)
(* Each step of a request that touches the cache is one of four of         *)
(* BlockhashCache or asks the node directly; all others leave hashVars     *)
(* alone.  EntriesAreRecent is what those steps hand on to each other.     *)
(* SwapInv says what the quote hands on to the builder: hops along its     *)
(* route, an amount that flows through its pools, ticks as they are.       *)
(***************************************************************************)
EXTENDS SwapBuild, TLAPS, WellFoundedInduction, FiniteSetTheorems, SequenceTheorems

HashInv == HashTypeOK /\ EntriesAreRecent /\ HashCanLand /\ NeverOverpromised

\* One request's part of the invariant, at the height h.
CallIsRight(c, h) ==
  /\ c \in Call
  /\ c.stage = "rpc" => c.since <= h /\ h - c.since <= Latency
  /\ c.cached # NoHash => c.cached.valid <= c.cached.block + Validity
  /\ c.given # NoHash /\ ~c.given.fallback => c.given.at < c.given.block + Validity
  /\ c.given # NoHash => c.given.valid <= c.given.block + Validity

\* The entry's part.
EntryIsRight(e, h) ==
  /\ e \in Cached
  /\ e # NoHash => /\ e.at <= h /\ e.block <= e.at
                   /\ e.at - e.block <= Lag + Latency
                   /\ e.valid <= e.block + Validity

LEMMA HashInvParts ==
  HashInv <=> /\ height \in Nat
              /\ EntryIsRight(current, height)
              /\ DOMAIN call = Req /\ call = [r \in Req |-> call[r]]
              /\ \A r \in Req : CallIsRight(call[r], height)
<1>1. call \in [Req -> Call] <=> /\ DOMAIN call = Req /\ call = [r \in Req |-> call[r]]
                                 /\ \A r \in Req : call[r] \in Call
  OBVIOUS
<1>2. QED
  BY <1>1 DEF HashInv, HashTypeOK, EntriesAreRecent, HashCanLand, NeverOverpromised,
              CallIsRight, EntryIsRight

LEMMA HashInvPartsNext ==
  HashInv' <=> /\ height' \in Nat
               /\ EntryIsRight(current', height')
               /\ DOMAIN call' = Req /\ call' = [r \in Req |-> call'[r]]
               /\ \A r \in Req : CallIsRight(call'[r], height')
<1>1. call' \in [Req -> Call] <=> /\ DOMAIN call' = Req /\ call' = [r \in Req |-> call'[r]]
                                  /\ \A r \in Req : call'[r] \in Call
  OBVIOUS
<1>2. QED
  BY <1>1 DEF HashInv, HashTypeOK, EntriesAreRecent, HashCanLand, NeverOverpromised,
              CallIsRight, EntryIsRight

\* A call changes to a right one, and the rest stays.
LEMMA OneCallChanges ==
  ASSUME HashInv, NEW r \in Req, NEW c, CallIsRight(c, height),
         call' = [call EXCEPT ![r] = c], UNCHANGED height, EntryIsRight(current', height)
  PROVE  HashInv'
<1>1. \A q \in Req : CallIsRight(call'[q], height')
  BY HashInvParts
<1>2. QED
  BY <1>1, HashInvParts, HashInvPartsNext

\* What a call returns when it did not fall back.
LEMMA ReturnIsRight ==
  ASSUME NEW c, NEW h \in Nat, CallIsRight(c, h), h = height,
         NEW b \in Nat, NEW v \in Nat, NEW fell \in BOOLEAN,
         v <= b + Validity, ~fell => h < b + Validity
  PROVE  CallIsRight(Return(c, b, v, fell), h)
<1> DEFINE g == [block |-> b, valid |-> v, at |-> height, fallback |-> fell]
           d == Return(c, b, v, fell)
<1>1. g \in Given /\ d \in Call /\ d.stage = "given" /\ d.cached = c.cached /\ d.given = g
  BY DEF CallIsRight, Return, Call, Given
<1>2. QED
  BY <1>1 DEF CallIsRight

\* An entry that is young enough serves the call.
LEMMA CachedIsServed ==
  ASSUME HashInv, NEW r \in Req, GetCached(r)
  PROVE  HashInv'
<1> DEFINE c == Return(call[r], current.block, current.valid, FALSE)
<1>1. height \in Nat /\ EntryIsRight(current, height) /\ CallIsRight(call[r], height)
  BY HashInvParts
<1>2. current \in Entry /\ current # NoHash /\ height - current.at < Fresh
  BY <1>1 DEF GetCached, IsFresh, EntryIsRight, Cached
<1>3. current.block \in Nat /\ current.valid \in Nat /\ current.at \in Nat
  BY <1>2 DEF Entry
<1>4. height < current.block + Validity
  BY <1>1, <1>2, <1>3, HashAssumption, DelayAssumption DEF EntryIsRight
<1>5. CallIsRight(c, height)
  BY <1>1, <1>2, <1>3, <1>4, ReturnIsRight DEF EntryIsRight
<1>6. call' = [call EXCEPT ![r] = c] /\ UNCHANGED <<height, current>>
  BY DEF GetCached
<1>7. QED
  BY <1>1, <1>5, <1>6, OneCallChanges

\* Another call goes to the node, with the entry it has seen.
LEMMA NodeIsAsked ==
  ASSUME HashInv, NEW r \in Req, AskNode(r)
  PROVE  HashInv'
<1> DEFINE c == [call[r] EXCEPT !.stage = "rpc", !.cached = current, !.since = height]
<1>1. height \in Nat /\ EntryIsRight(current, height) /\ CallIsRight(call[r], height)
  BY HashInvParts
<1>2. /\ c \in Call /\ c.stage = "rpc" /\ c.cached = current /\ c.since = height
      /\ c.given = call[r].given
  BY <1>1 DEF CallIsRight, EntryIsRight, Call
<1>3. CallIsRight(c, height)
  BY <1>1, <1>2, HashAssumption DEF CallIsRight, EntryIsRight
<1>4. call' = [call EXCEPT ![r] = c] /\ UNCHANGED <<height, current>>
  BY DEF AskNode
<1>5. QED
  BY <1>1, <1>3, <1>4, OneCallChanges

\* What the node answers is stored and returned.
LEMMA AnswerIsStored ==
  ASSUME HashInv, NEW r \in Req, NodeAnswers(r)
  PROVE  HashInv'
<1>1. height \in Nat /\ CallIsRight(call[r], height)
  BY HashInvParts
<1>2. /\ call[r].since \in Nat /\ call[r].since <= height
      /\ height - call[r].since <= Latency
  BY <1>1 DEF NodeAnswers, CallIsRight, Call
<1>3. PICK b \in Finalized(call[r].since) :
        /\ current' = Stored(b, b + Validity)
        /\ call' = [call EXCEPT ![r] = Return(call[r], b, b + Validity, FALSE)]
  BY DEF NodeAnswers
<1>4. b \in Nat /\ b <= height /\ height - b <= Lag + Latency
  BY <1>1, <1>2, <1>3, HashAssumption DEF Finalized
<1>5. b + Validity \in Nat /\ height < b + Validity /\ b + Validity <= b + Validity
  BY <1>1, <1>4, HashAssumption, DelayAssumption
<1>6. CallIsRight(Return(call[r], b, b + Validity, FALSE), height)
  BY <1>1, <1>4, <1>5, ReturnIsRight
<1>7. EntryIsRight(current', height)
  BY <1>1, <1>3, <1>4, <1>5 DEF EntryIsRight, Cached, Entry, Stored
<1>8. UNCHANGED height
  BY DEF NodeAnswers
<1>9. QED
  BY <1>3, <1>6, <1>7, <1>8, OneCallChanges

\* A call ends with an error.
LEMMA FailureIsRight ==
  ASSUME NEW c, NEW h \in Nat, CallIsRight(c, h)
  PROVE  CallIsRight([c EXCEPT !.stage = "failed"], h)
<1> DEFINE d == [c EXCEPT !.stage = "failed"]
<1>1. d \in Call /\ d.stage = "failed" /\ d.cached = c.cached /\ d.given = c.given
  BY DEF CallIsRight, Call
<1>2. QED
  BY <1>1 DEF CallIsRight

\* When the node fails, the entry that was seen serves after all.
LEMMA OldEntryIsServed ==
  ASSUME HashInv, NEW r \in Req, NodeFails(r)
  PROVE  HashInv'
<1> DEFINE e == call[r].cached
           c == IF e = NoHash THEN [call[r] EXCEPT !.stage = "failed"]
                ELSE Return(call[r], e.block, e.valid, TRUE)
<1>1. height \in Nat /\ EntryIsRight(current, height) /\ CallIsRight(call[r], height)
  BY HashInvParts
<1>2. CASE e = NoHash
  BY <1>1, <1>2, FailureIsRight, OneCallChanges DEF NodeFails
<1>3. CASE e # NoHash
  <2>1. e \in Entry /\ e.valid <= e.block + Validity
    BY <1>1, <1>3 DEF CallIsRight, Call, Cached
  <2>2. e.block \in Nat /\ e.valid \in Nat
    BY <2>1 DEF Entry
  <2>3. CallIsRight(Return(call[r], e.block, e.valid, TRUE), height)
    BY <1>1, <2>1, <2>2, ReturnIsRight
  <2>4. QED
    BY <1>1, <1>3, <2>3, OneCallChanges DEF NodeFails
<1>4. QED
  BY <1>2, <1>3

\* The builder for one pool asks the node itself.
LEMMA DirectAnswerIsRight ==
  ASSUME HashInv, NEW r \in Req, AskDirectly(r)
  PROVE  HashInv'
<1>1. height \in Nat /\ EntryIsRight(current, height) /\ CallIsRight(call[r], height)
  BY HashInvParts
<1>2. UNCHANGED <<height, current>>
  BY DEF AskDirectly
<1>3. CASE call' = [call EXCEPT ![r].stage = "failed"]
  BY <1>1, <1>2, <1>3, FailureIsRight, OneCallChanges
<1>4. CASE call[r].stage = "none" /\ call' = [call EXCEPT ![r].stage = "rpc", ![r].since = height]
  <2> DEFINE c == [call[r] EXCEPT !.stage = "rpc", !.since = height]
  <2>1. /\ c \in Call /\ c.stage = "rpc" /\ c.cached = call[r].cached /\ c.since = height
        /\ c.given = call[r].given
    BY <1>1 DEF CallIsRight, Call
  <2>2. CallIsRight(c, height)
    BY <1>1, <2>1, HashAssumption DEF CallIsRight
  <2>3. call' = [call EXCEPT ![r] = c]
    BY <1>4
  <2>4. QED
    BY <1>1, <1>2, <2>2, <2>3, OneCallChanges
<1>5. CASE call[r].stage = "rpc" /\ \E b \in Finalized(call[r].since) :
             call' = [call EXCEPT ![r] = Return(call[r], b, b + Validity, FALSE)]
  <2>1. PICK b \in Finalized(call[r].since) :
          call' = [call EXCEPT ![r] = Return(call[r], b, b + Validity, FALSE)]
    BY <1>5
  <2>2. call[r].since \in Nat /\ call[r].since <= height /\ height - call[r].since <= Latency
    BY <1>1, <1>5 DEF CallIsRight, Call
  <2>3. b \in Nat /\ b <= height /\ height - b <= Lag + Latency
    BY <1>1, <2>1, <2>2, HashAssumption DEF Finalized
  <2>4. b + Validity \in Nat /\ height < b + Validity /\ b + Validity <= b + Validity
    BY <1>1, <2>3, HashAssumption, DelayAssumption
  <2>5. CallIsRight(Return(call[r], b, b + Validity, FALSE), height)
    BY <1>1, <2>3, <2>4, ReturnIsRight
  <2>6. QED
    BY <1>1, <1>2, <2>1, <2>5, OneCallChanges
<1>6. QED
  BY <1>3, <1>4, <1>5 DEF AskDirectly

\* Time passes, but not beyond what a call may take.
LEMMA BlocksPass ==
  ASSUME HashInv, NextBlock
  PROVE  HashInv'
<1>1. height \in Nat /\ EntryIsRight(current, height)
      /\ \A r \in Req : CallIsRight(call[r], height)
  BY HashInvParts
<1>2. height' = height + 1 /\ UNCHANGED <<current, call>>
  BY DEF NextBlock
<1>3. EntryIsRight(current', height')
  <2>1. current \in Entry => current.at \in Nat
    BY DEF Entry
  <2>2. QED
    BY <1>1, <1>2, <2>1 DEF EntryIsRight, Cached
<1>4. ASSUME NEW r \in Req PROVE CallIsRight(call'[r], height')
  <2>1. call[r].since \in Nat
    BY <1>1 DEF CallIsRight, Call
  <2>2. call[r].stage = "rpc" => height - call[r].since < Latency
    BY DEF NextBlock
  <2>3. QED
    BY <1>1, <1>2, <2>1, <2>2, HashAssumption DEF CallIsRight
<1>5. QED
  BY <1>1, <1>2, <1>3, <1>4, HashInvParts, HashInvPartsNext

\* The stream of blocks renews the entry.
LEMMA MetadataAreStored ==
  ASSUME HashInv, HandleBlockMeta
  PROVE  HashInv'
<1>1. height \in Nat
  BY HashInvParts
<1>2. PICK b \in {h \in 0..height : h >= height - StreamLag}, known \in BOOLEAN :
        current' = Stored(b, (IF known THEN b ELSE 0) + Validity)
  BY DEF HandleBlockMeta
<1>3. b \in Nat /\ b <= height /\ height - b <= Lag + Latency
  BY <1>1, <1>2, HashAssumption, DelayAssumption
<1>4. EntryIsRight(current', height)
  BY <1>1, <1>2, <1>3, HashAssumption DEF EntryIsRight, Cached, Entry, Stored
<1>5. UNCHANGED <<height, call>>
  BY DEF HandleBlockMeta
<1>6. QED
  BY <1>4, <1>5, HashInvParts, HashInvPartsNext

LEMMA HashInvInitially == SwapInit => HashInv
<1> SUFFICES ASSUME SwapInit PROVE HashInv
  OBVIOUS
<1>1. height = Lag /\ height \in Nat /\ call = [r \in Req |-> NoCall]
  BY HashAssumption DEF SwapInit, HashInit
<1>2. EntryIsRight(current, height)
  <2>1. CASE current = NoHash
    BY <2>1 DEF EntryIsRight, Cached
  <2>2. CASE \E b \in 0..Lag : current = [block |-> b, valid |-> b + Validity, at |-> Lag]
    BY <1>1, <2>2, HashAssumption DEF EntryIsRight, Cached, Entry
  <2>3. QED
    BY <2>1, <2>2 DEF SwapInit, HashInit
<1>3. CallIsRight(NoCall, height)
  BY <1>1 DEF CallIsRight, NoCall, Call, Cached, Given
<1>4. QED
  BY <1>1, <1>2, <1>3, HashInvParts

LEMMA HashInvAlways == HashInv /\ [Next]_vars => HashInv'
<1> SUFFICES ASSUME HashInv, [Next]_vars PROVE HashInv'
  OBVIOUS
<1>1. CASE UNCHANGED hashVars
  <2>1. UNCHANGED <<height, current, call>>
    BY <1>1 DEF hashVars
  <2>2. QED
    BY <2>1, HashInvParts, HashInvPartsNext
<1>2. CASE UNCHANGED vars
  BY <1>1, <1>2 DEF vars
<1>3. CASE MovePool
  BY <1>1, <1>3 DEF MovePool
<1>4. CASE NextBlock
  BY <1>4, BlocksPass
<1>5. CASE HandleBlockMeta
  BY <1>5, MetadataAreStored
<1>6. ASSUME NEW r \in Req,
             \/ RequestSwap(r) \/ RequestSession(r) \/ ReadHop(r) \/ ProgramsFail(r)
             \/ EndAccounts(r) \/ TakeHash(r) \/ Answer(r)
      PROVE  HashInv'
  BY <1>1, <1>6 DEF RequestSwap, RequestSession, ReadHop, ProgramsFail, EndAccounts,
                    TakeHash, Answer
<1>7. ASSUME NEW r \in Req, AskHash(r) PROVE HashInv'
  <2>1. AskDirectly(r) \/ GetBlockhash(r)
    BY <1>7 DEF AskHash
  <2>2. QED
    BY <2>1, CachedIsServed, NodeIsAsked, AnswerIsStored, OldEntryIsServed,
       DirectAnswerIsRight DEF GetBlockhash
<1>8. QED
  BY <1>2, <1>3, <1>4, <1>5, <1>6, <1>7 DEF Next

LEMMA HashInvHolds == Spec => []HashInv
<1>1. QED
  BY HashInvInitially, HashInvAlways, PTL DEF Spec

\* No transaction is made with a hash that has expired, unless the node failed: the
\* delays of node, stream, call and cache add up to less than the validity
\* (GetBlockhash and the direct call of the session builder).
THEOREM HashesCanLand == Spec => []HashCanLand
<1>1. HashInv => HashCanLand
  BY DEF HashInv
<1>2. QED
  BY <1>1, HashInvHolds, PTL

\* And no answer promises that a transaction is good for longer than its hash is
\* (LastValidBlockHeight of GetBlockhash).
THEOREM HashesAreGood == Spec => []HashIsGood
<1>1. HashInv => HashIsGood
  BY DEF HashInv, HashIsGood
<1>2. QED
  BY <1>1, HashInvHolds, PTL

-----------------------------------------------------------------------------
\* The quoter answers with numbers.
QuotesNumbers ==
  \A s \in State, a \in Nat :
    /\ ~Fails(s, a, TRUE) => Give(s, a) \in Nat
    /\ ~Fails(s, a, FALSE) => Take(s, a) \in Nat

\* The hops that a quote may have, and those that lead from one token to another.
Hops == [pool : Pool, aToB : BOOLEAN]

HopJoins(h, from, to) ==
  h \in Hops /\ Takes(h.pool, h.aToB) = from /\ Pays(h.pool, h.aToB) = to

\* A pool, as it is, takes the one amount and gives the other.
Swaps(s, in, out, exactIn) ==
  IF exactIn THEN ~Fails(s, in, TRUE) /\ out = Give(s, in)
             ELSE ~Fails(s, out, FALSE) /\ in = Take(s, out)

\* An offer of a pool in the state s: numbers, and none where it fails.
OfferIsRight(o, s, amount, exactIn) ==
  /\ o \in [in : Nat, out : Nat, ok : BOOLEAN]
  /\ o.ok => Swaps(s, o.in, o.out, exactIn) /\ (IF exactIn THEN o.in ELSE o.out) = amount
  /\ ~o.ok => o.in = 0 /\ o.out = 0

\* PoolQuote.
LEMMA Offers ==
  ASSUME QuotesNumbers, pool \in [Pool -> State],
         NEW p \in Pool, NEW amount \in Nat, NEW exactIn \in BOOLEAN
  PROVE  OfferIsRight(PoolQuote(p, amount, exactIn), pool[p], amount, exactIn)
<1>1. pool[p] \in State
  OBVIOUS
<1>2. CASE exactIn
  BY <1>1, <1>2 DEF QuotesNumbers, OfferIsRight, PoolQuote, NoOffer, Swaps
<1>3. CASE ~exactIn
  BY <1>1, <1>3 DEF QuotesNumbers, OfferIsRight, PoolQuote, NoOffer, Swaps
<1>4. QED
  BY <1>2, <1>3

\* A pool that is listed for a pair swaps the one token for the other.
LEMMA Listed ==
  ASSUME NEW from \in Token, NEW to \in Token, NEW i \in DOMAIN PoolsOf[<<from, to>>]
  PROVE  /\ PoolsOf[<<from, to>>] \in Seq(Pool)
         /\ PoolsOf[<<from, to>>][i] \in Pool
         /\ HopJoins(Hop(PoolsOf[<<from, to>>][i], from), from, to)
<1> DEFINE e == <<from, to>>
           p == PoolsOf[e][i]
<1>1. e \in Token \X Token /\ PoolsOf[e] \in Seq(Pool)
  BY ListsAssumption
<1>2. p \in Pool
  BY <1>1
<1>3. {MintA[p], MintB[p]} = {from, to} /\ MintA[p] # MintB[p]
  BY <1>1, <1>2, ListsAssumption, PoolsAssumption
<1>4. QED
  BY <1>1, <1>2, <1>3 DEF HopJoins, Hops, Hop, Takes, Pays

\* Arithmetic of the even split.
LEMMA Parts ==
  ASSUME NEW a \in Nat, NEW b \in Nat
  PROVE  (a * b) \div 100 \in Nat
<1>1. a * b \in Nat
  OBVIOUS
<1>2. QED
  BY <1>1

LEMMA AtMostThree ==
  ASSUME NEW l \in Nat, l > 0, NEW n, n = IF l > 3 THEN 3 ELSE l
  PROVE  n \in 1..3 /\ n <= l
  OBVIOUS

LEMMA ThreeAdded ==
  ASSUME NEW a \in Nat, NEW b \in Nat, NEW c \in Nat
  PROVE  a + b + c \in Nat /\ (a + b + c > 0 => a # 0 \/ b # 0 \/ c # 0)
  OBVIOUS

\* EvenSplit: numbers, and the pool that is named is one of the list.
LEMMA EvenSplits ==
  ASSUME QuotesNumbers, pool \in [Pool -> State], NEW pools \in Seq(Pool), Len(pools) > 0,
         NEW amount \in Nat, NEW exactIn \in BOOLEAN,
         NEW e, e = EvenSplit(pools, amount, exactIn)
  PROVE  /\ e.in \in Nat /\ e.out \in Nat /\ e.ok \in BOOLEAN
         /\ e.ok => e.first \in DOMAIN pools
<1> DEFINE n == IF Len(pools) > 3 THEN 3 ELSE Len(pools)
           share(i) == 100 \div n + (IF i = 1 THEN 100 % n ELSE 0)
           part == [i \in 1..3 |->
                      IF i > n THEN NoOffer
                      ELSE PoolQuote(pools[i], (amount * share(i)) \div 100, exactIn)]
           answering == {i \in 1..3 : part[i].ok}
           out == part[1].out + part[2].out + part[3].out
           in == part[1].in + part[2].in + part[3].in
<1>1. n \in 1..3 /\ n <= Len(pools)
  <2>1. Len(pools) \in Nat
    OBVIOUS
  <2>2. n = IF Len(pools) > 3 THEN 3 ELSE Len(pools)
    OBVIOUS
  <2> HIDE DEF n
  <2>3. QED
    BY <2>1, <2>2, AtMostThree
<1>2. ASSUME NEW i \in 1..3, i <= n
      PROVE  part[i] \in [in : Nat, out : Nat, ok : BOOLEAN] /\ (~part[i].ok => part[i].out = 0)
  <2>1. share(i) \in Nat
    <3> HIDE DEF n
    <3>1. CASE n = 1
      BY <3>1
    <3>2. CASE n = 2
      BY <3>2
    <3>3. CASE n = 3
      BY <3>3
    <3>4. QED
      BY <1>1, <3>1, <3>2, <3>3
  <2>2. pools[i] \in Pool
    <3> HIDE DEF n
    <3>1. QED
      BY <1>1, <1>2
  <2> DEFINE a == (amount * share(i)) \div 100
  <2>3. a \in Nat
    <3> HIDE DEF share, n
    <3>1. QED
      BY <2>1, Parts
  <2>4. part[i] = PoolQuote(pools[i], a, exactIn)
    <3> HIDE DEF share, n
    <3>1. QED
      BY <1>1, <1>2
  <2> HIDE DEF a, share, n, part
  <2>5. OfferIsRight(part[i], pool[pools[i]], a, exactIn)
    BY <2>2, <2>3, <2>4, Offers
  <2>6. QED
    BY <2>5 DEF OfferIsRight
<1>3. ASSUME NEW i \in 1..3, i > n
      PROVE  part[i] = NoOffer
  BY <1>3
<1>4. ASSUME NEW i \in 1..3
      PROVE  /\ part[i].in \in Nat /\ part[i].out \in Nat
             /\ part[i].out # 0 => part[i].ok
             /\ part[i].ok => i <= n
  <2> HIDE DEF n, part
  <2>1. CASE i <= n
    BY <1>2, <2>1
  <2>2. CASE i > n
    <3>1. part[i] = NoOffer
      BY <1>3, <2>2
    <3>2. QED
      BY <2>2, <3>1 DEF NoOffer
  <2>3. QED
    BY <1>1, <2>1, <2>2
<1>5. in \in Nat /\ out \in Nat /\ (out > 0 => answering # {})
  <2> HIDE DEF n, part
  <2>1. /\ part[1].in \in Nat /\ part[2].in \in Nat /\ part[3].in \in Nat
        /\ part[1].out \in Nat /\ part[2].out \in Nat /\ part[3].out \in Nat
    BY <1>4
  <2>2. /\ in \in Nat /\ out \in Nat
        /\ out > 0 => part[1].out # 0 \/ part[2].out # 0 \/ part[3].out # 0
    BY <2>1, ThreeAdded
  <2>3. ASSUME NEW i \in 1..3, part[i].out # 0 PROVE answering # {}
    BY <1>4, <2>3
  <2> HIDE DEF in, out, answering
  <2>4. QED
    BY <2>2, <2>3
<1>6. answering # {} => Min(answering) \in answering
  <2> HIDE DEF part
  <2>1. \A i \in answering : i = 1 \/ i = 2 \/ i = 3
    OBVIOUS
  <2> HIDE DEF answering
  <2>2. answering # {} => \E x \in answering : \A y \in answering : x =< y
    BY <2>1
  <2>3. QED
    BY <2>2 DEF Min
<1>7. e = [in |-> in, out |-> out, ok |-> out > 0,
           first |-> IF answering = {} THEN 0 ELSE Min(answering)]
  BY DEF EvenSplit
<1>8. answering \subseteq DOMAIN pools
  <2> HIDE DEF n, part
  <2>1. Len(pools) \in Nat
    OBVIOUS
  <2>2. ASSUME NEW i \in answering PROVE i \in 1..Len(pools)
    BY <1>1, <1>4, <2>1
  <2>3. QED
    BY <2>2
<1>9. QED
  <2> HIDE DEF in, out, answering
  <2>1. /\ e.in = in /\ e.out = out /\ e.ok = (out > 0)
        /\ e.first = IF answering = {} THEN 0 ELSE Min(answering)
    BY <1>7
  <2>2. ASSUME e.ok PROVE e.first \in DOMAIN pools
    <3>1. answering # {}
      BY <1>5, <2>1, <2>2
    <3>2. QED
      BY <1>6, <1>8, <2>1, <3>1
  <2>3. QED
    BY <1>5, <2>1, <2>2

\* A set of naturals that is not empty has a least element.
LEMMA LeastNat ==
  ASSUME NEW T, T \subseteq Nat, T # {}
  PROVE  \E k \in T : \A j \in T : k <= j
<1> DEFINE Below(k) == 0..(k - 1)
           B == {Below(k) : k \in T}
           R == StrictSubsetOrdering(Nat)
<1>1. B \subseteq FiniteSubsetsOf(Nat) /\ B # {}
  <2>1. \A k \in T : IsFiniteSet(Below(k)) /\ Below(k) \subseteq Nat
    BY FS_Interval
  <2>2. QED
    BY <2>1 DEF FiniteSubsetsOf
<1>2. IsWellFoundedOn(R, FiniteSubsetsOf(Nat))
  BY FS_StrictSubsetOrderingWellFounded
<1> HIDE DEF R
<1>3. PICK x \in B : \A y \in B : ~(<<y, x>> \in R)
  <2> HIDE DEF B
  <2>1. QED
    BY <1>1, <1>2, WFMin
<1>4. PICK k \in T : x = Below(k)
  OBVIOUS
<1>5. ASSUME NEW j \in T, j < k PROVE FALSE
  <2>1. Below(j) \subseteq Below(k) /\ Below(j) # Below(k)
    <3>1. j \in Below(k) /\ j \notin Below(j)
      BY <1>5
    <3>2. QED
      BY <3>1, <1>5
  <2>2. Below(j) \in B /\ Below(j) \in SUBSET Nat /\ Below(k) \in SUBSET Nat
    OBVIOUS
  <2>3. <<Below(j), x>> \in R
    BY <1>4, <2>1, <2>2 DEF R, StrictSubsetOrdering
  <2>4. QED
    BY <1>3, <2>2, <2>3
<1>6. QED
  <2>1. \A j \in T : ~(j < k)
    BY <1>5
  <2>2. QED
    BY <2>1

\* The function g on 0..n that begins with a and goes on by F.
Follows(g, n, a, F) ==
  g \in [0..n -> Nat] /\ g[0] = a /\ \A i \in 1..n : g[i] = F[<<i, g[i - 1]>>]

\* There is one: at the least place up to which there were none, there would be.
LEMMA Recursion ==
  ASSUME NEW n \in Nat, NEW a \in Nat, NEW F \in [(1..n) \X Nat -> Nat]
  PROVE  \E g : Follows(g, n, a, F)
<1> DEFINE S == Nat
           P(k) == \E g \in [0..k -> S] :
                     g[0] = a /\ \A i \in 1..k : g[i] = F[<<i, g[i - 1]>>]
           T == {k \in 0..n : ~P(k)}
<1>1. P(0)
  <2> DEFINE g == [i \in 0..0 |-> a]
  <2>1. g \in [0..0 -> S] /\ g[0] = a /\ 1..0 = {}
    OBVIOUS
  <2>2. QED
    BY <2>1
<1>2. ASSUME NEW k \in 1..n, P(k - 1) PROVE P(k)
  <2>1. PICK g \in [0..(k - 1) -> S] :
          g[0] = a /\ \A i \in 1..(k - 1) : g[i] = F[<<i, g[i - 1]>>]
    BY <1>2
  <2> DEFINE h == [i \in 0..k |-> IF i = k THEN F[<<k, g[k - 1]>>] ELSE g[i]]
  <2>2. k - 1 \in 0..(k - 1) /\ g[k - 1] \in S
    OBVIOUS
  <2>3. F[<<k, g[k - 1]>>] \in S
    BY <2>2
  <2>4. \A i \in 0..k : i # k => i \in 0..(k - 1)
    OBVIOUS
  <2>5. h \in [0..k -> S] /\ h[0] = a
    BY <2>1, <2>3, <2>4
  <2>6. ASSUME NEW i \in 1..k PROVE h[i] = F[<<i, h[i - 1]>>]
    <3>1. h[i - 1] = g[i - 1]
      OBVIOUS
    <3>2. CASE i = k
      <4>1. h[k] = F[<<k, g[k - 1]>>]
        OBVIOUS
      <4> HIDE DEF h
      <4>2. QED
        BY <3>1, <3>2, <4>1
    <3>3. CASE i # k
      BY <2>1, <2>4, <3>1, <3>3
    <3>4. QED
      BY <3>2, <3>3
  <2> HIDE DEF h
  <2>7. QED
    BY <2>5, <2>6
<1> HIDE DEF P
<1>3. SUFFICES ASSUME ~P(n) PROVE FALSE
  BY DEF P, Follows
<1>4. n \in T /\ T \subseteq Nat
  BY <1>3
<1>5. PICK k \in T : \A j \in T : k <= j
  <2> HIDE DEF T
  <2>1. QED
    BY <1>4, LeastNat
<1>6. k \in 1..n /\ k - 1 \in 0..n /\ k - 1 \notin T
  BY <1>1, <1>5
<1>7. P(k - 1) /\ ~P(k)
  BY <1>5, <1>6
<1>8. QED
  BY <1>2, <1>6, <1>7

\* Two functions on 0..n that begin alike and go on alike are alike: at the least place
\* where they were not, they would be.
Alike(f, g, n) == \A i \in 0..n : f[i] = g[i]
AlikeSoFar(f, g, n) ==
  f[0] = g[0] /\ \A i \in 1..n : f[i - 1] = g[i - 1] => f[i] = g[i]

LEMMA Agreement ==
  ASSUME NEW n \in Nat, NEW f, NEW g, AlikeSoFar(f, g, n)
  PROVE  Alike(f, g, n)
<1> DEFINE T == {i \in 0..n : f[i] # g[i]}
<1>1. SUFFICES ASSUME T # {} PROVE FALSE
  BY DEF Alike
<1>2. T \subseteq Nat
  OBVIOUS
<1>3. PICK k \in T : \A j \in T : k <= j
  <2> HIDE DEF T
  <2>1. QED
    BY <1>1, <1>2, LeastNat
<1>4. k \in 1..n /\ k - 1 \in 0..n /\ k - 1 \notin T
  BY <1>3 DEF AlikeSoFar
<1>5. QED
  BY <1>3, <1>4 DEF AlikeSoFar

\* The quote of an edge: its hop leads over it and, where one pool was quoted on all
\* of the amount, that pool swaps it.
EdgeIsRight(e, from, to, amount, exactIn) ==
  /\ e.ok \in BOOLEAN /\ e.in \in Nat /\ e.out \in Nat
  /\ e.ok => HopJoins(e.hop, from, to)
  /\ e.ok /\ e.alone => /\ Swaps(pool[e.hop.pool], e.in, e.out, exactIn)
                        /\ (IF exactIn THEN e.in ELSE e.out) = amount

\* EdgeQuote.
LEMMA Edges ==
  ASSUME QuotesNumbers, pool \in [Pool -> State], NEW from \in Token, NEW to \in Token,
         NEW amount \in Nat, NEW exactIn \in BOOLEAN
  PROVE  EdgeIsRight(EdgeQuote(from, to, amount, exactIn), from, to, amount, exactIn)
<1> DEFINE pools == PoolsOf[<<from, to>>]
           single == PoolQuote(pools[1], amount, exactIn)
           split == EvenSplit(pools, amount, exactIn)
           useSplit == /\ Len(pools) > 1 /\ amount >= SplitFrom /\ split.ok
                       /\ single.ok => Better(split, single, exactIn)
           e == EdgeQuote(from, to, amount, exactIn)
<1>1. pools \in Seq(Pool) /\ Len(pools) \in Nat
  <2>1. <<from, to>> \in Token \X Token
    OBVIOUS
  <2>2. QED
    BY <2>1, ListsAssumption
<1>2. CASE pools = <<>>
  <2>1. e = [ok |-> FALSE, in |-> 0, out |-> 0]
    BY <1>2 DEF EdgeQuote
  <2>2. QED
    BY <2>1 DEF EdgeIsRight
<1>3. CASE pools # <<>>
  <2>1. Len(pools) > 0 /\ 1 \in DOMAIN pools
    <3> HIDE DEF pools
    <3>1. QED
      BY <1>1, <1>3
  <2>2. CASE useSplit
    <3>1. e = [ok |-> TRUE, in |-> split.in, out |-> split.out, alone |-> FALSE,
               hop |-> Hop(pools[split.first], from)]
      <4> HIDE DEF useSplit, split
      <4>1. useSplit /\ pools # <<>>
        BY <1>3, <2>2
      <4>2. QED
        BY <4>1 DEF EdgeQuote, useSplit, split
    <3>2. split.in \in Nat /\ split.out \in Nat /\ split.first \in DOMAIN pools
      <4>1. split.ok
        BY <2>2
      <4> HIDE DEF pools
      <4>2. QED
        BY <1>1, <2>1, <4>1, EvenSplits
    <3>3. HopJoins(Hop(pools[split.first], from), from, to)
      <4> HIDE DEF split
      <4>1. QED
        BY <3>2, Listed
    <3> HIDE DEF split, pools
    <3>4. QED
      BY <3>1, <3>2, <3>3 DEF EdgeIsRight
  <2>3. CASE ~useSplit
    <3>1. e = [ok |-> single.ok, in |-> single.in, out |-> single.out, alone |-> TRUE,
               hop |-> Hop(pools[1], from)]
      BY <1>3, <2>3 DEF EdgeQuote
    <3>2. pools[1] \in Pool /\ HopJoins(Hop(pools[1], from), from, to)
      BY <2>1, Listed
    <3>3. OfferIsRight(single, pool[pools[1]], amount, exactIn)
      <4> HIDE DEF pools
      <4>1. QED
        BY <3>2, Offers
    <3>4. /\ e.ok = single.ok /\ e.in = single.in /\ e.out = single.out
          /\ e.hop = Hop(pools[1], from) /\ e.hop.pool = pools[1]
      <4> HIDE DEF single, pools
      <4>1. QED
        BY <3>1 DEF Hop
    <3>5. EdgeIsRight(e, from, to, amount, exactIn)
      <4> HIDE DEF single, pools, e
      <4>1. QED
        BY <3>2, <3>3, <3>4 DEF EdgeIsRight, OfferIsRight
    <3>6. QED
      BY <3>5
  <2>4. QED
    BY <2>2, <2>3
<1>4. QED
  BY <1>2, <1>3

\* What flows between the hops of a quote, from its input to its output.
Flow(q, f, exactIn, p) ==
  /\ f \in [0..Len(q.hops) -> Nat]
  /\ f[0] = q.in /\ f[Len(q.hops)] = q.out
  /\ \A i \in 1..Len(q.hops) : Swaps(p[q.hops[i].pool], f[i - 1], f[i], exactIn)

\* The hops of a quote lead along its route.
QuoteJoins(q) ==
  /\ q.route \in Seq(Token) /\ Len(q.route) > 1
  /\ q.hops \in Seq(Hops) /\ Len(q.hops) > 0
  /\ q.in \in Nat /\ q.out \in Nat
  /\ ~q.isSplit => /\ Len(q.hops) = Len(q.route) - 1
                   /\ \A i \in 1..Len(q.hops) : HopJoins(q.hops[i], q.route[i], q.route[i + 1])
  /\ q.parts = "one" => ~q.isSplit

\* And there is a flow through its pools, where a plan is all there is to the quote.
QuoteIsRight(q, exactIn) ==
  QuoteJoins(q) /\ (q.parts = "one" => \E f : Flow(q, f, exactIn, pool))

\* The quote of an edge between the amounts at its two ends.
EdgeFits(e, from, to, in, out, exactIn) ==
  e.ok => HopJoins(e.hop, from, to) /\ (e.alone => Swaps(pool[e.hop.pool], in, out, exactIn))

\* Edges that fit end to end make a quote.
LEMMA PathQuoteIsRight ==
  ASSUME NEW path \in Paths, NEW n, n = Len(path) - 1, NEW f \in [0..n -> Nat],
         NEW edges, DOMAIN edges = 1..n, NEW exactIn \in BOOLEAN,
         \A i \in 1..n : EdgeFits(edges[i], path[i], path[i + 1], f[i - 1], f[i], exactIn),
         NEW q \in PathQuote(path, edges, f[0], f[n])
  PROVE  QuoteIsRight(q, exactIn) /\ ~q.isSplit
<1>1. path \in Seq(Token) /\ Len(path) > 1 /\ Len(path) \in Nat
  BY ListsAssumption
<1>2. n \in Nat /\ n > 0 /\ n = Len(path) - 1
  BY <1>1
<1>3. /\ \A i \in 1..n : edges[i].ok
      /\ q = QuoteOf(path, [i \in 1..n |-> edges[i].hop], f[0], f[n], FALSE, <<>>,
                    IF \A i \in DOMAIN edges : edges[i].alone THEN "one" ELSE "edge")
  BY DEF PathQuote
<1> DEFINE hops == [i \in 1..n |-> edges[i].hop]
<1>4. ASSUME NEW i \in 1..n
      PROVE  /\ HopJoins(hops[i], path[i], path[i + 1]) /\ hops[i] \in Hops
             /\ edges[i].alone => Swaps(pool[hops[i].pool], f[i - 1], f[i], exactIn)
  <2>1. hops[i] = edges[i].hop /\ edges[i].ok
    BY <1>3
  <2>2. EdgeFits(edges[i], path[i], path[i + 1], f[i - 1], f[i], exactIn)
    OBVIOUS
  <2> HIDE DEF hops
  <2>3. QED
    BY <2>1, <2>2 DEF EdgeFits, HopJoins
<1>5. hops \in Seq(Hops) /\ Len(hops) = n
  <2>1. hops \in [1..n -> Hops]
    BY <1>4
  <2> HIDE DEF hops
  <2>2. hops \in Seq(Hops)
    BY <1>2, <2>1, SeqDef
  <2>3. Len(hops) \in Nat /\ DOMAIN hops = 1..Len(hops) /\ DOMAIN hops = 1..n
    BY <2>1, <2>2, LenProperties
  <2>4. Len(hops) = n
    <3>1. n \in 1..Len(hops) /\ Len(hops) >= n
      BY <1>2, <2>3
    <3>2. Len(hops) \in 1..n
      BY <1>2, <2>3, <3>1
    <3>3. QED
      BY <1>2, <2>3, <3>1, <3>2
  <2>5. QED
    BY <2>2, <2>4
<1>6. /\ q.route = path /\ q.hops = hops /\ q.in = f[0] /\ q.out = f[n]
      /\ q.isSplit = FALSE
      /\ q.parts = IF \A i \in DOMAIN edges : edges[i].alone THEN "one" ELSE "edge"
  BY <1>3 DEF QuoteOf
<1> HIDE DEF hops
<1>7. ASSUME q.parts = "one" PROVE Flow(q, f, exactIn, pool)
  <2>1. \A i \in 1..n : edges[i].alone
    BY <1>6, <1>7
  <2>2. QED
    BY <1>4, <1>5, <1>6, <2>1 DEF Flow
<1>8. f[0] \in Nat /\ f[n] \in Nat
  BY <1>2
<1>9. QED
  BY <1>1, <1>2, <1>4, <1>5, <1>6, <1>7, <1>8 DEF QuoteIsRight, QuoteJoins

\* The tokens of a path.
LEMMA PathTokens ==
  ASSUME NEW path \in Paths, NEW n, n = Len(path) - 1
  PROVE  n \in Nat /\ n > 0 /\ \A i \in 1..n : path[i] \in Token /\ path[i + 1] \in Token
<1>1. path \in Seq(Token) /\ Len(path) > 1 /\ Len(path) \in Nat
  BY ListsAssumption
<1>2. QED
  BY <1>1

\* PathForward: the recursion is that of the flow.
LEMMA PathsForward ==
  ASSUME QuotesNumbers, pool \in [Pool -> State], NEW path \in Paths, NEW amount \in Nat,
         NEW q \in PathForward(path, amount)
  PROVE  QuoteIsRight(q, TRUE) /\ ~q.isSplit
<1> DEFINE n == Len(path) - 1
           F == [x \in (1..n) \X Nat |-> EdgeQuote(path[x[1]], path[x[1] + 1], x[2], TRUE).out]
           Is(h) == h = [i \in 0..n |-> IF i = 0 THEN amount
                                       ELSE EdgeQuote(path[i], path[i + 1], h[i - 1], TRUE).out]
           flow == CHOOSE h : Is(h)
           edges == [i \in 1..n |-> EdgeQuote(path[i], path[i + 1], flow[i - 1], TRUE)]
<1>1. n \in Nat /\ n > 0 /\ \A i \in 1..n : path[i] \in Token /\ path[i + 1] \in Token
  BY PathTokens
<1>2. q \in PathQuote(path, edges, amount, flow[n])
  BY DEF PathForward
<1> HIDE DEF n
<1>3. ASSUME NEW i \in 1..n, NEW x \in Nat
      PROVE  /\ EdgeIsRight(EdgeQuote(path[i], path[i + 1], x, TRUE), path[i], path[i + 1], x, TRUE)
             /\ EdgeQuote(path[i], path[i + 1], x, TRUE).out \in Nat
             /\ F[<<i, x>>] = EdgeQuote(path[i], path[i + 1], x, TRUE).out
  <2>1. EdgeIsRight(EdgeQuote(path[i], path[i + 1], x, TRUE), path[i], path[i + 1], x, TRUE)
    BY <1>1, Edges
  <2>2. QED
    BY <2>1 DEF EdgeIsRight
<1>4. F \in [(1..n) \X Nat -> Nat]
  BY <1>3
<1>5. PICK g : Follows(g, n, amount, F)
  <2> HIDE DEF F
  <2>1. QED
    BY <1>1, <1>4, Recursion
<1>6. \A i \in 1..n : g[i] = EdgeQuote(path[i], path[i + 1], g[i - 1], TRUE).out
  <2>1. \A i \in 1..n : i - 1 \in 0..n /\ g[i - 1] \in Nat
    BY <1>1, <1>5 DEF Follows
  <2> HIDE DEF F
  <2>2. QED
    BY <1>3, <1>5, <2>1 DEF Follows
<1>7. Is(g)
  <2>1. \A i \in 0..n : i # 0 => i \in 1..n
    BY <1>1
  <2>2. g[0] = amount /\ g = [i \in 0..n |-> g[i]]
    BY <1>5 DEF Follows
  <2>3. QED
    BY <1>6, <2>1, <2>2
<1>8. Is(flow)
  <2> HIDE DEF Is
  <2>1. QED
    BY <1>7
<1>9. /\ flow[0] = amount
      /\ \A i \in 1..n : flow[i] = EdgeQuote(path[i], path[i + 1], flow[i - 1], TRUE).out
      /\ flow = [i \in 0..n |-> flow[i]]
  <2> HIDE DEF flow
  <2>1. \A i \in 1..n : i \in 0..n /\ i # 0
    BY <1>1
  <2>2. 0 \in 0..n
    BY <1>1
  <2>3. flow = [i \in 0..n |-> IF i = 0 THEN amount
                             ELSE EdgeQuote(path[i], path[i + 1], flow[i - 1], TRUE).out]
    BY <1>8
  <2>4. flow[0] = amount
    BY <2>2, <2>3, Zenon
  <2>5. \A i \in 1..n : flow[i] = EdgeQuote(path[i], path[i + 1], flow[i - 1], TRUE).out
    BY <2>1, <2>3, Zenon
  <2>6. flow = [i \in 0..n |-> flow[i]]
    BY <2>3, Zenon
  <2>7. QED
    BY <2>4, <2>5, <2>6
<1>10. flow \in [0..n -> Nat]
  <2> HIDE DEF flow
  <2>1. AlikeSoFar(flow, g, n)
    <3>1. flow[0] = g[0]
      BY <1>5, <1>9 DEF Follows
    <3>2. ASSUME NEW i \in 1..n, flow[i - 1] = g[i - 1] PROVE flow[i] = g[i]
      <4>1. flow[i] = EdgeQuote(path[i], path[i + 1], flow[i - 1], TRUE).out
        BY <1>9
      <4>2. g[i] = EdgeQuote(path[i], path[i + 1], g[i - 1], TRUE).out
        BY <1>6
      <4>3. QED
        BY <3>2, <4>1, <4>2
    <3>3. QED
      BY <3>1, <3>2 DEF AlikeSoFar
  <2>2. Alike(flow, g, n)
    BY <1>1, <2>1, Agreement
  <2>3. QED
    BY <1>5, <1>9, <2>2 DEF Alike, Follows
<1>11. ASSUME NEW i \in 1..n
       PROVE  EdgeFits(edges[i], path[i], path[i + 1], flow[i - 1], flow[i], TRUE)
  <2> HIDE DEF flow
  <2>1. i - 1 \in 0..n /\ flow[i - 1] \in Nat
    BY <1>1, <1>10
  <2>2. EdgeIsRight(edges[i], path[i], path[i + 1], flow[i - 1], TRUE)
    BY <1>3, <2>1
  <2>3. flow[i] = edges[i].out
    BY <1>9
  <2> HIDE DEF edges
  <2>4. QED
    BY <2>2, <2>3 DEF EdgeIsRight, EdgeFits
<1>12. DOMAIN edges = 1..n /\ n = Len(path) - 1
  BY DEF n
<1> HIDE DEF edges, flow
<1>13. q \in PathQuote(path, edges, flow[0], flow[n])
  BY <1>2, <1>9
<1>14. QED
  BY <1>10, <1>11, <1>12, <1>13, PathQuoteIsRight

\* PathBackward: the same from the other end.
LEMMA PathsBackward ==
  ASSUME QuotesNumbers, pool \in [Pool -> State], NEW path \in Paths, NEW amount \in Nat,
         NEW q \in PathBackward(path, amount)
  PROVE  QuoteIsRight(q, FALSE) /\ ~q.isSplit
<1> DEFINE n == Len(path) - 1
           F == [x \in (1..n) \X Nat |->
                   EdgeQuote(path[n + 1 - x[1]], path[n + 2 - x[1]], x[2], FALSE).in]
           Is(h) == h = [i \in 0..n |->
                           IF i = 0 THEN amount
                           ELSE EdgeQuote(path[n + 1 - i], path[n + 2 - i], h[i - 1], FALSE).in]
           need == CHOOSE h : Is(h)
           edges == [i \in 1..n |-> EdgeQuote(path[i], path[i + 1], need[n - i], FALSE)]
           f == [i \in 0..n |-> need[n - i]]
<1>1. n \in Nat /\ n > 0 /\ \A i \in 1..n : path[i] \in Token /\ path[i + 1] \in Token
  BY PathTokens
<1>2. q \in PathQuote(path, edges, need[n], amount)
  BY DEF PathBackward
<1> HIDE DEF n
<1>3. ASSUME NEW i \in 1..n, NEW x \in Nat
      PROVE  /\ EdgeIsRight(EdgeQuote(path[i], path[i + 1], x, FALSE), path[i], path[i + 1], x, FALSE)
             /\ EdgeQuote(path[i], path[i + 1], x, FALSE).in \in Nat
  <2>1. EdgeIsRight(EdgeQuote(path[i], path[i + 1], x, FALSE), path[i], path[i + 1], x, FALSE)
    BY <1>1, Edges
  <2>2. QED
    BY <2>1 DEF EdgeIsRight
<1>4. ASSUME NEW i \in 1..n
      PROVE  /\ n + 1 - i \in 1..n /\ n + 2 - i = (n + 1 - i) + 1 /\ i - 1 \in 0..n
             /\ i \in 0..n /\ i # 0
  BY <1>1
<1>5. ASSUME NEW i \in 1..n, NEW x \in Nat
      PROVE  /\ EdgeQuote(path[n + 1 - i], path[n + 2 - i], x, FALSE).in \in Nat
             /\ F[<<i, x>>] = EdgeQuote(path[n + 1 - i], path[n + 2 - i], x, FALSE).in
  <2>1. EdgeQuote(path[n + 1 - i], path[n + 2 - i], x, FALSE).in \in Nat
    BY <1>3, <1>4
  <2>2. QED
    BY <2>1
<1>6. F \in [(1..n) \X Nat -> Nat]
  BY <1>5
<1>7. PICK g : Follows(g, n, amount, F)
  <2> HIDE DEF F
  <2>1. QED
    BY <1>1, <1>6, Recursion
<1>8. \A i \in 1..n : g[i] = EdgeQuote(path[n + 1 - i], path[n + 2 - i], g[i - 1], FALSE).in
  <2>1. \A i \in 1..n : g[i - 1] \in Nat
    BY <1>4, <1>7 DEF Follows
  <2> HIDE DEF F
  <2>2. QED
    BY <1>5, <1>7, <2>1 DEF Follows
<1>9. Is(g)
  <2>1. \A i \in 0..n : i # 0 => i \in 1..n
    BY <1>1
  <2>2. g[0] = amount /\ g = [i \in 0..n |-> g[i]]
    BY <1>7 DEF Follows
  <2>3. QED
    BY <1>8, <2>1, <2>2
<1>10. Is(need)
  <2> HIDE DEF Is
  <2>1. QED
    BY <1>9
<1>11. /\ need[0] = amount
       /\ \A i \in 1..n :
            need[i] = EdgeQuote(path[n + 1 - i], path[n + 2 - i], need[i - 1], FALSE).in
       /\ need = [i \in 0..n |-> need[i]]
  <2> HIDE DEF need
  <2>1. 0 \in 0..n
    BY <1>1
  <2>2. need = [i \in 0..n |->
                  IF i = 0 THEN amount
                  ELSE EdgeQuote(path[n + 1 - i], path[n + 2 - i], need[i - 1], FALSE).in]
    BY <1>10
  <2>3. need[0] = amount
    BY <2>1, <2>2, Zenon
  <2>4. \A i \in 1..n :
          need[i] = EdgeQuote(path[n + 1 - i], path[n + 2 - i], need[i - 1], FALSE).in
    BY <1>4, <2>2, Zenon
  <2>5. need = [i \in 0..n |-> need[i]]
    BY <2>2, Zenon
  <2>6. QED
    BY <2>3, <2>4, <2>5
<1>12. need \in [0..n -> Nat]
  <2> HIDE DEF need
  <2>1. AlikeSoFar(need, g, n)
    <3>1. need[0] = g[0]
      BY <1>7, <1>11 DEF Follows
    <3>2. ASSUME NEW i \in 1..n, need[i - 1] = g[i - 1] PROVE need[i] = g[i]
      <4>1. need[i] = EdgeQuote(path[n + 1 - i], path[n + 2 - i], need[i - 1], FALSE).in
        BY <1>11
      <4>2. g[i] = EdgeQuote(path[n + 1 - i], path[n + 2 - i], g[i - 1], FALSE).in
        BY <1>8
      <4>3. QED
        BY <3>2, <4>1, <4>2
    <3>3. QED
      BY <3>1, <3>2 DEF AlikeSoFar
  <2>2. Alike(need, g, n)
    BY <1>1, <2>1, Agreement
  <2>3. QED
    BY <1>7, <1>11, <2>2 DEF Alike, Follows
<1>13. f \in [0..n -> Nat] /\ f[0] = need[n] /\ f[n] = amount
  <2> HIDE DEF need
  <2>1. ASSUME NEW i \in 0..n PROVE n - i \in 0..n
    BY <1>1
  <2>2. f \in [0..n -> Nat]
    BY <1>12, <2>1
  <2>3. 0 \in 0..n /\ n \in 0..n /\ n - 0 = n /\ n - n = 0
    BY <1>1
  <2>4. QED
    BY <1>11, <2>2, <2>3
<1>14. ASSUME NEW i \in 1..n
       PROVE  EdgeFits(edges[i], path[i], path[i + 1], f[i - 1], f[i], FALSE)
  <2> HIDE DEF need
  <2>1. /\ n - i \in 0..n /\ i \in 0..n /\ i - 1 \in 0..n /\ n + 1 - i \in 1..n
        /\ n - (i - 1) = n + 1 - i /\ (n + 1 - i) - 1 = n - i
        /\ n + 1 - (n + 1 - i) = i /\ n + 2 - (n + 1 - i) = i + 1
    BY <1>1
  <2>2. need[n - i] \in Nat /\ f[i] = need[n - i] /\ f[i - 1] = need[n + 1 - i]
    BY <1>12, <2>1
  <2>3. EdgeIsRight(edges[i], path[i], path[i + 1], need[n - i], FALSE)
    BY <1>3, <2>2
  <2>4. need[n + 1 - i] = edges[i].in
    <3>1. need[n + 1 - i] = EdgeQuote(path[n + 1 - (n + 1 - i)], path[n + 2 - (n + 1 - i)],
                                      need[(n + 1 - i) - 1], FALSE).in
      BY <1>11, <2>1
    <3>2. QED
      BY <2>1, <3>1
  <2> HIDE DEF edges, f
  <2>5. QED
    BY <2>2, <2>3, <2>4 DEF EdgeIsRight, EdgeFits
<1>15. DOMAIN edges = 1..n /\ n = Len(path) - 1
  BY DEF n
<1> HIDE DEF edges, need, f
<1>16. q \in PathQuote(path, edges, f[0], f[n])
  BY <1>2, <1>13
<1>17. QED
  BY <1>13, <1>14, <1>15, <1>16, PathQuoteIsRight

LEMMA PathQuotesAreRight ==
  ASSUME QuotesNumbers, pool \in [Pool -> State], NEW path \in Paths, NEW amount \in Nat,
         NEW exactIn \in BOOLEAN, NEW q \in PathQuotes(path, amount, exactIn)
  PROVE  QuoteIsRight(q, exactIn) /\ ~q.isSplit
<1>1. CASE exactIn
  BY <1>1, PathsForward DEF PathQuotes
<1>2. CASE ~exactIn
  BY <1>2, PathsBackward DEF PathQuotes
<1>3. QED
  BY <1>1, <1>2

\* DirectQuotes.
LEMMA DirectQuotesAreRight ==
  ASSUME QuotesNumbers, pool \in [Pool -> State], NEW from \in Token, NEW to \in Token,
         NEW amount \in Nat, NEW exactIn \in BOOLEAN,
         NEW q \in DirectQuotes(from, to, amount, exactIn)
  PROVE  QuoteIsRight(q, exactIn) /\ Len(q.hops) = 1 /\ q.parts = "one"
<1> DEFINE pools == PoolsOf[<<from, to>>]
<1>1. PICK p \in {x \in Range(pools) : PoolQuote(x, amount, exactIn).ok} :
        q = QuoteOf(<<from, to>>, <<Hop(p, from)>>, PoolQuote(p, amount, exactIn).in,
                    PoolQuote(p, amount, exactIn).out, FALSE, <<>>, "one")
  BY DEF DirectQuotes
<1>2. PICK i \in DOMAIN pools : p = pools[i]
  BY <1>1 DEF Range
<1>3. p \in Pool /\ HopJoins(Hop(p, from), from, to)
  <2> HIDE DEF pools
  <2>1. QED
    BY <1>2, Listed DEF pools
<1> DEFINE o == PoolQuote(p, amount, exactIn)
           f == [j \in 0..1 |-> IF j = 0 THEN o.in ELSE o.out]
<1>4. OfferIsRight(o, pool[p], amount, exactIn) /\ o.ok
  BY <1>1, <1>3, Offers
<1>5. o.in \in Nat /\ o.out \in Nat /\ Swaps(pool[p], o.in, o.out, exactIn)
  <2> HIDE DEF o
  <2>1. QED
    BY <1>4 DEF OfferIsRight
<1>6. /\ q.route = <<from, to>> /\ q.hops = <<Hop(p, from)>> /\ q.in = o.in /\ q.out = o.out
      /\ q.isSplit = FALSE /\ q.parts = "one"
  BY <1>1 DEF QuoteOf
<1> HIDE DEF o
<1>7. Len(q.hops) = 1 /\ q.hops \in Seq(Hops) /\ q.hops[1] = Hop(p, from)
  BY <1>3, <1>6 DEF HopJoins
<1>8. q.route \in Seq(Token) /\ Len(q.route) = 2 /\ q.route[1] = from /\ q.route[2] = to
  BY <1>6
<1>9. f \in [0..1 -> Nat] /\ f[0] = o.in /\ f[1] = o.out
  BY <1>5
<1>10. q.hops[1].pool = p
  BY <1>7 DEF Hop
<1> HIDE DEF f
<1>11. Flow(q, f, exactIn, pool)
  BY <1>5, <1>6, <1>7, <1>9, <1>10 DEF Flow
<1>12. QED
  BY <1>3, <1>5, <1>6, <1>7, <1>8, <1>11 DEF QuoteIsRight, QuoteJoins

\* A division over the pools of a pair.
DivisionIsRight(d, from, to) ==
  /\ d.pools \in Seq(Pool)
  /\ \A i \in 1..Len(d.pools) : HopJoins(Hop(d.pools[i], from), from, to)
  /\ d.in \in Nat /\ d.out \in Nat

\* Divisions.
LEMMA DivisionsAreRight ==
  ASSUME QuotesNumbers, pool \in [Pool -> State], NEW from \in Token, NEW to \in Token,
         NEW amount \in Nat, NEW exactIn \in BOOLEAN, NEW n \in Shares,
         Len(PoolsOf[<<from, to>>]) >= 2
  PROVE  DivisionIsRight(Division(from, to, amount, n, exactIn), from, to)
<1> DEFINE pools == PoolsOf[<<from, to>>]
           percent == <<n, 100 - n>>
           share(i) == (amount * percent[i]) \div 100
           part(i) == IF share(i) > 0 THEN PoolQuote(pools[i], share(i), exactIn) ELSE NoOffer
           place(i) == IF part(i).ok THEN <<i>> ELSE <<>>
           taken == place(1) \o place(2)
           of == [i \in DOMAIN taken |-> pools[taken[i]]]
           d == Division(from, to, amount, n, exactIn)
<1>1. d = [pools |-> of, percents |-> [i \in DOMAIN taken |-> percent[taken[i]]],
           in |-> amount, out |-> part(1).out + part(2).out]
  BY DEF Division
<1>2. pools \in Seq(Pool) /\ 1 \in DOMAIN pools /\ 2 \in DOMAIN pools
  <2>1. <<from, to>> \in Token \X Token
    OBVIOUS
  <2>2. pools \in Seq(Pool)
    BY <2>1, ListsAssumption
  <2>3. Len(pools) >= 2 /\ Len(pools) \in Nat /\ DOMAIN pools = 1..Len(pools)
    <3> HIDE DEF pools
    <3>1. Len(pools) >= 2
      BY DEF pools
    <3>2. QED
      BY <2>2, <3>1
  <2> HIDE DEF pools
  <2>4. QED
    BY <2>2, <2>3
<1>3. n \in Nat /\ 100 - n \in Nat
  BY NumbersAssumption
<1>4. ASSUME NEW i \in {1, 2} PROVE part(i).out \in Nat
  <2>1. percent[i] \in Nat
    BY <1>3
  <2>2. share(i) \in Nat
    <3> HIDE DEF percent
    <3>1. QED
      BY <2>1, Parts
  <2>3. pools[i] \in Pool
    <3> HIDE DEF pools
    <3>1. QED
      BY <1>2
  <2> HIDE DEF pools, share
  <2>4. CASE share(i) > 0
    <3>1. OfferIsRight(PoolQuote(pools[i], share(i), exactIn), pool[pools[i]], share(i), exactIn)
      BY <2>2, <2>3, Offers
    <3>2. QED
      BY <2>4, <3>1 DEF OfferIsRight
  <2>5. CASE ~(share(i) > 0)
    BY <2>5 DEF NoOffer
  <2>6. QED
    BY <2>4, <2>5
<1>5. part(1).out + part(2).out \in Nat
  <2>1. part(1).out \in Nat /\ part(2).out \in Nat
    <3> HIDE DEF part
    <3>1. QED
      BY <1>4
  <2> HIDE DEF part
  <2>2. QED
    BY <2>1
<1>6. taken \in Seq({1, 2})
  <2> HIDE DEF part
  <2>1. place(1) \in Seq({1, 2}) /\ place(2) \in Seq({1, 2})
    OBVIOUS
  <2> HIDE DEF place
  <2>2. QED
    BY <2>1
<1> HIDE DEF taken
<1>7. ASSUME NEW i \in DOMAIN taken
      PROVE  /\ taken[i] \in DOMAIN pools /\ of[i] \in Pool
             /\ HopJoins(Hop(of[i], from), from, to)
  <2>1. taken[i] \in {1, 2}
    BY <1>6
  <2>2. taken[i] \in DOMAIN pools
    <3> HIDE DEF pools
    <3>1. QED
      BY <1>2, <2>1
  <2>3. of[i] = pools[taken[i]]
    OBVIOUS
  <2>4. QED
    BY <2>2, <2>3, Listed
<1>8. of \in Seq(Pool) /\ DOMAIN of = 1..Len(of) /\ DOMAIN of = DOMAIN taken
  <2>1. Len(taken) \in Nat /\ DOMAIN taken = 1..Len(taken)
    BY <1>6
  <2>2. of \in [1..Len(taken) -> Pool] /\ DOMAIN of = DOMAIN taken
    BY <1>7, <2>1
  <2> HIDE DEF of
  <2>3. of \in Seq(Pool)
    BY <2>1, <2>2, SeqDef
  <2>4. QED
    BY <2>2, <2>3, LenProperties
<1>9. d.pools = of /\ d.in = amount /\ d.out = part(1).out + part(2).out
  BY <1>1
<1> HIDE DEF of, part, d
<1>10. DivisionIsRight(d, from, to)
  BY <1>5, <1>7, <1>8, <1>9 DEF DivisionIsRight
<1>11. QED
  BY <1>10 DEF d

LEMMA FastSplitsAreRight ==
  ASSUME NEW from \in Token, NEW to \in Token, NEW exactIn \in BOOLEAN,
         NEW d, DivisionIsRight(d, from, to), d.pools # <<>>
  PROVE  QuoteIsRight(FastSplit(from, to, d), exactIn)
<1> DEFINE q == FastSplit(from, to, d)
           h == Hop(d.pools[1], from)
<1>1. d.pools \in Seq(Pool) /\ Len(d.pools) \in Nat /\ Len(d.pools) > 0
  BY DEF DivisionIsRight
<1>2. HopJoins(h, from, to) /\ h \in Hops
  BY <1>1 DEF DivisionIsRight, HopJoins
<1>3. /\ q.route = <<from, to>> /\ q.hops = <<h>> /\ q.in = d.in /\ q.out = d.out
      /\ q.parts = "split"
  BY DEF FastSplit, QuoteOf
<1> HIDE DEF h
<1>4. /\ q.hops \in Seq(Hops) /\ Len(q.hops) = 1 /\ q.hops[1] = h
      /\ q.route \in Seq(Token) /\ Len(q.route) = 2 /\ q.route[1] = from /\ q.route[2] = to
  BY <1>2, <1>3
<1> HIDE DEF q
<1>5. QuoteIsRight(q, exactIn)
  BY <1>2, <1>3, <1>4 DEF QuoteIsRight, QuoteJoins, DivisionIsRight
<1>6. QED
  BY <1>5 DEF q

LEMMA SlowSplitsAreRight ==
  ASSUME NEW from \in Token, NEW to \in Token, NEW exactIn \in BOOLEAN,
         NEW d, DivisionIsRight(d, from, to), d.pools # <<>>
  PROVE  QuoteIsRight(SlowSplit(from, to, d), exactIn)
<1> DEFINE q == SlowSplit(from, to, d)
           n == Len(d.pools)
           hops == [i \in DOMAIN d.pools |-> Hop(d.pools[i], from)]
<1>1. d.pools \in Seq(Pool) /\ n \in Nat /\ n > 0 /\ DOMAIN d.pools = 1..n
  BY DEF DivisionIsRight
<1>2. ASSUME NEW i \in 1..n
      PROVE  hops[i] = Hop(d.pools[i], from) /\ HopJoins(hops[i], from, to) /\ hops[i] \in Hops
  BY <1>1 DEF DivisionIsRight, HopJoins
<1>3. hops \in Seq(Hops) /\ Len(hops) = n
  <2>1. hops \in [1..n -> Hops]
    BY <1>1, <1>2
  <2> HIDE DEF hops
  <2>2. hops \in Seq(Hops)
    BY <1>1, <2>1, SeqDef
  <2>3. Len(hops) \in Nat /\ 1..Len(hops) = 1..n
    BY <2>1, <2>2, LenProperties
  <2>4. n \in 1..Len(hops) /\ Len(hops) \in 1..n
    <3>1. n \in 1..n /\ n \in 1..Len(hops)
      BY <1>1, <2>3
    <3>2. Len(hops) \in 1..Len(hops)
      BY <1>1, <2>3, <3>1
    <3>3. QED
      BY <2>3, <3>1, <3>2
  <2>5. QED
    BY <1>1, <2>2, <2>3, <2>4
<1>4. /\ q.route = <<from, to>> /\ q.hops = hops /\ q.in = d.in /\ q.out = d.out
      /\ q.parts = "split"
  BY DEF SlowSplit, QuoteOf
<1>5. q.isSplit = (n > 1)
  BY DEF SlowSplit, QuoteOf
<1> HIDE DEF hops, n
<1>6. q.route \in Seq(Token) /\ Len(q.route) = 2 /\ q.route[1] = from /\ q.route[2] = to
  BY <1>4
<1> HIDE DEF q
<1>7. CASE n > 1
  <2>1. q.isSplit = TRUE
    BY <1>5, <1>7
  <2>2. QED
    BY <1>1, <1>3, <1>4, <1>6, <2>1 DEF QuoteIsRight, QuoteJoins, DivisionIsRight, q
<1>8. CASE n = 1
  <2>1. Len(q.hops) = 1 /\ q.hops[1] = hops[1] /\ HopJoins(q.hops[1], q.route[1], q.route[2])
    BY <1>2, <1>3, <1>4, <1>6, <1>8
  <2>2. \A i \in 1..Len(q.hops) : HopJoins(q.hops[i], q.route[i], q.route[i + 1])
    <3>1. \A i \in 1..Len(q.hops) : i = 1 /\ i + 1 = 2
      BY <2>1
    <3>2. QED
      BY <2>1, <3>1
  <2>3. /\ Len(q.hops) = Len(q.route) - 1 /\ Len(q.hops) > 0 /\ Len(q.route) > 1
        /\ q.hops \in Seq(Hops) /\ q.in \in Nat /\ q.out \in Nat /\ q.parts # "one"
    <3>1. Len(q.hops) = Len(q.route) - 1 /\ Len(q.hops) > 0 /\ Len(q.route) > 1
      BY <1>6, <2>1
    <3>2. d.in \in Nat /\ d.out \in Nat
      BY DEF DivisionIsRight
    <3>3. QED
      BY <1>3, <1>4, <3>1, <3>2
  <2>4. QuoteIsRight(q, exactIn)
    BY <1>6, <2>2, <2>3 DEF QuoteIsRight, QuoteJoins
  <2>5. QED
    BY <2>4 DEF q
<1>9. QED
  BY <1>1, <1>7, <1>8

\* PathSplits: the route and the hops of the first of two.
LEMMA PathSplitsAreRight ==
  ASSUME QuotesNumbers, pool \in [Pool -> State], NEW from \in Token, NEW to \in Token,
         NEW amount \in Nat, NEW exactIn \in BOOLEAN,
         NEW q \in PathSplits(from, to, amount, exactIn)
  PROVE  QuoteIsRight(q, exactIn)
<1> DEFINE small == amount \div 2
           large == amount - amount \div 2
<1>1. small \in Nat /\ large \in Nat
  OBVIOUS
<1> HIDE DEF small, large
<1>2. PICK p1, p2, q1, q2 :
        /\ p1 \in Paths /\ p2 \in Paths
        /\ q1 \in PathQuotes(p1, large, exactIn)
        /\ q2 \in PathQuotes(p2, small, exactIn)
        /\ q = QuoteOf(q1.route, q1.hops, q1.in + q2.in, q1.out + q2.out, FALSE, <<>>, "paths")
  <2>1. PICK both, pair :
          /\ both \in {pq \in PathsFor(from, to) \X PathsFor(from, to) : pq[1] # pq[2]}
          /\ pair \in PathQuotes(both[1], large, exactIn) \X PathQuotes(both[2], small, exactIn)
          /\ q = QuoteOf(pair[1].route, pair[1].hops, pair[1].in + pair[2].in,
                         pair[1].out + pair[2].out, FALSE, <<>>, "paths")
    BY DEF PathSplits, small, large
  <2>2. both[1] \in Paths /\ both[2] \in Paths
    BY <2>1 DEF PathsFor
  <2>3. pair[1] \in PathQuotes(both[1], large, exactIn) /\ pair[2] \in PathQuotes(both[2], small, exactIn)
    BY <2>1
  <2>4. QED
    BY <2>1, <2>2, <2>3
<1>3. QuoteIsRight(q1, exactIn) /\ QuoteIsRight(q2, exactIn) /\ ~q1.isSplit
  BY <1>1, <1>2, PathQuotesAreRight
<1>4. q1.in + q2.in \in Nat /\ q1.out + q2.out \in Nat
  BY <1>3 DEF QuoteIsRight, QuoteJoins
<1>5. /\ q.route = q1.route /\ q.hops = q1.hops /\ q.isSplit = FALSE /\ q.parts = "paths"
      /\ q.in = q1.in + q2.in /\ q.out = q1.out + q2.out
  BY <1>2 DEF QuoteOf
<1>6. QED
  BY <1>3, <1>4, <1>5 DEF QuoteIsRight, QuoteJoins

\* Whatever the router answers is a quote over pools that join up, and over whole pools
\* it says what these pools, as they are, do.
LEMMA AnswersAreRight ==
  ASSUME QuotesNumbers, pool \in [Pool -> State], NEW from \in Token, NEW to \in Token,
         NEW amount \in Nat, NEW exactIn \in BOOLEAN,
         NEW q \in Answers(from, to, amount, exactIn)
  PROVE  QuoteIsRight(q, exactIn)
<1>1. CASE q \in DirectQuotes(from, to, amount, exactIn)
  BY <1>1, DirectQuotesAreRight
<1> DEFINE routes == UNION {PathQuotes(p, amount, exactIn) : p \in PathsFor(from, to)}
<1>2. CASE q \in routes
  <2>1. PICK p \in PathsFor(from, to) : q \in PathQuotes(p, amount, exactIn)
    BY <1>2
  <2>2. p \in Paths
    BY DEF PathsFor
  <2>3. QED
    BY <2>1, <2>2, PathQuotesAreRight
<1>3. CASE q \in PoolSplits(from, to, amount, exactIn)
  <2>1. PICK d \in Divisions(from, to, amount, exactIn) :
          q = FastSplit(from, to, d) \/ q = SlowSplit(from, to, d)
    BY <1>3 DEF PoolSplits
  <2>2. Len(PoolsOf[<<from, to>>]) >= 2
    <3>1. <<from, to>> \in Token \X Token
      OBVIOUS
    <3>2. Len(PoolsOf[<<from, to>>]) \in Nat
      BY <3>1, ListsAssumption
    <3>3. ~(Len(PoolsOf[<<from, to>>]) < 2)
      BY DEF Divisions
    <3>4. QED
      BY <3>2, <3>3
  <2>3. PICK n \in Shares : d = Division(from, to, amount, n, exactIn)
    BY <2>1 DEF Divisions
  <2>4. d.pools # <<>>
    BY DEF Divisions
  <2>5. DivisionIsRight(d, from, to)
    BY <2>2, <2>3, DivisionsAreRight
  <2>6. QED
    BY <2>1, <2>4, <2>5, FastSplitsAreRight, SlowSplitsAreRight
<1>4. CASE q \in PathSplits(from, to, amount, exactIn)
  BY <1>4, PathSplitsAreRight
<1>5. QED
  BY <1>1, <1>2, <1>3, <1>4 DEF Answers

\* The stages of a request; those where there is a quote, and where all ticks are read.
Stages == {"idle", "accounts", "hash", "send", "answered", "refused", "panicked"}
Ready == {"hash", "send", "answered"}
Begun == {"accounts"} \cup Ready

\* One request's part of the invariant, while the pools are p: types, and from the
\* first hop on a quote whose hops are its route; while no pool of it moves, the flow is
\* still there and the ticks are still those of the pools.
BuildIsRight(b, p) ==
  /\ b \in [stage : Stages, entry : Entries, exactIn : BOOLEAN, slippage : 0..(2 * Half - 1),
            quote : {b.quote}, ticks : {b.ticks}, moved : BOOLEAN]
  /\ b.quote.hops \in Seq(Hops) /\ b.ticks \in Seq({TickOf[s] : s \in State})
  /\ Len(b.ticks) <= Len(b.quote.hops)
  /\ b.stage \in Ready => Len(b.ticks) = Len(b.quote.hops)
  /\ b.stage \in Begun =>
       /\ QuoteJoins(b.quote)
       /\ b.entry = "swap" => b.slippage # 0
       /\ b.entry = "sessionDirect" => Len(b.quote.hops) = 1 /\ b.quote.parts = "one"
       /\ ~b.moved =>
            /\ b.quote.parts = "one" => \E f : Flow(b.quote, f, b.exactIn, p)
            /\ \A i \in 1..Len(b.ticks) : b.ticks[i] = TickOf[p[b.quote.hops[i].pool]]

\* The inductive invariant.
SwapInv ==
  /\ pool \in [Pool -> State] /\ moves \in 0..MaxMoves
  /\ build = [r \in Req |-> build[r]]
  /\ \A r \in Req : BuildIsRight(build[r], pool)

\* A request changes to a right one, and the rest stays.
LEMMA OneBuildChanges ==
  ASSUME SwapInv, NEW r \in Req, NEW c, BuildIsRight(c, pool),
         build' = [build EXCEPT ![r] = c], UNCHANGED <<pool, moves>>
  PROVE  SwapInv'
<1>1. \A s \in Req : BuildIsRight(build'[s], pool')
  BY DEF SwapInv
<1>2. build' = [s \in Req |-> build'[s]]
  BY DEF SwapInv
<1>3. QED
  BY <1>1, <1>2 DEF SwapInv

LEMMA StageChanges ==
  ASSUME NEW b, NEW p, BuildIsRight(b, p), NEW s \in Stages,
         s \in Ready => Len(b.ticks) = Len(b.quote.hops),
         s \in Begun => b.stage \in Begun
  PROVE  BuildIsRight([b EXCEPT !.stage = s], p)
<1> DEFINE c == [b EXCEPT !.stage = s]
<1>1. /\ c \in [stage : Stages, entry : Entries, exactIn : BOOLEAN, slippage : 0..(2 * Half - 1),
                quote : {c.quote}, ticks : {c.ticks}, moved : BOOLEAN]
      /\ c.stage = s /\ c.entry = b.entry /\ c.exactIn = b.exactIn /\ c.slippage = b.slippage
      /\ c.quote = b.quote /\ c.ticks = b.ticks /\ c.moved = b.moved
  BY DEF BuildIsRight
<1> HIDE DEF c
<1>2. BuildIsRight(c, p)
  BY <1>1 DEF BuildIsRight
<1>3. QED
  BY <1>2 DEF c

\* A request begins with a right quote.
LEMMA BeginIsRight ==
  ASSUME NEW a \in Asked, NEW slippage \in 0..(2 * Half - 1), NEW q,
         QuoteIsRight(q, a.exactIn), a.entry = "swap" => slippage # 0,
         a.entry = "sessionDirect" => Len(q.hops) = 1 /\ q.parts = "one"
  PROVE  BuildIsRight(Begin(a, slippage, q), pool)
<1> DEFINE s == IF a.entry # "sessionDirect" /\ Len(q.hops) > MaxHops THEN "refused"
                ELSE IF Len(q.hops) >= Len(q.route) THEN "panicked" ELSE "accounts"
           c == Begin(a, slippage, q)
<1>1. a.entry \in Entries /\ a.exactIn \in BOOLEAN
  BY NumbersAssumption
<1>2. c = [stage |-> s, entry |-> a.entry, exactIn |-> a.exactIn, slippage |-> slippage,
           quote |-> q, ticks |-> <<>>, moved |-> FALSE]
  <2>1. c = [Idle EXCEPT !.entry = a.entry, !.exactIn = a.exactIn, !.slippage = slippage,
                         !.quote = q, !.stage = s]
    BY DEF Begin
  <2> HIDE DEF s, c
  <2>2. QED
    BY <2>1 DEF Idle
<1>3. s \in {"refused", "panicked", "accounts"}
  OBVIOUS
<1> HIDE DEF s
<1>4. /\ c \in [stage : Stages, entry : Entries, exactIn : BOOLEAN, slippage : 0..(2 * Half - 1),
                quote : {c.quote}, ticks : {c.ticks}, moved : BOOLEAN]
      /\ c.stage = s /\ c.entry = a.entry /\ c.exactIn = a.exactIn /\ c.slippage = slippage
      /\ c.quote = q /\ c.ticks = <<>> /\ c.moved = FALSE
  BY <1>1, <1>2, <1>3 DEF Stages
<1> HIDE DEF c
<1>5. c.ticks \in Seq({TickOf[x] : x \in State}) /\ Len(c.ticks) = 0 /\ s \notin Ready
  BY <1>3, <1>4 DEF Ready
<1>6. QuoteJoins(q) /\ q.hops \in Seq(Hops) /\ Len(q.hops) \in Nat
      /\ (q.parts = "one" => \E f : Flow(q, f, a.exactIn, pool))
  BY DEF QuoteIsRight, QuoteJoins
<1>7. BuildIsRight(c, pool)
  BY <1>4, <1>5, <1>6 DEF BuildIsRight
<1>8. QED
  BY <1>7 DEF c

LEMMA RequestsForSwaps ==
  ASSUME QuotesNumbers, SwapInv, NEW r \in Req, RequestSwap(r)
  PROVE  SwapInv'
<1>1. PICK a, q :
        /\ a \in Asked
        /\ a.entry = "swap"
        /\ q \in Answers(a.from, a.to, a.amount, a.exactIn)
        /\ build' = [build EXCEPT ![r] = Begin(a, SlippageOr50(a.slippage), q)]
  BY DEF RequestSwap
<1>2. /\ a.from \in Token /\ a.to \in Token /\ a.amount \in Nat /\ a.exactIn \in BOOLEAN
      /\ a.slippage \in 0..(2 * Half - 1)
  BY <1>1, NumbersAssumption
<1>3. SlippageOr50(a.slippage) \in 0..(2 * Half - 1) /\ SlippageOr50(a.slippage) # 0
  <2>1. 50 \in 0..(2 * Half - 1)
    BY SMT DEF Half
  <2>2. QED
    BY <1>2, <2>1 DEF SlippageOr50
<1>4. pool \in [Pool -> State]
  BY DEF SwapInv
<1>5. QuoteIsRight(q, a.exactIn)
  BY <1>1, <1>2, <1>4, AnswersAreRight
<1>6. BuildIsRight(Begin(a, SlippageOr50(a.slippage), q), pool)
  BY <1>1, <1>3, <1>5, BeginIsRight
<1>7. UNCHANGED <<pool, moves>>
  BY DEF RequestSwap
<1>8. QED
  BY <1>1, <1>6, <1>7, OneBuildChanges

LEMMA RequestsForSessions ==
  ASSUME QuotesNumbers, SwapInv, NEW r \in Req, RequestSession(r)
  PROVE  SwapInv'
<1>1. UNCHANGED <<pool, moves>> /\ pool \in [Pool -> State] /\ BuildIsRight(build[r], pool)
  BY DEF RequestSession, SwapInv
<1>2. CASE build' = [build EXCEPT ![r].stage = "refused"]
  <2>1. BuildIsRight([build[r] EXCEPT !.stage = "refused"], pool)
    BY <1>1, StageChanges DEF Stages, Ready, Begun
  <2>2. QED
    BY <1>1, <1>2, <2>1, OneBuildChanges
<1>3. CASE \E a \in {x \in Asked : x.entry # "swap"} :
             \E q \in IF a.entry = "session" THEN Answers(a.from, a.to, a.amount, a.exactIn)
                      ELSE DirectQuotes(a.from, a.to, a.amount, a.exactIn) :
               build' = [build EXCEPT ![r] = Begin(a, a.slippage, q)]
  <2>1. PICK a, q :
          /\ a \in Asked
          /\ a.entry # "swap"
          /\ q \in IF a.entry = "session" THEN Answers(a.from, a.to, a.amount, a.exactIn)
                   ELSE DirectQuotes(a.from, a.to, a.amount, a.exactIn)
          /\ build' = [build EXCEPT ![r] = Begin(a, a.slippage, q)]
    BY <1>3
  <2>2. /\ a.from \in Token /\ a.to \in Token /\ a.amount \in Nat /\ a.exactIn \in BOOLEAN
        /\ a.slippage \in 0..(2 * Half - 1)
    BY <2>1, NumbersAssumption
  <2>3. QuoteIsRight(q, a.exactIn)
        /\ (a.entry = "sessionDirect" => Len(q.hops) = 1 /\ q.parts = "one")
    <3>1. CASE a.entry = "session"
      <4>1. q \in Answers(a.from, a.to, a.amount, a.exactIn)
        BY <2>1, <3>1
      <4>2. QED
        BY <1>1, <2>2, <3>1, <4>1, AnswersAreRight
    <3>2. CASE a.entry # "session"
      <4>1. q \in DirectQuotes(a.from, a.to, a.amount, a.exactIn)
        BY <2>1, <3>2
      <4>2. QED
        BY <1>1, <2>2, <4>1, DirectQuotesAreRight
    <3>3. QED
      BY <3>1, <3>2
  <2>4. BuildIsRight(Begin(a, a.slippage, q), pool)
    BY <2>1, <2>2, <2>3, BeginIsRight
  <2>5. QED
    BY <1>1, <2>1, <2>4, OneBuildChanges
<1>4. QED
  BY <1>2, <1>3 DEF RequestSession

\* The tick is read from a pool that has not changed since the quote, or "moved" is set.
LEMMA HopsAreRead ==
  ASSUME SwapInv, NEW r \in Req, ReadHop(r)
  PROVE  SwapInv'
<1> DEFINE b == build[r]
           i == Len(b.ticks) + 1
           t == TickOf[pool[b.quote.hops[i].pool]]
           c == [b EXCEPT !.ticks = Append(b.ticks, t)]
           Ticks == {TickOf[s] : s \in State}
<1>1. /\ BuildIsRight(b, pool) /\ pool \in [Pool -> State]
      /\ b.stage = "accounts" /\ i <= Len(b.quote.hops)
      /\ build' = [build EXCEPT ![r] = c] /\ UNCHANGED <<pool, moves>>
  BY DEF ReadHop, SwapInv
<1> HIDE DEF b
<1>2. /\ b.quote.hops \in Seq(Hops) /\ b.ticks \in Seq(Ticks)
      /\ Len(b.ticks) \in Nat /\ Len(b.quote.hops) \in Nat
      /\ DOMAIN b.quote.hops = 1..Len(b.quote.hops)
  BY <1>1 DEF BuildIsRight
<1>3. i \in 1..Len(b.quote.hops)
  BY <1>1, <1>2
<1>4. t \in Ticks
  <2>1. b.quote.hops[i] \in Hops
    BY <1>2, <1>3
  <2>2. pool[b.quote.hops[i].pool] \in State
    BY <1>1, <2>1 DEF Hops
  <2>3. QED
    BY <2>2
<1> HIDE DEF t, Ticks
<1>5. /\ Append(b.ticks, t) \in Seq(Ticks) /\ Len(Append(b.ticks, t)) = i
      /\ \A k \in 1..i : Append(b.ticks, t)[k] = IF k = i THEN t ELSE b.ticks[k]
  BY <1>2, <1>4
<1>6. /\ c \in [stage : Stages, entry : Entries, exactIn : BOOLEAN, slippage : 0..(2 * Half - 1),
                quote : {c.quote}, ticks : {c.ticks}, moved : BOOLEAN]
      /\ c.stage = b.stage /\ c.entry = b.entry /\ c.exactIn = b.exactIn
      /\ c.slippage = b.slippage
      /\ c.quote = b.quote /\ c.ticks = Append(b.ticks, t) /\ c.moved = b.moved
  BY <1>1 DEF BuildIsRight
<1> HIDE DEF c
<1>7. b.stage \in Begun /\ c.stage \notin Ready
  BY <1>1, <1>6 DEF Begun, Ready
<1>8. ASSUME ~c.moved
      PROVE  \A k \in 1..Len(c.ticks) : c.ticks[k] = TickOf[pool[c.quote.hops[k].pool]]
  <2>1. \A k \in 1..Len(b.ticks) : b.ticks[k] = TickOf[pool[b.quote.hops[k].pool]]
    BY <1>1, <1>6, <1>7, <1>8 DEF BuildIsRight
  <2>2. ASSUME NEW k \in 1..i, k # i PROVE k \in 1..Len(b.ticks)
    BY <1>2, <2>2, SMTT(40)
  <2>3. c.ticks[i] = TickOf[pool[c.quote.hops[i].pool]]
    <3>1. i \in 1..i
      BY <1>2
    <3>2. QED
      BY <1>5, <1>6, <3>1 DEF t
  <2> HIDE DEF i
  <2>4. QED
    BY <1>5, <1>6, <2>1, <2>2, <2>3
<1>9. BuildIsRight(c, pool)
  <2>1. c.ticks \in Seq(Ticks) /\ Len(c.ticks) <= Len(c.quote.hops)
    BY <1>1, <1>5, <1>6
  <2>2. QED
    BY <1>1, <1>6, <1>7, <1>8, <2>1 DEF BuildIsRight, Ticks
<1>10. QED
  BY <1>1, <1>9, OneBuildChanges

\* The requests that use the pool are marked, the others keep flow and ticks.
LEMMA PoolsMove ==
  ASSUME SwapInv, MovePool
  PROVE  SwapInv'
<1>1. PICK p \in Pool, s \in State :
        /\ pool' = [pool EXCEPT ![p] = s]
        /\ build' = [r \in Req |-> [build[r] EXCEPT !.moved = build[r].moved \/ Uses(build[r].quote, p)]]
  BY DEF MovePool
<1>2. moves' \in 0..MaxMoves
  BY NumbersAssumption DEF MovePool, SwapInv
<1>3. pool' \in [Pool -> State]
  BY <1>1 DEF SwapInv
<1>4. ASSUME NEW r \in Req PROVE BuildIsRight(build'[r], pool')
  <2> DEFINE b == build[r]
             c == [b EXCEPT !.moved = b.moved \/ Uses(b.quote, p)]
  <2>1. build'[r] = c /\ BuildIsRight(b, pool)
    BY <1>1 DEF SwapInv
  <2> HIDE DEF b
  <2>2. (b.moved \/ Uses(b.quote, p)) \in BOOLEAN
    BY DEF Uses
  <2>3. /\ c \in [stage : Stages, entry : Entries, exactIn : BOOLEAN, slippage : 0..(2 * Half - 1),
                  quote : {c.quote}, ticks : {c.ticks}, moved : BOOLEAN]
        /\ c.stage = b.stage /\ c.entry = b.entry /\ c.exactIn = b.exactIn
        /\ c.slippage = b.slippage /\ c.quote = b.quote /\ c.ticks = b.ticks
        /\ c.moved = (b.moved \/ Uses(b.quote, p))
    <3> DEFINE m == b.moved \/ Uses(b.quote, p)
    <3>1. c = [b EXCEPT !.moved = m] /\ m \in BOOLEAN
      BY <2>2
    <3> HIDE DEF m, c
    <3>2. /\ c \in [stage : Stages, entry : Entries, exactIn : BOOLEAN, slippage : 0..(2 * Half - 1),
                    quote : {c.quote}, ticks : {c.ticks}, moved : BOOLEAN]
          /\ c.stage = b.stage /\ c.entry = b.entry /\ c.exactIn = b.exactIn
          /\ c.slippage = b.slippage /\ c.quote = b.quote /\ c.ticks = b.ticks
          /\ c.moved = m
      BY <2>1, <3>1 DEF BuildIsRight
    <3>3. QED
      BY <3>2 DEF m
  <2> HIDE DEF c
  <2>4. ASSUME ~c.moved, NEW i \in 1..Len(b.quote.hops)
        PROVE  ~b.moved /\ pool'[b.quote.hops[i].pool] = pool[b.quote.hops[i].pool]
    <3>1. b.quote.hops \in Seq(Hops) /\ DOMAIN b.quote.hops = 1..Len(b.quote.hops)
      BY <2>1 DEF BuildIsRight
    <3>2. b.quote.hops[i] \in Hops /\ i \in DOMAIN b.quote.hops
      BY <3>1
    <3>3. b.quote.hops[i].pool # p /\ b.quote.hops[i].pool \in Pool
      BY <2>3, <2>4, <3>2 DEF Uses, Hops
    <3>4. QED
      BY <1>1, <2>3, <2>4, <3>3 DEF SwapInv
  <2>5. ASSUME ~c.moved, b.stage \in Begun, b.quote.parts = "one"
        PROVE  \E f : Flow(b.quote, f, b.exactIn, pool')
    <3>1. ~b.moved
      BY <2>3, <2>5
    <3>2. PICK f : Flow(b.quote, f, b.exactIn, pool)
      BY <2>1, <2>5, <3>1 DEF BuildIsRight
    <3>3. Flow(b.quote, f, b.exactIn, pool')
      BY <2>4, <2>5, <3>2 DEF Flow
    <3>4. QED
      BY <3>3
  <2>6. ASSUME ~c.moved, b.stage \in Begun, NEW i \in 1..Len(b.ticks)
        PROVE  b.ticks[i] = TickOf[pool'[b.quote.hops[i].pool]]
    <3>1. ~b.moved
      BY <2>3, <2>6
    <3>2. b.ticks[i] = TickOf[pool[b.quote.hops[i].pool]]
      BY <2>1, <2>6, <3>1 DEF BuildIsRight
    <3>3. i \in 1..Len(b.quote.hops)
      BY <2>1 DEF BuildIsRight
    <3>4. QED
      BY <2>4, <2>6, <3>2, <3>3
  <2>7. BuildIsRight(c, pool')
    BY <2>1, <2>3, <2>4, <2>5, <2>6 DEF BuildIsRight
  <2>8. QED
    BY <2>1, <2>7
<1>5. build' = [r \in Req |-> build'[r]]
  BY <1>1
<1>6. QED
  BY <1>2, <1>3, <1>4, <1>5 DEF SwapInv

LEMMA StagesPass ==
  ASSUME SwapInv, NEW r \in Req, ProgramsFail(r) \/ EndAccounts(r) \/ TakeHash(r) \/ Answer(r)
  PROVE  SwapInv'
<1>1. BuildIsRight(build[r], pool) /\ UNCHANGED <<pool, moves>>
  BY DEF SwapInv, ProgramsFail, EndAccounts, TakeHash, Answer
<1>2. PICK s \in Stages :
        /\ build' = [build EXCEPT ![r].stage = s]
        /\ s \in Ready => Len(build[r].ticks) = Len(build[r].quote.hops)
        /\ s \in Begun => build[r].stage \in Begun
  <2>1. CASE ProgramsFail(r)
    BY <2>1 DEF ProgramsFail, Stages, Ready, Begun
  <2>2. CASE EndAccounts(r)
    BY <2>2 DEF EndAccounts, Stages, Ready, Begun
  <2>3. CASE TakeHash(r)
    BY <1>1, <2>3 DEF TakeHash, Stages, Ready, Begun, BuildIsRight
  <2>4. CASE Answer(r)
    BY <1>1, <2>4 DEF Answer, Stages, Ready, Begun, BuildIsRight
  <2>5. QED
    BY <2>1, <2>2, <2>3, <2>4
<1> DEFINE b == build[r]
           c == [b EXCEPT !.stage = s]
<1>3. BuildIsRight(c, pool)
  <2>1. /\ BuildIsRight(b, pool)
        /\ s \in Ready => Len(b.ticks) = Len(b.quote.hops)
        /\ s \in Begun => b.stage \in Begun
    BY <1>1, <1>2
  <2> HIDE DEF b
  <2>2. QED
    BY <2>1, StageChanges
<1>4. build' = [build EXCEPT ![r] = c]
  <2>1. build' = [build EXCEPT ![r].stage = s]
    BY <1>2
  <2>2. QED
    BY <2>1, Zenon
<1> HIDE DEF c
<1>5. QED
  BY <1>1, <1>3, <1>4, OneBuildChanges

LEMMA SwapInvInitially == SwapInit => SwapInv
<1> SUFFICES ASSUME SwapInit PROVE SwapInv
  OBVIOUS
<1>1. pool \in [Pool -> State] /\ moves \in 0..MaxMoves
  BY PoolsAssumption, NumbersAssumption DEF SwapInit
<1>2. build = [r \in Req |-> Idle]
  BY DEF SwapInit
<1>3. BuildIsRight(Idle, pool)
  <2> DEFINE c == Idle
  <2>1. /\ c.stage = "idle" /\ c.entry = "swap" /\ c.exactIn = TRUE /\ c.slippage = 0
        /\ c.quote = NoQuote /\ c.ticks = <<>> /\ c.moved = FALSE
        /\ c \in [stage : {"idle"}, entry : {"swap"}, exactIn : BOOLEAN, slippage : {0},
                  quote : {c.quote}, ticks : {c.ticks}, moved : BOOLEAN]
    BY DEF Idle
  <2>2. c.quote.hops = <<>>
    BY <2>1 DEF NoQuote, QuoteOf
  <2>3. 0 \in 0..(2 * Half - 1)
    BY SMT DEF Half
  <2> HIDE DEF c
  <2>4. BuildIsRight(c, pool)
    BY <2>1, <2>2, <2>3 DEF BuildIsRight, Stages, Entries, Ready, Begun
  <2>5. QED
    BY <2>4 DEF c
<1>4. QED
  BY <1>1, <1>2, <1>3 DEF SwapInv

LEMMA SwapInvAlways ==
  ASSUME QuotesNumbers
  PROVE  SwapInv /\ [Next]_vars => SwapInv'
<1> SUFFICES ASSUME SwapInv, [Next]_vars PROVE SwapInv'
  OBVIOUS
<1>1. CASE UNCHANGED swapVars
  BY <1>1 DEF swapVars, SwapInv
<1>2. CASE UNCHANGED vars
  BY <1>1, <1>2 DEF vars
<1>3. CASE MovePool
  BY <1>3, PoolsMove
<1>4. CASE (NextBlock \/ HandleBlockMeta) /\ UNCHANGED swapVars
  BY <1>1, <1>4
<1>5. ASSUME NEW r \in Req, RequestSwap(r) \/ RequestSession(r) PROVE SwapInv'
  BY <1>5, RequestsForSwaps, RequestsForSessions
<1>6. ASSUME NEW r \in Req, ReadHop(r) PROVE SwapInv'
  BY <1>6, HopsAreRead
<1>7. ASSUME NEW r \in Req, ProgramsFail(r) \/ EndAccounts(r) \/ TakeHash(r) \/ Answer(r)
      PROVE  SwapInv'
  BY <1>7, StagesPass
<1>8. ASSUME NEW r \in Req, AskHash(r) PROVE SwapInv'
  BY <1>1, <1>8 DEF AskHash
<1>9. QED
  BY <1>2, <1>3, <1>4, <1>5, <1>6, <1>7, <1>8 DEF Next

LEMMA SwapInvHolds ==
  ASSUME QuotesNumbers
  PROVE  Spec => []SwapInv
<1>1. QED
  BY SwapInvInitially, SwapInvAlways, PTL DEF Spec

\* Arithmetic: a factor is cancelled, and what a quotient is.
LEMMA Cancelled ==
  ASSUME NEW t \in Nat \ {0}, NEW x \in Int, NEW y \in Int
  PROVE  /\ t * x <= t * y => x <= y
         /\ t * x < t * y => x < y
<1>1. x > y => t * x > t * y
  <2>1. CASE x > y
    <3> DEFINE k == x - y
    <3>1. k >= 1 /\ k \in Int
      BY <2>1
    <3>2. t * k > 0
      <4> HIDE DEF k
      <4> QED BY <3>1
    <3>3. t * x = t * y + t * k
      OBVIOUS
    <3> QED BY <3>2, <3>3
  <2> QED BY <2>1
<1>2. x = y => t * x = t * y
  OBVIOUS
<1> QED BY <1>1, <1>2

LEMMA Quotient ==
  ASSUME NEW t \in Nat \ {0}, NEW n \in Nat
  PROVE  /\ n \div t \in Nat
         /\ t * (n \div t) <= n /\ n < t * (n \div t) + t
  OBVIOUS


\* in * (1 + s / B) is at most in / (1 - s / B), and remains so when both are rounded
\* down.
LEMMA Margins ==
  ASSUME NEW B \in Nat, NEW s \in Nat, s < B, NEW x \in Nat,
         NEW u, u = (x * (B + s)) \div B, NEW v, v = (x * B) \div (B - s)
  PROVE  u \in Nat /\ v \in Nat /\ u <= v
<1> DEFINE k == B - s
           y == x * (B + s)
           z == x * B
<1>1. k \in Nat \ {0} /\ B \in Nat \ {0} /\ s = B - k /\ k <= B
  OBVIOUS
<1>2. y \in Nat /\ z \in Nat
  OBVIOUS
<1>3. u = y \div B /\ v = z \div k
  OBVIOUS
<1>4. u \in Nat /\ B * u <= y
  <2> HIDE DEF y
  <2>1. QED
    BY <1>1, <1>2, <1>3, Quotient
<1>5. v \in Nat /\ k * v <= z /\ z < k * v + k
  <2> HIDE DEF z, k
  <2>1. QED
    BY <1>1, <1>2, <1>3, Quotient
<1>6. k * y <= B * z
  <2>1. k * y = B * z - x * (s * s)
    BY <1>1
  <2>2. x * (s * s) \in Nat
    <3>1. s * s \in Nat
      OBVIOUS
    <3> DEFINE w == s * s
    <3> HIDE DEF w
    <3>2. w \in Nat => x * w \in Nat
      OBVIOUS
    <3>3. QED
      BY <3>1, <3>2 DEF w
  <2> DEFINE w == x * (s * s)
             ky == k * y
             bz == B * z
  <2>3. ky \in Int /\ bz \in Int
    BY <1>1, <1>2
  <2>4. ky = bz - w /\ w \in Nat
    BY <2>1, <2>2
  <2> HIDE DEF w, ky, bz
  <2>5. ky <= bz
    BY <2>3, <2>4
  <2>6. QED
    BY <2>5 DEF ky, bz
<1>7. B * (k * u) <= B * z
  <2>1. k * (B * u) <= k * y
    <3> DEFINE bu == B * u
    <3>1. bu \in Nat /\ bu <= y
      BY <1>1, <1>4
    <3> HIDE DEF bu, y, k
    <3>2. k * (y - bu) >= 0
      <4> DEFINE m == y - bu
      <4>1. m \in Nat
        BY <1>2, <3>1
      <4> HIDE DEF m
      <4>2. k * m >= 0
        BY <1>1, <4>1
      <4>3. QED
        BY <4>2 DEF m
    <3>3. k * (y - bu) = k * y - k * bu
      BY <1>1, <1>2, <3>1
    <3>4. k * y \in Int /\ k * bu \in Int
      BY <1>1, <1>2, <3>1
    <3> DEFINE ky == k * y
               kb == k * bu
    <3>5. kb <= ky
      <4>1. ky \in Int /\ kb \in Int /\ ky - kb >= 0
        BY <3>2, <3>3, <3>4
      <4> HIDE DEF ky, kb
      <4>2. QED
        BY <4>1
    <3>6. QED
      BY <3>5 DEF bu
  <2>2. B * (k * u) = k * (B * u)
    BY <1>1, <1>4
  <2> DEFINE p == B * (k * u)
             ky == k * y
             bz == B * z
             kbu == k * (B * u)
  <2>3. p = kbu /\ kbu <= ky /\ ky <= bz
    BY <1>6, <2>1, <2>2
  <2>4. p \in Int /\ ky \in Int /\ bz \in Int
    BY <1>1, <1>2, <1>4
  <2> HIDE DEF p, ky, bz, kbu
  <2>5. p <= bz
    BY <2>3, <2>4
  <2>6. QED
    BY <2>5 DEF p, bz
<1>8. k * u <= z
  <2> DEFINE ku == k * u
  <2>1. ku \in Int /\ B * ku <= B * z
    BY <1>1, <1>4, <1>7
  <2> HIDE DEF ku, z, k
  <2>2. ku <= z
    BY <1>1, <1>2, <2>1, Cancelled
  <2>3. QED
    BY <2>2 DEF ku
<1>9. k * u < k * (v + 1)
  <2>1. k * (v + 1) = k * v + k
    BY <1>1, <1>5
  <2> DEFINE ku == k * u
             kv == k * v
  <2>2. ku \in Int /\ kv \in Int /\ ku <= z /\ z < kv + k
    BY <1>1, <1>4, <1>5, <1>8
  <2> HIDE DEF ku, kv, z, k
  <2>3. ku < kv + k
    BY <1>1, <1>2, <2>2
  <2>4. QED
    BY <2>1, <2>3 DEF ku, kv
<1> HIDE DEF k
<1>10. v + 1 \in Int
  BY <1>5
<1>11. u < v + 1
  <2> DEFINE w == v + 1
  <2>1. w \in Int /\ k * u < k * w
    BY <1>9, <1>10
  <2> HIDE DEF w
  <2>2. u < w
    BY <1>1, <1>4, <2>1, Cancelled
  <2>3. QED
    BY <2>2 DEF w
<1>12. QED
  BY <1>4, <1>5, <1>11

\* What the four builders have in common.
LEMMA BuiltAlike ==
  ASSUME NEW b, NEW p, BuildIsRight(b, p), b.stage \in Ready
  PROVE  /\ Built(b).limit = Uint64(Limit(b.quote, b.exactIn, SlippageOr50(b.slippage)))
         /\ Built(b).amount = Uint64(IF b.exactIn THEN b.quote.in ELSE b.quote.out)
         /\ Built(b).exactIn = b.exactIn /\ Built(b).tokens = Len(b.quote.route)
         /\ Built(b).accounts = IF GoesDirect(b) THEN SwapAccounts(b) ELSE RemainingAccounts(b)
         /\ Built(b).plan = IF GoesDirect(b) \/ b.entry = "sessionDirect" THEN DirectPlan(b.quote)
                           ELSE IF b.entry = "session" THEN SessionPlan(b.quote)
                           ELSE RoutePlan(b.quote)
         /\ Built(b).creates \subseteq {TokenAccount(b, User, 1), FeeAccount(b),
                                       TokenAccount(b, User, IF GoesDirect(b) THEN 2
                                                             ELSE Len(b.quote.route))}
<1>1. b.entry \in Entries /\ b.stage \in Begun /\ (b.entry = "swap" => b.slippage # 0)
  BY DEF BuildIsRight, Begun
<1>2. CASE GoesDirect(b)
  <2>1. Built(b) = DirectTx(b)
    BY <1>2 DEF Built, GoesDirect
  <2>2. QED
    BY <1>2, <2>1 DEF DirectTx, Tx, GoesDirect
<1>3. CASE b.entry = "swap" /\ ~GoesDirect(b)
  <2>1. Built(b) = MultiHopTx(b)
    BY <1>3 DEF Built
  <2>2. SlippageOr50(b.slippage) = b.slippage
    BY <1>1, <1>3 DEF SlippageOr50
  <2>3. QED
    BY <1>3, <2>1, <2>2 DEF MultiHopTx, Tx
<1>4. CASE b.entry = "session"
  <2>1. Built(b) = SessionTx(b) /\ ~GoesDirect(b)
    BY <1>4 DEF Built, GoesDirect
  <2>2. QED
    BY <1>4, <2>1 DEF SessionTx, Tx
<1>5. CASE b.entry = "sessionDirect"
  <2>1. Built(b) = SessionDirectTx(b) /\ ~GoesDirect(b)
    BY <1>5 DEF Built, GoesDirect
  <2>2. QED
    BY <1>5, <2>1 DEF SessionDirectTx, Tx
<1>6. QED
  BY <1>1, <1>2, <1>3, <1>4, <1>5 DEF Entries

\* What the invariant says of a request whose transaction is made.
LEMMA MadeIsReady ==
  ASSUME SwapInv, NEW r \in Made
  PROVE  BuildIsRight(build[r], pool) /\ build[r].stage \in Ready /\ QuoteJoins(build[r].quote)
<1>1. r \in Req /\ build[r].stage \in Ready /\ build[r].stage \in Begun
  BY DEF Made, Ready, Begun
<1>2. QED
  BY <1>1 DEF SwapInv, BuildIsRight

\* n % w is at most n.
LEMMA Remainders ==
  ASSUME NEW n \in Nat, NEW w \in Nat \ {0}
  PROVE  n % w \in Nat /\ n % w <= n /\ (n < w => n % w = n)
  OBVIOUS

\* The two formulas for the most to pay, below a slippage of 100 %.
LEMMA MostToPay ==
  ASSUME NEW q, q.in \in Nat, NEW s \in Nat, s < Bps
  PROVE  /\ Limit(q, FALSE, s) \in Nat /\ Announced(q, FALSE, s) \in Nat
         /\ Limit(q, FALSE, s) <= Announced(q, FALSE, s)
<1>1. Bps \in Nat /\ Bps = 10000 /\ 2 * Half = 65536
  BY SMT DEF Bps, Half
<1>2. Uint16(Bps + s) = Bps + s /\ Uint16(Bps - s) = Bps - s /\ Bps - s > 0
  BY <1>1, SMT DEF Uint16
<1>3. /\ Limit(q, FALSE, s) = (q.in * (Bps + s)) \div Bps
      /\ Announced(q, FALSE, s) = (q.in * Bps) \div (Bps - s)
  BY <1>2 DEF Limit, Announced
<1> DEFINE B == Bps
           x == q.in
           u == Limit(q, FALSE, s)
           v == Announced(q, FALSE, s)
<1>4. /\ B \in Nat /\ s < B /\ x \in Nat
      /\ u = (x * (B + s)) \div B /\ v = (x * B) \div (B - s)
  <2>1. B \in Nat
    BY <1>1
  <2>2. u = (x * (B + s)) \div B /\ v = (x * B) \div (B - s)
    BY <1>3, Zenon
  <2>3. QED
    BY <2>1, <2>2
<1> HIDE DEF B, x, u, v
<1>5. u \in Nat /\ v \in Nat /\ u <= v
  BY <1>4, Margins
<1>6. QED
  BY <1>5 DEF u, v

LEMMA LimitsAreBounded ==
  ASSUME SwapInv
  PROVE  QuoteBoundsSwap
<1> SUFFICES ASSUME NEW r \in Made
             PROVE  LET b == build[r] IN
                    IF b.exactIn
                    THEN Built(b).limit = Uint64(Announced(b.quote, TRUE, SlippageOr50(b.slippage)))
                    ELSE b.slippage < Bps =>
                           Built(b).limit <= Announced(b.quote, FALSE, SlippageOr50(b.slippage))
  BY DEF QuoteBoundsSwap
<1> DEFINE b == build[r]
           s == SlippageOr50(b.slippage)
<1>1. BuildIsRight(b, pool) /\ b.stage \in Ready /\ QuoteJoins(b.quote)
  BY MadeIsReady
<1> HIDE DEF b
<1>2. /\ Built(b).limit = Uint64(Limit(b.quote, b.exactIn, s))
      /\ b.exactIn \in BOOLEAN /\ b.slippage \in Nat /\ b.quote.in \in Nat
  <2>1. Built(b).limit = Uint64(Limit(b.quote, b.exactIn, s))
    BY <1>1, BuiltAlike
  <2>2. b.exactIn \in BOOLEAN /\ b.slippage \in Nat
    BY <1>1 DEF BuildIsRight
  <2>3. QED
    BY <1>1, <2>1, <2>2 DEF QuoteJoins
<1>3. ASSUME b.exactIn
      PROVE  Built(b).limit = Uint64(Announced(b.quote, TRUE, s))
  <2>1. b.exactIn = TRUE
    BY <1>2, <1>3
  <2>2. Limit(b.quote, TRUE, s) = Announced(b.quote, TRUE, s)
    BY DEF Limit, Announced
  <2>3. QED
    BY <1>2, <2>1, <2>2
<1>4. ASSUME ~b.exactIn, b.slippage < Bps
      PROVE  Built(b).limit <= Announced(b.quote, FALSE, s)
  <2>1. b.exactIn = FALSE
    BY <1>2, <1>4
  <2>2. Bps = 10000
    BY SMT DEF Bps
  <2>3. s \in Nat /\ s < Bps
    BY <1>2, <1>4, <2>2, SMT DEF SlippageOr50
  <2> HIDE DEF s
  <2> DEFINE l == Limit(b.quote, FALSE, s)
             a == Announced(b.quote, FALSE, s)
  <2>4. l \in Nat /\ a \in Nat /\ l <= a
    BY <1>2, <2>3, MostToPay
  <2>5. Built(b).limit = l % Word
    BY <1>2, <2>1 DEF Uint64
  <2> HIDE DEF l, a
  <2>6. l % Word <= l /\ l % Word \in Nat
    BY <2>4, NumbersAssumption, Remainders
  <2>7. Built(b).limit <= a
    BY <2>4, <2>5, <2>6
  <2>8. QED
    BY <2>7 DEF a
<1>5. QED
  BY <1>2, <1>3, <1>4 DEF b

\* The places of a hop among the accounts.
LEMMA Places ==
  ASSUME NEW i \in Nat \ {0}, NEW k \in 1..7, NEW j, j = 7 * (i - 1) + k
  PROVE  (j + 6) \div 7 = i /\ ((j - 1) % 7) + 1 = k
<1>1. j + 6 = 7 * i + (k - 1) /\ j - 1 = 7 * (i - 1) + (k - 1) /\ k - 1 \in 0..6
  OBVIOUS
<1>2. QED
  BY <1>1

\* Sequences one after the other, whatever is in them.
InARow(s, t, m, n) ==
  /\ Len(s \o t) = m + n /\ DOMAIN (s \o t) = 1..(m + n)
  /\ \A i \in 1..m : (s \o t)[i] = s[i]
  /\ \A i \in 1..n : (s \o t)[m + i] = t[i]
  /\ \A x : /\ Len(Append(s \o t, x)) = m + n + 1
            /\ DOMAIN Append(s \o t, x) = 1..(m + n + 1)
            /\ Append(s \o t, x)[m + n + 1] = x
            /\ \A i \in 1..(m + n) : Append(s \o t, x)[i] = (s \o t)[i]

\* Places in a list that is put together.
LEMMA Joined ==
  ASSUME NEW m \in Nat, NEW n \in Nat, NEW s, NEW t,
         DOMAIN s = 1..m, s = [i \in 1..m |-> s[i]], t = [i \in 1..n |-> t[i]]
  PROVE  InARow(s, t, m, n)
<1> DEFINE S == {s[i] : i \in 1..m} \cup {t[i] : i \in 1..n}
<1>1. s \in Seq(S) /\ t \in Seq(S)
  <2>1. s \in [1..m -> S] /\ t \in [1..n -> S]
    OBVIOUS
  <2> HIDE DEF S
  <2>2. QED
    BY <2>1, SeqDef
<1> HIDE DEF S
<1>2. Len(s) = m /\ Len(t) = n
  OBVIOUS
<1>3. /\ s \o t \in Seq(S) /\ Len(s \o t) = m + n
      /\ \A i \in 1..(m + n) : (s \o t)[i] = IF i <= m THEN s[i] ELSE t[i - m]
  BY <1>1, <1>2, ConcatProperties, ZenonT(60)
<1>4. DOMAIN (s \o t) = 1..(m + n)
  BY <1>3, LenProperties
<1>5. \A i \in 1..m : (s \o t)[i] = s[i]
  BY <1>3
<1>6. \A i \in 1..n : (s \o t)[m + i] = t[i]
  BY <1>3
<1>7. ASSUME NEW x
      PROVE  /\ Len(Append(s \o t, x)) = m + n + 1
             /\ DOMAIN Append(s \o t, x) = 1..(m + n + 1)
             /\ Append(s \o t, x)[m + n + 1] = x
             /\ \A i \in 1..(m + n) : Append(s \o t, x)[i] = (s \o t)[i]
  <2> DEFINE all == s \o t
             T == S \cup {x}
  <2>1. all \in Seq(T) /\ Len(all) = m + n /\ x \in T
    BY <1>3
  <2> HIDE DEF all, T
  <2>2. QED
    BY <2>1, AppendProperties DEF all
<1>8. QED
  BY <1>3, <1>4, <1>5, <1>6, <1>7 DEF InARow

\* The accounts: one per token, then seven per hop.
TokensThenHops(b, a) ==
  LET n == Len(b.quote.route)
      m == Len(b.quote.hops)
  IN  /\ \A i \in 1..n : a[i] = TokenAccount(b, User, i)
      /\ \A i \in 1..m : \A k \in 1..7 :
           a[n + 7 * (i - 1) + k] = HopAccounts(b.quote.hops[i], b.ticks[i])[k]

\* Where the accounts are in the list.
LEMMA AccountsInOrder ==
  ASSUME NEW b, QuoteJoins(b.quote)
  PROVE  LET n == Len(b.quote.route) + 7 * Len(b.quote.hops)
             swap == SwapAccounts(b)
             all == RemainingAccounts(b)
         IN  /\ DOMAIN swap = 1..n /\ Len(swap) = n /\ TokensThenHops(b, swap)
             /\ DOMAIN all = 1..(n + 1) /\ Len(all) = n + 1 /\ TokensThenHops(b, all)
             /\ all[n + 1] = FeeAccount(b)
<1> DEFINE q == b.quote
           n == Len(q.route)
           m == Len(q.hops)
           s == [i \in DOMAIN q.route |-> TokenAccount(b, User, i)]
           t == [k \in 1..(7 * m) |->
                   HopAccounts(q.hops[(k + 6) \div 7], b.ticks[(k + 6) \div 7])[((k - 1) % 7) + 1]]
           swap == SwapAccounts(b)
           all == RemainingAccounts(b)
<1>1. n \in Nat /\ m \in Nat /\ 7 * m \in Nat /\ DOMAIN q.route = 1..n /\ DOMAIN q.hops = 1..m
  BY DEF QuoteJoins
<1>2. swap = s \o t /\ all = Append(s \o t, FeeAccount(b))
  BY DEF SwapAccounts, RemainingAccounts
<1>3. /\ DOMAIN s = 1..n /\ s = [i \in 1..n |-> s[i]]
      /\ t = [k \in 1..(7 * m) |-> t[k]]
  BY <1>1
<1>4. \A i \in 1..n : s[i] = TokenAccount(b, User, i)
  BY <1>1
<1>5. ASSUME NEW i \in 1..m, NEW k \in 1..7
      PROVE  /\ 7 * (i - 1) + k \in 1..(7 * m)
             /\ t[7 * (i - 1) + k] = HopAccounts(q.hops[i], b.ticks[i])[k]
  <2> DEFINE j == 7 * (i - 1) + k
  <2>1. j \in 1..(7 * m)
    <3> HIDE DEF m
    <3>1. QED
      BY <1>1
  <2>2. (j + 6) \div 7 = i /\ ((j - 1) % 7) + 1 = k
    <3>1. i \in Nat \ {0}
      BY <1>1
    <3>2. QED
      BY <3>1, Places, ZenonT(60)
  <2> HIDE DEF j
  <2>3. t[j] = HopAccounts(q.hops[i], b.ticks[i])[k]
    BY <2>1, <2>2
  <2>4. QED
    BY <2>1, <2>3 DEF j
<1> DEFINE c == 7 * m
<1> HIDE DEF s, t, n, m, c
<1>6. InARow(s, t, n, c)
  <2>1. n \in Nat /\ c \in Nat
    BY <1>1 DEF c
  <2>2. t = [k \in 1..c |-> t[k]]
    BY <1>3 DEF c
  <2>3. QED
    BY <1>3, <2>1, <2>2, Joined
<1>7. n \in Nat /\ c \in Nat
  BY <1>1 DEF c
<1>8. ASSUME NEW i \in 1..m, NEW k \in 1..7
      PROVE  /\ n + 7 * (i - 1) + k \in 1..(n + c)
             /\ (s \o t)[n + 7 * (i - 1) + k] = HopAccounts(q.hops[i], b.ticks[i])[k]
  <2> DEFINE j == 7 * (i - 1) + k
  <2>1. j \in 1..c /\ t[j] = HopAccounts(q.hops[i], b.ticks[i])[k]
    BY <1>5 DEF c
  <2>2. n + 7 * (i - 1) + k = n + j
    BY <1>1
  <2> HIDE DEF j
  <2>3. n + j \in 1..(n + c)
    BY <1>7, <2>1
  <2>4. QED
    BY <1>6, <2>1, <2>2, <2>3 DEF InARow
<1>9. \A i \in 1..n : i \in 1..(n + c)
  BY <1>7
<1>10. TokensThenHops(b, swap)
  <2>1. \A i \in 1..n : swap[i] = TokenAccount(b, User, i)
    BY <1>2, <1>4, <1>6 DEF InARow
  <2>2. \A i \in 1..m : \A k \in 1..7 :
          swap[n + 7 * (i - 1) + k] = HopAccounts(q.hops[i], b.ticks[i])[k]
    BY <1>2, <1>8
  <2>3. QED
    BY <2>1, <2>2 DEF TokensThenHops, n, m
<1>11. ASSUME NEW i \in 1..(n + c) PROVE all[i] = (s \o t)[i]
  BY <1>2, <1>6 DEF InARow
<1>12. TokensThenHops(b, all)
  <2>1. \A i \in 1..n : all[i] = TokenAccount(b, User, i)
    BY <1>4, <1>6, <1>9, <1>11 DEF InARow
  <2>2. \A i \in 1..m : \A k \in 1..7 :
          all[n + 7 * (i - 1) + k] = HopAccounts(q.hops[i], b.ticks[i])[k]
    BY <1>8, <1>11
  <2>3. QED
    BY <2>1, <2>2 DEF TokensThenHops, n, m
<1>13. /\ DOMAIN swap = 1..(n + c) /\ Len(swap) = n + c
       /\ DOMAIN all = 1..(n + c + 1) /\ Len(all) = n + c + 1
       /\ all[n + c + 1] = FeeAccount(b)
  BY <1>2, <1>6 DEF InARow
<1>14. QED
  BY <1>10, <1>12, <1>13 DEF n, m, c

\* The tokens of a hop are those of its pool.
LEMMA HopTokens ==
  ASSUME NEW h, NEW from, NEW to, HopJoins(h, from, to)
  PROVE  /\ h.pool \in Pool
         /\ from = MintA[h.pool] \/ from = MintB[h.pool]
         /\ to = MintA[h.pool] \/ to = MintB[h.pool]
<1>1. h.pool \in Pool /\ h.aToB \in BOOLEAN
  BY DEF HopJoins, Hops
<1>2. QED
  BY <1>1 DEF HopJoins, Takes, Pays

\* The builder derives the account of a token with the program that the token has.
LEMMA ProgramsAreRight ==
  ASSUME NEW b, QuoteJoins(b.quote), ~b.quote.isSplit,
         NEW i \in 1..Len(b.quote.route), Known(b, i)
  PROVE  ProgramFor(b, i) = ProgramOf[b.quote.route[i]]
<1> DEFINE q == b.quote
           t == q.route[i]
           P == ProgramOf[t]
           said(k) == IF k \in DOMAIN q.hops THEN Recorded(q.hops[k].pool, t) ELSE Zero
<1>2. P # Zero /\ Spl # Zero
  <2>1. t \in Token
    BY DEF QuoteJoins
  <2>2. QED
    BY <2>1, PoolsAssumption
<1>3. CASE b.entry = "sessionDirect"
  BY <1>3 DEF ProgramFor
<1>4. CASE b.entry # "sessionDirect"
  <2> DEFINE beside == {q.hops[k].pool : k \in {i - 1, i} \cap DOMAIN q.hops}
  <2>1. ProgramFor(b, i) = IF said(i) # Zero THEN said(i)
                           ELSE IF said(i - 1) # Zero THEN said(i - 1) ELSE Spl
    BY <1>4 DEF ProgramFor, ProgramAt
  <2>2. /\ \A p \in beside : Recorded(p, t) \in {P, Zero}
        /\ P = Spl \/ \E p \in beside : Recorded(p, t) # Zero
    BY <1>4 DEF Known
  <2>3. ASSUME NEW k \in {i, i - 1} PROVE said(k) = P \/ said(k) = Zero
    <3>1. k \in DOMAIN q.hops => q.hops[k].pool \in beside
      OBVIOUS
    <3>2. QED
      BY <2>2, <3>1
  <2>4. P = Spl \/ said(i) # Zero \/ said(i - 1) # Zero
    BY <2>2
  <2> HIDE DEF P, said
  <2>5. ProgramFor(b, i) = P
    BY <1>2, <2>1, <2>3, <2>4
  <2>6. QED
    BY <2>5 DEF P
<1>5. QED
  BY <1>3, <1>4

\* A plan of whole steps, each from the token that the one before pays.
Planned(b) ==
  /\ DOMAIN Built(b).plan = 1..Len(b.quote.hops) /\ Len(Built(b).plan) = Len(b.quote.hops)
  /\ \A i \in 1..Len(b.quote.hops) :
       Built(b).plan[i] = Step(b.quote.hops[i], 100, i - 1, i)

LEMMA StepsInOrder ==
  ASSUME NEW b, NEW p, BuildIsRight(b, p), b.stage \in Ready, ~b.quote.isSplit
  PROVE  Planned(b)
<1> DEFINE q == b.quote
           m == Len(q.hops)
           steps == [i \in 1..m |-> Step(q.hops[i], 100, i - 1, i)]
<1>1. b.stage \in Begun
  BY DEF Begun
<1>2. DOMAIN q.hops = 1..m /\ m \in Nat
  BY DEF BuildIsRight
<1>3. Len(steps) = m /\ DOMAIN steps = 1..m
  BY <1>2
<1>4. CASE GoesDirect(b) \/ b.entry = "sessionDirect"
  <2>1. Built(b).plan = DirectPlan(q)
    BY <1>4, BuiltAlike
  <2>2. m = 1
    BY <1>1, <1>4 DEF BuildIsRight, GoesDirect
  <2>3. /\ DOMAIN Built(b).plan = 1..1 /\ Len(Built(b).plan) = 1
        /\ Built(b).plan[1] = Step(q.hops[1], 100, 0, 1)
    BY <2>1 DEF DirectPlan
  <2>4. \A i \in 1..1 : i = 1 /\ i - 1 = 0
    OBVIOUS
  <2>5. QED
    BY <2>2, <2>3, <2>4 DEF Planned
<1>5. CASE ~GoesDirect(b) /\ b.entry = "session"
  <2>1. Built(b).plan = SessionPlan(q)
    BY <1>5, BuiltAlike
  <2>2. Built(b).plan = steps
    BY <1>2, <2>1 DEF SessionPlan
  <2>3. QED
    BY <1>3, <2>2 DEF Planned
<1>6. CASE ~GoesDirect(b) /\ b.entry # "session" /\ b.entry # "sessionDirect"
  <2>1. Built(b).plan = RoutePlan(q)
    BY <1>6, BuiltAlike
  <2>2. Built(b).plan = steps
    BY <1>2, <2>1 DEF RoutePlan
  <2>3. QED
    BY <1>3, <2>2 DEF Planned
<1>7. QED
  BY <1>4, <1>5, <1>6

\* The accounts of the transaction, whichever builder made it.
Placed(b) ==
  LET all == Built(b).accounts
      n == Len(b.quote.route) + 7 * Len(b.quote.hops)
  IN  /\ Len(all) = n + (IF GoesDirect(b) THEN 0 ELSE 1)
      /\ DOMAIN all = 1..Len(all)
      /\ TokensThenHops(b, all)
      /\ ~GoesDirect(b) => all[n + 1] = FeeAccount(b)

LEMMA AccountsPlaced ==
  ASSUME NEW b, NEW p, BuildIsRight(b, p), b.stage \in Ready, QuoteJoins(b.quote)
  PROVE  Placed(b)
<1>1. Built(b).accounts = IF GoesDirect(b) THEN SwapAccounts(b) ELSE RemainingAccounts(b)
  BY BuiltAlike
<1> DEFINE u == Len(b.quote.route)
           v == Len(b.quote.hops)
           n == u + 7 * v
           swap == SwapAccounts(b)
           all == RemainingAccounts(b)
<1>2. /\ DOMAIN swap = 1..n /\ Len(swap) = n /\ TokensThenHops(b, swap)
      /\ DOMAIN all = 1..(n + 1) /\ Len(all) = n + 1 /\ TokensThenHops(b, all)
      /\ all[n + 1] = FeeAccount(b)
  BY AccountsInOrder
<1>3. n \in Nat
  <2>1. u \in Nat /\ v \in Nat
    BY DEF QuoteJoins
  <2> HIDE DEF u, v
  <2>2. QED
    BY <2>1
<1> HIDE DEF swap, all, n
<1>4. CASE GoesDirect(b)
  <2>1. Built(b).accounts = swap
    BY <1>1, <1>4 DEF swap
  <2>2. QED
    <3>1. Len(swap) = n + 0
      BY <1>2, <1>3
    <3>2. QED
      BY <1>2, <1>4, <2>1, <3>1 DEF Placed, n
<1>5. CASE ~GoesDirect(b)
  <2>1. Built(b).accounts = all
    BY <1>1, <1>5 DEF all
  <2>2. QED
    BY <1>2, <1>5, <2>1 DEF Placed, n
<1>6. QED
  BY <1>4, <1>5

\* The seven accounts of a hop.
LEMMA SevenAccounts ==
  ASSUME NEW h, NEW tick
  PROVE  /\ \A k \in 1..7 : HopAccounts(h, tick)[k].of = h.pool
         /\ \A k \in 4..6 : HopAccounts(h, tick)[k].at = <<tick, h.aToB, k - 4>>
<1> DEFINE a == HopAccounts(h, tick)
<1>1. /\ a[1].of = h.pool /\ a[2].of = h.pool /\ a[3].of = h.pool /\ a[7].of = h.pool
      /\ a[4] = Account("ticks", h.pool, <<tick, h.aToB, 0>>)
      /\ a[5] = Account("ticks", h.pool, <<tick, h.aToB, 1>>)
      /\ a[6] = Account("ticks", h.pool, <<tick, h.aToB, 2>>)
  BY DEF HopAccounts, Account
<1>2. /\ a[4].of = h.pool /\ a[4].at = <<tick, h.aToB, 0>>
      /\ a[5].of = h.pool /\ a[5].at = <<tick, h.aToB, 1>>
      /\ a[6].of = h.pool /\ a[6].at = <<tick, h.aToB, 2>>
  BY <1>1 DEF Account
<1> HIDE DEF a
<1>3. \A k \in 1..7 : k \in {1, 2, 3, 4, 5, 6, 7}
  OBVIOUS
<1>4. \A k \in 1..7 : a[k].of = h.pool
  BY <1>1, <1>2, <1>3
<1>5. \A k \in 4..6 : a[k].at = <<tick, h.aToB, k - 4>>
  <2>1. \A k \in 4..6 : \/ k = 4 /\ k - 4 = 0
                        \/ k = 5 /\ k - 4 = 1
                        \/ k = 6 /\ k - 4 = 2
    OBVIOUS
  <2>2. QED
    BY <1>2, <2>1
<1>6. QED
  BY <1>4, <1>5 DEF a

LEMMA RouteIsFollowed ==
  ASSUME NEW b, NEW p, BuildIsRight(b, p), b.stage \in Ready, QuoteJoins(b.quote),
         ~b.quote.isSplit
  PROVE  FollowsRoute(b)
<1> DEFINE q == b.quote
           tx == Built(b)
           all == tx.accounts
           plan == tx.plan
           n == Len(q.route)
           m == Len(q.hops)
<1>1. Planned(b) /\ Placed(b)
  BY StepsInOrder, AccountsPlaced
<1>2. /\ n \in Nat /\ m \in Nat /\ n = m + 1 /\ m > 0
      /\ DOMAIN q.route = 1..n /\ DOMAIN q.hops = 1..m
  BY DEF QuoteJoins
<1>3. tx.tokens = n /\ tx.creates \subseteq {TokenAccount(b, User, 1), FeeAccount(b),
                                            TokenAccount(b, User, IF GoesDirect(b) THEN 2 ELSE n)}
  BY BuiltAlike
<1>4. /\ DOMAIN plan = 1..m /\ Len(plan) = m
      /\ \A i \in 1..m : plan[i] = Step(q.hops[i], 100, i - 1, i)
  BY <1>1 DEF Planned
<1>5. /\ Len(all) = n + 7 * m + (IF GoesDirect(b) THEN 0 ELSE 1) /\ DOMAIN all = 1..Len(all)
      /\ \A i \in 1..n : all[i] = TokenAccount(b, User, i)
      /\ \A i \in 1..m : \A k \in 1..7 :
           all[n + 7 * (i - 1) + k] = HopAccounts(q.hops[i], b.ticks[i])[k]
      /\ ~GoesDirect(b) => all[n + 7 * m + 1] = FeeAccount(b)
  BY <1>1 DEF Placed, TokensThenHops
<1> HIDE DEF all, plan
<1>6. \A i \in 1..m : /\ plan[i].input = i - 1 /\ plan[i].output = i
                      /\ plan[i].aToB = q.hops[i].aToB
  <2>1. ASSUME NEW i \in 1..m
        PROVE  plan[i].input = i - 1 /\ plan[i].output = i /\ plan[i].aToB = q.hops[i].aToB
    <3>1. plan[i] = [aToB |-> q.hops[i].aToB, percent |-> 100, input |-> i - 1, output |-> i]
      BY <1>4 DEF Step
    <3>2. QED
      BY <3>1
  <2>2. QED
    BY <2>1
<1>7. \A i \in 1..m : HopJoins(q.hops[i], q.route[i], q.route[i + 1])
  BY DEF QuoteJoins
<1>8. ASSUME NEW i \in 1..m, NEW k \in 1..7
      PROVE  all[n + 7 * (i - 1) + k].of = q.hops[i].pool
  <2> DEFINE h == q.hops[i]
             tick == b.ticks[i]
             a == HopAccounts(h, tick)
  <2>1. all[n + 7 * (i - 1) + k] = a[k]
    BY <1>5
  <2>2. a[k].of = h.pool
    <3> HIDE DEF h, tick
    <3>1. QED
      BY SevenAccounts
  <2> HIDE DEF a
  <2>3. QED
    BY <2>1, <2>2
<1>9. ASSUME NEW i \in 1..m
      PROVE  /\ PoolAt(tx, i) = q.hops[i].pool
             /\ q.route[plan[i].input + 1] = Takes(q.hops[i].pool, plan[i].aToB)
             /\ q.route[plan[i].output + 1] = Pays(q.hops[i].pool, plan[i].aToB)
             /\ plan[i].input = (IF i = 1 THEN 0 ELSE plan[i - 1].output)
  <2>1. PoolAt(tx, i) = all[n + 7 * (i - 1) + 1].of
    BY <1>3 DEF PoolAt, all
  <2>2. PoolAt(tx, i) = q.hops[i].pool
    <3>1. 1 \in 1..7
      OBVIOUS
    <3>2. all[n + 7 * (i - 1) + 1].of = q.hops[i].pool
      BY <1>8, <3>1
    <3>3. QED
      BY <2>1, <3>2
  <2>3. (i - 1) + 1 = i /\ (i # 1 => i - 1 \in 1..m)
    BY <1>2
  <2>4. plan[i].input = (IF i = 1 THEN 0 ELSE plan[i - 1].output)
    BY <1>6, <2>3
  <2>5. /\ q.route[plan[i].input + 1] = q.route[i] /\ q.route[plan[i].output + 1] = q.route[i + 1]
        /\ plan[i].aToB = q.hops[i].aToB
    BY <1>6, <2>3
  <2>6. /\ q.route[i] = Takes(q.hops[i].pool, q.hops[i].aToB)
        /\ q.route[i + 1] = Pays(q.hops[i].pool, q.hops[i].aToB)
    BY <1>7 DEF HopJoins
  <2>7. QED
    BY <2>2, <2>4, <2>5, <2>6
<1>10. plan[Len(plan)].output = tx.tokens - 1
  BY <1>2, <1>3, <1>4, <1>6
<1>11. ASSUME NEW i \in 1..n, Known(b, i)
       PROVE  all[i] = ATA(User, q.route[i], ProgramOf[q.route[i]])
  <2>1. ProgramFor(b, i) = ProgramOf[q.route[i]]
    BY <1>11, ProgramsAreRight
  <2>2. QED
    BY <1>5, <2>1 DEF TokenAccount
<1>12. ASSUME Known(b, tx.tokens), ~GoesDirect(b)
       PROVE  Last(all) = ATA(Fee, q.route[tx.tokens], ProgramOf[q.route[tx.tokens]])
  <2>1. Last(all) = all[n + 7 * m + 1]
    BY <1>5, <1>12 DEF Last
  <2>2. ProgramFor(b, n) = ProgramOf[q.route[n]]
    BY <1>2, <1>3, <1>12, ProgramsAreRight
  <2>3. QED
    BY <1>3, <1>5, <1>12, <2>1, <2>2 DEF FeeAccount, TokenAccount
<1>13. tx.creates \ {FeeAccount(b)} \subseteq Range(all)
  <2>1. GoesDirect(b) => n = 2
    BY <1>2 DEF GoesDirect
  <2>2. /\ 1 \in 1..n /\ n \in 1..n
        /\ \A i \in 1..n : i \in DOMAIN all
    <3>1. Len(all) \in Nat /\ n <= Len(all)
      <4>1. n \in Nat /\ m \in Nat /\ Len(all) = n + 7 * m + (IF GoesDirect(b) THEN 0 ELSE 1)
        BY <1>2, <1>5
      <4> HIDE DEF n, m
      <4>2. QED
        BY <4>1
    <3>2. n \in Nat /\ n >= 1 /\ DOMAIN all = 1..Len(all)
      BY <1>2, <1>5
    <3> HIDE DEF n, m
    <3>3. QED
      BY <3>1, <3>2
  <2>3. \A i \in 1..n : TokenAccount(b, User, i) \in Range(all)
    BY <1>5, <2>2 DEF Range
  <2>4. QED
    BY <1>3, <2>1, <2>2, <2>3
<1>14. Len(all) = tx.tokens + 7 * Len(plan) + (IF GoesDirect(b) THEN 0 ELSE 1)
  BY <1>3, <1>4, <1>5
<1>15. \A i \in 1..m : \A k \in 1..7 : all[tx.tokens + 7 * (i - 1) + k].of = q.hops[i].pool
  BY <1>3, <1>8
<1>16. QED
  BY <1>2, <1>4, <1>9, <1>10, <1>11, <1>12, <1>13, <1>14, <1>15 DEF FollowsRoute, all, plan

LEMMA PlansAreRight ==
  ASSUME SwapInv
  PROVE  PlanFollowsRoute
<1>1. ASSUME NEW r \in Made, ~build[r].quote.isSplit PROVE FollowsRoute(build[r])
  BY <1>1, MadeIsReady, RouteIsFollowed
<1>2. QED
  BY <1>1 DEF PlanFollowsRoute

\* A transaction that takes all of the amount through the hops of the quote, one
\* after the other, on accounts that fit.
Straight(tx, q) ==
  /\ Len(tx.plan) = Len(q.hops) /\ tx.tokens = Len(q.hops) + 1
  /\ Len(q.hops) \in Nat /\ Len(q.hops) > 0 /\ tx.amount \in Nat
  /\ \A i \in 1..Len(q.hops) :
       /\ tx.plan[i].input = i - 1 /\ tx.plan[i].output = i /\ tx.plan[i].percent = 100
       /\ PoolAt(tx, i) = q.hops[i].pool
       /\ StepFits(tx, i)

\* All of an amount is 100 percent of it.
LEMMA Whole ==
  ASSUME NEW a \in Nat
  PROVE  (a * 100) \div 100 = a
  OBVIOUS

\* The flow of the quote is what the program hands from step to step.
LEMMA RunsForward ==
  ASSUME NEW tx, NEW q, NEW f, Straight(tx, q), Flow(q, f, TRUE, pool),
         tx.exactIn = TRUE, tx.amount = q.in
  PROVE  Run(tx).ok /\ Run(tx).in = q.in /\ Run(tx).out = q.out
<1> DEFINE n == Len(tx.plan)
           share(i) == (tx.amount * tx.plan[i].percent) \div 100
           IsFwd(h) == h = [i \in 0..n |->
             IF i = 0 THEN 0
             ELSE Give(pool[PoolAt(tx, i)], IF tx.plan[i].input = 0 THEN share(i) ELSE h[i - 1])]
           fwd == CHOOSE h : IsFwd(h)
           IsPaid(h) == h = [i \in 0..n |->
             IF i = 0 THEN 0
             ELSE h[i - 1] + (IF tx.plan[i].output = tx.tokens - 1 THEN fwd[i] ELSE 0)]
           paid == CHOOSE h : IsPaid(h)
           fed(i) == IF tx.plan[i].input = 0 THEN share(i) ELSE fwd[i - 1]
<1>1. Run(tx).in = tx.amount /\ Run(tx).out = paid[n]
  BY DEF Run
<1>2. Run(tx).ok <=> \A i \in 1..n : /\ StepFits(tx, i)
                                     /\ ~Fails(pool[PoolAt(tx, i)], fed(i), TRUE)
  BY DEF Run
<1>3. /\ n \in Nat /\ n > 0 /\ n = Len(q.hops) /\ tx.tokens - 1 = n
      /\ \A i \in 1..n : /\ tx.plan[i].input = i - 1 /\ tx.plan[i].output = i
                         /\ PoolAt(tx, i) = q.hops[i].pool /\ StepFits(tx, i)
  BY DEF Straight
<1>4. \A i \in 1..n : share(i) = q.in
  <2>1. q.in \in Nat /\ \A i \in 1..n : tx.plan[i].percent = 100
    BY <1>3 DEF Straight
  <2>2. QED
    BY <2>1, Whole
<1>5. /\ f[0] = q.in /\ f[n] = q.out /\ f \in [0..n -> Nat]
      /\ \A i \in 1..n : /\ ~Fails(pool[PoolAt(tx, i)], f[i - 1], TRUE)
                         /\ f[i] = Give(pool[PoolAt(tx, i)], f[i - 1])
  BY <1>3 DEF Flow, Swaps
<1> HIDE DEF n, share
<1>6. /\ \A i \in 1..n : fwd[i] = f[i]
  <2> DEFINE w == [i \in 0..n |-> IF i = 0 THEN 0 ELSE f[i]]
  <2>1. w[0] = 0 /\ \A i \in 1..n : w[i] = f[i]
    BY <1>3
  <2>2. ASSUME NEW i \in 1..n, NEW x, i # 1 => x = f[i - 1]
        PROVE  Give(pool[PoolAt(tx, i)], IF tx.plan[i].input = 0 THEN share(i) ELSE x) = f[i]
    <3>1. (IF tx.plan[i].input = 0 THEN share(i) ELSE x) = f[i - 1]
      BY <1>3, <1>4, <1>5, <2>2
    <3>2. QED
      BY <1>5, <3>1
  <2>3. ASSUME NEW i \in 1..n
        PROVE  f[i] = Give(pool[PoolAt(tx, i)],
                           IF tx.plan[i].input = 0 THEN share(i) ELSE w[i - 1])
    <3>1. i # 1 => w[i - 1] = f[i - 1]
      BY <1>3, <2>1
    <3> HIDE DEF w
    <3>2. QED
      BY <2>2, <3>1
  <2>4. IsFwd(w)
    <3>1. w = [i \in 0..n |-> IF i = 0 THEN 0
             ELSE Give(pool[PoolAt(tx, i)], IF tx.plan[i].input = 0 THEN share(i) ELSE w[i - 1])]
      <4> DEFINE v == [i \in 0..n |-> IF i = 0 THEN 0
             ELSE Give(pool[PoolAt(tx, i)], IF tx.plan[i].input = 0 THEN share(i) ELSE w[i - 1])]
      <4>1. ASSUME NEW i \in 0..n PROVE w[i] = v[i]
        <5>1. CASE i = 0
          BY <5>1
        <5>2. CASE i # 0
          <6>1. i \in 1..n
            BY <1>3, <5>2
          <6>2. v[i] = f[i]
            BY <2>3, <5>2, <6>1, Zenon
          <6>3. QED
            BY <2>1, <6>1, <6>2
        <5>3. QED
          BY <5>1, <5>2
      <4>2. QED
        BY <4>1, Zenon
    <3>2. QED
      BY <3>1
  <2>5. IsFwd(fwd)
    <3> HIDE DEF IsFwd
    <3>1. QED
      BY <2>4
  <2> HIDE DEF fwd, w
  <2>6. fwd[0] = 0 /\ \A i \in 1..n :
          fwd[i] = Give(pool[PoolAt(tx, i)],
                        IF tx.plan[i].input = 0 THEN share(i) ELSE fwd[i - 1])
    <3>1. 0 \in 0..n /\ \A i \in 1..n : i \in 0..n /\ i # 0
      BY <1>3
    <3>2. QED
      BY <2>5, <3>1, Zenon
  <2>7. AlikeSoFar(fwd, w, n)
    <3>1. ASSUME NEW i \in 1..n, fwd[i - 1] = w[i - 1] PROVE fwd[i] = w[i]
      <4>1. i # 1 => fwd[i - 1] = f[i - 1]
        BY <1>3, <2>1, <3>1
      <4>2. fwd[i] = f[i]
        BY <2>2, <2>6, <4>1
      <4>3. QED
        BY <2>1, <4>2
    <3>2. QED
      BY <2>1, <2>6, <3>1 DEF AlikeSoFar
  <2>8. Alike(fwd, w, n)
    BY <1>3, <2>7, Agreement
  <2>9. \A i \in 1..n : i \in 0..n
    BY <1>3
  <2>10. QED
    BY <2>1, <2>8, <2>9 DEF Alike
<1> HIDE DEF fwd
<1>7. paid[n] = f[n]
  <2> DEFINE w == [i \in 0..n |-> IF i = n THEN f[n] ELSE 0]
  <2>1. w[0] = 0 /\ w[n] = f[n] /\ \A i \in 0..n : i # n => w[i] = 0
    BY <1>3
  <2>2. ASSUME NEW i \in 1..n
        PROVE  /\ w[i] = w[i - 1] + (IF tx.plan[i].output = tx.tokens - 1 THEN fwd[i] ELSE 0)
               /\ w[i] = 0 + (IF tx.plan[i].output = tx.tokens - 1 THEN fwd[i] ELSE 0)
               /\ w[i - 1] = 0
    <3>1. w[i - 1] = 0 /\ i \in 0..n /\ f[n] \in Nat
      BY <1>3, <1>5, <2>1
    <3>2. CASE i = n
      BY <1>3, <1>6, <2>1, <3>1, <3>2
    <3>3. CASE i # n
      BY <1>3, <2>1, <3>1, <3>3
    <3>4. QED
      BY <3>2, <3>3
  <2>3. IsPaid(w)
    <3>1. \A i \in 0..n : i # 0 => i \in 1..n
      BY <1>3
    <3> DEFINE v == [i \in 0..n |-> IF i = 0 THEN 0
             ELSE w[i - 1] + (IF tx.plan[i].output = tx.tokens - 1 THEN fwd[i] ELSE 0)]
    <3>2. ASSUME NEW i \in 0..n PROVE w[i] = v[i]
      <4>1. CASE i = 0
        BY <2>1, <4>1
      <4>2. CASE i # 0
        BY <2>2, <3>1, <4>2, Zenon
      <4>3. QED
        BY <4>1, <4>2
    <3>3. w = v
      BY <3>2, Zenon
    <3>4. QED
      BY <3>3
  <2>4. IsPaid(paid)
    <3> HIDE DEF IsPaid
    <3>1. QED
      BY <2>3
  <2> HIDE DEF paid, w
  <2>5. paid[0] = 0 /\ \A i \in 1..n :
          paid[i] = paid[i - 1] + (IF tx.plan[i].output = tx.tokens - 1 THEN fwd[i] ELSE 0)
    <3>1. 0 \in 0..n /\ \A i \in 1..n : i \in 0..n /\ i # 0
      BY <1>3
    <3>2. QED
      BY <2>4, <3>1, Zenon
  <2>6. AlikeSoFar(paid, w, n)
    <3>1. ASSUME NEW i \in 1..n, paid[i - 1] = w[i - 1] PROVE paid[i] = w[i]
      BY <2>2, <2>5, <3>1, Zenon
    <3>2. QED
      BY <2>1, <2>5, <3>1 DEF AlikeSoFar
  <2>7. Alike(paid, w, n) /\ n \in 0..n
    BY <1>3, <2>6, Agreement
  <2>8. QED
    BY <2>1, <2>7 DEF Alike
<1>8. ASSUME NEW i \in 1..n PROVE ~Fails(pool[PoolAt(tx, i)], fed(i), TRUE)
  <2>1. fed(i) = f[i - 1]
    <3>1. CASE i = 1
      BY <1>3, <1>4, <1>5, <3>1
    <3>2. CASE i # 1
      <4>1. i - 1 \in 1..n
        BY <1>3, <3>2
      <4>2. QED
        BY <1>3, <1>6, <4>1, <3>2
    <3>3. QED
      BY <3>1, <3>2
  <2> HIDE DEF fed
  <2>2. QED
    BY <1>5, <2>1
<1> HIDE DEF paid, fed
<1>9. QED
  BY <1>1, <1>2, <1>3, <1>5, <1>7, <1>8

\* And from the last step to the first for an exact output.
LEMMA RunsBackward ==
  ASSUME NEW tx, NEW q, NEW f, Straight(tx, q), Flow(q, f, FALSE, pool),
         tx.exactIn = FALSE, tx.amount = q.out
  PROVE  Run(tx).ok /\ Run(tx).in = q.in /\ Run(tx).out = q.out
<1> DEFINE n == Len(tx.plan)
           share(i) == (tx.amount * tx.plan[i].percent) \div 100
           IsBack(h) == h = [i \in 0..n |->
             IF i = 0 THEN 0
             ELSE LET k == n + 1 - i IN
                  Take(pool[PoolAt(tx, k)],
                       IF tx.plan[k].output = tx.tokens - 1 THEN share(k) ELSE h[i - 1])]
           back == CHOOSE h : IsBack(h)
           IsTaken(h) == h = [i \in 0..n |->
             IF i = 0 THEN 0
             ELSE h[i - 1] + (IF tx.plan[i].input = 0 THEN back[n + 1 - i] ELSE 0)]
           taken == CHOOSE h : IsTaken(h)
           owed(i) == IF tx.plan[i].output = tx.tokens - 1 THEN share(i) ELSE back[n - i]
<1>1. Run(tx).out = tx.amount /\ Run(tx).in = taken[n]
  BY DEF Run
<1>2. Run(tx).ok <=> \A i \in 1..n : /\ StepFits(tx, i)
                                     /\ ~Fails(pool[PoolAt(tx, i)], owed(i), FALSE)
  BY DEF Run
<1>3. /\ n \in Nat /\ n > 0 /\ n = Len(q.hops) /\ tx.tokens - 1 = n
      /\ \A i \in 1..n : /\ tx.plan[i].input = i - 1 /\ tx.plan[i].output = i
                         /\ PoolAt(tx, i) = q.hops[i].pool /\ StepFits(tx, i)
  BY DEF Straight
<1>4. \A i \in 1..n : share(i) = q.out
  <2>1. q.out \in Nat /\ \A i \in 1..n : tx.plan[i].percent = 100
    BY <1>3 DEF Straight
  <2>2. QED
    BY <2>1, Whole
<1>5. /\ f[0] = q.in /\ f[n] = q.out /\ f \in [0..n -> Nat]
      /\ \A i \in 1..n : /\ ~Fails(pool[PoolAt(tx, i)], f[i], FALSE)
                         /\ f[i - 1] = Take(pool[PoolAt(tx, i)], f[i])
  BY <1>3 DEF Flow, Swaps
<1> HIDE DEF n, share
<1>6. \A i \in 1..n : back[i] = f[n - i]
  <2> DEFINE w == [i \in 0..n |-> IF i = 0 THEN 0 ELSE f[n - i]]
             next(i, x) == Take(pool[PoolAt(tx, n + 1 - i)],
                                IF tx.plan[n + 1 - i].output = tx.tokens - 1
                                THEN share(n + 1 - i) ELSE x)
  <2>1. w[0] = 0 /\ \A i \in 1..n : w[i] = f[n - i]
    BY <1>3
  <2>2. ASSUME NEW i \in 1..n, NEW x, i # 1 => x = f[n - (i - 1)]
        PROVE  next(i, x) = f[n - i]
    <3> DEFINE k == n + 1 - i
    <3>1. k \in 1..n /\ k - 1 = n - i /\ k = n - (i - 1) /\ (i = 1 <=> k = n)
      BY <1>3
    <3> HIDE DEF k
    <3>2. (IF tx.plan[k].output = tx.tokens - 1 THEN share(k) ELSE x) = f[k]
      BY <1>3, <1>4, <1>5, <2>2, <3>1
    <3>3. Take(pool[PoolAt(tx, k)],
               IF tx.plan[k].output = tx.tokens - 1 THEN share(k) ELSE x) = f[n - i]
      BY <1>5, <3>1, <3>2
    <3>4. QED
      BY <3>3 DEF k
  <2> HIDE DEF next
  <2>3. ASSUME NEW i \in 1..n PROVE f[n - i] = next(i, w[i - 1])
    <3>1. i # 1 => w[i - 1] = f[n - (i - 1)]
      BY <1>3, <2>1
    <3> HIDE DEF w
    <3>2. QED
      BY <2>2, <3>1
  <2>4. IsBack(w)
    <3> DEFINE v == [i \in 0..n |-> IF i = 0 THEN 0 ELSE next(i, w[i - 1])]
    <3>1. ASSUME NEW i \in 0..n PROVE w[i] = v[i]
      <4>1. CASE i = 0
        BY <4>1
      <4>2. CASE i # 0
        <5>1. i \in 1..n
          BY <1>3, <4>2
        <5>2. v[i] = f[n - i]
          BY <2>3, <4>2, <5>1, Zenon
        <5>3. QED
          BY <2>1, <5>1, <5>2
      <4>3. QED
        BY <4>1, <4>2
    <3>2. w = v
      BY <3>1, Zenon
    <3>3. QED
      BY <3>2, Zenon DEF next
  <2>5. IsBack(back)
    <3> HIDE DEF IsBack
    <3>1. QED
      BY <2>4
  <2> HIDE DEF back, w
  <2>6. back[0] = 0 /\ \A i \in 1..n : back[i] = next(i, back[i - 1])
    <3>1. 0 \in 0..n /\ \A i \in 1..n : i \in 0..n /\ i # 0
      BY <1>3
    <3>2. back = [i \in 0..n |-> IF i = 0 THEN 0 ELSE next(i, back[i - 1])]
      BY <2>5, Zenon DEF next
    <3>3. QED
      BY <3>1, <3>2, Zenon
  <2>7. AlikeSoFar(back, w, n)
    <3>1. ASSUME NEW i \in 1..n, back[i - 1] = w[i - 1] PROVE back[i] = w[i]
      <4>1. i # 1 => back[i - 1] = f[n - (i - 1)]
        BY <1>3, <2>1, <3>1
      <4>2. back[i] = f[n - i]
        BY <2>2, <2>6, <4>1
      <4>3. QED
        BY <2>1, <4>2
    <3>2. QED
      BY <2>1, <2>6, <3>1 DEF AlikeSoFar
  <2>8. Alike(back, w, n)
    BY <1>3, <2>7, Agreement
  <2>9. \A i \in 1..n : i \in 0..n
    BY <1>3
  <2>10. QED
    BY <2>1, <2>8, <2>9 DEF Alike
<1> HIDE DEF back
<1>7. back[n] = f[0]
  BY <1>3, <1>6
<1>8. taken[n] = f[0]
  <2> DEFINE w == [i \in 0..n |-> IF i = 0 THEN 0 ELSE f[0]]
             more(i) == IF tx.plan[i].input = 0 THEN back[n + 1 - i] ELSE 0
  <2>1. w[0] = 0 /\ \A i \in 1..n : w[i] = f[0]
    BY <1>3
  <2>2. ASSUME NEW i \in 1..n PROVE w[i] = w[i - 1] + more(i)
    <3>1. f[0] \in Nat
      BY <1>3, <1>5
    <3>2. CASE i = 1
      <4>1. more(i) = f[0]
        BY <1>3, <1>7, <3>2
      <4> HIDE DEF more
      <4>2. QED
        BY <2>1, <3>1, <3>2, <4>1
    <3>3. CASE i # 1
      <4>1. more(i) = 0 /\ i - 1 \in 1..n
        BY <1>3, <3>3
      <4> HIDE DEF more
      <4>2. QED
        BY <2>1, <3>1, <4>1
    <3>4. QED
      BY <3>2, <3>3
  <2> HIDE DEF more
  <2>3. IsTaken(w)
    <3>1. \A i \in 0..n : i # 0 => i \in 1..n
      BY <1>3
    <3> DEFINE v == [i \in 0..n |-> IF i = 0 THEN 0 ELSE w[i - 1] + more(i)]
    <3>2. ASSUME NEW i \in 0..n PROVE w[i] = v[i]
      <4>1. CASE i = 0
        BY <2>1, <4>1
      <4>2. CASE i # 0
        BY <2>2, <3>1, <4>2, Zenon
      <4>3. QED
        BY <4>1, <4>2
    <3>3. w = v
      BY <3>2, Zenon
    <3>4. QED
      BY <3>3, Zenon DEF more
  <2>4. IsTaken(taken)
    <3> HIDE DEF IsTaken
    <3>1. QED
      BY <2>3
  <2> HIDE DEF taken, w
  <2>5. taken[0] = 0 /\ \A i \in 1..n : taken[i] = taken[i - 1] + more(i)
    <3>1. 0 \in 0..n /\ \A i \in 1..n : i \in 0..n /\ i # 0
      BY <1>3
    <3>2. taken = [i \in 0..n |-> IF i = 0 THEN 0 ELSE taken[i - 1] + more(i)]
      BY <2>4, Zenon DEF more
    <3>3. QED
      BY <3>1, <3>2, Zenon
  <2>6. AlikeSoFar(taken, w, n)
    <3>1. ASSUME NEW i \in 1..n, taken[i - 1] = w[i - 1] PROVE taken[i] = w[i]
      BY <2>2, <2>5, <3>1, Zenon
    <3>2. QED
      BY <2>1, <2>5, <3>1 DEF AlikeSoFar
  <2>7. Alike(taken, w, n) /\ n \in 0..n /\ n \in 1..n
    BY <1>3, <2>6, Agreement
  <2>8. QED
    BY <2>1, <2>7 DEF Alike
<1>9. ASSUME NEW i \in 1..n PROVE ~Fails(pool[PoolAt(tx, i)], owed(i), FALSE)
  <2>1. owed(i) = f[i]
    <3>1. CASE i = n
      BY <1>3, <1>4, <1>5, <3>1
    <3>2. CASE i # n
      <4>1. n - i \in 1..n /\ n - (n - i) = i
        BY <1>3, <3>2
      <4>2. QED
        BY <1>3, <1>6, <4>1, <3>2
    <3>3. QED
      BY <3>1, <3>2
  <2> HIDE DEF owed
  <2>2. QED
    BY <1>5, <2>1
<1> HIDE DEF taken, owed
<1>10. QED
  BY <1>1, <1>2, <1>3, <1>5, <1>8, <1>9

\* The accounts fit: those of the user for the tokens of each pool, and the tick
\* arrays from the tick that the pool has.
LEMMA StepsFit ==
  ASSUME NEW b, BuildIsRight(b, pool), b.stage \in Ready, ~b.quote.isSplit, ~b.moved,
         QuoteJoins(b.quote), AllKnown(b), NEW i \in 1..Len(b.quote.hops)
  PROVE  StepFits(Built(b), i)
<1> DEFINE q == b.quote
           tx == Built(b)
           all == tx.accounts
           s == tx.plan[i]
           h == q.hops[i]
           p == h.pool
           n == Len(q.route)
           at(k) == all[tx.tokens + 7 * (i - 1) + k]
<1>1. FollowsRoute(b) /\ Planned(b) /\ Placed(b)
  BY RouteIsFollowed, StepsInOrder, AccountsPlaced
<1>2. /\ n \in Nat /\ n = Len(q.hops) + 1 /\ DOMAIN q.route = 1..n
      /\ Len(q.hops) \in Nat /\ HopJoins(h, q.route[i], q.route[i + 1])
  BY DEF QuoteJoins
<1>3. tx.tokens = n
  BY BuiltAlike
<1>4. s = Step(h, 100, i - 1, i) /\ i \in DOMAIN tx.plan
  BY <1>1 DEF Planned
<1>5. s.input = i - 1 /\ s.output = i /\ s.aToB = h.aToB
  BY <1>4 DEF Step
<1>6. PoolAt(tx, i) = p
  BY <1>1, <1>4 DEF FollowsRoute
<1>7. \A k \in 1..7 : at(k) = HopAccounts(h, b.ticks[i])[k]
  BY <1>1, <1>3 DEF Placed, TokensThenHops
<1>8. b.ticks[i] = TickOf[pool[p]]
  <2>1. Len(b.ticks) = Len(q.hops) /\ b.stage \in Begun
    BY DEF BuildIsRight, Begun
  <2>2. QED
    BY <2>1 DEF BuildIsRight
<1>9. ASSUME NEW k \in 1..7
      PROVE  at(k).of = p /\ (k \in 4..6 => at(k).at = <<TickOf[pool[p]], h.aToB, k - 4>>)
  <2> DEFINE tick == b.ticks[i]
             a == HopAccounts(h, tick)
  <2>1. at(k) = a[k]
    BY <1>7
  <2>2. a[k].of = h.pool /\ (k \in 4..6 => a[k].at = <<tick, h.aToB, k - 4>>)
    <3> HIDE DEF h, tick
    <3>1. QED
      BY SevenAccounts
  <2> HIDE DEF a, at
  <2>3. QED
    BY <1>8, <2>1, <2>2
<1>10. ASSUME NEW j \in 1..n
       PROVE  all[j] = ATA(User, q.route[j], ProgramOf[q.route[j]])
  <2>1. Known(b, j)
    BY <1>2 DEF AllKnown
  <2>2. QED
    BY <1>1, <1>2, <2>1 DEF FollowsRoute
<1>11. i \in 1..n /\ i + 1 \in 1..n /\ (i - 1) + 1 = i
  BY <1>2
<1>12. /\ q.route[i] = Takes(p, h.aToB) /\ q.route[i + 1] = Pays(p, h.aToB)
  BY <1>2 DEF HopJoins
<1>13. /\ all[s.input + 1] = ATA(User, Takes(p, s.aToB), ProgramOf[Takes(p, s.aToB)])
       /\ all[s.output + 1] = ATA(User, Pays(p, s.aToB), ProgramOf[Pays(p, s.aToB)])
  BY <1>5, <1>10, <1>11, <1>12, SMTT(40)
<1>14. \A k \in 1..7 : at(k).of = p
  BY <1>9, SMTT(40)
<1>15. \A k \in 4..6 : at(k).at = <<TickOf[pool[p]], s.aToB, k - 4>>
  <2>1. \A k \in 4..6 : k \in 1..7
    OBVIOUS
  <2>2. QED
    BY <1>5, <1>9, <2>1
<1> HIDE DEF p, s
<1>16. QED
  BY <1>6, <1>13, <1>14, <1>15 DEF StepFits, s

\* A part of an amount is no more than it, the amount and more no less, rounded down.
LEMMA PartAndMore ==
  ASSUME NEW B \in Nat \ {0}, NEW k \in Nat, NEW x \in Nat
  PROVE  /\ (x * k) \div B \in Nat
         /\ k <= B => (x * k) \div B <= x
         /\ k >= B => x <= (x * k) \div B
<1> DEFINE y == x * k
           u == y \div B
           xb == x * B
<1>1. y \in Nat /\ xb \in Nat
  OBVIOUS
<1>2. /\ k <= B => y <= xb
      /\ k >= B => y >= xb
  <2>1. CASE k <= B
    <3> DEFINE d == B - k
    <3>1. d \in Nat
      BY <2>1
    <3>2. xb = y + x * d
      OBVIOUS
    <3>3. x * d \in Nat
      <4> HIDE DEF d
      <4>1. QED
        BY <3>1
    <3> DEFINE xd == x * d
    <3>4. xb = y + xd /\ xd \in Nat
      BY <3>2, <3>3
    <3> HIDE DEF xd, y, xb
    <3>5. y <= xb
      BY <1>1, <3>4
    <3>6. k >= B => y >= xb
      <4>1. k >= B => k = B
        BY <2>1
      <4>2. QED
        BY <4>1, <1>1 DEF y, xb
    <3>7. QED
      BY <3>5, <3>6
  <2>2. CASE k > B
    <3> DEFINE d == k - B
    <3>1. d \in Nat
      BY <2>2
    <3>2. y = xb + x * d
      OBVIOUS
    <3>3. x * d \in Nat
      <4> HIDE DEF d
      <4>1. QED
        BY <3>1
    <3> DEFINE xd == x * d
    <3>4. y = xb + xd /\ xd \in Nat
      BY <3>2, <3>3
    <3> HIDE DEF xd, y, xb
    <3>5. y >= xb
      BY <1>1, <3>4
    <3>6. QED
      BY <2>2, <3>5
  <2>3. QED
    BY <2>1, <2>2
<1> HIDE DEF y
<1>3. u \in Nat /\ B * u <= y /\ y < B * u + B
  BY <1>1, Quotient
<1> DEFINE bu == B * u
           bx == B * x
<1>4. bu \in Nat /\ bx \in Nat /\ bx = xb
  BY <1>3
<1>5. ASSUME k <= B PROVE u <= x
  <2>1. bu <= bx
    <3> HIDE DEF bu, bx, xb, u
    <3>1. bu <= y
      BY <1>3 DEF bu
    <3>2. QED
      BY <1>1, <1>2, <1>4, <1>5, <3>1
  <2>2. u \in Int /\ x \in Int
    BY <1>3
  <2> HIDE DEF u
  <2>3. QED
    BY <2>1, <2>2, Cancelled DEF bu, bx
<1>6. ASSUME k >= B PROVE x <= u
  <2>1. bx < bu + B
    <3> HIDE DEF bx, xb, u
    <3>1. y < bu + B
      BY <1>3 DEF bu
    <3> HIDE DEF bu
    <3>2. QED
      BY <1>1, <1>2, <1>4, <1>6, <3>1
  <2>2. u \in Int /\ u + 1 \in Int /\ x \in Int
    BY <1>3
  <2> HIDE DEF u
  <2>3. B * (u + 1) = bu + B
    BY <2>2
  <2> DEFINE v == u + 1
  <2>4. B * x < B * v /\ v \in Int
    BY <2>1, <2>2, <2>3
  <2> HIDE DEF v
  <2>5. x < v
    BY <2>2, <2>4, Cancelled
  <2>6. QED
    BY <2>2, <2>5 DEF v
<1>7. QED
  BY <1>3, <1>5, <1>6 DEF y

\* The limits at a slippage of at most 100 %.
LEMMA LimitsLeaveRoom ==
  ASSUME NEW q, q.in \in Nat, q.out \in Nat, NEW s \in Nat, s <= Bps
  PROVE  /\ Limit(q, TRUE, s) \in Nat /\ Limit(q, TRUE, s) <= q.out
         /\ Limit(q, FALSE, s) \in Nat /\ q.in <= Limit(q, FALSE, s)
<1>1. Bps \in Nat \ {0} /\ Bps = 10000 /\ 2 * Half = 65536
  BY SMT DEF Bps, Half
<1>2. /\ Uint16(Bps + s) = Bps + s /\ Uint16(Bps - s) = Bps - s
      /\ Bps + s \in Nat /\ Bps - s \in Nat /\ Bps + s >= Bps /\ Bps - s <= Bps
  BY <1>1, SMT DEF Uint16
<1> DEFINE B == Bps
           less == Bps - s
           more == Bps + s
           in == q.in
           out == q.out
<1>3. /\ Limit(q, FALSE, s) = (in * more) \div B
      /\ Limit(q, TRUE, s) = (out * less) \div B
  BY <1>2, Zenon DEF Limit
<1>4. /\ B \in Nat \ {0} /\ less \in Nat /\ more \in Nat /\ less <= B /\ more >= B
      /\ in \in Nat /\ out \in Nat
  <2>1. B \in Nat \ {0}
    BY <1>1
  <2>2. QED
    BY <1>2, <2>1
<1> HIDE DEF B, less, more, in, out
<1>5. /\ (out * less) \div B \in Nat /\ (out * less) \div B <= out
      /\ (in * more) \div B \in Nat /\ in <= (in * more) \div B
  BY <1>4, PartAndMore
<1>6. QED
  BY <1>3, <1>5 DEF in, out

\* The default is applied once, or again, with the same result below 100 %.
LEMMA DefaultedSlippage ==
  ASSUME NEW n \in Nat, n <= Bps
  PROVE  SlippageOr50(n) \in Nat /\ SlippageOr50(n) <= Bps
<1>1. Bps = 10000
  BY SMT DEF Bps
<1>2. QED
  BY <1>1, SMT DEF SlippageOr50

\* The transaction of a quote over whole pools that nothing has changed.
LEMMA QuoteIsPaid ==
  ASSUME NEW b, BuildIsRight(b, pool), b.stage \in Ready, QuoteJoins(b.quote),
         b.quote.parts = "one", ~b.moved, Fits(b), AllKnown(b)
  PROVE  PaysTheQuote(b)
<1> DEFINE q == b.quote
           tx == Built(b)
           s == SlippageOr50(b.slippage)
           run == Run(tx)
<1>1. ~q.isSplit /\ b.stage \in Begun
  BY DEF QuoteJoins, Begun
<1>2. q.in \in Nat /\ q.out \in Nat /\ b.exactIn \in BOOLEAN /\ b.slippage \in Nat
  BY DEF QuoteJoins, BuildIsRight
<1>3. PICK f : Flow(q, f, b.exactIn, pool)
  BY <1>1 DEF BuildIsRight
<1>4. q.in < Word /\ q.out < Word /\ Limit(q, FALSE, s) < Word /\ b.slippage <= Bps
  BY DEF Fits
<1>5. /\ Limit(q, TRUE, s) \in Nat /\ Limit(q, TRUE, s) <= q.out
      /\ Limit(q, FALSE, s) \in Nat /\ q.in <= Limit(q, FALSE, s)
  <2>1. s \in Nat /\ s <= Bps
    BY <1>2, <1>4, DefaultedSlippage
  <2> HIDE DEF s, q
  <2>2. QED
    BY <1>2, <2>1, LimitsLeaveRoom
<1>6. /\ tx.limit = Uint64(Limit(q, b.exactIn, s)) /\ tx.exactIn = b.exactIn
      /\ tx.amount = Uint64(IF b.exactIn THEN q.in ELSE q.out)
      /\ tx.tokens = Len(q.route)
  BY BuiltAlike
<1>7. tx.amount = (IF b.exactIn THEN q.in ELSE q.out) /\ tx.amount \in Nat
  BY <1>2, <1>4, <1>6, NumbersAssumption, Remainders DEF Uint64
<1>8. Straight(tx, q)
  <2>1. Planned(b) /\ FollowsRoute(b)
    BY <1>1, StepsInOrder, RouteIsFollowed
  <2>2. Len(q.hops) \in Nat /\ Len(q.hops) > 0 /\ Len(q.route) = Len(q.hops) + 1
    BY <1>1 DEF QuoteJoins
  <2>3. ASSUME NEW i \in 1..Len(q.hops)
        PROVE  /\ tx.plan[i].input = i - 1 /\ tx.plan[i].output = i /\ tx.plan[i].percent = 100
               /\ PoolAt(tx, i) = q.hops[i].pool
               /\ StepFits(tx, i)
    <3>1. tx.plan[i] = Step(q.hops[i], 100, i - 1, i) /\ i \in DOMAIN tx.plan
      BY <2>1 DEF Planned
    <3>2. tx.plan[i].input = i - 1 /\ tx.plan[i].output = i /\ tx.plan[i].percent = 100
      BY <3>1 DEF Step
    <3>3. PoolAt(tx, i) = q.hops[i].pool
      BY <2>1, <3>1 DEF FollowsRoute
    <3>4. StepFits(tx, i)
      BY <1>1, StepsFit
    <3>5. QED
      BY <3>2, <3>3, <3>4
  <2>4. Len(tx.plan) = Len(q.hops) /\ tx.tokens = Len(q.hops) + 1
    BY <1>6, <2>1, <2>2 DEF Planned
  <2> HIDE DEF tx, q
  <2>5. QED
    BY <1>7, <2>2, <2>3, <2>4 DEF Straight
<1> HIDE DEF tx, s, run
<1>9. run.ok /\ run.in = q.in /\ run.out = q.out
  <2>1. CASE b.exactIn
    <3>1. b.exactIn = TRUE
      BY <1>2, <2>1
    <3>2. tx.exactIn = TRUE /\ tx.amount = q.in /\ Flow(q, f, TRUE, pool)
      BY <1>3, <1>6, <1>7, <3>1
    <3> HIDE DEF q
    <3>3. QED
      BY <1>8, <3>2, RunsForward DEF run
  <2>2. CASE ~b.exactIn
    <3>1. b.exactIn = FALSE
      BY <1>2, <2>2
    <3>2. tx.exactIn = FALSE /\ tx.amount = q.out /\ Flow(q, f, FALSE, pool)
      BY <1>3, <1>6, <1>7, <3>1
    <3> HIDE DEF q
    <3>3. QED
      BY <1>8, <3>2, RunsBackward DEF run
  <2>3. QED
    BY <2>1, <2>2
<1>10. WithinLimit(tx, run)
  <2> HIDE DEF q
  <2>1. CASE b.exactIn
    <3>1. b.exactIn = TRUE
      BY <1>2, <2>1
    <3> DEFINE l == Limit(q, TRUE, s)
    <3>2. tx.limit = l % Word /\ tx.exactIn = TRUE
      BY <1>6, <3>1 DEF Uint64
    <3>3. l \in Nat /\ l <= q.out
      BY <1>5
    <3> HIDE DEF l
    <3>4. l % Word \in Nat /\ l % Word <= l
      BY <3>3, NumbersAssumption, Remainders
    <3>5. run.out >= tx.limit
      BY <1>2, <1>9, <3>2, <3>3, <3>4 DEF q
    <3>6. QED
      BY <3>2, <3>5 DEF WithinLimit
  <2>2. CASE ~b.exactIn
    <3>1. b.exactIn = FALSE
      BY <1>2, <2>2
    <3> DEFINE l == Limit(q, FALSE, s)
    <3>2. tx.limit = l % Word /\ tx.exactIn = FALSE
      BY <1>6, <3>1 DEF Uint64
    <3>3. l \in Nat /\ q.in <= l /\ l < Word
      BY <1>4, <1>5
    <3> HIDE DEF l
    <3>4. l % Word = l
      BY <3>3, NumbersAssumption, Remainders
    <3>5. run.in <= tx.limit
      BY <1>9, <3>2, <3>3, <3>4
    <3>6. QED
      BY <3>2, <3>5 DEF WithinLimit
  <2>3. QED
    BY <2>1, <2>2
<1>11. QED
  BY <1>9, <1>10 DEF PaysTheQuote, run, tx

LEMMA QuotesArePaid ==
  ASSUME SwapInv
  PROVE  PlanPaysTheQuote
<1>1. ASSUME NEW r \in Made,
             build[r].quote.parts = "one", ~build[r].moved, Fits(build[r]), AllKnown(build[r])
      PROVE  PaysTheQuote(build[r])
  <2> DEFINE b == build[r]
  <2>1. BuildIsRight(b, pool) /\ b.stage \in Ready /\ QuoteJoins(b.quote)
    BY MadeIsReady
  <2> HIDE DEF b
  <2>2. PaysTheQuote(b)
    <3>1. b.quote.parts = "one" /\ ~b.moved /\ Fits(b) /\ AllKnown(b)
      BY <1>1 DEF b
    <3>2. QED
      BY <2>1, <3>1, QuoteIsPaid
  <2>3. QED
    BY <2>2 DEF b
<1>2. QED
  BY <1>1 DEF PlanPaysTheQuote

\* The reachable states are what the comments say (buildSwap, service.go).
THEOREM SwapTypeCorrect ==
  ASSUME QuotesNumbers
  PROVE  Spec => []SwapTypeOK
<1>1. SwapInv /\ HashInv => SwapTypeOK
  <2> SUFFICES ASSUME SwapInv, HashInv PROVE SwapTypeOK
    OBVIOUS
  <2>1. ASSUME NEW r \in Req PROVE BuildIsRight(build[r], pool)
    BY DEF SwapInv
  <2>2. QED
    BY <2>1 DEF SwapInv, HashInv, SwapTypeOK, BuildIsRight, Stages, Ready
<1>2. QED
  BY <1>1, SwapInvHolds, HashInvHolds, PTL

\* Nobody signs for more than was announced (quote_handler.go:236, service.go:338),
\* for every quoter, all amounts and every slippage below 100 %.
THEOREM LimitsAsAnnounced ==
  ASSUME QuotesNumbers
  PROVE  Spec => []QuoteBoundsSwap
<1>1. QED
  BY SwapInvHolds, LimitsAreBounded, PTL

\* What is signed is the swap that was quoted (service.go: the three loops that build
\* the lists of accounts and the plan).
THEOREM PlansFollowRoutes ==
  ASSUME QuotesNumbers
  PROVE  Spec => []PlanFollowsRoute
<1>1. QED
  BY SwapInvHolds, PlansAreRight, PTL

\* What was quoted is what the transaction takes and pays.
THEOREM PlansPayQuotes ==
  ASSUME QuotesNumbers
  PROVE  Spec => []PlanPaysTheQuote
<1>1. QED
  BY SwapInvHolds, QuotesArePaid, PTL
=============================================================================
