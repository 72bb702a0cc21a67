------------------------------ MODULE SwapBuild ------------------------------
(***************************************************************************)
(* From a request for a swap to the transaction that is answered: the quote*)
(* in the shape the builder gets it (fast_types.go, path_evaluator.go,     *)
(* router.go), and the builder (services/builder), which turns it into a   *)
(* plan over accounts, reads the pools once more and asks for a block hash.*)
(*                                                                         *)
(* Handlers change pools all the time.  A pool is quoted as it is when the *)
(* quote is made; its current tick is read later, without a lock.  What the*)
(* program on the chain does with the transaction (Run) is external.       *)
(***************************************************************************)
EXTENDS BlockhashCache, SequencesExt, FiniteSetsExt, Functions

CONSTANTS
  Token, Pool, MintA, MintB,
  ProgramOf,          \* the token program of each token
  Spl,                \* the default one
  Zero,               \* the zero key: no program recorded
  ProgramA, ProgramB, \* what the pools record of their mints
  State, TickOf,      \* what a pool may be like, and its tick then
  Start,              \* how the pools may be to begin with
  Give(_, _), Take(_, _), Fails(_, _, _),   \* the quoter on a state
  PoolsOf,            \* the listed pools of a directed pair, best first
  Paths,              \* the paths that the search for routes returns
  Shares,             \* the percentages that a split over two pools may have
  Asked,              \* what requests ask for
  SplitFrom,          \* SuperEdgeSplitThreshold
  Word,               \* 2^64
  MaxMoves            \* bound on the changes of pools

Half == 32768                   \* 2^15
Bps == 10000
MaxHops == 4
Fee == "fee"
User == "user"
Entries == {"swap", "session", "sessionDirect"}

\* A pool records what the cache of programs had for a mint when the pool was first
\* seen: the right program, or the default while the mint was not cached, which is
\* kept and stored.  (Zero: the store had none.)
ASSUME PoolsAssumption ==
  /\ MintA \in [Pool -> Token] /\ MintB \in [Pool -> Token]
  /\ \A p \in Pool : MintA[p] # MintB[p]
  /\ \A p \in Pool : ProgramA[p] \in {ProgramOf[MintA[p]], Spl, Zero}
  /\ \A p \in Pool : ProgramB[p] \in {ProgramOf[MintB[p]], Spl, Zero}
  /\ Start \subseteq [Pool -> State]
  /\ Spl # Zero /\ \A t \in Token : ProgramOf[t] # Zero

\* The pools of a pair order its mints alike: the program on the chain sorts them.
\* (The direction of a hop is found on the first pool of the pair.)
ASSUME ListsAssumption ==
  /\ PoolsOf \in [Token \X Token -> Seq(Pool)]
  /\ \A e \in Token \X Token : \A i, j \in DOMAIN PoolsOf[e] :
       /\ {MintA[PoolsOf[e][i]], MintB[PoolsOf[e][i]]} = {e[1], e[2]}
       /\ MintA[PoolsOf[e][i]] = MintA[PoolsOf[e][j]]
  /\ Paths \subseteq Seq(Token) /\ \A path \in Paths : Len(path) > 1

ASSUME NumbersAssumption ==
  /\ Word \in Nat \ {0} /\ SplitFrom \in Nat /\ MaxMoves \in Nat
  /\ Shares \subseteq 10..90
  /\ Asked \subseteq [entry : Entries, from : Token, to : Token, exactIn : BOOLEAN,
                      amount : Nat \ {0}, slippage : 0..(2 * Half - 1)]

VARIABLES
  pool,     \* the pools as the handlers have left them
  moves,
  build     \* each request

swapVars == <<pool, moves, build>>
vars == <<hashVars, swapVars>>

-----------------------------------------------------------------------------
(* Quotes.                                                                 *)

NoOffer == [in |-> 0, out |-> 0, ok |-> FALSE]

PoolQuote(p, amount, exactIn) ==
  LET s == pool[p]
  IN  IF Fails(s, amount, exactIn) THEN NoOffer
      ELSE [in |-> IF exactIn THEN amount ELSE Take(s, amount),
            out |-> IF exactIn THEN Give(s, amount) ELSE amount, ok |-> TRUE]

Better(new, old, exactIn) == IF exactIn THEN new.out > old.out ELSE new.in < old.in

\* The hop over a pair that names a pool; its direction is that of the first.
Hop(p, from) == [pool |-> p, aToB |-> MintA[p] = from]

\* fastQuoteSplitPools: equal parts on the first three pools, the first with what
\* remains; a pool that fails is left out.
EvenSplit(pools, amount, exactIn) ==
  LET n == IF Len(pools) > 3 THEN 3 ELSE Len(pools)
      share(i) == 100 \div n + (IF i = 1 THEN 100 % n ELSE 0)
      part == [i \in 1..3 |->
                 IF i > n THEN NoOffer
                 ELSE PoolQuote(pools[i], (amount * share(i)) \div 100, exactIn)]
      answering == {i \in 1..3 : part[i].ok}
      out == part[1].out + part[2].out + part[3].out
  IN  [in |-> part[1].in + part[2].in + part[3].in, out |-> out, ok |-> out > 0,
       first |-> IF answering = {} THEN 0 ELSE Min(answering)]

\* GetFastQuote, and the hop made of it: one pool, or parts on several, of which
\* the hop names the first.  "alone": the named pool was quoted on all of it.
EdgeQuote(from, to, amount, exactIn) ==
  LET pools == PoolsOf[<<from, to>>]
      single == PoolQuote(pools[1], amount, exactIn)
      split == EvenSplit(pools, amount, exactIn)
      useSplit == /\ Len(pools) > 1 /\ amount >= SplitFrom /\ split.ok
                  /\ single.ok => Better(split, single, exactIn)
  IN  IF pools = <<>> THEN [ok |-> FALSE, in |-> 0, out |-> 0]
      ELSE IF useSplit
      THEN [ok |-> TRUE, in |-> split.in, out |-> split.out, alone |-> FALSE,
            hop |-> Hop(pools[split.first], from)]
      ELSE [ok |-> single.ok, in |-> single.in, out |-> single.out, alone |-> TRUE,
            hop |-> Hop(pools[1], from)]

\* domain.MultiHopQuoteResult.  "parts" is what the totals were added up from:
\* "one" where a plan over the hops is all there is to the quote.
QuoteOf(route, hops, in, out, isSplit, percents, parts) ==
  [route |-> route, hops |-> hops, in |-> in, out |-> out,
   isSplit |-> isSplit, percents |-> percents, parts |-> parts]

PathQuote(path, edges, in, out) ==
  IF \E i \in DOMAIN edges : ~edges[i].ok THEN {}
  ELSE {QuoteOf(path, [i \in DOMAIN edges |-> edges[i].hop], in, out, FALSE, <<>>,
                IF \A i \in DOMAIN edges : edges[i].alone THEN "one" ELSE "edge")}

\* evaluatePathFastExactIn: each hop takes what the one before gives.
PathForward(path, amount) ==
  LET n == Len(path) - 1
      flow[i \in 0..n] == IF i = 0 THEN amount
                          ELSE EdgeQuote(path[i], path[i + 1], flow[i - 1], TRUE).out
  IN  PathQuote(path, [i \in 1..n |-> EdgeQuote(path[i], path[i + 1], flow[i - 1], TRUE)],
                amount, flow[n])

\* evaluatePathFastExactOut: each hop pays what the one after takes.
PathBackward(path, amount) ==
  LET n == Len(path) - 1
      need[i \in 0..n] == IF i = 0 THEN amount
                          ELSE EdgeQuote(path[n + 1 - i], path[n + 2 - i], need[i - 1], FALSE).in
  IN  PathQuote(path, [i \in 1..n |-> EdgeQuote(path[i], path[i + 1], need[n - i], FALSE)],
                need[n], amount)

PathQuotes(path, amount, exactIn) ==
  IF exactIn THEN PathForward(path, amount) ELSE PathBackward(path, amount)

PathsFor(from, to) == {path \in Paths : path[1] = from /\ path[Len(path)] = to}

\* The quotes of one direct pool.
DirectQuotes(from, to, amount, exactIn) ==
  {QuoteOf(<<from, to>>, <<Hop(p, from)>>, PoolQuote(p, amount, exactIn).in,
           PoolQuote(p, amount, exactIn).out, FALSE, <<>>, "one") :
     p \in {q \in Range(PoolsOf[<<from, to>>]) : PoolQuote(q, amount, exactIn).ok}}

\* calculateSplitFast: the parts that answer, of the first two pools.  The total
\* input is the amount of the request, in both modes.
Division(from, to, amount, n, exactIn) ==
  LET pools == PoolsOf[<<from, to>>]
      percent == <<n, 100 - n>>
      share(i) == (amount * percent[i]) \div 100
      part(i) == IF share(i) > 0 THEN PoolQuote(pools[i], share(i), exactIn) ELSE NoOffer
      place(i) == IF part(i).ok THEN <<i>> ELSE <<>>
      taken == place(1) \o place(2)
  IN  [pools |-> [i \in DOMAIN taken |-> pools[taken[i]]],
       percents |-> [i \in DOMAIN taken |-> percent[taken[i]]],
       in |-> amount, out |-> part(1).out + part(2).out]

\* The divisions that are better than each pool alone.
Divisions(from, to, amount, exactIn) ==
  IF Len(PoolsOf[<<from, to>>]) < 2 THEN {}
  ELSE {d \in {Division(from, to, amount, n, exactIn) : n \in Shares} :
          /\ d.pools # <<>>
          /\ \A q \in DirectQuotes(from, to, amount, exactIn) : Better(d, q, exactIn)}

\* FastSplitQuoteResult.ToMultiHopQuoteResult: one hop, with the first pool.
FastSplit(from, to, d) ==
  QuoteOf(<<from, to>>, <<Hop(d.pools[1], from)>>, d.in, d.out,
          Len(d.pools) > 1, d.percents, "split")

\* ConvertSplitToMultiHop, for amounts beyond 64 bits: a hop per part.
SlowSplit(from, to, d) ==
  QuoteOf(<<from, to>>, [i \in DOMAIN d.pools |-> Hop(d.pools[i], from)], d.in, d.out,
          Len(d.pools) > 1, d.percents, "split")

PoolSplits(from, to, amount, exactIn) ==
  {IF amount < Word THEN FastSplit(from, to, d) ELSE SlowSplit(from, to, d) :
     d \in Divisions(from, to, amount, exactIn)}

\* ToMultiHopQuote of two routes with half the amount each: the route and the hops
\* of the first, the totals of both.
PathSplits(from, to, amount, exactIn) ==
  {QuoteOf(pair[1].route, pair[1].hops, pair[1].in + pair[2].in, pair[1].out + pair[2].out,
           FALSE, <<>>, "paths") :
     pair \in UNION {PathQuotes(both[1], amount - amount \div 2, exactIn)
                       \X PathQuotes(both[2], amount \div 2, exactIn) :
                     both \in {pq \in PathsFor(from, to) \X PathsFor(from, to) : pq[1] # pq[2]}}}

\* getMultiHopQuoteAuto: what the router may answer, of which Routing says what
\* it chooses.
Answers(from, to, amount, exactIn) ==
  DirectQuotes(from, to, amount, exactIn)
  \cup (UNION {PathQuotes(p, amount, exactIn) : p \in PathsFor(from, to)})
  \cup PoolSplits(from, to, amount, exactIn)
  \cup PathSplits(from, to, amount, exactIn)

-----------------------------------------------------------------------------
(* Amounts.                                                                *)

Uint16(n) == n % (2 * Half)
Uint64(n) == n % Word

\* The default of the handler and of three of the four builders.
SlippageOr50(n) == IF n = 0 THEN 50 ELSE n

\* Mutant: one factor for both modes.
LimitOneWay(q, exactIn, slippage) ==
  IF exactIn THEN (q.out * Uint16(Bps + slippage)) \div Bps
             ELSE (q.in * Uint16(Bps + slippage)) \div Bps

\* The least to receive, or the most to pay, in the arithmetic of the builder:
\* uint16 for the factor, then integers of any size.
Limit(q, exactIn, slippage) ==
  IF exactIn THEN (q.out * Uint16(Bps - slippage)) \div Bps
             ELSE (q.in * Uint16(Bps + slippage)) \div Bps

\* buildQuoteResponse, OtherAmountThreshold: the handler of GET /quote has another
\* formula for the most to pay.
Announced(q, exactIn, slippage) ==
  IF exactIn THEN (q.out * Uint16(Bps - slippage)) \div Bps
  ELSE IF Uint16(Bps - slippage) > 0 THEN (q.in * Bps) \div Uint16(Bps - slippage)
  ELSE q.in

-----------------------------------------------------------------------------
(* Accounts and plans.                                                     *)

Account(what, of, at) == [what |-> what, of |-> of, at |-> at]

\* GetATAAddressForMint
ATA(owner, token, program) == Account("ata", <<owner, token>>, program)

Recorded(p, token) ==
  IF token = MintA[p] THEN ProgramA[p] ELSE IF token = MintB[p] THEN ProgramB[p] ELSE Zero

\* extractTokenProgramsFromHops for the token at place i of the route: the pool of
\* the hop that takes it says the program, else that of the hop that pays it.
ProgramAt(q, i) ==
  LET said(k) == IF k \in DOMAIN q.hops THEN Recorded(q.hops[k].pool, q.route[i]) ELSE Zero
  IN  IF said(i) # Zero THEN said(i) ELSE IF said(i - 1) # Zero THEN said(i - 1) ELSE Spl

\* The builder for one pool asks the market service for the programs instead.
ProgramFor(b, i) ==
  IF b.entry = "sessionDirect" THEN ProgramOf[b.quote.route[i]] ELSE ProgramAt(b.quote, i)

\* Mutant: the tick arrays go the other way.
HopAccountsTurned(h, tick) ==
  LET ticks(i) == Account("ticks", h.pool, <<tick, ~h.aToB, i>>)
  IN  <<Account("pool", h.pool, 0), Account("vaultA", h.pool, 0), Account("vaultB", h.pool, 0),
        ticks(0), ticks(1), ticks(2), Account("oracle", h.pool, 0)>>

\* The seven accounts of a hop; the tick arrays start at the tick that was read and
\* go the way of the hop (GetCachedTickArrayPDAs keeps them by tick and direction).
HopAccounts(h, tick) ==
  LET ticks(i) == Account("ticks", h.pool, <<tick, h.aToB, i>>)
  IN  <<Account("pool", h.pool, 0), Account("vaultA", h.pool, 0), Account("vaultB", h.pool, 0),
        ticks(0), ticks(1), ticks(2), Account("oracle", h.pool, 0)>>

TokenAccount(b, owner, i) == ATA(owner, b.quote.route[i], ProgramFor(b, i))

FeeAccount(b) == TokenAccount(b, Fee, Len(b.quote.route))

\* One account per token and seven per hop.
SwapAccounts(b) ==
  LET ofHop(i) == HopAccounts(b.quote.hops[i], b.ticks[i])
  IN  [i \in DOMAIN b.quote.route |-> TokenAccount(b, User, i)]
      \o [k \in 1..(7 * Len(b.quote.hops)) |-> ofHop((k + 6) \div 7)[((k - 1) % 7) + 1]]

\* All builders but buildDirectVortexSwap pass the fee account as well.
RemainingAccounts(b) == Append(SwapAccounts(b), FeeAccount(b))

\* A step of a plan; input and output are indexes into the token accounts, from 0.
Step(h, percent, input, output) ==
  [aToB |-> h.aToB, percent |-> percent, input |-> input, output |-> output]

\* BuildMultiHopSwapTransaction
RoutePlan(q) ==
  [i \in DOMAIN q.hops |->
     IF q.isSplit
     THEN Step(q.hops[i], IF i \in DOMAIN q.percents THEN q.percents[i] ELSE 100, 0, 1)
     ELSE Step(q.hops[i], 100, i - 1, i)]

\* Mutant: the two indexes count from the same end.
SessionPlanFlat(q) == [i \in DOMAIN q.hops |-> Step(q.hops[i], 100, 0, i)]

\* Every step of a session swap takes all of what the one before gave.
SessionPlan(q) == [i \in DOMAIN q.hops |-> Step(q.hops[i], 100, i - 1, i)]

\* The two builders for one hop.
DirectPlan(q) == <<Step(q.hops[1], 100, 0, 1)>>

-----------------------------------------------------------------------------
(* The four builders.  A transaction is its accounts, its plan, its numbers *)
(* and the token accounts it creates first.  The instruction passes the    *)
(* slippage beside the limit: that the program holds a swap to the limit   *)
(* alone is an assumption on it (WithinLimit).                             *)

Tx(b, accounts, plan, slippage, creates) ==
  [tokens |-> Len(b.quote.route), accounts |-> accounts, plan |-> plan,
   exactIn |-> b.exactIn,
   amount |-> Uint64(IF b.exactIn THEN b.quote.in ELSE b.quote.out),
   limit |-> Uint64(Limit(b.quote, b.exactIn, slippage)), creates |-> creates]

\* BuildMultiHopSwapTransaction: accounts for the first and the last token only.
MultiHopTx(b) ==
  LET n == Len(b.quote.route)
  IN  Tx(b, RemainingAccounts(b), RoutePlan(b.quote), b.slippage,
         {TokenAccount(b, User, 1), TokenAccount(b, User, n), FeeAccount(b)})

\* buildDirectVortexSwap: the fee account is created, and not passed.
DirectTx(b) ==
  Tx(b, SwapAccounts(b), DirectPlan(b.quote), SlippageOr50(b.slippage),
     {TokenAccount(b, User, 1), TokenAccount(b, User, 2), FeeAccount(b)})

\* BuildMultiHopSessionSwapTransaction: the accounts of the user are there already.
SessionTx(b) ==
  Tx(b, RemainingAccounts(b), SessionPlan(b.quote), SlippageOr50(b.slippage),
     {FeeAccount(b)})

\* BuildAndSignSessionSwapTransaction, from the quote of one pool.
SessionDirectTx(b) ==
  Tx(b, RemainingAccounts(b), DirectPlan(b.quote), SlippageOr50(b.slippage),
     {FeeAccount(b)})

GoesDirect(b) == b.entry = "swap" /\ Len(b.quote.hops) = 1

Built(b) ==
  CASE b.entry = "session" -> SessionTx(b)
    [] b.entry = "sessionDirect" -> SessionDirectTx(b)
    [] GoesDirect(b) -> DirectTx(b)
    [] b.entry = "swap" /\ ~GoesDirect(b) -> MultiHopTx(b)

-----------------------------------------------------------------------------
(* A request.                                                              *)

NoQuote == QuoteOf(<<>>, <<>>, 0, 0, FALSE, <<>>, "one")

\* "idle", then "accounts" (the hops are looked at), "hash", "send", and an end:
\* "answered", "refused" with an error, or "panicked".  "moved": a pool of the route
\* has changed since the quote.
Idle == [stage |-> "idle", entry |-> "swap", exactIn |-> TRUE, slippage |-> 0,
         quote |-> NoQuote, ticks |-> <<>>, moved |-> FALSE]

SwapInit ==
  /\ HashInit
  /\ pool \in Start /\ moves = 0
  /\ build = [r \in Req |-> Idle]

Uses(q, p) == \E i \in DOMAIN q.hops : q.hops[i].pool = p

\* A handler changes a pool.
MovePool ==
  /\ moves < MaxMoves
  /\ \E p \in Pool, s \in State :
       /\ s # pool[p]
       /\ pool' = [pool EXCEPT ![p] = s]
       /\ build' = [r \in Req |-> [build[r] EXCEPT !.moved = @ \/ Uses(build[r].quote, p)]]
  /\ moves' = moves + 1
  /\ UNCHANGED hashVars

\* With more hops than steps between the tokens of the route, the programs of the
\* tokens are looked up beyond its end.
Begin(a, slippage, q) ==
  [Idle EXCEPT !.entry = a.entry, !.exactIn = a.exactIn, !.slippage = slippage, !.quote = q,
     !.stage = IF a.entry # "sessionDirect" /\ Len(q.hops) > MaxHops THEN "refused"
               ELSE IF Len(q.hops) >= Len(q.route) THEN "panicked" ELSE "accounts"]

\* POST /swap: the handler fills in the default slippage.
RequestSwap(r) ==
  /\ build[r].stage = "idle"
  /\ \E a \in {x \in Asked : x.entry = "swap"} :
       \E q \in Answers(a.from, a.to, a.amount, a.exactIn) :
         build' = [build EXCEPT ![r] = Begin(a, SlippageOr50(a.slippage), q)]
  /\ UNCHANGED <<hashVars, pool, moves>>

\* A session swap, over any route or over one pool; not for the zero wallet.
RequestSession(r) ==
  /\ build[r].stage = "idle"
  /\ \/ \E a \in {x \in Asked : x.entry # "swap"} :
          \E q \in IF a.entry = "session" THEN Answers(a.from, a.to, a.amount, a.exactIn)
                   ELSE DirectQuotes(a.from, a.to, a.amount, a.exactIn) :
            build' = [build EXCEPT ![r] = Begin(a, a.slippage, q)]
     \/ build' = [build EXCEPT ![r].stage = "refused"]
  /\ UNCHANGED <<hashVars, pool, moves>>

\* The loop over the hops: the tick of the next pool is read.
ReadHop(r) ==
  LET b == build[r]
      i == Len(b.ticks) + 1
  IN  /\ b.stage = "accounts" /\ i <= Len(b.quote.hops)
      /\ build' = [build EXCEPT ![r].ticks = Append(@, TickOf[pool[b.quote.hops[i].pool]])]
      /\ UNCHANGED <<hashVars, pool, moves>>

\* The token programs of a session swap over one pool may have to be fetched.
ProgramsFail(r) ==
  /\ build[r].stage = "accounts" /\ build[r].entry = "sessionDirect" /\ build[r].ticks = <<>>
  /\ build' = [build EXCEPT ![r].stage = "refused"]
  /\ UNCHANGED <<hashVars, pool, moves>>

\* Mutant: the loop stops after the first hop.
EndAccountsEarly(r) ==
  /\ build[r].stage = "accounts" /\ build[r].ticks # <<>>
  /\ build' = [build EXCEPT ![r].stage = "hash"]
  /\ UNCHANGED <<hashVars, pool, moves>>

EndAccounts(r) ==
  /\ build[r].stage = "accounts" /\ Len(build[r].ticks) = Len(build[r].quote.hops)
  /\ build' = [build EXCEPT ![r].stage = "hash"]
  /\ UNCHANGED <<hashVars, pool, moves>>

\* The builder for one pool asks the node for the hash, the others the cache.  A
\* hash ages during this call as well; the cache is not told.
AskDirectly(r) ==
  /\ \/ /\ call[r].stage = "none"
        /\ call' = [call EXCEPT ![r].stage = "rpc", ![r].since = height]
     \/ /\ call[r].stage = "rpc"
        /\ \/ \E b \in Finalized(call[r].since) :
                call' = [call EXCEPT ![r] = Return(@, b, b + Validity, FALSE)]
           \/ call' = [call EXCEPT ![r].stage = "failed"]
  /\ UNCHANGED <<height, current>>

AskHash(r) ==
  /\ build[r].stage = "hash"
  /\ IF build[r].entry = "sessionDirect" THEN AskDirectly(r) ELSE GetBlockhash(r)
  /\ UNCHANGED swapVars

TakeHash(r) ==
  /\ build[r].stage = "hash" /\ call[r].stage \in {"given", "failed"}
  /\ build' = [build EXCEPT ![r].stage = IF call[r].stage = "given" THEN "send" ELSE "refused"]
  /\ UNCHANGED <<hashVars, pool, moves>>

\* A swap is simulated, or not, and answered whatever comes of it; a session swap is
\* signed and sent, which may fail.
Answer(r) ==
  /\ build[r].stage = "send"
  /\ \/ build' = [build EXCEPT ![r].stage = "answered"]
     \/ /\ build[r].entry # "swap"
        /\ build' = [build EXCEPT ![r].stage = "refused"]
  /\ UNCHANGED <<hashVars, pool, moves>>

Next ==
  \/ MovePool
  \/ NextBlock /\ UNCHANGED swapVars
  \/ HandleBlockMeta /\ UNCHANGED swapVars
  \/ \E r \in Req :
       \/ RequestSwap(r) \/ RequestSession(r)
       \/ ReadHop(r) \/ ProgramsFail(r) \/ EndAccounts(r)
       \/ AskHash(r) \/ TakeHash(r) \/ Answer(r)

Spec == SwapInit /\ [][Next]_vars

-----------------------------------------------------------------------------
(* What the program on the chain does with a transaction (external): it runs the *)
(* steps of the plan over the pools at their places among the accounts.    *)

PoolAt(tx, i) == tx.accounts[tx.tokens + 7 * (i - 1) + 1].of

Takes(p, aToB) == IF aToB THEN MintA[p] ELSE MintB[p]
Pays(p, aToB) == Takes(p, ~aToB)

\* A step can run: the token accounts are the user's for the mints of the pool, and
\* the tick arrays are those that the pool needs now.
StepFits(tx, i) ==
  LET s == tx.plan[i]
      p == PoolAt(tx, i)
      at(k) == tx.accounts[tx.tokens + 7 * (i - 1) + k]
  IN  /\ tx.accounts[s.input + 1] = ATA(User, Takes(p, s.aToB), ProgramOf[Takes(p, s.aToB)])
      /\ tx.accounts[s.output + 1] = ATA(User, Pays(p, s.aToB), ProgramOf[Pays(p, s.aToB)])
      /\ \A k \in 1..7 : at(k).of = p
      /\ \A k \in 4..6 : at(k).at = <<TickOf[pool[p]], s.aToB, k - 4>>

\* A step that takes of the first account, or pays into the last, has its percentage
\* of the amount; another takes what the one before paid, or pays what the one
\* after takes.
Run(tx) ==
  LET n == Len(tx.plan)
      share(i) == (tx.amount * tx.plan[i].percent) \div 100
      fwd[i \in 0..n] ==
        IF i = 0 THEN 0
        ELSE Give(pool[PoolAt(tx, i)], IF tx.plan[i].input = 0 THEN share(i) ELSE fwd[i - 1])
      back[i \in 0..n] ==
        IF i = 0 THEN 0
        ELSE LET k == n + 1 - i IN
             Take(pool[PoolAt(tx, k)],
                  IF tx.plan[k].output = tx.tokens - 1 THEN share(k) ELSE back[i - 1])
      fed(i) == IF tx.plan[i].input = 0 THEN share(i) ELSE fwd[i - 1]
      owed(i) == IF tx.plan[i].output = tx.tokens - 1 THEN share(i) ELSE back[n - i]
      taken[i \in 0..n] ==
        IF i = 0 THEN 0
        ELSE taken[i - 1] + (IF tx.plan[i].input = 0 THEN back[n + 1 - i] ELSE 0)
      paid[i \in 0..n] ==
        IF i = 0 THEN 0
        ELSE paid[i - 1] + (IF tx.plan[i].output = tx.tokens - 1 THEN fwd[i] ELSE 0)
  IN  [ok |-> \A i \in 1..n : /\ StepFits(tx, i)
                              /\ ~Fails(pool[PoolAt(tx, i)],
                                        IF tx.exactIn THEN fed(i) ELSE owed(i), tx.exactIn),
       in |-> IF tx.exactIn THEN tx.amount ELSE taken[n],
       out |-> IF tx.exactIn THEN paid[n] ELSE tx.amount]

WithinLimit(tx, run) == IF tx.exactIn THEN run.out >= tx.limit ELSE run.in <= tx.limit

-----------------------------------------------------------------------------
SwapTypeOK ==
  /\ HashTypeOK
  /\ pool \in [Pool -> State] /\ moves \in 0..MaxMoves
  /\ \A r \in Req : LET b == build[r] IN
       /\ b.stage \in {"idle", "accounts", "hash", "send", "answered", "refused", "panicked"}
       /\ b.entry \in Entries /\ b.exactIn \in BOOLEAN /\ b.slippage \in 0..(2 * Half - 1)
       /\ Len(b.ticks) <= Len(b.quote.hops)
       /\ b.stage \in {"hash", "send", "answered"} => Len(b.ticks) = Len(b.quote.hops)

\* The program of the token at place i of the route is found: the builder asks for it,
\* or no pool next to the place has another one recorded for the token (that a pool
\* may, for a mint of Token-2022, is a fault of the code), and the program is the
\* default or one of these pools has it recorded.
Known(b, i) ==
  LET token == b.quote.route[i]
      beside == {b.quote.hops[k].pool : k \in {i - 1, i} \cap DOMAIN b.quote.hops}
  IN  \/ b.entry = "sessionDirect"
      \/ /\ \A p \in beside : Recorded(p, token) \in {ProgramOf[token], Zero}
         /\ \/ ProgramOf[token] = Spl
            \/ \E p \in beside : Recorded(p, token) # Zero

\* The requests for which a transaction has been made.
Made == {r \in Req : build[r].stage \in {"send", "answered"}}

\* The plan over the accounts is the route of the quote: each step takes from the
\* account of the token that the last one paid into, first and last are those of the
\* request, every account is derived with the token program of its mint (where the
\* pools of the route have none but the right one recorded), each hop has the seven
\* accounts of its own pool, and what is created for the user is what is used; the fee
\* account comes last, except where buildDirectVortexSwap leaves it out.  Account
\* lists and indexes are put together in three loops; nothing checks one against
\* another.
FollowsRoute(b) ==
  LET q == b.quote
      tx == Built(b)
      right(i, owner) == ATA(owner, q.route[i], ProgramOf[q.route[i]])
  IN  /\ Len(tx.accounts) = tx.tokens + 7 * Len(tx.plan) + (IF GoesDirect(b) THEN 0 ELSE 1)
      /\ \A i \in DOMAIN tx.plan :
           /\ PoolAt(tx, i) = q.hops[i].pool
           /\ \A k \in 1..7 : tx.accounts[tx.tokens + 7 * (i - 1) + k].of = q.hops[i].pool
           /\ q.route[tx.plan[i].input + 1] = Takes(q.hops[i].pool, tx.plan[i].aToB)
           /\ q.route[tx.plan[i].output + 1] = Pays(q.hops[i].pool, tx.plan[i].aToB)
           /\ tx.plan[i].input = (IF i = 1 THEN 0 ELSE tx.plan[i - 1].output)
      /\ tx.plan[Len(tx.plan)].output = tx.tokens - 1
      /\ \A i \in DOMAIN q.route : Known(b, i) => tx.accounts[i] = right(i, User)
      /\ Known(b, tx.tokens) /\ ~GoesDirect(b) => Last(tx.accounts) = right(tx.tokens, Fee)
      /\ tx.creates \ {FeeAccount(b)} \subseteq Range(tx.accounts)

PlanFollowsRoute == \A r \in Made : build[r].quote.isSplit \/ FollowsRoute(build[r])

\* What was promised is delivered: when the quote is over whole pools, none of them
\* has moved, the amounts fit in 64 bits and its pools have the right programs of its
\* tokens recorded, the transaction that was built runs, takes and pays exactly what
\* the quote says, and is within its own limit.
PaysTheQuote(b) ==
  LET tx == Built(b)
      run == Run(tx)
  IN  run.ok /\ run.in = b.quote.in /\ run.out = b.quote.out /\ WithinLimit(tx, run)

Fits(b) == /\ b.quote.in < Word /\ b.quote.out < Word
           /\ Limit(b.quote, FALSE, SlippageOr50(b.slippage)) < Word
           /\ b.slippage <= Bps

AllKnown(b) == \A i \in DOMAIN b.quote.route : Known(b, i)

PlanPaysTheQuote ==
  \A r \in Made : LET b == build[r] IN
    b.quote.parts = "one" /\ ~b.moved /\ Fits(b) /\ AllKnown(b) => PaysTheQuote(b)

\* Who agrees to the threshold that GET /quote shows for a quote does not sign for
\* more: the transaction that POST /swap makes of the same quote has the same least
\* amount to receive, and a most to pay that is not higher, although handler and
\* builder compute them by different formulas, from a default of their own.
QuoteBoundsSwap ==
  \A r \in Made : LET b == build[r] IN
    IF b.exactIn
    THEN Built(b).limit = Uint64(Announced(b.quote, TRUE, SlippageOr50(b.slippage)))
    ELSE b.slippage < Bps =>
           Built(b).limit <= Announced(b.quote, FALSE, SlippageOr50(b.slippage))
=============================================================================
