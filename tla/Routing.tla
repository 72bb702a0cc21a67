------------------------------ MODULE Routing ------------------------------
(***************************************************************************)
(* How a quote is answered (GetMultiHopQuote and GetMultiHopQuoteFast,     *)
(* router.go:980-1383): the best direct pool; a split over the direct pools*)
(* where that one has too much impact; and routes, evaluated hop by hop    *)
(* over super edges (path_evaluator.go, super_edge.go).                    *)
(*                                                                         *)
(* Meanwhile handlers change pools and the graph publishes snapshots: every*)
(* lookup reads the snapshot anew, every pool is quoted as it is then.  A  *)
(* hop is quoted at once, and routes one after the other, as two are; more *)
(* than two are evaluated by a goroutine each.                             *)
(***************************************************************************)
EXTENDS Integers, Sequences, FiniteSets

CONSTANTS
  Pool, Curve,        \* pools, and the curves they may have
  Give(_, _), Take(_, _), Fails(_, _),
  Impact(_, _),       \* the price impact of a quote, in basis points
  MaxAmount,          \* what fits 64 bits: no pool quotes more
  Total,              \* the amount of the request
  SplitThreshold,     \* SuperEdgeSplitThreshold
  Edge, Direct,       \* directed pairs of tokens; that of the request
  Routes,             \* the routes that are not direct, shortest first
  Snapshots,          \* what may be published: the pools of each edge, and
                      \* whether super edges were made (not incrementally)
  SplitAnswers,       \* what SplitSearch and PathSplit may answer
  MaxChanges          \* bound on the changes while a quote is answered

Offer == [in : Nat, out : Nat]

ASSUME RoutingAssumption ==
  /\ Total \in Nat /\ SplitThreshold \in Nat /\ MaxAmount \in Nat /\ MaxChanges \in Nat
  /\ Direct \in Edge /\ Routes \in Seq(Seq(Edge) \ {<<>>})
  /\ Snapshots \subseteq [pools : [Edge -> Seq(Pool)], full : BOOLEAN]
  /\ SplitAnswers \subseteq Offer

ASSUME CurvesAssumption ==
  \A c \in Curve, n \in 0..MaxAmount :
    Give(c, n) \in Nat /\ Take(c, n) \in Nat /\ Impact(c, n) \in Nat

VARIABLES
  curve, snapshot, changes,
  fast,               \* the uint64 twin answers
  exactIn,            \* Total is put in, or to be paid out
  stage,              \* "begin", "direct", "split", "routes", "splitter",
                      \* "evaluate", "choose", "done"
  list,               \* the direct pools, as looked up
  quotes,             \* their quotes, by index, of those that have answered
  compared,           \* how many of them were compared
  direct,             \* the best of them
  routes,             \* what FindPaths returned and is not evaluated yet, by index
  hops,               \* of the route that is evaluated
  multi,              \* the best of the routes
  offers,             \* what the stages came up with
  answer

vars == <<curve, snapshot, changes, fast, exactIn, stage, list, quotes, compared,
          direct, routes, hops, multi, offers, answer>>
env == <<curve, snapshot, changes>>
request == <<fast, exactIn>>

-----------------------------------------------------------------------------
None == [in |-> 0, out |-> 0, impact |-> 0, ok |-> FALSE]
AQuote == [in : Nat, out : Nat, impact : Nat, ok : BOOLEAN]
Quoted(in, out, impact) == [in |-> in, out |-> out, impact |-> impact, ok |-> TRUE]

\* The quoter, on a pool as it is now.
Quote(p, amount) ==
  IF amount > MaxAmount \/ Fails(curve[p], amount) THEN None
  ELSE Quoted(IF exactIn THEN amount ELSE Take(curve[p], amount),
              IF exactIn THEN Give(curve[p], amount) ELSE amount,
              Impact(curve[p], amount))

Better(new, old) == IF exactIn THEN new.out > old.out ELSE new.in < old.in

\* Every pool of a split gets the same share.
ShareRoundedUp(n, i) == (99 \div n) + 1

\* Equal shares, the first pool with what remains.
Share(n, i) == 100 \div n + (IF i = 1 THEN 100 % n ELSE 0)

\* quoteSplitPools: the first three; one that fails is left out.  The product is
\* exact, as on big integers; the uint64 twin (super_edge.go:574) wraps where
\* amount * 100 does not fit 64 bits, and for those amounts nothing is said of it.
EvenSplit(pools, amount) ==
  LET n == IF Len(pools) > 3 THEN 3 ELSE Len(pools)
      part(i) == IF i > n THEN None ELSE Quote(pools[i], (amount * Share(n, i)) \div 100)
      in == part(1).in + part(2).in + part(3).in
      out == part(1).out + part(2).out + part(3).out
      impact == part(1).impact * Share(n, 1) + part(2).impact * Share(n, 2)
                  + part(3).impact * Share(n, 3)
  IN  IF out = 0 THEN None ELSE Quoted(in, out, impact \div 100)

\* SuperEdgeQuoter.GetQuote
EdgeQuote(pools, amount) ==
  LET single == Quote(pools[1], amount)
      split == EvenSplit(pools, amount)
  IN  IF Len(pools) = 1 \/ amount < SplitThreshold THEN single
      ELSE IF split.ok /\ (single.ok => Better(split, single)) THEN split ELSE single

\* GetPrecomputedSuperEdge
SuperEdge(e) == IF snapshot.full THEN snapshot.pools[e] ELSE <<>>

\* The direct route has the index 0.
Route(i) == IF i = 0 THEN <<Direct>> ELSE Routes[i]

\* FindPaths: the direct route alone, if there is one.
FindPaths ==
  IF SuperEdge(Direct) # <<>> THEN {0}
  ELSE {i \in DOMAIN Routes : \A k \in DOMAIN Routes[i] : SuperEdge(Routes[i][k]) # <<>>}

-----------------------------------------------------------------------------
Init ==
  /\ curve \in [Pool -> Curve] /\ snapshot \in Snapshots /\ changes = 0
  /\ fast \in BOOLEAN /\ exactIn \in BOOLEAN
  /\ stage = "begin" /\ list = <<>> /\ quotes = <<>> /\ compared = 0
  /\ direct = None /\ routes = {} /\ hops = <<>> /\ multi = None
  /\ offers = {} /\ answer = None

\* A handler updates a pool.
Move ==
  /\ changes < MaxChanges /\ stage # "done"
  /\ \E p \in Pool, c \in Curve : curve' = [curve EXCEPT ![p] = c]
  /\ changes' = changes + 1
  /\ UNCHANGED <<snapshot, request, stage, list, quotes, compared, direct, routes,
                 hops, multi, offers, answer>>

\* The graph publishes a snapshot.
Publish ==
  /\ changes < MaxChanges /\ stage # "done"
  /\ snapshot' \in Snapshots
  /\ changes' = changes + 1
  /\ UNCHANGED <<curve, request, stage, list, quotes, compared, direct, routes,
                 hops, multi, offers, answer>>

\* GetDirectRoutesForPair
Begin ==
  /\ stage = "begin" /\ stage' = "direct"
  /\ list' = snapshot.pools[Direct]
  /\ UNCHANGED <<env, request, quotes, compared, direct, routes, hops, multi,
                 offers, answer>>

\* More than three pools are quoted by a goroutine each, in the slow twin.
Parallel == ~fast /\ Len(list) > 3

\* One is waited for that was never started.
AllAnsweredAndOneMore == Cardinality(DOMAIN quotes) > Len(list)

\* wg.Wait()
AllAnswered == DOMAIN quotes = DOMAIN list

Ask(i) ==
  /\ stage = "direct" /\ i \in DOMAIN list \ DOMAIN quotes
  /\ Parallel \/ i = compared + 1
  /\ quotes' = [j \in DOMAIN quotes \cup {i} |->
                  IF j = i THEN Quote(list[i], Total) ELSE quotes[j]]
  /\ UNCHANGED <<env, request, stage, list, compared, direct, routes, hops, multi,
                 offers, answer>>

\* The cheaper of two is taken for the better one.
PreferredByInput(new, old) == new.ok /\ (old.ok => new.in < old.in)

\* The slow twin leaves a pool without impact only for another one.
Preferred(new, old) ==
  new.ok /\ (old.ok => /\ fast \/ old.impact > 0 \/ new.impact = 0
                       /\ Better(new, old))

\* The loop is left beyond its end.
ComparedBeyond(stop) == IF stop THEN Len(list) + 1 ELSE compared + 1

Compared(stop) == IF stop THEN Len(list) ELSE compared + 1

\* The quotes in the order of the pools; the sequential slow twin stops at one
\* without impact that it takes.
Compare ==
  /\ stage = "direct" /\ compared + 1 \in DOMAIN quotes
  /\ Parallel => AllAnswered
  /\ LET q == quotes[compared + 1]
         taken == Preferred(q, direct)
     IN  /\ direct' = IF taken THEN q ELSE direct
         /\ compared' = Compared(taken /\ ~fast /\ ~Parallel /\ q.impact = 0)
  /\ UNCHANGED <<env, request, stage, list, quotes, routes, hops, multi, offers, answer>>

\* A direct quote below 1 percent of impact is the answer.
EndDirect ==
  /\ stage = "direct" /\ compared = Len(list)
  /\ offers' = IF direct.ok THEN {direct} ELSE {}
  /\ answer' = IF direct.ok /\ direct.impact < 100 THEN direct ELSE None
  /\ stage' = IF ~direct.ok THEN "routes"
              ELSE IF direct.impact < 100 THEN "done" ELSE "split"
  /\ UNCHANGED <<env, request, list, quotes, compared, direct, routes, hops, multi>>

\* A split of more than one part, if there is one, answers if it is better.
Split ==
  /\ stage = "split"
  /\ \/ stage' = "routes" /\ UNCHANGED <<offers, answer>>
     \/ \E s \in SplitAnswers :
          LET split == Quoted(s.in, s.out, 0)
          IN  /\ offers' = offers \cup {split}
              /\ stage' = IF Better(split, direct) THEN "done" ELSE "routes"
              /\ answer' = IF Better(split, direct) THEN split ELSE answer
  /\ UNCHANGED <<env, request, list, quotes, compared, direct, routes, hops, multi>>

Find ==
  /\ stage = "routes"
  /\ routes' = FindPaths
  /\ stage' = IF FindPaths = {} THEN "choose"
              ELSE IF Cardinality(FindPaths) > 1 THEN "splitter" ELSE "evaluate"
  /\ UNCHANGED <<env, request, list, quotes, compared, direct, hops, multi, offers, answer>>

\* Several routes go to the splitter, and only if it fails to the evaluation.
UseSplitter ==
  /\ stage = "splitter"
  /\ \/ stage' = "evaluate" /\ UNCHANGED <<multi, offers>>
     \/ \E s \in SplitAnswers :
          /\ multi' = Quoted(s.in, s.out, 0)
          /\ offers' = offers \cup {Quoted(s.in, s.out, 0)}
          /\ stage' = "choose"
  /\ UNCHANGED <<env, request, list, quotes, compared, direct, routes, hops, answer>>

\* Forwards from the amount put in, backwards from the one to be paid out.
Flow == IF hops = <<>> THEN Total
        ELSE IF exactIn THEN hops[Len(hops)].out ELSE hops[1].in
NextHop(r) ==
  LET edge == IF exactIn THEN r[Len(hops) + 1] ELSE r[Len(r) - Len(hops)]
      pools == SuperEdge(edge)
  IN  IF pools = <<>> THEN None ELSE EdgeQuote(pools, Flow)

\* The route whose turn it is.
Turn == {i \in routes : \A j \in routes : i <= j}

\* evaluatePathExactIn, evaluatePathExactOut: the next hop.
EvaluateHop(i) ==
  /\ stage = "evaluate" /\ Len(hops) < Len(Route(i))
  /\ NextHop(Route(i)).ok
  /\ hops' = IF exactIn THEN Append(hops, NextHop(Route(i)))
                        ELSE <<NextHop(Route(i))>> \o hops
  /\ UNCHANGED <<env, request, stage, list, quotes, compared, direct, routes, multi,
                 offers, answer>>

\* A hop without a pool, or whose pools fail, ends the evaluation of the route.
FailRoute(i) ==
  /\ stage = "evaluate" /\ Len(hops) < Len(Route(i))
  /\ ~NextHop(Route(i)).ok
  /\ routes' = routes \ {i} /\ hops' = <<>>
  /\ UNCHANGED <<env, request, stage, list, quotes, compared, direct, multi, offers, answer>>

\* The amounts of a route: the request at one end, the last hop at the other.
RouteQuote == IF exactIn THEN Quoted(Total, Flow, 0) ELSE Quoted(Flow, Total, 0)

\* Of the routes the first of the best.
EndRoute(i) ==
  /\ stage = "evaluate" /\ Len(hops) = Len(Route(i))
  /\ multi' = IF multi.ok => Better(RouteQuote, multi) THEN RouteQuote ELSE multi
  /\ offers' = offers \cup {RouteQuote}
  /\ routes' = routes \ {i} /\ hops' = <<>>
  /\ UNCHANGED <<env, request, stage, list, quotes, compared, direct, answer>>

EndEvaluation ==
  /\ stage = "evaluate" /\ routes = {}
  /\ stage' = "choose"
  /\ UNCHANGED <<env, request, list, quotes, compared, direct, routes, hops, multi,
                 offers, answer>>

\* A route is always taken.
ChosenRoute == IF multi.ok THEN multi ELSE direct

\* What the routes offer, if it is better than the direct quote.
Chosen == IF multi.ok /\ (direct.ok => Better(multi, direct)) THEN multi ELSE direct

Choose ==
  /\ stage = "choose" /\ stage' = "done"
  /\ answer' = Chosen
  /\ UNCHANGED <<env, request, list, quotes, compared, direct, routes, hops, multi, offers>>

Answering == \/ Begin \/ (\E i \in DOMAIN list : Ask(i)) \/ Compare \/ EndDirect
             \/ Split \/ Find \/ UseSplitter
             \/ (\E i \in Turn : EvaluateHop(i) \/ FailRoute(i) \/ EndRoute(i))
             \/ EndEvaluation \/ Choose

Next == Move \/ Publish \/ Answering

Spec == Init /\ [][Next]_vars /\ WF_vars(Answering)
-----------------------------------------------------------------------------
(* What an answer promises, whatever changes meanwhile.                    *)

RoutingTypeOK ==
  /\ stage \in {"begin", "direct", "split", "routes", "splitter", "evaluate",
                "choose", "done"}
  /\ DOMAIN quotes \subseteq DOMAIN list /\ compared \in 0..Len(list)
  /\ routes \subseteq 0..Len(Routes)
  /\ {direct, multi, answer} \cup offers \subseteq AQuote

\* The answer is the best of what the stages came up with, and there is none only
\* if none came up with anything.
AnswerIsBestOffer ==
  stage = "done" => /\ answer.ok \/ offers = {}
                    /\ \A o \in offers : ~Better(o, answer)

\* No quote of a direct pool is better than the one that is taken, but in the slow
\* twin one with impact may be left for one without (router.go:1249).
DirectIsBest ==
  stage \notin {"begin", "direct"} =>
    \A i \in DOMAIN quotes :
      quotes[i].ok =>
        /\ direct.ok
        /\ Better(quotes[i], direct) => ~fast /\ direct.impact = 0 /\ quotes[i].impact > 0

\* No hop uses more than the one before it hands over ("Output of this hop becomes
\* input of next hop", path_evaluator.go:175), and the first no more than is
\* put in; for an exact output none pays more than the one after it uses.
HopsHandOn ==
  /\ exactIn /\ hops # <<>> => hops[1].in <= Total
  /\ ~exactIn /\ hops # <<>> => hops[Len(hops)].out <= Total
  /\ \A k \in 1..(Len(hops) - 1) :
       IF exactIn THEN hops[k + 1].in <= hops[k].out ELSE hops[k].out <= hops[k + 1].in

\* Every request is answered, or refused.
EveryRequestEnds == <>(stage = "done")
=============================================================================
