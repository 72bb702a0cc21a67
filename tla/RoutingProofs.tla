--------------------------- MODULE RoutingProofs ----------------------------
(***************************************************************************)
(* Whatever handlers and the graph do while a quote is answered, for any   *)
(* pools, curves and routes: the answer is the best of what was found, the *)
(* direct quote the best of those that came in, and the hops of a route    *)
(* hand on what they have.                                                 *)
(***************************************************************************)
EXTENDS Routing, TLAPS

-----------------------------------------------------------------------------
(* Quotes.                                                                 *)

\* Better, with the mode as a parameter.
Beats(m, new, old) == IF m THEN new.out > old.out ELSE new.in < old.in

LEMMA BetterIsBeats ==
  ASSUME NEW new, NEW old
  PROVE  Better(new, old) <=> Beats(exactIn, new, old)
BY DEF Better, Beats

\* A quote for an amount: it uses no more of it, or pays no more.
Within(m, q, amount) == IF m THEN q.in <= amount ELSE q.out <= amount

LEMMA NoneIsAQuote ==
  /\ None \in AQuote /\ ~None.ok
  /\ None.in = 0 /\ None.out = 0 /\ None.impact = 0
BY DEF None, AQuote

LEMMA QuotedIsAQuote ==
  ASSUME NEW in \in Nat, NEW out \in Nat, NEW impact \in Nat
  PROVE  /\ Quoted(in, out, impact) \in AQuote
         /\ Quoted(in, out, impact).in = in /\ Quoted(in, out, impact).out = out
         /\ Quoted(in, out, impact).impact = impact /\ Quoted(in, out, impact).ok
BY DEF Quoted, AQuote

LEMMA QuoteType ==
  ASSUME curve \in [Pool -> Curve], exactIn \in BOOLEAN,
         NEW p \in Pool, NEW amount \in Nat
  PROVE  /\ Quote(p, amount) \in AQuote
         /\ Within(exactIn, Quote(p, amount), amount)
<1>1. CASE amount > MaxAmount \/ Fails(curve[p], amount)
  <2>1. Quote(p, amount) = None
    BY <1>1 DEF Quote
  <2> QED BY <2>1, NoneIsAQuote DEF Within
<1>2. CASE ~(amount > MaxAmount \/ Fails(curve[p], amount))
  <2>1. curve[p] \in Curve /\ amount \in 0..MaxAmount
    BY <1>2, RoutingAssumption
  <2>2. /\ Give(curve[p], amount) \in Nat /\ Take(curve[p], amount) \in Nat
        /\ Impact(curve[p], amount) \in Nat
    BY <2>1, CurvesAssumption
  <2> DEFINE in == IF exactIn THEN amount ELSE Take(curve[p], amount)
             out == IF exactIn THEN Give(curve[p], amount) ELSE amount
  <2>3. in \in Nat /\ out \in Nat
    BY <2>2
  <2>4. Quote(p, amount) = Quoted(in, out, Impact(curve[p], amount))
    BY <1>2 DEF Quote
  <2>5. exactIn => in <= amount
    OBVIOUS
  <2>6. ~exactIn => out <= amount
    OBVIOUS
  <2> HIDE DEF in, out
  <2> QED BY <2>2, <2>3, <2>4, <2>5, <2>6, QuotedIsAQuote, SMTT(40) DEF Within
<1> QED BY <1>1, <1>2

\* Three equal shares, or two, are no more than the whole.
LEMMA SharesFit ==
  ASSUME NEW amount \in Nat, NEW n \in 1..3
  PROVE  /\ \A i \in 1..3 : /\ Share(n, i) \in Nat
                            /\ (amount * Share(n, i)) \div 100 \in Nat
         /\ n = 1 => (amount * Share(n, 1)) \div 100 <= amount
         /\ n = 2 => (amount * Share(n, 1)) \div 100
                       + (amount * Share(n, 2)) \div 100 <= amount
         /\ n = 3 => (amount * Share(n, 1)) \div 100 + (amount * Share(n, 2)) \div 100
                       + (amount * Share(n, 3)) \div 100 <= amount
<1>1. CASE n = 1
  <2>1. Share(n, 1) = 100 /\ Share(n, 2) = 100 /\ Share(n, 3) = 100
    BY <1>1 DEF Share
  <2> QED BY <1>1, <2>1
<1>2. CASE n = 2
  <2>1. Share(n, 1) = 50 /\ Share(n, 2) = 50 /\ Share(n, 3) = 50
    BY <1>2 DEF Share
  <2> QED BY <1>2, <2>1
<1>3. CASE n = 3
  <2>1. Share(n, 1) = 34 /\ Share(n, 2) = 33 /\ Share(n, 3) = 33
    BY <1>3 DEF Share
  <2> QED BY <1>3, <2>1
<1> QED BY <1>1, <1>2, <1>3

\* What three parts make together.
LEMMA PartsAddUp ==
  ASSUME NEW q1 \in AQuote, NEW q2 \in AQuote, NEW q3 \in AQuote,
         NEW s1 \in Nat, NEW s2 \in Nat, NEW s3 \in Nat
  PROVE  /\ q1.in + q2.in + q3.in \in Nat
         /\ q1.out + q2.out + q3.out \in Nat
         /\ (q1.impact * s1 + q2.impact * s2 + q3.impact * s3) \div 100 \in Nat
<1>1. /\ q1.in \in Nat /\ q2.in \in Nat /\ q3.in \in Nat
      /\ q1.out \in Nat /\ q2.out \in Nat /\ q3.out \in Nat
      /\ q1.impact \in Nat /\ q2.impact \in Nat /\ q3.impact \in Nat
  BY DEF AQuote
<1>2. ASSUME NEW x \in Nat, NEW y \in Nat PROVE x * y \in Nat
  OBVIOUS
<1>3. q1.impact * s1 \in Nat /\ q2.impact * s2 \in Nat /\ q3.impact * s3 \in Nat
  BY <1>1, <1>2
<1>4. ASSUME NEW x \in Nat, NEW y \in Nat, NEW z \in Nat PROVE (x + y + z) \div 100 \in Nat
  OBVIOUS
<1> QED BY <1>1, <1>3, <1>4

\* Parts within their amounts are together within the sum of those.
LEMMA PartsWithin ==
  ASSUME NEW m \in BOOLEAN, NEW q1 \in AQuote, NEW q2 \in AQuote, NEW q3 \in AQuote,
         NEW a1 \in Nat, NEW a2 \in Nat, NEW a3 \in Nat, NEW amount \in Nat,
         NEW n \in 1..3,
         Within(m, q1, a1), n >= 2 => Within(m, q2, a2), n = 3 => Within(m, q3, a3),
         n < 2 => q2.in = 0 /\ q2.out = 0, n < 3 => q3.in = 0 /\ q3.out = 0,
         n = 1 => a1 <= amount, n = 2 => a1 + a2 <= amount,
         n = 3 => a1 + a2 + a3 <= amount
  PROVE  IF m THEN q1.in + q2.in + q3.in <= amount
              ELSE q1.out + q2.out + q3.out <= amount
<1>1. /\ q1.in \in Nat /\ q2.in \in Nat /\ q3.in \in Nat
      /\ q1.out \in Nat /\ q2.out \in Nat /\ q3.out \in Nat
  BY DEF AQuote
<1> QED BY <1>1 DEF Within

LEMMA EvenSplitType ==
  ASSUME curve \in [Pool -> Curve], exactIn \in BOOLEAN,
         NEW pools \in Seq(Pool), pools # <<>>, NEW amount \in Nat
  PROVE  /\ EvenSplit(pools, amount) \in AQuote
         /\ Within(exactIn, EvenSplit(pools, amount), amount)
<1> DEFINE n == IF Len(pools) > 3 THEN 3 ELSE Len(pools)
           some(i) == (amount * Share(n, i)) \div 100
           part(i) == IF i > n THEN None ELSE Quote(pools[i], some(i))
           in == part(1).in + part(2).in + part(3).in
           out == part(1).out + part(2).out + part(3).out
           impact == part(1).impact * Share(n, 1) + part(2).impact * Share(n, 2)
                       + part(3).impact * Share(n, 3)
<1>1. n \in 1..3 /\ n <= Len(pools)
  <2>1. Len(pools) \in Nat /\ Len(pools) # 0
    OBVIOUS
  <2>2. PICK k \in Nat : k = Len(pools) /\ k # 0
    BY <2>1
  <2>3. CASE k > 3
    <3>1. n = 3
      BY <2>2, <2>3
    <3> QED BY <2>2, <2>3, <3>1
  <2>4. CASE ~(k > 3)
    <3>1. n = k
      BY <2>2, <2>4
    <3> QED BY <2>2, <2>4, <3>1
  <2> QED BY <2>3, <2>4
<1>2. EvenSplit(pools, amount) = IF out = 0 THEN None ELSE Quoted(in, out, impact \div 100)
  BY DEF EvenSplit
<1> HIDE DEF n
<1>3. \A i \in 1..3 : Share(n, i) \in Nat /\ some(i) \in Nat
  BY <1>1, SharesFit
<1>4. ASSUME NEW i \in 1..3
      PROVE  /\ part(i) \in AQuote
             /\ i <= n => Within(exactIn, part(i), some(i))
             /\ i > n => part(i).in = 0 /\ part(i).out = 0
  <2>1. CASE i > n
    <3>1. part(i) = None
      BY <2>1
    <3> QED BY <1>1, <2>1, <3>1, NoneIsAQuote
  <2>2. CASE ~(i > n)
    <3>1. pools[i] \in Pool /\ some(i) \in Nat
      BY <1>1, <1>3, <2>2, SMTT(40)
    <3>2. part(i) = Quote(pools[i], some(i))
      BY <2>2
    <3> HIDE DEF some, part
    <3> QED BY <1>1, <2>2, <3>1, <3>2, QuoteType
  <2> QED BY <2>1, <2>2
<1>5. /\ part(1) \in AQuote /\ part(2) \in AQuote /\ part(3) \in AQuote
      /\ 1 <= n => Within(exactIn, part(1), some(1))
      /\ 2 <= n => Within(exactIn, part(2), some(2))
      /\ 3 <= n => Within(exactIn, part(3), some(3))
      /\ 2 > n => part(2).in = 0 /\ part(2).out = 0
      /\ 3 > n => part(3).in = 0 /\ part(3).out = 0
  BY <1>4
<1>6. /\ n = 1 => some(1) <= amount
      /\ n = 2 => some(1) + some(2) <= amount
      /\ n = 3 => some(1) + some(2) + some(3) <= amount
  BY <1>1, SharesFit
<1>7. some(1) \in Nat /\ some(2) \in Nat /\ some(3) \in Nat
  BY <1>3
<1>8. Share(n, 1) \in Nat /\ Share(n, 2) \in Nat /\ Share(n, 3) \in Nat
  BY <1>3
<1> HIDE DEF part, some
<1>9. PICK q1 \in AQuote, q2 \in AQuote, q3 \in AQuote :
        q1 = part(1) /\ q2 = part(2) /\ q3 = part(3)
  BY <1>5
<1>10. PICK a1 \in Nat, a2 \in Nat, a3 \in Nat :
         a1 = some(1) /\ a2 = some(2) /\ a3 = some(3)
  BY <1>7
<1>11. PICK s1 \in Nat, s2 \in Nat, s3 \in Nat :
         s1 = Share(n, 1) /\ s2 = Share(n, 2) /\ s3 = Share(n, 3)
  BY <1>8
<1>12. /\ in = q1.in + q2.in + q3.in /\ out = q1.out + q2.out + q3.out
       /\ impact = q1.impact * s1 + q2.impact * s2 + q3.impact * s3
  BY <1>9, <1>11
<1> HIDE DEF in, out, impact
<1>13. in \in Nat /\ out \in Nat /\ impact \div 100 \in Nat
  <2>1. /\ q1.in + q2.in + q3.in \in Nat
        /\ q1.out + q2.out + q3.out \in Nat
        /\ (q1.impact * s1 + q2.impact * s2 + q3.impact * s3) \div 100 \in Nat
    BY PartsAddUp, ZenonT(60)
  <2> QED BY <1>12, <2>1, Zenon
<1>14. IF exactIn THEN in <= amount ELSE out <= amount
  <2>1. /\ Within(exactIn, q1, a1)
        /\ n >= 2 => Within(exactIn, q2, a2)
        /\ n = 3 => Within(exactIn, q3, a3)
        /\ n < 2 => q2.in = 0 /\ q2.out = 0
        /\ n < 3 => q3.in = 0 /\ q3.out = 0
    BY <1>1, <1>5, <1>9, <1>10
  <2>2. /\ n = 1 => a1 <= amount
        /\ n = 2 => a1 + a2 <= amount
        /\ n = 3 => a1 + a2 + a3 <= amount
    BY <1>6, <1>10
  <2>3. IF exactIn THEN q1.in + q2.in + q3.in <= amount
                   ELSE q1.out + q2.out + q3.out <= amount
    BY <1>1, <2>1, <2>2, PartsWithin
  <2> QED BY <1>12, <2>3
<1>15. CASE out = 0
  <2>1. EvenSplit(pools, amount) = None
    BY <1>2, <1>15
  <2> QED BY <2>1, NoneIsAQuote DEF Within
<1>16. CASE out # 0
  <2>1. EvenSplit(pools, amount) = Quoted(in, out, impact \div 100)
    BY <1>2, <1>16
  <2>2. PICK i \in Nat, o \in Nat, w \in Nat :
          i = in /\ o = out /\ w = impact \div 100
    BY <1>13
  <2>3. /\ EvenSplit(pools, amount) \in AQuote
        /\ EvenSplit(pools, amount).in = in /\ EvenSplit(pools, amount).out = out
    BY <2>1, <2>2, QuotedIsAQuote
  <2> QED BY <1>14, <2>3 DEF Within
<1> QED BY <1>15, <1>16

LEMMA EdgeQuoteType ==
  ASSUME curve \in [Pool -> Curve], exactIn \in BOOLEAN,
         NEW pools \in Seq(Pool), pools # <<>>, NEW amount \in Nat
  PROVE  /\ EdgeQuote(pools, amount) \in AQuote
         /\ Within(exactIn, EdgeQuote(pools, amount), amount)
<1>1. EdgeQuote(pools, amount) \in {Quote(pools[1], amount), EvenSplit(pools, amount)}
  BY DEF EdgeQuote
<1>2. pools[1] \in Pool
  OBVIOUS
<1> QED BY <1>1, <1>2, QuoteType, EvenSplitType

-----------------------------------------------------------------------------
(* Types.                                                                  *)

Stages == {"begin", "direct", "split", "routes", "splitter", "evaluate", "choose", "done"}

Types ==
  /\ curve \in [Pool -> Curve] /\ snapshot \in Snapshots
  /\ fast \in BOOLEAN /\ exactIn \in BOOLEAN /\ stage \in Stages
  /\ list \in Seq(Pool)
  /\ DOMAIN quotes \subseteq DOMAIN list /\ \A i \in DOMAIN quotes : quotes[i] \in AQuote
  /\ compared \in 0..Len(list)
  /\ stage = "begin" => compared = 0 /\ DOMAIN quotes = {}
  /\ direct \in AQuote /\ multi \in AQuote /\ answer \in AQuote /\ offers \subseteq AQuote
  /\ routes \subseteq 0..Len(Routes) /\ hops \in Seq(AQuote)

LEMMA RouteType ==
  ASSUME NEW i \in 0..Len(Routes)
  PROVE  Route(i) \in Seq(Edge)
<1>1. CASE i = 0
  <2>1. Route(i) = <<Direct>> /\ Direct \in Edge
    BY <1>1, RoutingAssumption DEF Route
  <2> QED BY <2>1
<1>2. CASE i # 0
  <2>1. Routes \in Seq(Seq(Edge) \ {<<>>})
    BY RoutingAssumption
  <2>2. i \in 1..Len(Routes)
    BY <1>2, <2>1
  <2>3. Routes[i] \in Seq(Edge) \ {<<>>}
    BY <2>1, <2>2
  <2> QED BY <1>2, <2>3 DEF Route
<1> QED BY <1>1, <1>2

LEMMA FlowType ==
  ASSUME Types
  PROVE  Flow \in Nat
<1>1. CASE hops = <<>>
  BY <1>1, RoutingAssumption DEF Flow
<1>2. CASE hops # <<>>
  <2>1. hops[Len(hops)] \in AQuote /\ hops[1] \in AQuote
    BY <1>2 DEF Types
  <2>2. hops[Len(hops)].out \in Nat /\ hops[1].in \in Nat
    BY <2>1 DEF AQuote
  <2> QED BY <1>2, <2>2 DEF Flow
<1> QED BY <1>1, <1>2

\* The next hop of a route is a quote within what flows into it.
LEMMA NextHopType ==
  ASSUME Types, NEW i \in routes, Len(hops) < Len(Route(i))
  PROVE  /\ Flow \in Nat
         /\ NextHop(Route(i)) \in AQuote
         /\ Within(exactIn, NextHop(Route(i)), Flow)
<1> DEFINE r == Route(i)
           edge == IF exactIn THEN r[Len(hops) + 1] ELSE r[Len(r) - Len(hops)]
           pools == SuperEdge(edge)
<1>1. r \in Seq(Edge)
  BY RouteType DEF Types
<1>2. Len(hops) \in Nat /\ Len(r) \in Nat
  BY <1>1 DEF Types
<1> HIDE DEF r
<1>3. edge \in Edge
  <2>1. Len(hops) + 1 \in 1..Len(r) /\ Len(r) - Len(hops) \in 1..Len(r)
    BY <1>2 DEF r
  <2> QED BY <1>1, <2>1
<1> HIDE DEF edge
<1>4. pools \in Seq(Pool)
  <2>1. snapshot \in [pools : [Edge -> Seq(Pool)], full : BOOLEAN]
    BY RoutingAssumption DEF Types
  <2>2. snapshot.pools[edge] \in Seq(Pool)
    BY <1>3, <2>1
  <2> QED BY <2>2 DEF SuperEdge
<1>5. Flow \in Nat
  BY FlowType
<1>6. NextHop(r) = IF pools = <<>> THEN None ELSE EdgeQuote(pools, Flow)
  BY DEF NextHop, edge
<1> HIDE DEF pools
<1>7. CASE pools = <<>>
  <2>1. NextHop(r) = None
    BY <1>6, <1>7
  <2>2. None \in AQuote /\ None.in = 0 /\ None.out = 0
    BY NoneIsAQuote
  <2>3. Within(exactIn, NextHop(r), Flow)
    BY <1>5, <2>1, <2>2 DEF Within
  <2> QED BY <1>5, <2>1, <2>2, <2>3 DEF r
<1>8. CASE pools # <<>>
  <2>1. NextHop(r) = EdgeQuote(pools, Flow)
    BY <1>6, <1>8
  <2>2. curve \in [Pool -> Curve] /\ exactIn \in BOOLEAN
    BY DEF Types
  <2> QED BY <1>4, <1>5, <1>8, <2>1, <2>2, EdgeQuoteType DEF r
<1> QED BY <1>7, <1>8

LEMMA RouteQuoteType ==
  ASSUME Types
  PROVE  RouteQuote \in AQuote
<1>1. Flow \in Nat
  BY FlowType
<1> QED BY <1>1, RoutingAssumption, QuotedIsAQuote DEF RouteQuote

LEMMA SplitAnswerType ==
  ASSUME NEW s \in SplitAnswers
  PROVE  Quoted(s.in, s.out, 0) \in AQuote /\ Quoted(s.in, s.out, 0).ok
<1>1. s \in Offer
  BY RoutingAssumption
<1>2. s.in \in Nat /\ s.out \in Nat
  BY <1>1 DEF Offer
<1> QED BY <1>2, QuotedIsAQuote

-----------------------------------------------------------------------------
(* The invariant.                                                          *)

\* best is no worse than the first k quotes, or without impact where the better
\* one has some.
BestOf(f, m, qs, k, best) ==
  \A i \in DOMAIN qs :
    i <= k /\ qs[i].ok =>
      /\ best.ok
      /\ Beats(m, qs[i], best) => ~f /\ best.impact = 0 /\ qs[i].impact > 0

\* Who runs alone has asked no pool beyond the next; who does not compares nothing
\* before all have answered.
DirectPart ==
  /\ stage = "direct" =>
       IF Parallel THEN \A i \in 1..compared : i \in DOMAIN quotes
                   ELSE \A i \in DOMAIN quotes : i <= compared + 1
  /\ stage \notin {"begin", "direct"} => compared = Len(list)
  /\ BestOf(fast, exactIn, quotes, compared, direct)

\* What was offered is no better than the direct quote, or than the best route.
Behind(m, seen, one, other) ==
  \A o \in seen : (one.ok /\ ~Beats(m, o, one)) \/ (other.ok /\ ~Beats(m, o, other))

AnswerPart ==
  /\ stage \in {"begin", "direct"} => offers = {}
  /\ stage = "split" => direct.ok /\ offers = {direct}
  /\ stage \in {"begin", "direct", "split", "routes", "splitter"} => ~multi.ok
  /\ stage # "done" => Behind(exactIn, offers, direct, multi)
  /\ stage = "done" => /\ answer.ok \/ offers = {}
                       /\ \A o \in offers : ~Beats(exactIn, o, answer)

\* HopsHandOn, with the mode and the hops as parameters.
Handed(m, hs) ==
  /\ m /\ hs # <<>> => hs[1].in <= Total
  /\ ~m /\ hs # <<>> => hs[Len(hs)].out <= Total
  /\ \A k \in 1..(Len(hs) - 1) :
       IF m THEN hs[k + 1].in <= hs[k].out ELSE hs[k].out <= hs[k + 1].in

IInv == Types /\ DirectPart /\ AnswerPart /\ Handed(exactIn, hops)

LEMMA IInvInit == Init => IInv
<1> SUFFICES ASSUME Init PROVE IInv
  OBVIOUS
<1>1. DOMAIN quotes = {} /\ Len(list) = 0 /\ Len(hops) = 0
  BY DEF Init
<1>2. Types
  BY <1>1, NoneIsAQuote, RoutingAssumption DEF Init, Types, Stages
<1>3. DirectPart
  BY <1>1 DEF Init, DirectPart, BestOf
<1>4. AnswerPart
  BY NoneIsAQuote DEF Init, AnswerPart, Behind
<1>5. Handed(exactIn, hops)
  BY <1>1 DEF Init, Handed
<1> QED BY <1>2, <1>3, <1>4, <1>5 DEF IInv

LEMMA TypesStep == Types /\ [Next]_vars => Types'
<1> SUFFICES ASSUME Types, [Next]_vars PROVE Types'
  OBVIOUS
<1> USE DEF Types, env, request, Stages
<1>1. CASE UNCHANGED vars
  BY <1>1 DEF vars
<1>2. CASE Move
  BY <1>2 DEF Move
<1>3. CASE Publish
  BY <1>3 DEF Publish
<1>4. CASE Begin
  <2>1. snapshot \in [pools : [Edge -> Seq(Pool)], full : BOOLEAN]
    BY RoutingAssumption
  <2>2. snapshot.pools[Direct] \in Seq(Pool)
    BY <2>1, RoutingAssumption
  <2> QED BY <1>4, <2>2 DEF Begin
<1>5. ASSUME NEW i \in DOMAIN list, Ask(i) PROVE Types'
  <2>1. list[i] \in Pool
    OBVIOUS
  <2>2. Quote(list[i], Total) \in AQuote
    BY <2>1, QuoteType, RoutingAssumption
  <2> QED BY <1>5, <2>2 DEF Ask
<1>6. CASE Compare
  BY <1>6 DEF Compare, Compared
<1>7. CASE EndDirect
  BY <1>7, NoneIsAQuote DEF EndDirect
<1>8. CASE Split
  BY <1>8, SplitAnswerType DEF Split
<1>9. CASE Find
  <2>1. FindPaths \subseteq 0..Len(Routes)
    BY RoutingAssumption, SMTT(40) DEF FindPaths
  <2> QED BY <1>9, <2>1 DEF Find
<1>10. CASE UseSplitter
  BY <1>10, SplitAnswerType DEF UseSplitter
<1>11. ASSUME NEW i \in Turn, EvaluateHop(i) PROVE Types'
  <2>1. i \in routes /\ Len(hops) < Len(Route(i))
    BY <1>11 DEF Turn, EvaluateHop
  <2>2. NextHop(Route(i)) \in AQuote
    BY <2>1, NextHopType
  <2>3. hops' \in Seq(AQuote)
    BY <1>11, <2>2 DEF EvaluateHop
  <2> QED BY <1>11, <2>3 DEF EvaluateHop
<1>12. ASSUME NEW i \in Turn, FailRoute(i) PROVE Types'
  <2>1. hops' \in Seq(AQuote)
    <3>1. hops' = <<>>
      BY <1>12 DEF FailRoute
    <3> HIDE DEF Types
    <3> QED BY <3>1
  <2>2. routes' \subseteq 0..Len(Routes)
    <3>1. routes' \subseteq routes
      BY <1>12 DEF FailRoute
    <3> QED BY <3>1
  <2> QED BY <1>12, <2>1, <2>2 DEF FailRoute
<1>13. ASSUME NEW i \in Turn, EndRoute(i) PROVE Types'
  <2>1. hops' \in Seq(AQuote)
    <3>1. hops' = <<>>
      BY <1>13 DEF EndRoute
    <3> HIDE DEF Types
    <3> QED BY <3>1
  <2>2. routes' \subseteq 0..Len(Routes)
    <3>1. routes' \subseteq routes
      BY <1>13 DEF EndRoute
    <3> QED BY <3>1
  <2>3. RouteQuote \in AQuote
    BY RouteQuoteType
  <2>4. multi' \in AQuote /\ offers' \subseteq AQuote
    BY <1>13, <2>3 DEF EndRoute
  <2> QED BY <1>13, <2>1, <2>2, <2>4 DEF EndRoute
<1>14. CASE EndEvaluation
  BY <1>14 DEF EndEvaluation
<1>15. CASE Choose
  BY <1>15 DEF Choose, Chosen
<1> QED BY <1>1, <1>2, <1>3, <1>4, <1>5, <1>6, <1>7, <1>8, <1>9, <1>10, <1>11, <1>12,
           <1>13, <1>14, <1>15 DEF Next, Answering

\* One more comparison.
LEMMA OneMoreCompared ==
  ASSUME NEW f \in BOOLEAN, NEW m \in BOOLEAN, NEW qs, NEW k \in Nat, NEW best \in AQuote,
         DOMAIN qs \subseteq Nat, \A i \in DOMAIN qs : qs[i] \in AQuote,
         k + 1 \in DOMAIN qs, BestOf(f, m, qs, k, best),
         NEW taken \in BOOLEAN,
         taken <=> /\ qs[k + 1].ok
                   /\ best.ok => /\ f \/ best.impact > 0 \/ qs[k + 1].impact = 0
                                 /\ Beats(m, qs[k + 1], best)
  PROVE  BestOf(f, m, qs, k + 1, IF taken THEN qs[k + 1] ELSE best)
<1> DEFINE q == qs[k + 1]
           new == IF taken THEN q ELSE best
<1>1. q \in AQuote /\ new \in AQuote
  OBVIOUS
<1> SUFFICES ASSUME NEW i \in DOMAIN qs, i <= k + 1, qs[i].ok
             PROVE  /\ new.ok
                    /\ Beats(m, qs[i], new) => ~f /\ new.impact = 0 /\ qs[i].impact > 0
  BY DEF BestOf
<1>2. PICK r \in AQuote : r = qs[i]
  OBVIOUS
<1>3. /\ q.in \in Nat /\ q.out \in Nat /\ q.impact \in Nat
      /\ r.in \in Nat /\ r.out \in Nat /\ r.impact \in Nat
      /\ best.in \in Nat /\ best.out \in Nat /\ best.impact \in Nat
  BY <1>1, <1>2 DEF AQuote
<1>4. CASE i = k + 1
  <2>1. r = q /\ q.ok
    BY <1>2, <1>4
  <2>2. CASE taken
    <3>1. new = q
      BY <2>2
    <3> HIDE DEF new, q
    <3> QED BY <1>2, <1>3, <2>1, <3>1 DEF Beats
  <2>3. CASE ~taken
    <3>1. new = best
      BY <2>3
    <3>2. best.ok /\ ~((f \/ best.impact > 0 \/ q.impact = 0) /\ Beats(m, q, best))
      BY <2>1, <2>3
    <3> HIDE DEF new, q
    <3> QED BY <1>2, <1>3, <2>1, <3>1, <3>2
  <2> QED BY <2>2, <2>3
<1>5. CASE i # k + 1
  <2>1. i <= k
    BY <1>5
  <2>2. best.ok /\ (Beats(m, r, best) => ~f /\ best.impact = 0 /\ r.impact > 0)
    BY <1>2, <2>1 DEF BestOf
  <2>3. CASE taken
    <3>1. new = q /\ q.ok
      BY <2>3
    <3>2. (f \/ best.impact > 0 \/ q.impact = 0) /\ Beats(m, q, best)
      BY <2>2, <2>3
    <3> HIDE DEF new, q
    <3> QED BY <1>2, <1>3, <2>2, <3>1, <3>2 DEF Beats
  <2>4. CASE ~taken
    <3>1. new = best
      BY <2>4
    <3> HIDE DEF new, q
    <3> QED BY <1>2, <2>2, <3>1
  <2> QED BY <2>3, <2>4
<1> QED BY <1>4, <1>5

LEMMA DirectStep == Types /\ DirectPart /\ [Next]_vars => DirectPart'
<1> SUFFICES ASSUME Types, DirectPart, [Next]_vars PROVE DirectPart'
  OBVIOUS
<1>0. ASSUME fast' = fast, list' = list, quotes' = quotes, compared' = compared,
             direct' = direct, exactIn' = exactIn,
             stage' = stage \/ ({stage, stage'} \cap {"begin", "direct"} = {})
      PROVE  DirectPart'
  BY <1>0 DEF DirectPart, Parallel
<1>1. CASE UNCHANGED vars
  BY <1>0, <1>1 DEF vars
<1>2. CASE Move
  BY <1>0, <1>2 DEF Move, request
<1>3. CASE Publish
  BY <1>0, <1>3 DEF Publish, request
<1>4. CASE Begin
  BY <1>4 DEF Begin, request, Types, DirectPart, BestOf, Parallel
<1>5. ASSUME NEW i \in DOMAIN list, Ask(i) PROVE DirectPart'
  <2>1. /\ stage = "direct" /\ i \in DOMAIN list \ DOMAIN quotes
        /\ Parallel \/ i = compared + 1
        /\ DOMAIN quotes' = DOMAIN quotes \cup {i}
        /\ \A j \in DOMAIN quotes : quotes'[j] = quotes[j]
        /\ fast' = fast /\ exactIn' = exactIn /\ stage' = stage /\ list' = list
        /\ compared' = compared /\ direct' = direct
    BY <1>5 DEF Ask, request
  <2>2. ~(i <= compared)
    BY <2>1 DEF DirectPart, Types
  <2>3. BestOf(fast, exactIn, quotes', compared, direct)
    BY <2>1, <2>2 DEF DirectPart, BestOf
  <2>4. Parallel' <=> Parallel
    BY <2>1 DEF Parallel
  <2>5. Parallel => \A j \in 1..compared : j \in DOMAIN quotes'
    BY <2>1 DEF DirectPart
  <2>6. ~Parallel => \A j \in DOMAIN quotes' : j <= compared + 1
    <3>1. compared \in Nat
      BY DEF Types
    <3> QED BY <2>1, <3>1 DEF DirectPart
  <2> QED BY <2>1, <2>3, <2>4, <2>5, <2>6 DEF DirectPart
<1>6. CASE Compare
  <2> DEFINE q == quotes[compared + 1]
             taken == Preferred(q, direct)
             stop == taken /\ ~fast /\ ~Parallel /\ q.impact = 0
  <2>1. /\ stage = "direct" /\ compared + 1 \in DOMAIN quotes
        /\ Parallel => DOMAIN quotes = DOMAIN list
        /\ fast' = fast /\ exactIn' = exactIn /\ stage' = stage /\ list' = list
        /\ quotes' = quotes
        /\ direct' = IF taken THEN q ELSE direct
        /\ compared' = IF stop THEN Len(list) ELSE compared + 1
    BY <1>6 DEF Compare, Compared, AllAnswered, request
  <2>2. /\ compared \in Nat /\ DOMAIN quotes \subseteq 1..Len(list)
        /\ Len(list) \in Nat /\ direct \in AQuote /\ fast \in BOOLEAN /\ exactIn \in BOOLEAN
    BY DEF Types
  <2>3. taken <=> /\ q.ok
                  /\ direct.ok => /\ fast \/ direct.impact > 0 \/ q.impact = 0
                                  /\ Beats(exactIn, q, direct)
    BY BetterIsBeats DEF Preferred
  <2>4. taken \in BOOLEAN
    BY <2>1, <2>2 DEF Preferred, Types, AQuote, Better
  <2>5. BestOf(fast, exactIn, quotes, compared + 1, direct')
    BY <2>1, <2>2, <2>3, <2>4, OneMoreCompared DEF DirectPart, Types
  <2>6. Parallel' <=> Parallel
    BY <2>1 DEF Parallel
  <2>7. CASE stop
    <3>1. \A i \in DOMAIN quotes : i <= compared + 1
      BY <2>1, <2>7 DEF DirectPart
    <3>2. compared' = Len(list)
      BY <2>1, <2>7
    <3>3. BestOf(fast, exactIn, quotes, Len(list), direct')
      BY <2>5, <3>1 DEF BestOf
    <3>4. ~Parallel
      BY <2>7
    <3> HIDE DEF taken, stop
    <3> QED BY <2>1, <2>2, <2>6, <3>2, <3>3, <3>4 DEF DirectPart
  <2>8. CASE ~stop
    <3>1. compared' = compared + 1
      BY <2>1, <2>8
    <3> HIDE DEF taken, stop
    <3>2. Parallel => \A i \in 1..(compared + 1) : i \in DOMAIN quotes
      BY <2>1, <2>2 DEF DirectPart
    <3>3. ~Parallel => \A i \in DOMAIN quotes : i <= compared + 2
      BY <2>1, <2>2 DEF DirectPart
    <3> QED BY <2>1, <2>2, <2>5, <2>6, <3>1, <3>2, <3>3 DEF DirectPart
  <2> QED BY <2>7, <2>8
<1>7. CASE EndDirect
  BY <1>7 DEF EndDirect, request, env, DirectPart, Parallel
<1>8. CASE Split
  BY <1>0, <1>8 DEF Split, request
<1>9. CASE Find
  BY <1>0, <1>9 DEF Find, request
<1>10. CASE UseSplitter
  BY <1>0, <1>10 DEF UseSplitter, request
<1>11. ASSUME NEW i \in Turn, EvaluateHop(i) PROVE DirectPart'
  BY <1>0, <1>11 DEF EvaluateHop, request
<1>12. ASSUME NEW i \in Turn, FailRoute(i) PROVE DirectPart'
  BY <1>0, <1>12 DEF FailRoute, request
<1>13. ASSUME NEW i \in Turn, EndRoute(i) PROVE DirectPart'
  BY <1>0, <1>13 DEF EndRoute, request
<1>14. CASE EndEvaluation
  BY <1>0, <1>14 DEF EndEvaluation, request
<1>15. CASE Choose
  BY <1>0, <1>15 DEF Choose, request
<1> QED BY <1>1, <1>2, <1>3, <1>4, <1>5, <1>6, <1>7, <1>8, <1>9, <1>10, <1>11, <1>12,
           <1>13, <1>14, <1>15 DEF Next, Answering

-----------------------------------------------------------------------------
(* Offers and the answer.                                                  *)

\* Of two quotes the one that is not beaten takes over what was behind the other.
LEMMA BehindTheBetter ==
  ASSUME NEW m \in BOOLEAN, NEW o \in AQuote, NEW old \in AQuote, NEW new \in AQuote,
         ~Beats(m, o, old), ~Beats(m, old, new)
  PROVE  ~Beats(m, o, new)
BY DEF Beats, AQuote

LEMMA BeatsIsStrict ==
  ASSUME NEW m \in BOOLEAN, NEW one \in AQuote, NEW other \in AQuote
  PROVE  /\ ~Beats(m, one, one)
         /\ Beats(m, one, other) => ~Beats(m, other, one)
BY DEF Beats, AQuote

LEMMA AnswerStep == Types /\ Types' /\ AnswerPart /\ [Next]_vars => AnswerPart'
<1> SUFFICES ASSUME Types, Types', AnswerPart, [Next]_vars PROVE AnswerPart'
  OBVIOUS
<1>0. ASSUME exactIn' = exactIn, stage' = stage, direct' = direct, multi' = multi,
             offers' = offers, answer' = answer
      PROVE  AnswerPart'
  BY <1>0 DEF AnswerPart
<1>a. /\ exactIn \in BOOLEAN /\ direct \in AQuote /\ multi \in AQuote
      /\ direct' \in AQuote /\ multi' \in AQuote
      /\ offers \subseteq AQuote /\ offers' \subseteq AQuote
  BY DEF Types
<1>1. CASE UNCHANGED vars
  BY <1>0, <1>1 DEF vars
<1>2. CASE Move
  BY <1>0, <1>2 DEF Move, request
<1>3. CASE Publish
  BY <1>0, <1>3 DEF Publish, request
<1>4. CASE Begin
  BY <1>4 DEF Begin, request, AnswerPart, Behind
<1>5. ASSUME NEW i \in DOMAIN list, Ask(i) PROVE AnswerPart'
  BY <1>0, <1>5 DEF Ask, request
<1>6. CASE Compare
  BY <1>6 DEF Compare, request, AnswerPart, Behind
<1>7. CASE EndDirect
  <2>1. /\ stage = "direct" /\ exactIn' = exactIn /\ direct' = direct /\ multi' = multi
        /\ offers' = IF direct.ok THEN {direct} ELSE {}
        /\ answer' = IF direct.ok /\ direct.impact < 100 THEN direct ELSE None
        /\ stage' = IF ~direct.ok THEN "routes"
                    ELSE IF direct.impact < 100 THEN "done" ELSE "split"
    BY <1>7 DEF EndDirect, request
  <2>2. ~multi.ok /\ ~Beats(exactIn, direct, direct)
    BY <1>a, <2>1, BeatsIsStrict DEF AnswerPart
  <2> QED BY <2>1, <2>2 DEF AnswerPart, Behind
<1>8. CASE Split
  <2>1. /\ stage = "split" /\ direct.ok /\ offers = {direct} /\ ~multi.ok
        /\ Behind(exactIn, offers, direct, multi)
    BY <1>8 DEF Split, AnswerPart
  <2>2. exactIn' = exactIn /\ direct' = direct /\ multi' = multi
    BY <1>8 DEF Split, request
  <2>3. CASE stage' = "routes" /\ offers' = offers
    BY <2>1, <2>2, <2>3 DEF AnswerPart
  <2>4. ASSUME NEW s \in SplitAnswers,
               offers' = offers \cup {Quoted(s.in, s.out, 0)},
               stage' = IF Better(Quoted(s.in, s.out, 0), direct) THEN "done" ELSE "routes",
               answer' = IF Better(Quoted(s.in, s.out, 0), direct)
                         THEN Quoted(s.in, s.out, 0) ELSE answer
        PROVE  AnswerPart'
    <3>1. PICK split \in AQuote : split = Quoted(s.in, s.out, 0) /\ split.ok
      BY SplitAnswerType
    <3>2. Better(split, direct) <=> Beats(exactIn, split, direct)
      BY BetterIsBeats
    <3>3. /\ ~Beats(exactIn, split, split)
          /\ Beats(exactIn, split, direct) => ~Beats(exactIn, direct, split)
      BY <1>a, BeatsIsStrict
    <3> QED BY <2>1, <2>2, <2>4, <3>1, <3>2, <3>3 DEF AnswerPart, Behind
  <2> QED BY <1>8, <2>3, <2>4 DEF Split
<1>9. CASE Find
  BY <1>9 DEF Find, request, AnswerPart
<1>10. CASE UseSplitter
  <2>1. /\ stage = "splitter" /\ Behind(exactIn, offers, direct, multi) /\ ~multi.ok
        /\ exactIn' = exactIn /\ direct' = direct
    BY <1>10 DEF UseSplitter, request, AnswerPart
  <2>2. CASE stage' = "evaluate" /\ multi' = multi /\ offers' = offers
    BY <2>1, <2>2 DEF AnswerPart
  <2>3. ASSUME NEW s \in SplitAnswers, multi' = Quoted(s.in, s.out, 0),
               offers' = offers \cup {Quoted(s.in, s.out, 0)}, stage' = "choose"
        PROVE  AnswerPart'
    <3>1. multi'.ok /\ ~Beats(exactIn, multi', multi')
      BY <1>a, <2>3, SplitAnswerType, BeatsIsStrict
    <3> QED BY <2>1, <2>3, <3>1 DEF AnswerPart, Behind
  <2> QED BY <1>10, <2>2, <2>3 DEF UseSplitter
<1>11. ASSUME NEW i \in Turn, EvaluateHop(i) PROVE AnswerPart'
  BY <1>0, <1>11 DEF EvaluateHop, request
<1>12. ASSUME NEW i \in Turn, FailRoute(i) PROVE AnswerPart'
  BY <1>0, <1>12 DEF FailRoute, request
<1>13. ASSUME NEW i \in Turn, EndRoute(i) PROVE AnswerPart'
  <2>1. /\ stage = "evaluate" /\ stage' = stage /\ exactIn' = exactIn /\ direct' = direct
        /\ multi' = IF multi.ok => Better(RouteQuote, multi) THEN RouteQuote ELSE multi
        /\ offers' = offers \cup {RouteQuote}
        /\ Behind(exactIn, offers, direct, multi)
    BY <1>13 DEF EndRoute, request, AnswerPart
  <2>2. PICK r \in AQuote : r = RouteQuote /\ r.ok
    BY RouteQuoteType, QuotedIsAQuote, FlowType, RoutingAssumption DEF RouteQuote, Quoted
  <2>3. Better(r, multi) <=> Beats(exactIn, r, multi)
    BY BetterIsBeats
  <2>4. /\ multi'.ok /\ ~Beats(exactIn, r, multi')
        /\ multi.ok => ~Beats(exactIn, multi, multi')
    BY <1>a, <2>1, <2>2, <2>3, BeatsIsStrict
  <2>5. ASSUME NEW o \in offers, multi.ok, ~Beats(exactIn, o, multi)
        PROVE  ~Beats(exactIn, o, multi')
    BY <1>a, <2>4, <2>5, BehindTheBetter
  <2>6. Behind(exactIn, offers', direct, multi')
    BY <2>1, <2>2, <2>4, <2>5 DEF Behind
  <2> QED BY <2>1, <2>6 DEF AnswerPart
<1>14. CASE EndEvaluation
  BY <1>14 DEF EndEvaluation, request, AnswerPart
<1>15. CASE Choose
  <2>1. /\ stage = "choose" /\ stage' = "done" /\ exactIn' = exactIn /\ offers' = offers
        /\ answer' = Chosen /\ Behind(exactIn, offers, direct, multi)
    BY <1>15 DEF Choose, request, AnswerPart
  <2>2. Better(multi, direct) <=> Beats(exactIn, multi, direct)
    BY BetterIsBeats
  <2>3. ASSUME NEW o \in offers PROVE answer'.ok /\ ~Beats(exactIn, o, answer')
    <3>1. (direct.ok /\ ~Beats(exactIn, o, direct)) \/ (multi.ok /\ ~Beats(exactIn, o, multi))
      BY <2>1 DEF Behind
    <3>2. CASE multi.ok /\ (direct.ok => Beats(exactIn, multi, direct))
      <4>1. answer' = multi
        BY <2>1, <2>2, <3>2 DEF Chosen
      <4>2. direct.ok => ~Beats(exactIn, direct, multi)
        BY <1>a, <3>2, BeatsIsStrict
      <4> QED BY <1>a, <3>1, <3>2, <4>1, <4>2, BehindTheBetter
    <3>3. CASE ~(multi.ok /\ (direct.ok => Beats(exactIn, multi, direct)))
      <4>1. answer' = direct
        BY <2>1, <2>2, <3>3 DEF Chosen
      <4> QED BY <1>a, <3>1, <3>3, <4>1, BehindTheBetter
    <3> QED BY <3>2, <3>3
  <2> QED BY <2>1, <2>3 DEF AnswerPart
<1> QED BY <1>1, <1>2, <1>3, <1>4, <1>5, <1>6, <1>7, <1>8, <1>9, <1>10, <1>11, <1>12,
           <1>13, <1>14, <1>15 DEF Next, Answering

-----------------------------------------------------------------------------
(* Hops.                                                                   *)

LEMMA HandedStep == Types /\ Handed(exactIn, hops) /\ [Next]_vars => Handed(exactIn, hops)'
<1> SUFFICES ASSUME Types, Handed(exactIn, hops), [Next]_vars
             PROVE  Handed(exactIn', hops')
  BY DEF Handed
<1>1. exactIn' = exactIn
  BY DEF Next, Answering, vars, env, request, Move, Publish, Begin, Ask, Compare, EndDirect,
         Split, Find, UseSplitter, EvaluateHop, FailRoute, EndRoute, EndEvaluation, Choose
<1>2. CASE hops' = hops
  BY <1>1, <1>2
<1>3. CASE hops' = <<>>
  <2>1. Len(hops') = 0
    BY <1>3
  <2> QED BY <1>3, <2>1 DEF Handed
<1>4. ASSUME NEW i \in Turn, EvaluateHop(i) PROVE Handed(exactIn', hops')
  <2>1. i \in routes /\ Len(hops) < Len(Route(i))
    BY <1>4 DEF Turn, EvaluateHop
  <2>2. PICK hop \in AQuote : hop = NextHop(Route(i)) /\ Within(exactIn, hop, Flow)
    BY <2>1, NextHopType
  <2>3. hops \in Seq(AQuote) /\ Len(hops) \in Nat /\ exactIn \in BOOLEAN
    BY DEF Types
  <2>4. CASE exactIn
    <3>1. hops' = Append(hops, hop)
      BY <1>4, <2>2, <2>4 DEF EvaluateHop
    <3>2. /\ Len(hops') = Len(hops) + 1
          /\ \A k \in 1..Len(hops) : hops'[k] = hops[k]
          /\ hops'[Len(hops) + 1] = hop
      BY <2>3, <3>1
    <3>3. hop.in <= Flow
      BY <2>2, <2>4 DEF Within
    <3>4. CASE hops = <<>>
      <4>1. Len(hops) = 0 /\ Flow = Total
        BY <3>4 DEF Flow
      <4> QED BY <1>1, <2>4, <3>2, <3>3, <4>1 DEF Handed
    <3>5. CASE hops # <<>>
      <4>1. Len(hops) >= 1 /\ Flow = hops[Len(hops)].out
        BY <2>3, <2>4, <3>5 DEF Flow
      <4>2. hops'[1].in <= Total
        BY <2>4, <3>2, <3>5, <4>1 DEF Handed
      <4>3. ASSUME NEW k \in 1..(Len(hops') - 1) PROVE hops'[k + 1].in <= hops'[k].out
        <5>1. CASE k = Len(hops)
          BY <3>2, <3>3, <4>1, <5>1
        <5>2. CASE k # Len(hops)
          <6>1. k \in 1..(Len(hops) - 1) /\ k \in 1..Len(hops) /\ k + 1 \in 1..Len(hops)
            BY <2>3, <3>2, <5>2
          <6>2. hops[k + 1].in <= hops[k].out
            BY <2>4, <6>1 DEF Handed
          <6> QED BY <3>2, <6>1, <6>2
        <5> QED BY <5>1, <5>2
      <4> QED BY <1>1, <2>4, <4>2, <4>3 DEF Handed
    <3> QED BY <3>4, <3>5
  <2>5. CASE ~exactIn
    <3>1. hops' = <<hop>> \o hops
      BY <1>4, <2>2, <2>5 DEF EvaluateHop
    <3>2. /\ Len(hops') = Len(hops) + 1
          /\ hops'[1] = hop
          /\ \A k \in 1..Len(hops) : hops'[k + 1] = hops[k]
      BY <2>3, <3>1
    <3>3. hop.out <= Flow
      BY <2>2, <2>5 DEF Within
    <3>4. CASE hops = <<>>
      <4>1. Len(hops) = 0 /\ Flow = Total
        BY <3>4 DEF Flow
      <4> QED BY <1>1, <2>5, <3>2, <3>3, <4>1 DEF Handed
    <3>5. CASE hops # <<>>
      <4>1. Len(hops) >= 1 /\ Flow = hops[1].in
        BY <2>3, <2>5, <3>5 DEF Flow
      <4>2. hops'[Len(hops')].out <= Total
        BY <2>3, <2>5, <3>2, <3>5, <4>1 DEF Handed
      <4>3. ASSUME NEW k \in 1..(Len(hops') - 1) PROVE hops'[k].out <= hops'[k + 1].in
        <5>1. CASE k = 1
          BY <3>2, <3>3, <4>1, <5>1
        <5>2. CASE k # 1
          <6>1. /\ k - 1 \in 1..(Len(hops) - 1) /\ k - 1 \in 1..Len(hops) /\ k \in 1..Len(hops)
                /\ (k - 1) + 1 = k
            BY <2>3, <3>2, <5>2
          <6>2. hops[k - 1].out <= hops[(k - 1) + 1].in
            BY <2>5, <6>1 DEF Handed
          <6>3. hops'[(k - 1) + 1] = hops[k - 1] /\ hops'[k + 1] = hops[k]
            BY <3>2, <6>1
          <6> QED BY <6>1, <6>2, <6>3
        <5> QED BY <5>1, <5>2
      <4> QED BY <1>1, <2>5, <4>2, <4>3 DEF Handed
    <3> QED BY <3>4, <3>5
  <2> QED BY <2>3, <2>4, <2>5
<1> QED BY <1>2, <1>3, <1>4 DEF Next, Answering, vars, env, request, Move, Publish, Begin, Ask,
           Compare, EndDirect, Split, Find, UseSplitter, FailRoute, EndRoute, EndEvaluation,
           Choose

-----------------------------------------------------------------------------
\* IInv is inductive.
LEMMA IInvHolds == Spec => []IInv
<1>1. IInv /\ [Next]_vars => IInv'
  <2> SUFFICES ASSUME IInv, [Next]_vars PROVE IInv'
    OBVIOUS
  <2>1. Types /\ DirectPart /\ AnswerPart /\ Handed(exactIn, hops)
    BY DEF IInv
  <2>2. Types'
    BY <2>1, TypesStep
  <2> QED BY <2>1, <2>2, DirectStep, AnswerStep, HandedStep DEF IInv
<1> QED BY <1>1, IInvInit, PTL DEF Spec

\* The variables of a request keep their types (router.go:980-1383).
THEOREM RoutingTypeCorrect == Spec => []RoutingTypeOK
<1>1. IInv => RoutingTypeOK
  BY DEF IInv, Types, RoutingTypeOK, Stages
<1> QED BY <1>1, IInvHolds, PTL

\* The answer is the best of what the stages came up with, whatever pools, curves
\* and routes there are and however they change (router.go:988-1051).
THEOREM BestOfferAnswers == Spec => []AnswerIsBestOffer
<1>1. IInv => AnswerIsBestOffer
  BY BetterIsBeats DEF IInv, AnswerPart, AnswerIsBestOffer
<1> QED BY <1>1, IInvHolds, PTL

\* However the goroutines interleave, no direct quote is better than the one that
\* is taken, but for the preference of quotes without impact (router.go:1233-1383).
THEOREM BestDirectIsTaken == Spec => []DirectIsBest
<1>1. IInv => DirectIsBest
  <2> SUFFICES ASSUME IInv, stage \notin {"begin", "direct"}, NEW i \in DOMAIN quotes,
                      quotes[i].ok
               PROVE  /\ direct.ok
                      /\ Better(quotes[i], direct) =>
                           ~fast /\ direct.impact = 0 /\ quotes[i].impact > 0
    BY DEF DirectIsBest
  <2>1. i <= compared
    BY DEF IInv, Types, DirectPart
  <2> QED BY <2>1, BetterIsBeats DEF IInv, DirectPart, BestOf
<1> QED BY <1>1, IInvHolds, PTL

\* No hop uses, or pays, more than the hop before it, or after it, hands on
\* (path_evaluator.go:128-262).
THEOREM HopsHandOnAlways == Spec => []HopsHandOn
<1>1. IInv => HopsHandOn
  BY DEF IInv, Types, Handed, HopsHandOn
<1> QED BY <1>1, IInvHolds, PTL

=============================================================================
