----------------------------- MODULE MCRouting -----------------------------
(* Routing for one request over four direct pools, two, or none, where there *)
(* are two other routes or one, and snapshots change under the quote.        *)
EXTENDS Routing

CONSTANTS p1, p2, p3, p4, de, ae, be, ce

C(fee, impact, limit) == [fee |-> fee, impact |-> impact, limit |-> limit]
Curves == {C(3, 0, 600), C(1, 200, 600), C(2, 50, 250)}

MCGive(c, x) == x - (x * c.fee) \div 100
MCTake(c, x) == x + (x * c.fee) \div 100
MCFails(c, x) == x = 0 \/ x > c.limit
MCImpact(c, x) == (c.impact * x) \div 300

S(d, x, y, z, full) ==
  [pools |-> [e \in {de, ae, be, ce} |->
                CASE e = de -> d [] e = ae -> x [] e = be -> y [] e = ce -> z],
   full |-> full]

MCSnapshots ==
  {S(<<p1, p2, p3, p4>>, <<p1>>, <<>>, <<>>, TRUE),
   S(<<p2, p1>>, <<p3>>, <<>>, <<>>, FALSE),
   S(<<>>, <<p1, p2, p3>>, <<p2>>, <<p4, p3>>, TRUE),
   S(<<>>, <<>>, <<p2, p4>>, <<p1, p3>>, TRUE)}

MCRoutes == <<<<ae>>, <<be, ce>>>>
MCSplitAnswers == {[in |-> 300, out |-> 290], [in |-> 300, out |-> 300], [in |-> 310, out |-> 300]}
============================================================================
