--------------------------- MODULE MCSplitSearch ---------------------------
(* SplitSearch on pools whose price worsens linearly with the amount, one of *)
(* them unable to answer for more than a part of the trade.                  *)
EXTENDS SplitSearch

C(fee, depth, limit) == [fee |-> fee, depth |-> depth, limit |-> limit]
Curves == {C(1000, 1, 100), C(1000, 4, 100), C(990, 0, 100), C(960, 2, 100),
           C(700, 1, 100), C(1000, 0, 40)}

MCGive(c, x) == c.fee * x - c.depth * x * x
MCTake(c, x) == x + ((1000 - c.fee) * x + c.depth * x * x) \div 100
MCFails(c, x) == x > c.limit
============================================================================
