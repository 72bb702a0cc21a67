---------------------------- MODULE MCPathSplit ----------------------------
(* PathSplit on routes whose price worsens linearly with the amount, some of *)
(* which refuse all but a small part of the trade.                           *)
EXTENDS PathSplit

R(fee, depth, limit) == [fee |-> fee, depth |-> depth, limit |-> limit]
Curves == {R(990, 1, 1000), R(990, 9, 1000), R(970, 4, 1000), R(900, 0, 1000),
           R(980, 2, 600), R(990, 0, 50)}

\* In twenty thousandths of the output token.
MCGive(r, x) == 20 * r.fee * x - r.depth * x * x
MCTake(r, x) == (x * (2000 - r.fee)) \div 1000 + (r.depth * x * x) \div 10000
MCFails(r, x) == x > r.limit
============================================================================
