------------------------ MODULE MCSnapshotRecycling ------------------------
(***************************************************************************)
(* Two pools of one pair, listed in both directions, and one quote: enough *)
(* for it to load a list, for two rebuilds to pass and for it to read on.  *)
(***************************************************************************)
EXTENDS SnapshotRecycling

CONSTANTS P, Q, ab, ba, r1

MCPool == {P, Q}
MCPair == {ab, ba}
MCReader == {r1}
MCArray == 1 .. 6
=============================================================================
