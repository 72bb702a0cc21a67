----------------------------- MODULE MCPoolFeed -----------------------------
(***************************************************************************)
(* Instances of PoolFeed.  One pool P with two objects, one per goroutine  *)
(* that may find it missing, and two windows of tick arrays, of which one  *)
(* array is in both and at another index; or two pools P and Q with one    *)
(* object each and windows of one array.                                   *)
(***************************************************************************)
EXTENDS PoolFeed, TLC

CONSTANTS A, B, P, Q, p1, p2, q1, a0, a1, b0

MCToken == {A, B}
MCOnePool == {P}
MCTwoPools == {P, Q}
MCObjP == {p1, p2}
MCObjPQ == {p1, q1}
MCAddrP == (p1 :> P) @@ (p2 :> P)
MCAddrPQ == (p1 :> P) @@ (q1 :> Q)
MCMintA == (P :> A)
MCMintB == (P :> B)
MCMintA2 == (P :> A) @@ (Q :> B)
MCMintB2 == (P :> B) @@ (Q :> A)
MCArrayP == {a0, a1}
MCArrayPQ == {a0, a1, b0}
MCWindowsP == (P :> {<<a0, a1>>, <<a1>>, <<>>})
MCWindowsPQ == (P :> {<<a0>>, <<a1>>}) @@ (Q :> {<<b0>>})
MCNone == {}
Symmetric == Permutations({p1, p2})
=============================================================================
