------------------------------ MODULE MCGraph ------------------------------
(***************************************************************************)
(* Instances of Graph: two pools P and Q of one pair of tokens, which see  *)
(* the tokens in opposite order, and two objects for P, as two goroutines  *)
(* that fetch the same account make them.  P may be removed.               *)
(***************************************************************************)
EXTENDS Graph, TLC

CONSTANTS A, B, P, Q, p1, p2, q1

MCToken == {A, B}
MCPool == {P, Q}
MCObj == {p1, p2, q1}
MCAddrOf == (p1 :> P) @@ (p2 :> P) @@ (q1 :> Q)
MCMintA == (P :> A) @@ (Q :> B)
MCMintB == (P :> B) @@ (Q :> A)
MCRemovable == {P}
=============================================================================
