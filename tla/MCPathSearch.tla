---------------------------- MODULE MCPathSearch ----------------------------
(* PathSearch on five tokens: two searches on a few networks leave the arena  *)
(* in many states, the third is from 0 to 4 on every network.                 *)
EXTENDS PathSearch

Pairs == {{a, b} : <<a, b>> \in {<<a, b>> \in Token \X Token : a < b}}
Line == {{0, 1}, {1, 2}, {2, 3}, {3, 4}}
Star == {{2, a} : a \in Token \ {2}}

Few == {[network |-> net, from |-> f, to |-> 4 - f] :
          net \in {Line, Star, Pairs \ {{0, 4}}}, f \in {0, 4}}
All == {[network |-> net, from |-> 0, to |-> 4] :
          net \in SUBSET (Pairs \ {{0, 4}}) \cup {Pairs}}
Searches == <<Few, {r \in Few : r.from = 4}, All>>
============================================================================
