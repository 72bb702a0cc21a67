---------------------------- MODULE MCMarketStore ----------------------------
(***************************************************************************)
(* An instance of MarketStore and of Subscriptions.  The sets of both are  *)
(* unions over the pools, so pools meet only in a batch; the goroutines    *)
(* that handle updates all meet on this one.  It has two tick arrays, of   *)
(* which a report may name both or one.                                    *)
(*                                                                         *)
(* The two halves share no variable and no step: each runs while the other *)
(* is down (and the store is empty, which is nothing to Subscriptions), so *)
(* that a run explores one and then the other and not their product.       *)
(***************************************************************************)
EXTENDS Subscriptions

CONSTANTS p1, s1, a1, a2
MCPool == {p1}
MCStream == {s1}
MCArray == {a1, a2}
MCWindows == {<<a1, a2>>, <<a2>>}

MCNext == \/ ~running /\ StoreNext /\ UNCHANGED watchVars
          \/ ~up /\ store = {} /\ WatchNext /\ UNCHANGED storeVars

MCInit == StoreInit /\ WatchInit

MCSpec == /\ MCInit
          /\ [][MCNext]_<<storeVars, watchVars>>
          /\ StoreFairness /\ WatchFairness
=============================================================================
