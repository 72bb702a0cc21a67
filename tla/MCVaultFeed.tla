----------------------------- MODULE MCVaultFeed -----------------------------
(***************************************************************************)
(* Swaps that cross a tick (pool, tick array and both vaults), changes of  *)
(* the pool alone (its fee) and deposits outside of the current price (one *)
(* vault and a tick array), in two slots and at most three changes; two    *)
(* subscriptions of the vaults, so that each change may be told twice and  *)
(* the first may be without the second vault.                              *)
(***************************************************************************)
EXTENDS VaultFeed

MCTouches == {{"pool", "ticks", "A", "B"}, {"pool"}, {"ticks", "A"}}
=============================================================================
