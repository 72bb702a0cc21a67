--------------------------- MODULE PoolDirectory ---------------------------
(***************************************************************************)
(* What the routing graph promises about the pools it is told of, without  *)
(* any of its machinery: a set of pools that are known, a set that readers *)
(* can see, and a publication that makes every known pool visible.  The    *)
(* graph (module Graph) implements this with a mutable map, a pending      *)
(* diff, a background refresher and an immutable snapshot.                 *)
(***************************************************************************)

CONSTANT Pool            \* the pool addresses

VARIABLES known,         \* addresses handed to AddPool or AddPoolsBatch
          published      \* addresses a lock-free reader finds

dirVars == <<known, published>>

DirInit == known = {} /\ published = {}

\* A writer makes pools known; readers see nothing of it yet.
Learn(S) == known' = known \cup S /\ UNCHANGED published

\* Readers are switched, in one step, to exactly what is known.
Publish == published' = known /\ UNCHANGED known

DirNext == (\E S \in SUBSET Pool : Learn(S)) \/ Publish

\* A publication that has something to show does not wait forever.
DirSpec == DirInit /\ [][DirNext]_dirVars /\ WF_dirVars(Publish)

=============================================================================
