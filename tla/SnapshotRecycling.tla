--------------------------- MODULE SnapshotRecycling ---------------------------
(***************************************************************************)
(* The memory under the routing snapshots (services/router/graph.go and    *)
(* pool_allocator.go).  A rebuild takes the arrays of its lists from a     *)
(* sync.Pool and, once its snapshot is stored, gives the arrays of the one *)
(* before back, with every entry set to nil.  The next rebuild takes them  *)
(* again.  A quote loads a list (GetDirectRoutesForPair, or the pools of a *)
(* super edge, which are the same array) and walks it without a lock.      *)
(*                                                                         *)
(* Module Graph says which pools a list holds; this one follows where it   *)
(* is kept.  Pools stand for their addresses, so that an entry replaced in *)
(* place by another object of the same pool is no change here.  The maps   *)
(* of a snapshot, cleared and reused like the arrays, are not followed.    *)
(***************************************************************************)
EXTENDS Integers, Sequences, FiniteSets, SequencesExt

CONSTANTS
  Pool,        \* the pools of the pair
  Pair,        \* directed pairs; every pool is listed under each of them
  Array,       \* backing arrays; those never taken stand for new allocations
  Reader,      \* quoting goroutines
  None,        \* the nil pointer: neither a pool nor an array
  MaxPerPair   \* MaxPoolsPerPair, 5 in the code

VARIABLES
  ready,    \* the pools isPoolReady accepts
  mem,      \* what each array holds
  spare,    \* poolSlicePool: the arrays given back
  taken,    \* the arrays allocated so far
  lists,    \* g.snapshot: the list of each pair, a slice of an array
  old,      \* oldSnap: the lists a rebuild has still to recycle
  work,     \* the lists a rebuild has made, and the pairs it has yet to visit
  phase,    \* what the holder of mu does: "free", "rebuild" or "recycle"
  walk      \* what each reader does with the list it loaded

vars == <<ready, mem, spare, taken, lists, old, work, phase, walk>>

\* A slice: its array and its length.  The nil slice has no array.
NoList == [array |-> None, len |-> 0]
NoLists == [e \in Pair |-> NoList]

\* The pools a slice shows whoever reads it now.
Shown(l) == IF l.array = None THEN <<>> ELSE SubSeq(mem[l.array], 1, l.len)

\* A reader between two quotes.  "promised" is what the list showed when the
\* reader loaded it, "saw" what it has read of it so far.
Idle == [list |-> NoList, promised |-> <<>>, saw |-> <<>>]

Init ==
  /\ ready = Pool
  /\ mem = [a \in Array |-> <<>>]
  /\ spare = {} /\ taken = {}
  /\ lists = NoLists /\ old = NoLists
  /\ work = [lists |-> NoLists, todo |-> {}]
  /\ phase = "free"
  /\ walk = [r \in Reader |-> Idle]

\* A handler changes the readiness of a pool in place, inside mu.
SetReady(p) ==
  /\ phase = "free"
  /\ ready' = IF p \in ready THEN ready \ {p} ELSE ready \cup {p}
  /\ UNCHANGED <<mem, spare, taken, lists, old, work, phase, walk>>

-----------------------------------------------------------------------------
(* rebuildSnapshot and recycleSnapshot, under mu.                          *)

BeginRebuild ==
  /\ phase = "free"
  /\ phase' = "rebuild"
  /\ work' = [lists |-> NoLists, todo |-> Pair]
  /\ UNCHANGED <<ready, mem, spare, taken, lists, old, walk>>

\* A sync.Pool hands out any of its arrays, or may have lost them to the
\* collector and makes a new one.
GetPoolSlice == spare \cup (Array \ taken)

\* The ready pools of a pair, sorted by output reserve, are cut to the limit.
Listings == SetToSeqs(ready)
Cut(s) == SubSeq(s, 1, IF Len(s) > MaxPerPair THEN MaxPerPair ELSE Len(s))

\* One pair; a list that stays empty gives its array straight back.
RebuildPair(e) ==
  /\ phase = "rebuild" /\ e \in work.todo
  /\ \E a \in GetPoolSlice, s \in Listings :
       IF s = <<>>
       THEN /\ work' = [work EXCEPT !.todo = @ \ {e}]
            /\ UNCHANGED <<mem, spare, taken>>
       ELSE /\ mem' = [mem EXCEPT ![a] = s]
            /\ spare' = spare \ {a} /\ taken' = taken \cup {a}
            /\ work' = [lists |-> [work.lists EXCEPT ![e] =
                                     [array |-> a, len |-> Len(Cut(s))]],
                        todo |-> work.todo \ {e}]
  /\ UNCHANGED <<ready, lists, old, phase, walk>>

StoreRebuilt ==
  /\ phase = "rebuild" /\ work.todo = {}
  /\ lists' = work.lists /\ old' = lists
  /\ phase' = "recycle"
  /\ UNCHANGED <<ready, mem, spare, taken, work, walk>>

\* The entries up to the length become nil and the array is free.
PutPoolSlice(l) ==
  /\ mem' = [mem EXCEPT ![l.array] =
               [i \in DOMAIN @ |-> IF i <= l.len THEN None ELSE @[i]]]
  /\ spare' = spare \cup {l.array}

Recycle(e) ==
  /\ phase = "recycle" /\ old[e] # NoList
  /\ PutPoolSlice(old[e])
  /\ old' = [old EXCEPT ![e] = NoList]
  /\ UNCHANGED <<ready, taken, lists, work, phase, walk>>

Unlock ==
  /\ phase = "recycle" /\ old = NoLists
  /\ phase' = "free"
  /\ UNCHANGED <<ready, mem, spare, taken, lists, old, work, walk>>

-----------------------------------------------------------------------------
(* applyIncrementalUpdate: the lists are shared with the snapshot before,  *)
(* and nothing is recycled.  One step stands for the change of one pool.   *)

\* The lists with the contents given, each in an array of its own.
Filed(contents, place) ==
  /\ IsInjective(place)
  /\ lists' = [e \in Pair |-> IF contents[e] = <<>> THEN NoList
                 ELSE [array |-> place[e], len |-> Len(contents[e])]]
  /\ mem' = [a \in Array |->
               IF \E e \in Pair : place[e] = a /\ contents[e] # <<>>
               THEN contents[CHOOSE e \in Pair : place[e] = a] ELSE mem[a]]
  /\ taken' = taken \cup {place[e] : e \in {x \in Pair : contents[x] # <<>>}}

\* append writes behind the end of the array when it has room, or moves.
AddToLists(p) ==
  /\ phase = "free" /\ p \in ready
  /\ \A e \in Pair : p \notin ToSet(Shown(lists[e]))
  /\ \E place \in [Pair -> Array] :
       /\ \A e \in Pair : place[e] = lists[e].array \/ place[e] \notin taken
       /\ Filed([e \in Pair |-> Append(Shown(lists[e]), p)], place)
  /\ UNCHANGED <<ready, spare, old, work, phase, walk>>

\* removePoolEdge copies the others to a new array.
RemoveFromLists(p) ==
  /\ phase = "free"
  /\ \E e \in Pair : p \in ToSet(Shown(lists[e]))
  /\ \E place \in [Pair -> Array \ taken] :
       Filed([e \in Pair |-> SelectSeq(Shown(lists[e]), LAMBDA q : q # p)], place)
  /\ UNCHANGED <<ready, spare, old, work, phase, walk>>

-----------------------------------------------------------------------------
(* Quotes.                                                                 *)

Load(r, e) ==
  /\ walk[r] = Idle /\ lists[e] # NoList
  /\ walk' = [walk EXCEPT ![r] = [list |-> lists[e], promised |-> Shown(lists[e]),
                                  saw |-> <<>>]]
  /\ UNCHANGED <<ready, mem, spare, taken, lists, old, work, phase>>

\* for i, pool := range pools: the entry is read from the array when its turn
\* comes.
Look(r) ==
  LET w == walk[r]
      i == Len(w.saw) + 1
  IN  /\ i <= w.list.len
      /\ walk' = [walk EXCEPT ![r].saw = Append(@, mem[w.list.array][i])]
      /\ UNCHANGED <<ready, mem, spare, taken, lists, old, work, phase>>

Finish(r) ==
  /\ walk[r] # Idle /\ Len(walk[r].saw) = walk[r].list.len
  /\ walk' = [walk EXCEPT ![r] = Idle]
  /\ UNCHANGED <<ready, mem, spare, taken, lists, old, work, phase>>

-----------------------------------------------------------------------------
Next == \/ \E p \in Pool : SetReady(p) \/ AddToLists(p) \/ RemoveFromLists(p)
        \/ BeginRebuild \/ StoreRebuilt \/ Unlock
        \/ \E e \in Pair : RebuildPair(e) \/ Recycle(e)
        \/ \E r \in Reader : \/ \E e \in Pair : Load(r, e)
                             \/ Look(r) \/ Finish(r)

Spec == Init /\ [][Next]_vars

-----------------------------------------------------------------------------
\* What a quote reads is the list it loaded: the pools the snapshot listed at
\* that moment, none of them nil and none of another pair.  The comments at the
\* recycling and at GetPoolsDirect say so; the arrays are reused under readers.
ReadersKeepTheirList ==
  \A r \in Reader : IsPrefix(walk[r].saw, walk[r].promised)
=============================================================================
