---------------------------- MODULE PathSearch ----------------------------
(***************************************************************************)
(* The search for routes between two tokens (services/router/pathfinder.go *)
(* over the adjacency of adj_slice.go): breadth first from both ends, in   *)
(* an arena that is reused from search to search and told its visited      *)
(* tokens apart from those of earlier searches by a generation number.     *)
(*                                                                         *)
(* An arena has one user at a time (bfsArenaPool), so one arena is enough. *)
(* A search whose tokens are unknown or equal, or whose snapshot has no    *)
(* adjFast, returns before it takes an arena and is not a step.            *)
(***************************************************************************)
EXTENDS Integers, Sequences, FiniteSets, FiniteSetsExt, SequencesExt

CONSTANTS
  Token,      \* token ids
  Capacity,   \* maxBFSCapacity: ids from here on cannot be marked
  GenSize,    \* the generation counts modulo GenSize (2^32)
  MaxHops,
  MaxPaths,   \* MaxPathsToEvaluate
  Requests    \* what the searches that use the arena one after the other may
              \* be asked: for each a set of [network, from, to]

ASSUME TokenAssumption == Token \in SUBSET Nat /\ IsFiniteSet(Token)
ASSUME BoundsAssumption == /\ Capacity \in Nat /\ MaxPaths \in Nat \ {0}
                           /\ GenSize \in Nat \ {0, 1}
                           /\ MaxHops \in Nat \ {0, 1}
Request == [network : SUBSET (SUBSET Token), from : Token, to : Token]
ASSUME RequestsAssumption == /\ Requests \in Seq(SUBSET Request)
                             /\ \A i \in DOMAIN Requests : \A r \in Requests[i] :
                                  r.from # r.to

VARIABLES
  gen, mark, parent,      \* the arena: currentGen, {forward,backward}{Gen,Parent}
  network, ends,          \* the snapshot and the two tokens, by side
  stage,                  \* "idle", the side that expands, "found"
  depth,
  frontier, next,         \* the layers of each side and the one being built
  cursor,                 \* last neighbour looked at of the token that expands
  paths,                  \* resultPaths
  served                  \* searches begun

arenaVars == <<gen, mark, parent>>
layerVars == <<depth, frontier, next, cursor>>
vars == <<arenaVars, layerVars, network, ends, stage, paths, served>>

-----------------------------------------------------------------------------
Side == {"forward", "backward"}
Other(side) == IF side = "forward" THEN "backward" ELSE "forward"

NoParent == -1
MaxDepthPerSide == (MaxHops + 1) \div 2

\* getNeighborsInto: tokens that share a pool with t; both directions of a pool
\* are in the adjacency.
Neighbors(t) == {n \in Token : {t, n} \in network /\ n # t}

Visited(side, t) == t < Capacity /\ mark[side][t] = gen

\* Tokens from t up to the root of side, t first, under the parents p of the
\* arena: the k-th is up[k].  A token beyond the arena counts as a root.
Chain(p, t) ==
  LET up[k \in 0..Cardinality(Token)] ==
        IF k = 0 THEN t
        ELSE IF up[k - 1] = NoParent \/ up[k - 1] >= Capacity THEN NoParent
        ELSE p[up[k - 1]]
      length == Cardinality({k \in DOMAIN up : up[k] # NoParent})
  IN  [k \in 1..length |-> up[k - 1]]

\* reconstructPath: input to meeting point, then on to the output.
Path(p, meeting) ==
  Reverse(Chain(p["forward"], meeting)) \o Tail(Chain(p["backward"], meeting))

-----------------------------------------------------------------------------
Init ==
  /\ gen \in 1..(GenSize - 1)
  /\ mark = [s \in Side |-> [t \in Token |-> 0]]
  /\ parent = [s \in Side |-> [t \in Token |-> 0]]
  /\ network = {} /\ ends = [s \in Side |-> NoParent]
  /\ stage = "idle" /\ depth = 0
  /\ frontier = [s \in Side |-> <<>>] /\ next = <<>> /\ cursor = -1
  /\ paths = <<>> /\ served = 0

\* The roots keep the parents of an earlier search.
StartWithoutRoots(r) ==
  /\ stage = "idle" /\ served' = served + 1
  /\ network' = r.network
  /\ ends' = [s \in Side |-> IF s = "forward" THEN r.from ELSE r.to]
  /\ IF {r.from, r.to} \in r.network
     THEN /\ paths' = <<<<r.from, r.to>>>> /\ stage' = "found"
          /\ UNCHANGED <<arenaVars, layerVars>>
     ELSE /\ mark' = [s \in Side |-> [mark[s] EXCEPT ![ends'[s]] = gen]]
          /\ frontier' = [s \in Side |-> <<ends'[s]>>]
          /\ next' = <<>> /\ cursor' = -1 /\ depth' = 1
          /\ stage' = "forward" /\ paths' = paths
          /\ UNCHANGED <<gen, parent>>

\* The search begins; two tokens with a pool in common need no more.
Start(r) ==
  /\ stage = "idle" /\ served' = served + 1
  /\ network' = r.network
  /\ ends' = [s \in Side |-> IF s = "forward" THEN r.from ELSE r.to]
  /\ IF {r.from, r.to} \in r.network
     THEN /\ paths' = <<<<r.from, r.to>>>> /\ stage' = "found"
          /\ UNCHANGED <<arenaVars, layerVars>>
     ELSE /\ mark' = [s \in Side |-> IF ends'[s] < Capacity
                                     THEN [mark[s] EXCEPT ![ends'[s]] = gen]
                                     ELSE mark[s]]
          /\ parent' = [s \in Side |-> IF ends'[s] < Capacity
                                       THEN [parent[s] EXCEPT ![ends'[s]] = NoParent]
                                       ELSE parent[s]]
          /\ frontier' = [s \in Side |-> <<ends'[s]>>]
          /\ next' = <<>> /\ cursor' = -1 /\ depth' = 1
          /\ stage' = "forward" /\ paths' = paths
          /\ UNCHANGED gen

\* Neighbours of the token that expands which are left to look at and not yet
\* visited from this side.
Unvisited(side) == {n \in Neighbors(Head(frontier[side])) :
                      n > cursor /\ ~Visited(side, n)}

\* Sides meet only when the forward one moves (the state before "RESTORE",
\* pathfinder.go:328).
RecordedForward(side, n) ==
  IF side = "forward" /\ Visited("backward", n)
  THEN Append(paths, Path(parent', n)) ELSE paths

\* The paths once the two sides have met at n: the backward side leaves out a
\* path that is there already.
Recorded(side, n) ==
  LET path == Path(parent', n)
  IN  IF \/ ~Visited(Other(side), n)
         \/ side = "backward" /\ path \in Range(paths)
      THEN paths
      ELSE Append(paths, path)

\* The storage is checked after it is used.
VisitPastLimit(side) ==
  /\ stage = side /\ frontier[side] # <<>> /\ Unvisited(side) # {}
  /\ LET n == Min(Unvisited(side))
     IN  /\ cursor' = n /\ next' = Append(next, n)
         /\ mark' = [mark EXCEPT ![side][n] = gen]
         /\ parent' = [parent EXCEPT ![side][n] = Head(frontier[side])]
         /\ paths' = Recorded(side, n)
  /\ stage' = IF Len(paths') > MaxPaths THEN "found" ELSE stage
  /\ UNCHANGED <<gen, depth, frontier, network, ends, served>>

\* One neighbour: marked, put in the next layer, and a path if the other side
\* has been there.  The search ends with the MaxPaths-th path.
Visit(side) ==
  /\ stage = side /\ frontier[side] # <<>>
  /\ \E n \in Unvisited(side) :
       /\ \A m \in Unvisited(side) : n <= m
       /\ cursor' = n
       /\ next' = Append(next, n)
       /\ IF n < Capacity
          THEN /\ mark' = [mark EXCEPT ![side][n] = gen]
               /\ parent' = [parent EXCEPT ![side][n] = Head(frontier[side])]
          ELSE UNCHANGED <<mark, parent>>
       /\ paths' = Recorded(side, n)
  /\ stage' = IF Len(paths') > Len(paths) /\ Len(paths') >= MaxPaths
              THEN "found" ELSE stage
  /\ UNCHANGED <<gen, depth, frontier, network, ends, served>>

\* All neighbours of a token seen: on to the next token of the layer.
NextToken(side) ==
  /\ stage = side /\ frontier[side] # <<>> /\ Unvisited(side) = {}
  /\ frontier' = [frontier EXCEPT ![side] = Tail(@)]
  /\ cursor' = -1
  /\ UNCHANGED <<arenaVars, network, ends, stage, depth, next, paths, served>>

\* A layer is done: the one just built takes its place.  After the backward
\* side the search goes one deeper, unless nothing is left or it is deep enough.
NextLayer(side) ==
  /\ stage = side /\ frontier[side] = <<>>
  /\ frontier' = [frontier EXCEPT ![side] = next]
  /\ next' = <<>> /\ cursor' = -1
  /\ IF side = "forward" THEN stage' = "backward" /\ depth' = depth
     ELSE IF depth = MaxDepthPerSide \/ \A s \in Side : frontier'[s] = <<>>
     THEN stage' = "found" /\ depth' = depth
     ELSE stage' = "forward" /\ depth' = depth + 1
  /\ UNCHANGED <<arenaVars, network, ends, paths, served>>

\* The generation comes round and the marks stay.
ReleaseWithoutClear ==
  /\ stage = "found" /\ stage' = "idle"
  /\ gen' = IF gen + 1 = GenSize THEN 1 ELSE gen + 1
  /\ frontier' = [s \in Side |-> <<>>] /\ next' = <<>> /\ cursor' = -1
  /\ depth' = 0 /\ paths' = <<>>
  /\ network' = {} /\ ends' = [s \in Side |-> NoParent]
  /\ UNCHANGED <<parent, mark, served>>

\* putBFSArena: the paths are copied and the arena is reset by its generation;
\* when that comes round to 0, which is what unvisited tokens hold, the marks
\* are cleared.
Release ==
  /\ stage = "found" /\ stage' = "idle"
  /\ IF gen + 1 = GenSize
     THEN gen' = 1 /\ mark' = [s \in Side |-> [t \in Token |-> 0]]
     ELSE gen' = gen + 1 /\ mark' = mark
  /\ frontier' = [s \in Side |-> <<>>] /\ next' = <<>> /\ cursor' = -1
  /\ depth' = 0 /\ paths' = <<>>
  /\ network' = {} /\ ends' = [s \in Side |-> NoParent]
  /\ UNCHANGED <<parent, served>>

\* The garbage collector may empty the pool of arenas.
NewArena ==
  /\ stage = "idle"
  /\ gen' = 1
  /\ mark' = [s \in Side |-> [t \in Token |-> 0]]
  /\ parent' = [s \in Side |-> [t \in Token |-> 0]]
  /\ UNCHANGED <<layerVars, network, ends, stage, paths, served>>

Next ==
  \/ served < Len(Requests) /\ \E r \in Requests[served + 1] : Start(r)
  \/ \E side \in Side : Visit(side) \/ NextToken(side) \/ NextLayer(side)
  \/ Release
  \/ NewArena

Spec == Init /\ [][Next]_vars
-----------------------------------------------------------------------------
(* What the search promises.                                               *)

\* Types; there are at most MaxPaths paths, and the parent of a token is a token of
\* the graph.  (How long a path is, PathsJoinEnds says.)
PathsTypeOK ==
  /\ gen \in 1..(GenSize - 1)
  /\ mark \in [Side -> [Token -> 0..(GenSize - 1)]]
  /\ parent \in [Side -> [Token -> Token \cup {NoParent, 0}]]
  /\ network \subseteq SUBSET Token
  /\ ends \in [Side -> Token \cup {NoParent}]
  /\ stage \in Side \cup {"idle", "found"}
  /\ depth \in 0..MaxDepthPerSide
  /\ \A s \in Side : frontier[s] \in Seq(Token)
  /\ next \in Seq(Token)
  /\ cursor \in Token \cup {-1}
  /\ Len(paths) <= MaxPaths
  /\ served \in 0..Len(Requests)

\* No mark is of a generation to come, and none of the current one is left when
\* no search runs: a search never takes a token for visited because an earlier
\* search, perhaps 2^32 searches ago, visited it.
ArenaIsClean ==
  \A s \in Side, t \in Token :
    mark[s][t] <= IF stage = "idle" THEN gen - 1 ELSE gen

\* Every path goes from the input to the output over pairs of tokens that have
\* a pool in this snapshot, in at most MaxHops hops: no step of it comes from an
\* earlier search of the arena.
PathsJoinEnds ==
  \A i \in DOMAIN paths : LET p == paths[i] IN
    /\ Len(p) \in 2..(MaxHops + 1)
    /\ p[1] = ends["forward"] /\ p[Len(p)] = ends["backward"]
    /\ \A k \in 1..(Len(p) - 1) : {p[k], p[k + 1]} \in network

\* Tokens within k hops of the input.
Within == LET reach[k \in 0..MaxHops] ==
                IF k = 0 THEN {ends["forward"]}
                ELSE reach[k - 1] \cup UNION {Neighbors(t) : t \in reach[k - 1]}
          IN  reach

\* A search finds a path exactly when there is one of at most MaxHops hops, and
\* the first it returns is a shortest one.
FirstPathIsShortest ==
  stage = "found" =>
    LET hops == {k \in 0..MaxHops : ends["backward"] \in Within[k]}
    IN  IF hops = {} THEN paths = <<>>
        ELSE paths # <<>> /\ Len(paths[1]) - 1 = Min(hops)
=============================================================================
