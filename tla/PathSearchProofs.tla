-------------------------- MODULE PathSearchProofs --------------------------
(***************************************************************************)
(* Theorems about PathSearch for every set of tokens, every sequence of    *)
(* requests and all bounds.  The inductive invariant PathsInv adds to the  *)
(* types that a search which goes on has room for one more path and is at a*)
(* depth it may be at, and that an idle arena holds no paths.  JoinInv says*)
(* that the parents of each side are a tree: a visited token climbs to the *)
(* end of its side, in no more steps than the search is deep, over pairs of*)
(* this network and tokens that have been visited too, none of them twice. *)
(* ShortInv says that the layers of each side are exact: what a side has   *)
(* seen are the tokens within so many steps, and some of those one further.*)
(***************************************************************************)
EXTENDS PathSearch, TLAPS, WellFoundedInduction, FiniteSetTheorems, SequenceTheorems

HasRoom == /\ \E T : paths \in Seq(T)
           /\ stage \in Side => Len(paths) < MaxPaths /\ depth # 0
           /\ stage = "idle" => paths = <<>>

PathsInv == PathsTypeOK /\ HasRoom /\ ArenaIsClean

\* One more element makes a sequence one longer.
LEMMA AppendGrows ==
  ASSUME NEW T, NEW s \in Seq(T), NEW e
  PROVE  Append(s, e) \in Seq(T \cup {e}) /\ Len(Append(s, e)) = Len(s) + 1
  OBVIOUS

\* The tail and the head of a layer are tokens too.
LEMMA LayerParts ==
  ASSUME NEW s \in Seq(Token), s # <<>>
  PROVE  Head(s) \in Token /\ Tail(s) \in Seq(Token)
  OBVIOUS

LEMMA InitInv == Init => PathsInv
<1> SUFFICES ASSUME Init PROVE PathsInv
  OBVIOUS
<1> USE BoundsAssumption
<1>1. MaxDepthPerSide \in Nat
  BY DEF MaxDepthPerSide
<1>2. <<>> \in Seq(Token) /\ <<>> \in Seq({}) /\ Len(<<>>) = 0
  OBVIOUS
<1>3. PathsTypeOK
  BY <1>1, <1>2 DEF Init, PathsTypeOK, Side, NoParent
<1>4. HasRoom
  BY <1>2 DEF Init, HasRoom, Side
<1>5. ArenaIsClean
  BY DEF Init, ArenaIsClean
<1> QED BY <1>3, <1>4, <1>5 DEF PathsInv

\* A search of one hop takes no marks; any other marks its two ends with the
\* current generation.
LEMMA StartInv ==
  ASSUME PathsInv, served < Len(Requests), NEW r \in Requests[served + 1], Start(r)
  PROVE  PathsInv'
<1> USE BoundsAssumption, TokenAssumption DEF PathsInv
<1>1. r \in Request /\ served + 1 \in 1..Len(Requests)
  <2>1. Requests \in Seq(SUBSET Request) /\ served \in Nat
    BY RequestsAssumption DEF PathsTypeOK
  <2>2. Len(Requests) \in Nat /\ served + 1 \in 1..Len(Requests)
    BY <2>1
  <2>3. Requests[served + 1] \in SUBSET Request
    BY <2>1, <2>2
  <2> QED BY <2>2, <2>3
<1>2. r.network \subseteq SUBSET Token /\ r.from \in Token /\ r.to \in Token
  BY <1>1 DEF Request
<1>3. /\ network' \subseteq SUBSET Token
      /\ ends' \in [Side -> Token]
      /\ served' \in 0..Len(Requests)
  BY <1>1, <1>2 DEF Start, PathsTypeOK, Side
<1>4. MaxDepthPerSide \in Nat /\ MaxDepthPerSide >= 1
  BY DEF MaxDepthPerSide
<1>5. CASE {r.from, r.to} \in r.network
  <2> DEFINE one == <<r.from, r.to>>
  <2>1. /\ paths' = <<one>> /\ stage' = "found"
        /\ gen' = gen /\ mark' = mark /\ parent' = parent
        /\ depth' = depth /\ frontier' = frontier /\ next' = next /\ cursor' = cursor
    BY <1>5 DEF Start, arenaVars, layerVars
  <2>2. paths' \in Seq({one}) /\ Len(paths') = 1
    <3> HIDE DEF one
    <3> QED BY <2>1
  <2>3. PathsTypeOK'
    BY <1>3, <2>1, <2>2 DEF PathsTypeOK
  <2>4. HasRoom'
    BY <2>1, <2>2 DEF HasRoom, Side
  <2>5. ArenaIsClean'
    <3>1. \A s \in Side, t \in Token : mark[s][t] \in Int /\ gen \in Int
      BY DEF PathsTypeOK
    <3> QED BY <2>1, <3>1 DEF ArenaIsClean
  <2> QED BY <2>3, <2>4, <2>5
<1>6. CASE {r.from, r.to} \notin r.network
  <2>1. /\ stage = "idle" /\ stage' = "forward" /\ paths' = paths
        /\ gen' = gen /\ depth' = 1 /\ next' = <<>> /\ cursor' = -1
        /\ mark' = [s \in Side |-> IF ends'[s] < Capacity
                                   THEN [mark[s] EXCEPT ![ends'[s]] = gen]
                                   ELSE mark[s]]
        /\ parent' = [s \in Side |-> IF ends'[s] < Capacity
                                     THEN [parent[s] EXCEPT ![ends'[s]] = NoParent]
                                     ELSE parent[s]]
        /\ frontier' = [s \in Side |-> <<ends'[s]>>]
    BY <1>6 DEF Start
  <2>2. gen \in 1..(GenSize - 1) /\ gen \in 0..(GenSize - 1)
    BY DEF PathsTypeOK
  <2>3. mark' \in [Side -> [Token -> 0..(GenSize - 1)]]
    BY <1>3, <2>1, <2>2 DEF PathsTypeOK
  <2>4. parent' \in [Side -> [Token -> Token \cup {NoParent, 0}]]
    BY <1>3, <2>1 DEF PathsTypeOK
  <2>5. \A s \in Side : frontier'[s] \in Seq(Token)
    BY <1>3, <2>1
  <2>6. paths = <<>>
    BY <2>1 DEF HasRoom
  <2>7. Len(paths) = 0 /\ <<>> \in Seq(Token)
    BY <2>6
  <2>8. PathsTypeOK'
    <3>1. stage' \in Side \cup {"idle", "found"} /\ depth' \in 0..MaxDepthPerSide
      BY <1>4, <2>1 DEF Side
    <3>2. ends' \in [Side -> Token \cup {NoParent}]
      BY <1>3
    <3>3. gen' \in 1..(GenSize - 1) /\ Len(paths') <= MaxPaths /\ cursor' \in Token \cup {-1}
      BY <2>1, <2>2, <2>7
    <3>4. next' \in Seq(Token)
      BY <2>1, <2>7
    <3> QED BY <1>3, <2>3, <2>4, <2>5, <3>1, <3>2, <3>3, <3>4 DEF PathsTypeOK
  <2>9. HasRoom'
    BY <2>1, <2>7, <2>6 DEF HasRoom, Side
  <2>10. ArenaIsClean'
    <3>1. \A s \in Side, t \in Token : mark'[s][t] = gen \/ mark'[s][t] = mark[s][t]
      BY <1>3, <2>1 DEF PathsTypeOK
    <3>2. \A s \in Side, t \in Token : mark[s][t] <= gen - 1 /\ mark[s][t] \in Int
      BY <2>1 DEF ArenaIsClean, PathsTypeOK
    <3> QED BY <3>1, <3>2, <2>1, <2>2 DEF ArenaIsClean
  <2> QED BY <2>8, <2>9, <2>10
<1> QED BY <1>5, <1>6

\* A visit marks with the current generation, and stops at the last path that
\* there is room for.
LEMMA VisitInv ==
  ASSUME PathsInv, NEW side \in Side, Visit(side)
  PROVE  PathsInv'
<1> USE BoundsAssumption, TokenAssumption DEF PathsInv
<1>1. PICK n \in Unvisited(side) :
        /\ cursor' = n /\ next' = Append(next, n)
        /\ IF n < Capacity
           THEN /\ mark' = [mark EXCEPT ![side][n] = gen]
                /\ parent' = [parent EXCEPT ![side][n] = Head(frontier[side])]
           ELSE UNCHANGED <<mark, parent>>
        /\ paths' = Recorded(side, n)
  BY DEF Visit
<1>2. /\ n \in Token /\ stage = side /\ stage # "idle"
      /\ frontier[side] \in Seq(Token) /\ frontier[side] # <<>>
      /\ gen' = gen /\ depth' = depth /\ frontier' = frontier
      /\ network' = network /\ ends' = ends /\ served' = served
      /\ stage' = IF Len(paths') > Len(paths) /\ Len(paths') >= MaxPaths
                  THEN "found" ELSE stage
  BY DEF Visit, Unvisited, Neighbors, Side, PathsTypeOK
<1>3. Head(frontier[side]) \in Token
  BY <1>2, LayerParts
<1>4. gen \in 1..(GenSize - 1) /\ gen \in 0..(GenSize - 1)
  BY DEF PathsTypeOK
<1>5. /\ mark' \in [Side -> [Token -> 0..(GenSize - 1)]]
      /\ \A s \in Side, t \in Token : mark'[s][t] = gen \/ mark'[s][t] = mark[s][t]
  <2>1. mark \in [Side -> [Token -> 0..(GenSize - 1)]]
    BY DEF PathsTypeOK
  <2>2. CASE mark' = [mark EXCEPT ![side][n] = gen]
    BY <1>2, <1>4, <2>1, <2>2
  <2>3. CASE mark' = mark
    BY <2>1, <2>3
  <2> QED BY <1>1, <2>2, <2>3
<1>6. parent' \in [Side -> [Token -> Token \cup {NoParent, 0}]]
  <2>1. parent \in [Side -> [Token -> Token \cup {NoParent, 0}]]
    BY DEF PathsTypeOK
  <2>2. CASE parent' = [parent EXCEPT ![side][n] = Head(frontier[side])]
    BY <1>2, <1>3, <2>1, <2>2
  <2>3. CASE parent' = parent
    BY <2>1, <2>3
  <2> QED BY <1>1, <2>2, <2>3
<1>7. next' \in Seq(Token)
  BY <1>1, <1>2 DEF PathsTypeOK
<1>8. /\ \E T : paths' \in Seq(T)
      /\ Len(paths') <= MaxPaths
      /\ stage' \in Side => Len(paths') < MaxPaths
      /\ stage' \in {side, "found"}
  <2>1. PICK T : paths \in Seq(T)
    BY DEF HasRoom
  <2>2. Len(paths) \in Nat /\ Len(paths) < MaxPaths
    BY <1>2, <2>1 DEF HasRoom
  <2>3. CASE paths' = paths
    BY <1>2, <2>1, <2>2, <2>3 DEF Side
  <2>4. CASE paths' # paths
    <3> DEFINE path == Path(parent', n)
    <3>1. paths' = Append(paths, path)
      BY <1>1, <2>4 DEF Recorded
    <3> HIDE DEF path
    <3>2. paths' \in Seq(T \cup {path}) /\ Len(paths') = Len(paths) + 1
      BY <2>1, <3>1, AppendGrows
    <3> QED BY <1>2, <2>2, <3>2 DEF Side
  <2> QED BY <2>3, <2>4
<1>9. PathsTypeOK'
  <2>1. stage' \in Side \cup {"idle", "found"} /\ cursor' \in Token \cup {-1}
    BY <1>1, <1>2, <1>8
  <2> QED BY <1>2, <1>4, <1>5, <1>6, <1>7, <1>8, <2>1 DEF PathsTypeOK
<1>10. HasRoom'
  <2>1. depth' # 0 /\ stage' # "idle"
    BY <1>2, <1>8 DEF HasRoom, Side
  <2> QED BY <1>8, <2>1 DEF HasRoom
<1>11. ArenaIsClean'
  <2>1. \A s \in Side, t \in Token : mark[s][t] <= gen
    BY <1>2 DEF ArenaIsClean
  <2>2. \A s \in Side, t \in Token : mark'[s][t] <= gen
    BY <1>4, <1>5, <2>1
  <2>3. stage' # "idle"
    BY <1>2, <1>8 DEF Side
  <2> QED BY <1>2, <2>2, <2>3 DEF ArenaIsClean
<1> QED BY <1>9, <1>10, <1>11

LEMMA NextTokenInv ==
  ASSUME PathsInv, NEW side \in Side, NextToken(side)
  PROVE  PathsInv'
<1> USE BoundsAssumption DEF PathsInv
<1>1. /\ gen' = gen /\ mark' = mark /\ parent' = parent /\ network' = network
      /\ ends' = ends /\ stage' = stage /\ depth' = depth /\ next' = next
      /\ paths' = paths /\ served' = served /\ cursor' = -1
      /\ frontier' = [frontier EXCEPT ![side] = Tail(frontier[side])]
      /\ frontier[side] # <<>>
  BY DEF NextToken, arenaVars
<1>2. \A s \in Side : frontier'[s] \in Seq(Token)
  <2>1. Tail(frontier[side]) \in Seq(Token)
    BY <1>1, LayerParts DEF PathsTypeOK
  <2>2. \A s \in Side : frontier'[s] = Tail(frontier[side]) \/ frontier'[s] = frontier[s]
    BY <1>1
  <2> QED BY <2>1, <2>2 DEF PathsTypeOK
<1>3. PathsTypeOK'
  BY <1>1, <1>2 DEF PathsTypeOK
<1>4. HasRoom' /\ ArenaIsClean'
  BY <1>1 DEF HasRoom, ArenaIsClean
<1> QED BY <1>3, <1>4

LEMMA NextLayerInv ==
  ASSUME PathsInv, NEW side \in Side, NextLayer(side)
  PROVE  PathsInv'
<1> USE BoundsAssumption DEF PathsInv
<1>1. /\ gen' = gen /\ mark' = mark /\ parent' = parent /\ network' = network
      /\ ends' = ends /\ next' = <<>> /\ paths' = paths /\ served' = served
      /\ cursor' = -1 /\ stage = side
      /\ frontier' = [frontier EXCEPT ![side] = next]
  BY DEF NextLayer, arenaVars
<1>2. \A s \in Side : frontier'[s] \in Seq(Token)
  <2>1. \A s \in Side : frontier'[s] = next \/ frontier'[s] = frontier[s]
    BY <1>1
  <2> QED BY <2>1 DEF PathsTypeOK
<1>3. MaxDepthPerSide \in Nat
  BY DEF MaxDepthPerSide
<1>4. /\ stage' \in {"forward", "backward", "found"}
      /\ depth' \in 0..MaxDepthPerSide /\ depth' # 0
  <2>1. depth \in 0..MaxDepthPerSide /\ depth # 0
    BY <1>1 DEF PathsTypeOK, HasRoom
  <2> QED BY <1>3, <2>1 DEF NextLayer, Side
<1>5. <<>> \in Seq(Token)
  OBVIOUS
<1>6. PathsTypeOK'
  BY <1>1, <1>2, <1>4, <1>5 DEF PathsTypeOK, Side
<1>7. HasRoom'
  BY <1>1, <1>4 DEF HasRoom
<1>8. ArenaIsClean'
  BY <1>1, <1>4 DEF ArenaIsClean, Side
<1> QED BY <1>6, <1>7, <1>8

\* The marks of the search that ends are behind the next generation, or gone.
LEMMA ReleaseInv ==
  ASSUME PathsInv, Release
  PROVE  PathsInv'
<1> USE BoundsAssumption DEF PathsInv
<1>1. /\ stage = "found" /\ stage' = "idle" /\ paths' = <<>> /\ depth' = 0
      /\ frontier' = [s \in Side |-> <<>>] /\ next' = <<>> /\ cursor' = -1
      /\ network' = {} /\ ends' = [s \in Side |-> NoParent]
      /\ parent' = parent /\ served' = served
      /\ IF gen + 1 = GenSize
         THEN gen' = 1 /\ mark' = [s \in Side |-> [t \in Token |-> 0]]
         ELSE gen' = gen + 1 /\ mark' = mark
  BY DEF Release
<1>2. gen' \in 1..(GenSize - 1) /\ mark' \in [Side -> [Token -> 0..(GenSize - 1)]]
  BY <1>1 DEF PathsTypeOK
<1>3. MaxDepthPerSide \in Nat
  BY DEF MaxDepthPerSide
<1>4. <<>> \in Seq(Token) /\ Len(<<>>) = 0
  OBVIOUS
<1>5. PathsTypeOK'
  BY <1>1, <1>2, <1>3, <1>4 DEF PathsTypeOK
<1>6. HasRoom'
  BY <1>1, <1>4 DEF HasRoom, Side
<1>7. ArenaIsClean'
  <2>1. \A s \in Side, t \in Token : mark[s][t] <= gen /\ mark[s][t] \in Int /\ gen \in Int
    BY <1>1 DEF ArenaIsClean, PathsTypeOK
  <2> QED BY <1>1, <2>1 DEF ArenaIsClean
<1> QED BY <1>5, <1>6, <1>7

LEMMA NewArenaInv ==
  ASSUME PathsInv, NewArena
  PROVE  PathsInv'
<1> USE BoundsAssumption DEF PathsInv
<1>1. /\ gen' = 1 /\ mark' = [s \in Side |-> [t \in Token |-> 0]]
      /\ parent' = [s \in Side |-> [t \in Token |-> 0]]
      /\ depth' = depth /\ frontier' = frontier /\ next' = next /\ cursor' = cursor
      /\ network' = network /\ ends' = ends /\ stage' = stage /\ paths' = paths
      /\ served' = served
  BY DEF NewArena, layerVars
<1>2. PathsTypeOK'
  BY <1>1 DEF PathsTypeOK
<1>3. HasRoom'
  BY <1>1 DEF HasRoom
<1>4. ArenaIsClean'
  BY <1>1 DEF ArenaIsClean
<1> QED BY <1>2, <1>3, <1>4

LEMMA StutterInv ==
  ASSUME PathsInv, UNCHANGED vars
  PROVE  PathsInv'
  BY DEF PathsInv, PathsTypeOK, HasRoom, ArenaIsClean, vars, arenaVars, layerVars

LEMMA InvHolds == Spec => []PathsInv
<1>1. PathsInv /\ [Next]_vars => PathsInv'
  <2> SUFFICES ASSUME PathsInv, [Next]_vars PROVE PathsInv'
    OBVIOUS
  <2>1. CASE served < Len(Requests) /\ \E r \in Requests[served + 1] : Start(r)
    BY <2>1, StartInv
  <2>2. CASE \E side \in Side : Visit(side) \/ NextToken(side) \/ NextLayer(side)
    BY <2>2, VisitInv, NextTokenInv, NextLayerInv
  <2>3. CASE Release
    BY <2>3, ReleaseInv
  <2>4. CASE NewArena
    BY <2>4, NewArenaInv
  <2>5. CASE UNCHANGED vars
    BY <2>5, StutterInv
  <2> QED BY <2>1, <2>2, <2>3, <2>4, <2>5 DEF Next
<1> QED BY <1>1, InitInv, PTL DEF Spec

-----------------------------------------------------------------------------
\* The arena has a place for every token, and the hops are divided evenly between the
\* two sides: the constants of the code (maxBFSCapacity, MaxHops).
TokensFit == \A t \in Token : t < Capacity
SidesMeet == MaxHops % 2 = 0

\* A set of naturals that is not empty has a least element.
LEMMA LeastNat ==
  ASSUME NEW T, T \subseteq Nat, T # {}
  PROVE  \E k \in T : \A j \in T : k <= j
<1> DEFINE Below(k) == 0..(k - 1)
           B == {Below(k) : k \in T}
           R == StrictSubsetOrdering(Nat)
<1>1. B \subseteq FiniteSubsetsOf(Nat) /\ B # {}
  <2>1. \A k \in T : IsFiniteSet(Below(k)) /\ Below(k) \subseteq Nat
    BY FS_Interval
  <2>2. QED
    BY <2>1 DEF FiniteSubsetsOf
<1>2. IsWellFoundedOn(R, FiniteSubsetsOf(Nat))
  BY FS_StrictSubsetOrderingWellFounded
<1> HIDE DEF R
<1>3. PICK x \in B : \A y \in B : ~(<<y, x>> \in R)
  <2> HIDE DEF B
  <2>1. QED
    BY <1>1, <1>2, WFMin
<1>4. PICK k \in T : x = Below(k)
  OBVIOUS
<1>5. ASSUME NEW j \in T, j < k PROVE FALSE
  <2>1. Below(j) \subseteq Below(k) /\ Below(j) # Below(k)
    <3>1. j \in Below(k) /\ j \notin Below(j)
      BY <1>5
    <3>2. QED
      BY <3>1, <1>5
  <2>2. Below(j) \in B /\ Below(j) \in SUBSET Nat /\ Below(k) \in SUBSET Nat
    OBVIOUS
  <2>3. <<Below(j), x>> \in R
    BY <1>4, <2>1, <2>2 DEF R, StrictSubsetOrdering
  <2>4. QED
    BY <1>3, <2>2, <2>3
<1>6. QED
  <2>1. \A j \in T : ~(j < k)
    BY <1>5
  <2>2. QED
    BY <2>1

\* Two functions on 0..n that begin alike and go on alike are alike: at the least place
\* where they were not, they would be.
Alike(f, g, n) == \A i \in 0..n : f[i] = g[i]
AlikeSoFar(f, g, n) ==
  f[0] = g[0] /\ \A i \in 1..n : f[i - 1] = g[i - 1] => f[i] = g[i]

LEMMA Agreement ==
  ASSUME NEW n \in Nat, NEW f, NEW g, AlikeSoFar(f, g, n)
  PROVE  Alike(f, g, n)
<1> DEFINE T == {i \in 0..n : f[i] # g[i]}
<1>1. SUFFICES ASSUME T # {} PROVE FALSE
  BY DEF Alike
<1>2. T \subseteq Nat
  OBVIOUS
<1>3. PICK k \in T : \A j \in T : k <= j
  <2> HIDE DEF T
  <2>1. QED
    BY <1>1, <1>2, LeastNat
<1>4. k \in 1..n /\ k - 1 \in 0..n /\ k - 1 \notin T
  BY <1>3 DEF AlikeSoFar
<1>5. QED
  BY <1>3, <1>4 DEF AlikeSoFar

\* From t the parents p lead in k steps, over pairs of the network, to the root e.
Climbs(p, net, t, e, c, k) ==
  /\ k \in Nat /\ c \in [0..k -> Token] /\ c[0] = t /\ c[k] = e /\ p[e] = NoParent
  /\ \A i \in 1..k : p[c[i - 1]] = c[i] /\ {c[i - 1], c[i]} \in net
  /\ \A i, j \in 0..k : c[i] = c[j] => i = j

\* No more steps than there are tokens.
LEMMA ClimbsEnd ==
  ASSUME NEW p, NEW net, NEW t, NEW e, NEW c, NEW k, Climbs(p, net, t, e, c, k)
  PROVE  Cardinality(Token) \in Nat /\ k + 1 <= Cardinality(Token)
<1>1. k \in Nat /\ c \in [0..k -> Token] /\ IsFiniteSet(Token)
  BY TokenAssumption DEF Climbs
<1>2. c \in Injection(0..k, Token)
  BY <1>1 DEF Climbs, Injection, IsInjective
<1>3. Cardinality(0..k) = k + 1
  BY <1>1, FS_Interval
<1>4. Cardinality(0..k) <= Cardinality(Token)
  BY <1>1, <1>2, FS_Injection
<1>5. QED
  BY <1>1, <1>3, <1>4, FS_CardinalityType

\* What reconstructPath collects on one side.
LEMMA ChainClimbs ==
  ASSUME TokensFit, NEW p, NEW net, NEW t, NEW e, NEW c, NEW k, Climbs(p, net, t, e, c, k)
  PROVE  Chain(p, t) = [j \in 1..(k + 1) |-> c[j - 1]]
<1> DEFINE K == Cardinality(Token)
           after(x) == IF x = NoParent \/ x >= Capacity THEN NoParent ELSE p[x]
           IsUp(h) == h = [j \in 0..K |-> IF j = 0 THEN t
                             ELSE IF h[j - 1] = NoParent \/ h[j - 1] >= Capacity THEN NoParent
                             ELSE p[h[j - 1]]]
           up == CHOOSE h : IsUp(h)
           length == Cardinality({j \in DOMAIN up : up[j] # NoParent})
           w == [j \in 0..K |-> IF j <= k THEN c[j] ELSE NoParent]
<1>1. Chain(p, t) = [j \in 1..length |-> up[j - 1]]
  BY DEF Chain
<1>2. K \in Nat /\ k \in Nat /\ k + 1 <= K
  <2>1. k \in Nat
    BY DEF Climbs
  <2>2. K \in Nat /\ k + 1 <= K
    BY ClimbsEnd
  <2>3. QED
    BY <2>1, <2>2
<1> HIDE DEF K
<1>3. /\ c \in [0..k -> Token] /\ c[0] = t /\ p[c[k]] = NoParent
      /\ \A i \in 1..k : p[c[i - 1]] = c[i]
  BY DEF Climbs
<1>4. \A i \in 0..k : c[i] # NoParent /\ c[i] < Capacity /\ c[i] \in Nat
  <2>1. \A x \in Token : x \in Nat /\ x < Capacity
    BY TokenAssumption DEF TokensFit
  <2>2. \A i \in 0..k : c[i] \in Token
    BY <1>3
  <2>3. \A x \in Token : x # NoParent
    BY <2>1 DEF NoParent
  <2>4. QED
    BY <2>1, <2>2, <2>3
<1>5. /\ w[0] = t
      /\ \A j \in 0..k : w[j] = c[j]
      /\ \A j \in 0..K : j > k => w[j] = NoParent
  BY <1>2, <1>3
<1>6. ASSUME NEW j \in 1..K PROVE w[j] = after(w[j - 1])
  <2>1. CASE j <= k
    <3>1. j - 1 \in 0..k /\ j \in 1..k /\ j \in 0..k
      BY <1>2, <2>1
    <3>2. w[j - 1] = c[j - 1] /\ w[j] = c[j] /\ p[c[j - 1]] = c[j]
      BY <1>3, <1>5, <3>1
    <3>3. c[j - 1] # NoParent /\ c[j - 1] < Capacity /\ c[j - 1] \in Nat
      BY <1>4, <3>1
    <3> HIDE DEF w
    <3>4. QED
      BY <3>2, <3>3, BoundsAssumption
  <2>2. CASE j = k + 1
    <3>1. k \in 0..k /\ j - 1 = k /\ j \in 0..K /\ j > k
      BY <1>2, <2>2
    <3>2. w[j - 1] = c[k] /\ w[j] = NoParent
      BY <1>5, <3>1
    <3>3. c[k] # NoParent /\ c[k] < Capacity /\ c[k] \in Nat
      BY <1>4, <3>1
    <3> HIDE DEF w
    <3>4. QED
      BY <1>3, <3>2, <3>3, BoundsAssumption
  <2>3. CASE j > k + 1
    <3>1. j - 1 \in 0..K /\ j - 1 > k /\ j \in 0..K /\ j > k
      BY <1>2, <2>3
    <3>2. w[j - 1] = NoParent /\ w[j] = NoParent
      BY <1>5, <3>1
    <3> HIDE DEF w
    <3>3. QED
      BY <3>2
  <2>4. QED
    BY <1>2, <2>1, <2>2, <2>3
<1>7. IsUp(w)
  <2> DEFINE v == [j \in 0..K |-> IF j = 0 THEN t ELSE after(w[j - 1])]
  <2>1. ASSUME NEW j \in 0..K PROVE w[j] = v[j]
    <3>1. CASE j = 0
      BY <1>5, <3>1
    <3>2. CASE j # 0
      <4>1. j \in 1..K
        BY <1>2, <3>2
      <4> HIDE DEF after
      <4>2. QED
        BY <1>6, <3>2, <4>1, Zenon
    <3>3. QED
      BY <3>1, <3>2
  <2>2. w = v
    <3> HIDE DEF after
    <3>1. QED
      BY <2>1, Zenon
  <2>3. QED
    BY <2>2, Zenon
<1>8. IsUp(up)
  <2> HIDE DEF IsUp
  <2>1. QED
    BY <1>7
<1> HIDE DEF up, w
<1>9. /\ DOMAIN up = 0..K /\ up[0] = t
      /\ \A j \in 1..K : up[j] = after(up[j - 1])
  <2>1. 0 \in 0..K /\ \A j \in 1..K : j \in 0..K /\ j # 0
    BY <1>2
  <2>2. up = [j \in 0..K |-> IF j = 0 THEN t ELSE after(up[j - 1])]
    BY <1>8, Zenon
  <2> HIDE DEF after
  <2>3. QED
    BY <2>1, <2>2, Zenon
<1>10. AlikeSoFar(up, w, K)
  <2> HIDE DEF after
  <2>1. ASSUME NEW j \in 1..K, up[j - 1] = w[j - 1] PROVE up[j] = w[j]
    BY <1>6, <1>9, <2>1, Zenon
  <2>2. QED
    BY <1>5, <1>9, <2>1 DEF AlikeSoFar
<1>11. \A j \in 0..K : up[j] = w[j]
  <2>1. Alike(up, w, K)
    BY <1>2, <1>10, Agreement
  <2>2. QED
    BY <2>1 DEF Alike
<1>12. \A j \in 0..k : j \in 0..K /\ up[j] = c[j] /\ up[j] # NoParent
  <2>1. \A j \in 0..k : j \in 0..K
    BY <1>2
  <2>2. QED
    BY <1>4, <1>5, <1>11, <2>1
<1>13. {j \in DOMAIN up : up[j] # NoParent} = 0..k
  <2>1. ASSUME NEW j \in 0..K, up[j] # NoParent PROVE j \in 0..k
    BY <1>2, <1>5, <1>11, <2>1
  <2>2. QED
    BY <1>9, <1>12, <2>1
<1>14. length = k + 1
  <2>1. Cardinality(0..k) = k + 1
    BY <1>2, FS_Interval
  <2>2. QED
    BY <1>13, <2>1
<1> HIDE DEF length
<1>15. \A j \in 1..(k + 1) : up[j - 1] = c[j - 1]
  <2>1. \A j \in 1..(k + 1) : j - 1 \in 0..k
    BY <1>2
  <2>2. QED
    BY <1>12, <2>1
<1>16. QED
  BY <1>1, <1>14, <1>15

\* A path of the network, of at most MaxHops hops.
Joins(path, from, to, net) ==
  /\ Len(path) \in 2..(MaxHops + 1)
  /\ path[1] = from /\ path[Len(path)] = to
  /\ \A j \in 1..(Len(path) - 1) : {path[j], path[j + 1]} \in net

\* Two climbs from one token, put together by reconstructPath.
LEMMA ClimbsJoin ==
  ASSUME TokensFit, NEW p, NEW net, NEW t, NEW from, NEW to, NEW c, NEW k, NEW d, NEW l,
         Climbs(p["forward"], net, t, from, c, k), Climbs(p["backward"], net, t, to, d, l),
         from # to, k + l <= MaxHops
  PROVE  Joins(Path(p, t), from, to, net) /\ Len(Path(p, t)) - 1 = k + l
<1> DEFINE A == [j \in 1..(k + 1) |-> c[j - 1]]
           B == [j \in 1..(l + 1) |-> d[j - 1]]
           R == [j \in 1..(k + 1) |-> c[k + 1 - j]]
           W == [j \in 1..l |-> d[j]]
           path == R \o W
<1>1. /\ k \in Nat /\ l \in Nat /\ c \in [0..k -> Token] /\ d \in [0..l -> Token]
      /\ c[0] = t /\ c[k] = from /\ d[0] = t /\ d[l] = to
      /\ \A i \in 1..k : {c[i - 1], c[i]} \in net
      /\ \A i \in 1..l : {d[i - 1], d[i]} \in net
  BY DEF Climbs
<1>2. Chain(p["forward"], t) = A /\ Chain(p["backward"], t) = B
  <2> DEFINE pf == p["forward"]
             pb == p["backward"]
  <2>1. Climbs(pf, net, t, from, c, k) /\ Climbs(pb, net, t, to, d, l)
    OBVIOUS
  <2> HIDE DEF pf, pb
  <2>2. Chain(pf, t) = A
    BY <2>1, ChainClimbs
  <2>3. Chain(pb, t) = B
    BY <2>1, ChainClimbs
  <2>4. QED
    BY <2>2, <2>3 DEF pf, pb
<1>3. A \in Seq(Token) /\ Len(A) = k + 1 /\ B \in Seq(Token) /\ Len(B) = l + 1 /\ B # <<>>
  BY <1>1, SMTT(40)
<1>4. Reverse(A) = R
  <2>1. \A j \in 1..(k + 1) : Len(A) - j + 1 \in 1..(k + 1) /\ A[Len(A) - j + 1] = c[k + 1 - j]
    BY <1>1, <1>3
  <2> HIDE DEF A
  <2>2. QED
    BY <1>3, <2>1 DEF Reverse
<1>5. Tail(B) = W
  <2>1. Tail(B) \in Seq(Token) /\ Len(Tail(B)) = l /\ \A i \in 1..l : Tail(B)[i] = B[i + 1]
    <3> HIDE DEF B
    <3>1. /\ Tail(B) \in Seq(Token) /\ Len(Tail(B)) = Len(B) - 1
          /\ \A i \in 1..Len(Tail(B)) : Tail(B)[i] = B[i + 1]
      BY <1>3, HeadTailProperties
    <3>2. QED
      BY <1>1, <1>3, <3>1
  <2>2. \A i \in 1..l : B[i + 1] = d[i]
    BY <1>1
  <2>3. DOMAIN Tail(B) = 1..l /\ Tail(B) = [i \in 1..l |-> Tail(B)[i]]
    <3> DEFINE tail == Tail(B)
    <3>1. tail \in Seq(Token) /\ Len(tail) = l
      BY <2>1
    <3> HIDE DEF tail
    <3>2. tail = [i \in 1..l |-> tail[i]]
      BY <3>1
    <3>3. QED
      BY <3>2 DEF tail
  <2> HIDE DEF B
  <2>4. QED
    BY <2>1, <2>2, <2>3
<1>6. Path(p, t) = path
  BY <1>2, <1>4, <1>5 DEF Path
<1>7. R \in Seq(Token) /\ W \in Seq(Token) /\ Len(R) = k + 1 /\ Len(W) = l
  BY <1>1
<1>8. /\ Len(path) = k + 1 + l
      /\ \A j \in 1..(k + 1 + l) : path[j] = IF j <= k + 1 THEN R[j] ELSE W[j - (k + 1)]
  <2> HIDE DEF R, W
  <2>1. QED
    BY <1>7, ConcatProperties
<1>9. \A j \in 1..(k + 1 + l) : path[j] = IF j <= k + 1 THEN c[k + 1 - j] ELSE d[j - (k + 1)]
  <2>1. ASSUME NEW j \in 1..(k + 1 + l)
        PROVE  path[j] = IF j <= k + 1 THEN c[k + 1 - j] ELSE d[j - (k + 1)]
    <3>1. j <= k + 1 => j \in 1..(k + 1)
      BY <1>1
    <3>2. ~(j <= k + 1) => j - (k + 1) \in 1..l
      BY <1>1
    <3>3. path[j] = IF j <= k + 1 THEN R[j] ELSE W[j - (k + 1)]
      BY <1>8
    <3> HIDE DEF path
    <3>4. QED
      BY <3>1, <3>2, <3>3
  <2>2. QED
    BY <2>1
<1> HIDE DEF path, A, B, R, W
<1>10. k + l > 0
  <2>1. CASE k = 0 /\ l = 0
    BY <1>1, <2>1
  <2>2. QED
    BY <1>1, <2>1
<1>11. Len(path) \in 2..(MaxHops + 1)
  BY <1>1, <1>8, <1>10, BoundsAssumption
<1>12. path[1] = from
  <2>1. 1 \in 1..(k + 1 + l) /\ 1 <= k + 1 /\ k + 1 - 1 = k
    BY <1>1
  <2>2. QED
    BY <1>1, <1>9, <2>1
<1>13. path[Len(path)] = to
  <2>1. k + 1 + l \in 1..(k + 1 + l)
    BY <1>1
  <2>2. CASE l = 0
    <3>1. k + 1 + l <= k + 1 /\ k + 1 - (k + 1 + l) = 0
      BY <1>1, <2>2
    <3>2. path[k + 1 + l] = c[0]
      BY <1>9, <2>1, <3>1
    <3>3. QED
      BY <1>1, <1>8, <2>2, <3>2
  <2>3. CASE l # 0
    <3>1. ~(k + 1 + l <= k + 1) /\ k + 1 + l - (k + 1) = l
      BY <1>1, <2>3
    <3> DEFINE m == k + 1 + l
    <3>2. path[m] = d[l]
      <4>1. m \in 1..m /\ ~(m <= k + 1) /\ m - (k + 1) = l
        BY <1>1, <2>1, <3>1
      <4>2. path[m] = IF m <= k + 1 THEN c[k + 1 - m] ELSE d[m - (k + 1)]
        BY <1>9, <2>1
      <4> HIDE DEF m
      <4>3. QED
        BY <4>1, <4>2
    <3>3. QED
      BY <1>1, <1>8, <3>2
  <2>4. QED
    BY <2>2, <2>3
<1>14. ASSUME NEW j \in 1..(k + l) PROVE {path[j], path[j + 1]} \in net
  <2>1. j \in 1..(k + 1 + l) /\ j + 1 \in 1..(k + 1 + l)
    BY <1>1
  <2>2. CASE j <= k
    <3>1. /\ j <= k + 1 /\ j + 1 <= k + 1 /\ k + 1 - j \in 1..k
          /\ k + 1 - (j + 1) = (k + 1 - j) - 1
      BY <1>1, <2>2
    <3>2. path[j] = c[k + 1 - j] /\ path[j + 1] = c[(k + 1 - j) - 1]
      BY <1>9, <2>1, <3>1
    <3>3. {c[(k + 1 - j) - 1], c[k + 1 - j]} \in net
      BY <1>1, <3>1
    <3>4. {path[j], path[j + 1]} = {c[(k + 1 - j) - 1], c[k + 1 - j]}
      BY <3>2
    <3>5. QED
      BY <3>3, <3>4
  <2>3. CASE j = k + 1
    <3>1. /\ j <= k + 1 /\ ~(j + 1 <= k + 1) /\ k + 1 - j = 0 /\ (j + 1) - (k + 1) = 1
          /\ 1 \in 1..l
      BY <1>1, <2>3
    <3>2. path[j] = d[0] /\ path[j + 1] = d[1]
      BY <1>1, <1>9, <2>1, <3>1
    <3>3. {d[1 - 1], d[1]} \in net
      BY <1>1, <3>1
    <3>4. QED
      BY <3>2, <3>3
  <2>4. CASE j > k + 1
    <3>1. /\ ~(j <= k + 1) /\ ~(j + 1 <= k + 1) /\ (j + 1) - (k + 1) \in 1..l
          /\ j - (k + 1) = ((j + 1) - (k + 1)) - 1
      BY <1>1, <2>4
    <3>2. path[j] = d[((j + 1) - (k + 1)) - 1] /\ path[j + 1] = d[(j + 1) - (k + 1)]
      BY <1>9, <2>1, <3>1
    <3>3. QED
      BY <1>1, <3>1, <3>2
  <2>5. QED
    BY <1>1, <2>2, <2>3, <2>4
<1>15. Len(path) - 1 = k + l
  BY <1>1, <1>8
<1>16. Joins(path, from, to, net)
  BY <1>11, <1>12, <1>13, <1>14, <1>15 DEF Joins
<1>17. QED
  BY <1>6, <1>15, <1>16

-----------------------------------------------------------------------------
\* From a token that has been visited from the side s, k steps up the parents lead to
\* its end, over tokens that have been visited too.
Climbed(s, t, c, k) ==
  /\ Climbs(parent[s], network, t, ends[s], c, k)
  /\ \A i \in 0..k : mark[s][c[i]] = gen

\* In at most d steps.
Reached(s, t, d) == \E k \in 0..d : \E c \in [0..k -> Token] : Climbed(s, t, c, k)

\* How far the tokens of a layer may be away.
LayerDepth(s) == IF s = "forward" /\ stage = "backward" THEN depth ELSE depth - 1

\* The trees of both sides, and where the layers are in them.
TreesGrow ==
  stage \in Side =>
    /\ ends \in [Side -> Token] /\ ends["forward"] # ends["backward"]
    /\ \A s \in Side, t \in Token : mark[s][t] = gen => Reached(s, t, depth)
    /\ DOMAIN frontier = Side
    /\ \A s \in Side : \A i \in DOMAIN frontier[s] : Reached(s, frontier[s][i], LayerDepth(s))
    /\ \A i \in DOMAIN next : Reached(stage, next[i], depth)

\* What the paths join.
PathsAreJoined ==
  \A i \in DOMAIN paths : Joins(paths[i], ends["forward"], ends["backward"], network)

\* The inductive invariant, with PathsInv.
JoinInv == TreesGrow /\ PathsAreJoined

\* What has been reached remains so while the parents of visited tokens stay.
LEMMA ReachedStays ==
  ASSUME NEW s, NEW t, NEW d \in Int, NEW e \in Int, d <= e, Reached(s, t, d),
         UNCHANGED <<network, ends, gen>>,
         \A x \in Token : mark[s][x] = gen =>
                            mark'[s][x] = gen /\ parent'[s][x] = parent[s][x]
  PROVE  Reached(s, t, e)'
<1>1. PICK k \in 0..d : \E c \in [0..k -> Token] : Climbed(s, t, c, k)
  BY DEF Reached
<1>2. PICK c \in [0..k -> Token] : Climbed(s, t, c, k)
  BY <1>1
<1>3. /\ k \in Nat /\ c[0] = t /\ c[k] = ends[s] /\ parent[s][ends[s]] = NoParent
      /\ \A i \in 1..k : parent[s][c[i - 1]] = c[i] /\ {c[i - 1], c[i]} \in network
      /\ \A i, j \in 0..k : c[i] = c[j] => i = j
      /\ \A i \in 0..k : mark[s][c[i]] = gen /\ c[i] \in Token
  BY <1>2 DEF Climbed, Climbs
<1>4. \A i \in 0..k : mark'[s][c[i]] = gen' /\ parent'[s][c[i]] = parent[s][c[i]]
  BY <1>3
<1>5. parent'[s][ends[s]] = NoParent
  <2>1. k \in 0..k
    BY <1>3
  <2>2. QED
    BY <1>3, <1>4, <2>1
<1>6. \A i \in 1..k : parent'[s][c[i - 1]] = c[i]
  <2>1. \A i \in 1..k : i - 1 \in 0..k
    BY <1>3
  <2>2. QED
    BY <1>3, <1>4, <2>1
<1>7. Climbs(parent'[s], network', t, ends'[s], c, k)
  BY <1>2, <1>3, <1>5, <1>6 DEF Climbs
<1>8. Climbed(s, t, c, k)'
  BY <1>4, <1>7 DEF Climbed
<1>9. k \in 0..e
  BY <1>1
<1>10. QED
  BY <1>2, <1>8, <1>9 DEF Reached

\* The roots of a search.
LEMMA RootsReached ==
  ASSUME NEW s \in Side, NEW d \in Nat, NEW e \in Token, e = ends'[s],
         parent'[s][e] = NoParent, mark'[s][e] = gen'
  PROVE  Reached(s, e, d)'
<1> DEFINE c == [i \in 0..0 |-> e]
<1>1. c \in [0..0 -> Token] /\ c[0] = e /\ \A i \in 0..0 : i = 0
  OBVIOUS
<1> HIDE DEF c
<1>2. Climbs(parent'[s], network', e, e, c, 0)
  BY <1>1 DEF Climbs
<1>3. Climbed(s, e, c, 0)'
  BY <1>1, <1>2 DEF Climbed
<1>4. 0 \in 0..d
  OBVIOUS
<1>5. QED
  BY <1>1, <1>3, <1>4 DEF Reached

\* A climb to h goes on to a neighbour of h that has not been visited.
LEMMA OneStepFurther ==
  ASSUME NEW s \in Side, NEW h \in Token, NEW n \in Token, NEW d \in Nat,
         Reached(s, h, d), mark[s][n] # gen, {n, h} \in network,
         UNCHANGED <<network, ends, gen>>,
         mark'[s][n] = gen, parent'[s][n] = h,
         \A x \in Token : x # n => mark'[s][x] = mark[s][x] /\ parent'[s][x] = parent[s][x]
  PROVE  Reached(s, n, d + 1)'
<1>1. PICK k \in 0..d : \E c \in [0..k -> Token] : Climbed(s, h, c, k)
  BY DEF Reached
<1>2. PICK c \in [0..k -> Token] : Climbed(s, h, c, k)
  BY <1>1
<1>3. /\ k \in Nat /\ c[0] = h /\ c[k] = ends[s] /\ parent[s][ends[s]] = NoParent
      /\ \A i \in 1..k : parent[s][c[i - 1]] = c[i] /\ {c[i - 1], c[i]} \in network
      /\ \A i, j \in 0..k : c[i] = c[j] => i = j
      /\ \A i \in 0..k : mark[s][c[i]] = gen /\ c[i] \in Token
  BY <1>2 DEF Climbed, Climbs
<1>4. \A i \in 0..k : /\ c[i] # n /\ mark'[s][c[i]] = gen'
                      /\ parent'[s][c[i]] = parent[s][c[i]]
  BY <1>3
<1> DEFINE w == [i \in 0..(k + 1) |-> IF i = 0 THEN n ELSE c[i - 1]]
<1>5. /\ w \in [0..(k + 1) -> Token] /\ w[0] = n
      /\ \A i \in 1..(k + 1) : w[i] = c[i - 1] /\ i - 1 \in 0..k
  <2>1. \A i \in 0..(k + 1) : i # 0 => i - 1 \in 0..k
    BY <1>3
  <2>2. 0 \in 0..(k + 1) /\ \A i \in 1..(k + 1) : i \in 0..(k + 1) /\ i # 0
    BY <1>3
  <2>3. QED
    BY <1>3, <2>1, <2>2
<1> HIDE DEF w
<1>6. w[k + 1] = ends'[s]
  <2>1. k + 1 \in 1..(k + 1) /\ (k + 1) - 1 = k
    BY <1>3
  <2>2. QED
    BY <1>3, <1>5, <2>1
<1>7. parent'[s][ends'[s]] = NoParent
  <2>1. k \in 0..k
    BY <1>3
  <2>2. QED
    BY <1>3, <1>4, <2>1
<1>8. ASSUME NEW i \in 1..(k + 1)
      PROVE  parent'[s][w[i - 1]] = w[i] /\ {w[i - 1], w[i]} \in network'
  <2>1. CASE i = 1
    <3>1. w[i - 1] = n /\ w[i] = h
      <4>1. i - 1 = 0 /\ w[i] = c[i - 1]
        BY <1>5, <2>1
      <4>2. QED
        BY <1>3, <1>5, <4>1
    <3>2. QED
      BY <3>1
  <2>2. CASE i # 1
    <3>1. i - 1 \in 1..(k + 1) /\ i - 1 \in 1..k
      BY <1>3, <2>2
    <3>2. w[i - 1] = c[(i - 1) - 1] /\ w[i] = c[i - 1] /\ (i - 1) - 1 \in 0..k
      BY <1>5, <3>1
    <3>3. QED
      BY <1>3, <1>4, <3>1, <3>2
  <2>3. QED
    BY <2>1, <2>2
<1>9. ASSUME NEW i \in 0..(k + 1), NEW j \in 0..(k + 1), w[i] = w[j]
      PROVE  i = j
  <2>1. /\ i = 0 \/ i \in 1..(k + 1)
        /\ j = 0 \/ j \in 1..(k + 1)
    BY <1>3
  <2>2. CASE i = 0 /\ j \in 1..(k + 1)
    BY <1>4, <1>5, <1>9, <2>2
  <2>3. CASE j = 0 /\ i \in 1..(k + 1)
    BY <1>4, <1>5, <1>9, <2>3
  <2>4. CASE i \in 1..(k + 1) /\ j \in 1..(k + 1)
    <3>1. c[i - 1] = c[j - 1] /\ i - 1 \in 0..k /\ j - 1 \in 0..k
      BY <1>5, <1>9, <2>4
    <3>2. i - 1 = j - 1
      BY <1>3, <3>1
    <3>3. QED
      BY <2>4, <3>2
  <2>5. QED
    BY <2>1, <2>2, <2>3, <2>4
<1>10. \A i \in 0..(k + 1) : mark'[s][w[i]] = gen'
  <2>1. \A i \in 0..(k + 1) : i = 0 \/ i \in 1..(k + 1)
    BY <1>3
  <2>2. QED
    BY <1>4, <1>5, <2>1
<1>11. Climbs(parent'[s], network', n, ends'[s], w, k + 1)
  <2>1. k + 1 \in Nat
    BY <1>3
  <2>2. QED
    BY <1>5, <1>6, <1>7, <1>8, <1>9, <2>1 DEF Climbs
<1>12. Climbed(s, n, w, k + 1)'
  BY <1>10, <1>11 DEF Climbed
<1>13. k + 1 \in 0..(d + 1)
  BY <1>1
<1>14. QED
  BY <1>5, <1>12, <1>13 DEF Reached

\* Two sides that have reached a token make a path, no longer than they are deep.
LEMMA SidesJoin ==
  ASSUME TokensFit, NEW n, NEW i \in Int, NEW j \in Int, i + j <= MaxHops,
         Reached("forward", n, i)', Reached("backward", n, j)',
         ends'["forward"] # ends'["backward"]
  PROVE  /\ Joins(Path(parent', n), ends'["forward"], ends'["backward"], network')
         /\ Len(Path(parent', n)) - 1 <= i + j
<1>1. PICK k \in 0..i : \E c \in [0..k -> Token] : Climbed("forward", n, c, k)'
  BY DEF Reached
<1>2. PICK c \in [0..k -> Token] : Climbed("forward", n, c, k)'
  BY <1>1
<1>3. PICK l \in 0..j : \E d \in [0..l -> Token] : Climbed("backward", n, d, l)'
  BY DEF Reached
<1>4. PICK d \in [0..l -> Token] : Climbed("backward", n, d, l)'
  BY <1>3
<1> DEFINE p == parent'
           net == network'
           from == ends'["forward"]
           to == ends'["backward"]
<1>5. Climbs(p["forward"], net, n, from, c, k) /\ Climbs(p["backward"], net, n, to, d, l)
  BY <1>2, <1>4 DEF Climbed
<1>6. k + l <= i + j /\ k + l <= MaxHops
  BY BoundsAssumption
<1>7. from # to
  OBVIOUS
<1> HIDE DEF p, net, from, to
<1>8. Joins(Path(p, n), from, to, net) /\ Len(Path(p, n)) - 1 = k + l
  BY <1>5, <1>6, <1>7, ClimbsJoin
<1>9. QED
  BY <1>6, <1>8 DEF p, net, from, to

\* The roots are the only tokens that are visited.
LEMMA StartJoin ==
  ASSUME PathsInv, JoinInv, TokensFit, served < Len(Requests),
         NEW r \in Requests[served + 1], Start(r)
  PROVE  JoinInv'
<1> USE BoundsAssumption DEF PathsInv
<1>1. r \in Request /\ r.from # r.to
  <2>1. Requests \in Seq(SUBSET Request) /\ served \in Nat
    BY RequestsAssumption DEF PathsTypeOK
  <2>2. Len(Requests) \in Nat /\ served + 1 \in 1..Len(Requests)
    BY <2>1
  <2>3. Requests[served + 1] \in SUBSET Request /\ served + 1 \in DOMAIN Requests
    BY <2>1, <2>2
  <2>4. QED
    BY <2>3, RequestsAssumption
<1>2. r.from \in Token /\ r.to \in Token
  BY <1>1 DEF Request
<1>3. /\ ends' = [s \in Side |-> IF s = "forward" THEN r.from ELSE r.to]
      /\ network' = r.network
  BY DEF Start
<1>4. /\ ends' \in [Side -> Token]
      /\ ends'["forward"] = r.from /\ ends'["backward"] = r.to
  BY <1>2, <1>3 DEF Side
<1>5. CASE {r.from, r.to} \in r.network
  <2> DEFINE one == <<r.from, r.to>>
  <2>1. paths' = <<one>> /\ stage' = "found"
    BY <1>5 DEF Start
  <2>2. one[1] = r.from /\ one[2] = r.to /\ Len(one) = 2
    OBVIOUS
  <2> HIDE DEF one
  <2>3. Joins(one, r.from, r.to, r.network)
    <3>1. Len(one) \in 2..(MaxHops + 1)
      BY <2>2
    <3>2. \A j \in 1..(Len(one) - 1) : j = 1 /\ j + 1 = 2
      BY <2>2
    <3>3. QED
      BY <1>5, <2>2, <3>1, <3>2 DEF Joins
  <2>4. \A i \in DOMAIN paths' : paths'[i] = one
    BY <2>1
  <2>5. PathsAreJoined'
    BY <1>3, <1>4, <2>3, <2>4 DEF PathsAreJoined
  <2>6. TreesGrow'
    BY <2>1 DEF TreesGrow, Side
  <2>7. QED
    BY <2>5, <2>6 DEF JoinInv
<1>6. CASE {r.from, r.to} \notin r.network
  <2>1. /\ stage = "idle" /\ stage' = "forward" /\ paths' = paths
        /\ gen' = gen /\ depth' = 1 /\ next' = <<>>
        /\ mark' = [s \in Side |-> IF ends'[s] < Capacity
                                   THEN [mark[s] EXCEPT ![ends'[s]] = gen]
                                   ELSE mark[s]]
        /\ parent' = [s \in Side |-> IF ends'[s] < Capacity
                                     THEN [parent[s] EXCEPT ![ends'[s]] = NoParent]
                                     ELSE parent[s]]
        /\ frontier' = [s \in Side |-> <<ends'[s]>>]
    BY <1>6 DEF Start
  <2>2. \A s \in Side : ends'[s] \in Token /\ ends'[s] < Capacity
    BY <1>4 DEF TokensFit
  <2>3. ASSUME NEW s \in Side, NEW e \in Token, e = ends'[s]
        PROVE  /\ mark'[s] = [mark[s] EXCEPT ![e] = gen]
               /\ parent'[s] = [parent[s] EXCEPT ![e] = NoParent]
    BY <2>1, <2>2, <2>3
  <2>4. \A s \in Side, t \in Token : mark[s][t] # gen
    <3>1. \A s \in Side, t \in Token : mark[s][t] <= gen - 1 /\ mark[s][t] \in Int
      BY <2>1 DEF ArenaIsClean, PathsTypeOK
    <3>2. gen \in Int
      BY DEF PathsTypeOK
    <3>3. QED
      BY <3>1, <3>2
  <2>5. ASSUME NEW s \in Side, NEW e \in Token, e = ends'[s], NEW d \in Nat
        PROVE  Reached(s, e, d)'
    <3>1. mark'[s][e] = gen /\ parent'[s][e] = NoParent
      <4>1. DOMAIN mark[s] = Token /\ DOMAIN parent[s] = Token
        BY DEF PathsTypeOK
      <4>2. mark'[s] = [mark[s] EXCEPT ![e] = gen] /\ parent'[s] = [parent[s] EXCEPT ![e] = NoParent]
        BY <2>3, <2>5
      <4>3. QED
        BY <4>1, <4>2
    <3>2. mark'[s][e] = gen'
      BY <2>1, <3>1
    <3>3. QED
      BY <2>5, <3>1, <3>2, RootsReached
  <2>6. ASSUME NEW s \in Side, NEW t \in Token, mark'[s][t] = gen'
        PROVE  Reached(s, t, depth)'
    <3>1. PICK e \in Token : e = ends'[s]
      BY <2>2
    <3>2. t = e
      BY <2>1, <2>3, <2>4, <2>6, <3>1 DEF PathsTypeOK
    <3>3. Reached(s, t, 1)'
      BY <2>5, <3>1, <3>2
    <3>4. depth' = 1
      BY <2>1
    <3>5. QED
      BY <3>3, <3>4 DEF Reached
  <2>7. ASSUME NEW s \in Side, NEW i \in DOMAIN frontier'[s]
        PROVE  Reached(s, frontier[s][i], LayerDepth(s))'
    <3>1. PICK e \in Token : e = ends'[s]
      BY <2>2
    <3>2. frontier'[s][i] = e
      BY <2>1, <3>1
    <3>3. Reached(s, e, 0)'
      BY <2>5, <3>1
    <3>4. LayerDepth(s)' = 0
      BY <2>1 DEF LayerDepth
    <3>5. QED
      BY <3>2, <3>3, <3>4 DEF Reached
  <2>8. TreesGrow'
    <3>1. \A i \in DOMAIN next' : FALSE
      BY <2>1
    <3>2. ends'["forward"] # ends'["backward"] /\ DOMAIN frontier' = Side
      BY <1>1, <1>4, <2>1
    <3>3. QED
      BY <1>4, <2>6, <2>7, <3>1, <3>2 DEF TreesGrow
  <2>9. PathsAreJoined'
    <3>1. paths' = <<>>
      BY <2>1 DEF HasRoom
    <3>2. QED
      BY <3>1 DEF PathsAreJoined
  <2>10. QED
    BY <2>8, <2>9 DEF JoinInv
<1>7. QED
  BY <1>5, <1>6

\* A visit adds a leaf to one tree, and a path where it is in the other one too.
LEMMA VisitJoin ==
  ASSUME PathsInv, JoinInv, TokensFit, SidesMeet, NEW side \in Side, Visit(side)
  PROVE  JoinInv'
<1> USE DEF PathsInv
<1>1. PICK n \in Unvisited(side) :
        /\ next' = Append(next, n)
        /\ IF n < Capacity
           THEN /\ mark' = [mark EXCEPT ![side][n] = gen]
                /\ parent' = [parent EXCEPT ![side][n] = Head(frontier[side])]
           ELSE UNCHANGED <<mark, parent>>
        /\ paths' = Recorded(side, n)
  BY DEF Visit
<1>2. /\ n \in Token /\ n < Capacity /\ stage = side
      /\ frontier[side] \in Seq(Token) /\ frontier[side] # <<>>
      /\ gen' = gen /\ depth' = depth /\ frontier' = frontier
      /\ network' = network /\ ends' = ends
      /\ stage' \in {side, "found"}
  BY DEF Visit, Unvisited, Neighbors, PathsTypeOK, TokensFit
<1>3. PICK h \in Token : h = Head(frontier[side])
  BY <1>2, LayerParts
<1>4. /\ mark' = [mark EXCEPT ![side][n] = gen]
      /\ parent' = [parent EXCEPT ![side][n] = h]
  BY <1>1, <1>2, <1>3
<1>5. {n, h} \in network /\ mark[side][n] # gen
  <2>1. n \in Neighbors(h) /\ ~Visited(side, n)
    BY <1>3 DEF Unvisited
  <2>2. {h, n} = {n, h}
    OBVIOUS
  <2>3. QED
    BY <1>2, <2>1, <2>2 DEF Neighbors, Visited
<1>6. depth \in 1..MaxDepthPerSide /\ MaxDepthPerSide \in Nat
  <2>1. MaxDepthPerSide \in Nat
    BY BoundsAssumption DEF MaxDepthPerSide
  <2>2. depth # 0
    BY <1>2 DEF HasRoom
  <2>3. QED
    BY <2>1, <2>2 DEF PathsTypeOK
<1>7. /\ ends \in [Side -> Token] /\ ends["forward"] # ends["backward"]
      /\ DOMAIN frontier = Side
      /\ \A s \in Side, t \in Token : mark[s][t] = gen => Reached(s, t, depth)
      /\ \A s \in Side : \A i \in DOMAIN frontier[s] : Reached(s, frontier[s][i], LayerDepth(s))
      /\ \A i \in DOMAIN next : Reached(side, next[i], depth)
  BY <1>2 DEF JoinInv, TreesGrow
<1>8. Reached(side, h, depth - 1)
  <2>1. 1 \in DOMAIN frontier[side] /\ h = frontier[side][1]
    BY <1>2, <1>3
  <2>2. LayerDepth(side) = depth - 1
    BY <1>2 DEF LayerDepth
  <2>3. QED
    BY <1>7, <2>1, <2>2
<1>9. /\ mark'[side][n] = gen /\ parent'[side][n] = h
      /\ \A x \in Token : x # n => /\ mark'[side][x] = mark[side][x]
                                   /\ parent'[side][x] = parent[side][x]
      /\ \A s \in Side : s # side => mark'[s] = mark[s] /\ parent'[s] = parent[s]
  BY <1>2, <1>4 DEF PathsTypeOK
<1>10. Reached(side, n, depth)'
  <2>1. depth - 1 \in Nat /\ (depth - 1) + 1 = depth
    BY <1>6
  <2> DEFINE d == depth - 1
  <2>2. PICK e \in Nat : e = depth - 1
    BY <2>1
  <2>3. Reached(side, h, e)
    BY <1>8, <2>2
  <2>4. Reached(side, n, e + 1)'
    BY <1>2, <1>5, <1>9, <2>3, OneStepFurther
  <2>5. e + 1 = depth'
    BY <1>2, <2>1, <2>2
  <2>6. QED
    BY <2>4, <2>5 DEF Reached
<1>11. ASSUME NEW s \in Side, NEW t, NEW d \in Int, Reached(s, t, d)
       PROVE  Reached(s, t, d)'
  <2>1. \A x \in Token : mark[s][x] = gen => mark'[s][x] = gen /\ parent'[s][x] = parent[s][x]
    BY <1>5, <1>9
  <2>2. UNCHANGED <<network, ends, gen>> /\ d <= d
    BY <1>2
  <2>3. QED
    BY <1>11, <2>1, <2>2, <1>2, ReachedStays
<1>12. PathsAreJoined'
  <2> DEFINE path == Path(parent', n)
  <2>1. CASE paths' = paths
    BY <1>2, <2>1 DEF JoinInv, PathsAreJoined
  <2>2. CASE paths' # paths
    <3>1. paths' = Append(paths, path) /\ Visited(Other(side), n)
      BY <1>1, <2>2 DEF Recorded
    <3>2. Other(side) \in Side /\ mark[Other(side)][n] = gen
      BY <3>1 DEF Other, Side, Visited
    <3>3. Reached(Other(side), n, depth)'
      <4>1. Reached(Other(side), n, depth)
        BY <1>2, <1>7, <3>2
      <4>2. PICK o \in Side, d \in Int : o = Other(side) /\ d = depth
        BY <1>6, <3>2
      <4>3. Reached(o, n, d)'
        BY <1>11, <4>1, <4>2
      <4>4. d = depth'
        BY <1>2, <4>2
      <4>5. QED
        BY <4>2, <4>3, <4>4
    <3>4. Reached("forward", n, depth)' /\ Reached("backward", n, depth)'
      BY <1>10, <3>3 DEF Other, Side
    <3>5. Joins(path, ends'["forward"], ends'["backward"], network')
      <4>1. ends'["forward"] # ends'["backward"]
        BY <1>2, <1>7
      <4>2. PICK d \in Int : d = depth /\ d = depth' /\ d + d <= MaxHops
        <5>1. MaxDepthPerSide + MaxDepthPerSide <= MaxHops /\ MaxHops \in Nat
          BY BoundsAssumption DEF MaxDepthPerSide, SidesMeet
        <5>2. QED
          BY <1>2, <1>6, <5>1
      <4>3. Reached("forward", n, d)' /\ Reached("backward", n, d)'
        BY <3>4, <4>2
      <4>4. QED
        BY <4>1, <4>2, <4>3, SidesJoin
    <3>6. PICK T : paths \in Seq(T)
      BY DEF HasRoom
    <3> HIDE DEF path
    <3>7. ASSUME NEW i \in DOMAIN paths'
          PROVE  paths'[i] = path \/ (i \in DOMAIN paths /\ paths'[i] = paths[i])
      <4>1. /\ Len(Append(paths, path)) = Len(paths) + 1
            /\ DOMAIN Append(paths, path) = 1..(Len(paths) + 1)
            /\ Append(paths, path)[Len(paths) + 1] = path
            /\ \A j \in 1..Len(paths) : Append(paths, path)[j] = paths[j]
        BY <3>6
      <4>2. DOMAIN paths = 1..Len(paths) /\ Len(paths) \in Nat
        BY <3>6
      <4>3. QED
        BY <3>1, <4>1, <4>2
    <3>8. QED
      BY <1>2, <3>5, <3>7 DEF JoinInv, PathsAreJoined
  <2>3. QED
    BY <2>1, <2>2
<1>13. ASSUME stage' = side PROVE TreesGrow'
  <2>1. depth \in Int /\ depth - 1 \in Int
    BY <1>6
  <2>2. ASSUME NEW s \in Side, NEW t \in Token, mark'[s][t] = gen'
        PROVE  Reached(s, t, depth)'
    <3>1. CASE s = side /\ t = n
      BY <1>10, <3>1
    <3>2. CASE ~(s = side /\ t = n)
      <4>1. mark[s][t] = gen
        BY <1>2, <1>9, <2>2, <3>2
      <4>2. PICK d \in Int : d = depth
        BY <2>1
      <4>3. Reached(s, t, d)'
        BY <1>7, <1>11, <4>1, <4>2
      <4>4. d = depth'
        BY <1>2, <4>2
      <4>5. QED
        BY <4>3, <4>4
    <3>3. QED
      BY <3>1, <3>2
  <2>3. ASSUME NEW s \in Side, NEW i \in DOMAIN frontier'[s]
        PROVE  Reached(s, frontier[s][i], LayerDepth(s))'
    <3>1. PICK d \in Int : d = LayerDepth(s)
      BY <2>1 DEF LayerDepth
    <3>2. PICK t : t = frontier[s][i]
      OBVIOUS
    <3>3. i \in DOMAIN frontier[s]
      BY <1>2
    <3>4. Reached(s, t, d)'
      BY <1>7, <1>11, <3>1, <3>2, <3>3
    <3>5. LayerDepth(s)' = d /\ frontier'[s][i] = t
      BY <1>2, <1>13, <3>1, <3>2 DEF LayerDepth
    <3>6. QED
      BY <3>4, <3>5
  <2>4. ASSUME NEW i \in DOMAIN next' PROVE Reached(stage, next[i], depth)'
    <3>1. next \in Seq(Token)
      BY DEF PathsTypeOK
    <3>2. next'[i] = n \/ (i \in DOMAIN next /\ next'[i] = next[i])
      BY <1>1, <1>2, <3>1
    <3>3. CASE next'[i] = n
      BY <1>10, <1>13, <3>3
    <3>4. CASE i \in DOMAIN next /\ next'[i] = next[i]
      <4>1. PICK t : t = next[i]
        OBVIOUS
      <4>2. PICK d \in Int : d = depth
        BY <2>1
      <4>3. Reached(side, t, d)'
        BY <1>7, <1>11, <3>4, <4>1, <4>2
      <4>4. d = depth' /\ t = next'[i] /\ stage' = side
        BY <1>2, <1>13, <3>4, <4>1, <4>2
      <4>5. QED
        BY <4>3, <4>4
    <3>5. QED
      BY <3>2, <3>3, <3>4
  <2>5. /\ ends' \in [Side -> Token] /\ ends'["forward"] # ends'["backward"]
        /\ DOMAIN frontier' = Side
    BY <1>2, <1>7
  <2>6. QED
    BY <2>2, <2>3, <2>4, <2>5 DEF TreesGrow
<1>14. stage' # side => stage' \notin Side
  BY <1>2 DEF Side
<1>15. QED
  BY <1>12, <1>13, <1>14 DEF JoinInv, TreesGrow

\* A token that has been expanded leaves its layer.
LEMMA NextTokenJoin ==
  ASSUME PathsInv, JoinInv, NEW side \in Side, NextToken(side)
  PROVE  JoinInv'
<1> USE DEF PathsInv
<1>1. /\ gen' = gen /\ mark' = mark /\ parent' = parent /\ network' = network
      /\ ends' = ends /\ stage' = stage /\ depth' = depth /\ next' = next
      /\ paths' = paths /\ stage = side
      /\ frontier' = [frontier EXCEPT ![side] = Tail(frontier[side])]
      /\ frontier[side] # <<>>
  BY DEF NextToken, arenaVars
<1>2. /\ ends \in [Side -> Token] /\ ends["forward"] # ends["backward"]
      /\ DOMAIN frontier = Side
      /\ \A s \in Side, t \in Token : mark[s][t] = gen => Reached(s, t, depth)
      /\ \A s \in Side : \A i \in DOMAIN frontier[s] : Reached(s, frontier[s][i], LayerDepth(s))
      /\ \A i \in DOMAIN next : Reached(side, next[i], depth)
  BY <1>1 DEF JoinInv, TreesGrow
<1>3. ASSUME NEW s, NEW t, NEW d, Reached(s, t, d)
      PROVE  Reached(s, t, d)'
  BY <1>1, <1>3 DEF Reached, Climbed
<1>4. \A s \in Side : LayerDepth(s)' = LayerDepth(s)
  BY <1>1 DEF LayerDepth
<1>5. ASSUME NEW s \in Side, NEW i \in DOMAIN frontier'[s]
      PROVE  \E j \in DOMAIN frontier[s] : frontier'[s][i] = frontier[s][j]
  <2>1. CASE s = side
    <3> DEFINE f == frontier[side]
    <3>1. f \in Seq(Token) /\ f # <<>>
      BY <1>1 DEF PathsTypeOK
    <3>2. frontier'[s] = Tail(f)
      BY <1>1, <1>2, <2>1
    <3> HIDE DEF f
    <3>3. i \in 1..Len(Tail(f)) /\ i + 1 \in DOMAIN f /\ Tail(f)[i] = f[i + 1]
      BY <1>5, <3>1, <3>2, HeadTailProperties
    <3>4. QED
      BY <2>1, <3>2, <3>3 DEF f
  <2>2. CASE s # side
    BY <1>1, <1>2, <1>5, <2>2
  <2>3. QED
    BY <2>1, <2>2
<1>6. ASSUME NEW s \in Side, NEW i \in DOMAIN frontier'[s]
      PROVE  Reached(s, frontier[s][i], LayerDepth(s))'
  <2>1. PICK j \in DOMAIN frontier[s] : frontier'[s][i] = frontier[s][j]
    BY <1>5
  <2>2. PICK t : t = frontier[s][j]
    OBVIOUS
  <2>3. PICK d : d = LayerDepth(s)
    OBVIOUS
  <2>4. Reached(s, t, d)'
    BY <1>2, <1>3, <2>2, <2>3
  <2>5. t = frontier'[s][i] /\ d = LayerDepth(s)'
    BY <1>4, <2>1, <2>2, <2>3
  <2>6. QED
    BY <2>4, <2>5
<1>7. ASSUME NEW s \in Side, NEW t \in Token, mark'[s][t] = gen'
      PROVE  Reached(s, t, depth)'
  <2>1. PICK d : d = depth
    OBVIOUS
  <2>2. Reached(s, t, d)'
    BY <1>1, <1>2, <1>3, <1>7, <2>1
  <2>3. d = depth'
    BY <1>1, <2>1
  <2>4. QED
    BY <2>2, <2>3
<1>8. ASSUME NEW i \in DOMAIN next' PROVE Reached(stage, next[i], depth)'
  <2>1. PICK d : d = depth
    OBVIOUS
  <2>2. PICK t : t = next[i]
    OBVIOUS
  <2>3. Reached(side, t, d)'
    BY <1>1, <1>2, <1>3, <2>1, <2>2
  <2>4. d = depth' /\ t = next'[i] /\ stage' = side
    BY <1>1, <2>1, <2>2
  <2>5. QED
    BY <2>3, <2>4
<1>9. TreesGrow'
  <2>1. DOMAIN frontier' = Side
    BY <1>1, <1>2
  <2>2. QED
    BY <1>1, <1>2, <1>6, <1>7, <1>8, <2>1 DEF TreesGrow
<1>10. PathsAreJoined'
  BY <1>1 DEF JoinInv, PathsAreJoined
<1>11. QED
  BY <1>9, <1>10 DEF JoinInv

\* The layer that has been built is expanded next by its side, from one step further.
LEMMA NextLayerJoin ==
  ASSUME PathsInv, JoinInv, NEW side \in Side, NextLayer(side)
  PROVE  JoinInv'
<1> USE DEF PathsInv
<1>1. /\ gen' = gen /\ mark' = mark /\ parent' = parent /\ network' = network
      /\ ends' = ends /\ next' = <<>> /\ paths' = paths /\ stage = side
      /\ frontier' = [frontier EXCEPT ![side] = next]
      /\ \/ side = "forward" /\ stage' = "backward" /\ depth' = depth
         \/ side = "backward" /\ stage' = "found"
         \/ side = "backward" /\ stage' = "forward" /\ depth' = depth + 1
  BY DEF NextLayer, arenaVars, Side
<1>2. /\ ends \in [Side -> Token] /\ ends["forward"] # ends["backward"]
      /\ DOMAIN frontier = Side
      /\ \A s \in Side, t \in Token : mark[s][t] = gen => Reached(s, t, depth)
      /\ \A s \in Side : \A i \in DOMAIN frontier[s] : Reached(s, frontier[s][i], LayerDepth(s))
      /\ \A i \in DOMAIN next : Reached(side, next[i], depth)
  BY <1>1 DEF JoinInv, TreesGrow
<1>3. depth \in Int
  BY DEF PathsTypeOK
<1>4. ASSUME NEW s, NEW t, NEW d \in Int, NEW e \in Int, d <= e, Reached(s, t, d)
      PROVE  Reached(s, t, e)'
  BY <1>1, <1>4, ReachedStays
<1>5. PathsAreJoined'
  BY <1>1 DEF JoinInv, PathsAreJoined
<1>6. CASE stage' = "found"
  BY <1>5, <1>6 DEF JoinInv, TreesGrow, Side
<1>7. CASE stage' # "found"
  <2>1. depth' \in Int /\ depth <= depth'
    BY <1>1, <1>3, <1>7
  <2>2. ASSUME NEW s \in Side, NEW t \in Token, mark'[s][t] = gen'
        PROVE  Reached(s, t, depth)'
    <3>1. PICK d \in Int, e \in Int : d = depth /\ e = depth'
      BY <1>3, <2>1
    <3>2. Reached(s, t, e)'
      BY <1>1, <1>2, <1>4, <2>1, <2>2, <3>1
    <3>3. QED
      BY <3>1, <3>2 DEF Reached
  <2>3. ASSUME NEW s \in Side, NEW i \in DOMAIN frontier'[s]
        PROVE  Reached(s, frontier[s][i], LayerDepth(s))'
    <3> DEFINE far == IF s = "forward" /\ stage' = "backward" THEN depth' ELSE depth' - 1
    <3>6. far \in Int /\ LayerDepth(s)' = far
      BY <2>1 DEF LayerDepth
    <3>1. PICK e \in Int : e = far
      BY <3>6
    <3>2. PICK t : t = frontier'[s][i]
      OBVIOUS
    <3>3. CASE s = side
      <4>1. i \in DOMAIN next /\ t = next[i]
        BY <1>1, <1>2, <3>2, <3>3
      <4>2. e = depth
        <5>1. CASE side = "forward" /\ stage' = "backward" /\ depth' = depth
          BY <3>1, <3>3, <5>1
        <5>2. CASE side = "backward" /\ stage' = "forward" /\ depth' = depth + 1
          BY <1>3, <3>1, <3>3, <5>2
        <5>3. QED
          BY <1>1, <1>7, <5>1, <5>2
      <4>3. PICK d \in Int : d = depth
        BY <1>3
      <4>4. Reached(side, t, d)
        BY <1>2, <4>1, <4>3
      <4>5. Reached(s, t, e)'
        BY <1>4, <3>3, <4>2, <4>3, <4>4
      <4>6. QED
        BY <3>1, <3>2, <3>6, <4>5
    <3>4. CASE s # side
      <4>1. i \in DOMAIN frontier[s] /\ t = frontier[s][i]
        BY <1>1, <1>2, <3>2, <3>4
      <4>2. PICK d \in Int : d = LayerDepth(s)
        BY <1>3 DEF LayerDepth
      <4>3. Reached(s, t, d)
        BY <1>2, <4>1, <4>2
      <4>4. d <= e
        <5>1. d = IF s = "forward" /\ stage = "backward" THEN depth ELSE depth - 1
          BY <4>2 DEF LayerDepth
        <5>2. QED
          <6>1. CASE side = "forward" /\ stage' = "backward" /\ depth' = depth
            <7>1. s = "backward"
              BY <3>4, <6>1 DEF Side
            <7>2. QED
              BY <1>3, <3>1, <5>1, <6>1, <7>1
          <6>2. CASE side = "backward" /\ stage' = "forward" /\ depth' = depth + 1
            <7>1. s = "forward" /\ stage = "backward"
              BY <1>1, <3>4, <6>2 DEF Side
            <7>2. QED
              BY <1>3, <3>1, <5>1, <6>2, <7>1
          <6>3. QED
            BY <1>1, <1>7, <6>1, <6>2
      <4>5. Reached(s, t, e)'
        BY <1>4, <4>3, <4>4
      <4>6. QED
        BY <3>1, <3>2, <3>6, <4>5
    <3>5. QED
      BY <3>3, <3>4
  <2>4. \A i \in DOMAIN next' : FALSE
    BY <1>1
  <2>5. /\ ends' \in [Side -> Token] /\ ends'["forward"] # ends'["backward"]
        /\ DOMAIN frontier' = Side
    BY <1>1, <1>2
  <2>6. TreesGrow'
    BY <2>2, <2>3, <2>4, <2>5 DEF TreesGrow
  <2>7. QED
    BY <1>5, <2>6 DEF JoinInv
<1>8. QED
  BY <1>6, <1>7

LEMMA InitJoin == Init => JoinInv
<1> SUFFICES ASSUME Init PROVE JoinInv
  OBVIOUS
<1>1. TreesGrow
  BY DEF Init, TreesGrow, Side
<1>2. PathsAreJoined
  BY DEF Init, PathsAreJoined
<1>3. QED
  BY <1>1, <1>2 DEF JoinInv

\* An arena without a search has no paths.
LEMMA IdleJoin ==
  ASSUME stage' = "idle", paths' = <<>>
  PROVE  JoinInv'
<1>1. TreesGrow'
  BY DEF TreesGrow, Side
<1>2. PathsAreJoined'
  BY DEF PathsAreJoined
<1>3. QED
  BY <1>1, <1>2 DEF JoinInv

LEMMA JoinInvHolds ==
  ASSUME TokensFit, SidesMeet
  PROVE  Spec => []JoinInv
<1>1. PathsInv /\ JoinInv /\ [Next]_vars => JoinInv'
  <2> SUFFICES ASSUME PathsInv, JoinInv, [Next]_vars PROVE JoinInv'
    OBVIOUS
  <2>1. CASE served < Len(Requests) /\ \E r \in Requests[served + 1] : Start(r)
    BY <2>1, StartJoin
  <2>2. CASE \E side \in Side : Visit(side) \/ NextToken(side) \/ NextLayer(side)
    BY <2>2, VisitJoin, NextTokenJoin, NextLayerJoin
  <2>3. CASE Release
    <3>1. stage' = "idle" /\ paths' = <<>>
      BY <2>3 DEF Release
    <3>2. QED
      BY <3>1, IdleJoin
  <2>4. CASE NewArena
    <3>1. stage' = "idle" /\ paths' = <<>>
      BY <2>4 DEF NewArena, PathsInv, HasRoom
    <3>2. QED
      BY <3>1, IdleJoin
  <2>5. CASE UNCHANGED vars
    BY <2>5 DEF vars, arenaVars, layerVars, JoinInv, TreesGrow, PathsAreJoined, LayerDepth,
                Reached, Climbed
  <2>6. QED
    BY <2>1, <2>2, <2>3, <2>4, <2>5 DEF Next
<1>2. QED
  BY <1>1, InitJoin, InvHolds, PTL DEF Spec

-----------------------------------------------------------------------------
(* The first path is a shortest one.                                       *)

\* From a to b in k steps over pairs of the network, or fewer: a step may stay where it is.
Walks(net, a, b, k, f) ==
  /\ f \in [0..k -> Token] /\ f[0] = a /\ f[k] = b
  /\ \A i \in 1..k : f[i - 1] = f[i] \/ {f[i - 1], f[i]} \in net
Near(net, a, b, k) == \E f : Walks(net, a, b, k, f)

\* A walk that stays, a walk of no step, one step more, and more steps than are needed.
LEMMA NearSelf ==
  ASSUME NEW net, NEW a \in Token, NEW k \in Nat
  PROVE  Near(net, a, a, k)
<1> DEFINE f == [i \in 0..k |-> a]
<1>1. f \in [0..k -> Token] /\ \A i \in 0..k : f[i] = a
  OBVIOUS
<1>2. 0 \in 0..k /\ k \in 0..k /\ \A i \in 1..k : i \in 0..k /\ i - 1 \in 0..k
  OBVIOUS
<1> HIDE DEF f
<1>3. Walks(net, a, a, k, f)
  BY <1>1, <1>2 DEF Walks
<1>4. QED
  BY <1>3 DEF Near

LEMMA NearZero ==
  ASSUME NEW net, NEW a, NEW b, Near(net, a, b, 0)
  PROVE  a = b
  BY DEF Near, Walks

LEMMA NearNext ==
  ASSUME NEW net, NEW a, NEW c, NEW b \in Token, NEW k \in Nat, Near(net, a, c, k),
         c = b \/ {c, b} \in net
  PROVE  Near(net, a, b, k + 1)
<1>1. PICK f : Walks(net, a, c, k, f)
  BY DEF Near
<1> DEFINE g == [i \in 0..(k + 1) |-> IF i = k + 1 THEN b ELSE f[i]]
<1>2. \A i \in 0..k : f[i] \in Token
  BY <1>1 DEF Walks
<1>3. /\ g \in [0..(k + 1) -> Token] /\ g[k + 1] = b
      /\ \A i \in 0..k : g[i] = f[i]
  <2>1. \A i \in 0..(k + 1) : i # k + 1 => i \in 0..k
    OBVIOUS
  <2>2. k + 1 \in 0..(k + 1) /\ \A i \in 0..k : i # k + 1 /\ i \in 0..(k + 1)
    OBVIOUS
  <2>3. QED
    BY <1>2, <2>1, <2>2
<1> HIDE DEF g
<1>4. g[0] = a
  BY <1>1, <1>3 DEF Walks
<1>5. ASSUME NEW i \in 1..(k + 1) PROVE g[i - 1] = g[i] \/ {g[i - 1], g[i]} \in net
  <2>1. CASE i = k + 1
    <3>1. g[i - 1] = c /\ g[i] = b
      BY <1>1, <1>3, <2>1 DEF Walks
    <3>2. QED
      BY <3>1
  <2>2. CASE i # k + 1
    <3>1. i \in 1..k /\ i \in 0..k /\ i - 1 \in 0..k
      BY <2>2
    <3>2. QED
      BY <1>1, <1>3, <3>1 DEF Walks
  <2>3. QED
    BY <2>1, <2>2
<1>6. Walks(net, a, b, k + 1, g)
  BY <1>3, <1>4, <1>5 DEF Walks
<1>7. QED
  BY <1>6 DEF Near

LEMMA NearFarther ==
  ASSUME NEW net, NEW a, NEW b, NEW k \in Nat, NEW j \in Nat, k <= j, Near(net, a, b, k)
  PROVE  Near(net, a, b, j)
<1>1. PICK f : Walks(net, a, b, k, f)
  BY DEF Near
<1>2. b \in Token /\ \A i \in 0..k : f[i] \in Token
  BY <1>1 DEF Walks
<1> DEFINE g == [i \in 0..j |-> IF i <= k THEN f[i] ELSE b]
<1>3. /\ g \in [0..j -> Token]
      /\ \A i \in 0..k : g[i] = f[i]
      /\ \A i \in 0..j : i > k => g[i] = b
  BY <1>2
<1> HIDE DEF g
<1>4. g[0] = a /\ g[j] = b
  BY <1>1, <1>3 DEF Walks
<1>5. ASSUME NEW i \in 1..j PROVE g[i - 1] = g[i] \/ {g[i - 1], g[i]} \in net
  <2>1. CASE i <= k
    <3>1. i \in 1..k /\ i \in 0..k /\ i - 1 \in 0..k
      BY <2>1
    <3>2. QED
      BY <1>1, <1>3, <3>1 DEF Walks
  <2>2. CASE i > k
    <3>1. g[i] = b
      BY <1>3, <2>2
    <3>2. CASE i - 1 > k
      BY <1>3, <3>1, <3>2
    <3>3. CASE i - 1 <= k
      <4>1. i - 1 = k /\ k \in 0..k
        BY <2>2, <3>3
      <4>2. g[i - 1] = b
        BY <1>1, <1>3, <4>1 DEF Walks
      <4>3. QED
        BY <3>1, <4>2
    <3>4. QED
      BY <3>2, <3>3
  <2>3. QED
    BY <2>1, <2>2
<1>6. Walks(net, a, b, j, g)
  BY <1>3, <1>4, <1>5 DEF Walks
<1>7. QED
  BY <1>6 DEF Near

\* A token in the middle, which is as near to the one end as to the other.
LEMMA NearBetween ==
  ASSUME NEW net, NEW a, NEW b, NEW i \in Nat, NEW j \in Nat, Near(net, a, b, i + j)
  PROVE  \E t \in Token : Near(net, a, t, i) /\ Near(net, b, t, j)
<1>1. PICK f : Walks(net, a, b, i + j, f)
  BY DEF Near
<1>2. \A m \in 0..(i + j) : f[m] \in Token
  BY <1>1 DEF Walks
<1> DEFINE t == f[i]
           g == [m \in 0..i |-> f[m]]
           h == [m \in 0..j |-> f[i + j - m]]
<1>3. t \in Token
  BY <1>2
<1>4. Near(net, a, t, i)
  <2>1. g \in [0..i -> Token] /\ \A m \in 0..i : g[m] = f[m]
    BY <1>2
  <2> HIDE DEF g
  <2>2. g[0] = a /\ g[i] = t
    BY <1>1, <2>1 DEF Walks
  <2>3. ASSUME NEW m \in 1..i PROVE g[m - 1] = g[m] \/ {g[m - 1], g[m]} \in net
    <3>1. m \in 0..i /\ m - 1 \in 0..i /\ m \in 1..(i + j)
      OBVIOUS
    <3>2. QED
      BY <1>1, <2>1, <3>1 DEF Walks
  <2>4. Walks(net, a, t, i, g)
    BY <2>1, <2>2, <2>3 DEF Walks
  <2>5. QED
    BY <2>4 DEF Near
<1>5. Near(net, b, t, j)
  <2>1. h \in [0..j -> Token] /\ \A m \in 0..j : h[m] = f[i + j - m]
    <3>1. \A m \in 0..j : i + j - m \in 0..(i + j)
      OBVIOUS
    <3>2. QED
      BY <1>2, <3>1
  <2> HIDE DEF h
  <2>2. h[0] = b /\ h[j] = t
    <3>1. 0 \in 0..j /\ j \in 0..j /\ i + j - 0 = i + j /\ i + j - j = i
      OBVIOUS
    <3>2. QED
      BY <1>1, <2>1, <3>1 DEF Walks
  <2>3. ASSUME NEW m \in 1..j PROVE h[m - 1] = h[m] \/ {h[m - 1], h[m]} \in net
    <3>1. PICK q \in 1..(i + j) : q = i + j - m + 1
      OBVIOUS
    <3>2. h[m - 1] = f[q] /\ h[m] = f[q - 1]
      <4>1. m - 1 \in 0..j /\ m \in 0..j /\ i + j - (m - 1) = q /\ i + j - m = q - 1
        BY <3>1
      <4>2. QED
        BY <2>1, <4>1
    <3>3. f[q - 1] = f[q] \/ {f[q - 1], f[q]} \in net
      BY <1>1 DEF Walks
    <3>4. {f[q - 1], f[q]} = {f[q], f[q - 1]}
      OBVIOUS
    <3>5. QED
      BY <3>2, <3>3, <3>4
  <2>4. Walks(net, b, t, j, h)
    BY <2>1, <2>2, <2>3 DEF Walks
  <2>5. QED
    BY <2>4 DEF Near
<1>6. QED
  BY <1>3, <1>4, <1>5

\* The last step.
LEMMA NearLast ==
  ASSUME NEW net, NEW a, NEW b, NEW k \in Nat, NEW m, m = k + 1, Near(net, a, b, m)
  PROVE  \E c \in Token : Near(net, a, c, k) /\ (c = b \/ {c, b} \in net)
<1>1. PICK c \in Token : Near(net, a, c, k) /\ Near(net, b, c, 1)
  BY NearBetween
<1>2. PICK f : Walks(net, b, c, 1, f)
  BY <1>1 DEF Near
<1>3. b = c \/ {b, c} \in net
  <2>1. 1 \in 1..1 /\ f[0] = b /\ f[1] = c /\ 1 - 1 = 0
    BY <1>2 DEF Walks
  <2>2. f[1 - 1] = f[1] \/ {f[1 - 1], f[1]} \in net
    BY <1>2, <2>1 DEF Walks
  <2>3. QED
    BY <2>1, <2>2
<1>4. {b, c} = {c, b}
  OBVIOUS
<1>5. QED
  BY <1>1, <1>3, <1>4

\* No walk leaves a set that contains the neighbours of its tokens.
LEMMA NearClosed ==
  ASSUME NEW net, NEW a, NEW b, NEW k \in Nat, Near(net, a, b, k), NEW S, a \in S,
         \A t \in S, n \in Token : {t, n} \in net => n \in S
  PROVE  b \in S
<1>1. PICK f : Walks(net, a, b, k, f)
  BY DEF Near
<1> DEFINE T == {i \in 0..k : f[i] \notin S}
<1>2. ASSUME T # {} PROVE FALSE
  <2>1. PICK i \in T : \A j \in T : i <= j
    <3>1. T \subseteq Nat
      OBVIOUS
    <3> HIDE DEF T
    <3>2. QED
      BY <1>2, <3>1, LeastNat
  <2>2. i # 0
    BY <1>1 DEF Walks
  <2>3. i \in 1..k /\ i - 1 \in 0..k /\ i - 1 \notin T
    BY <2>1, <2>2
  <2>4. f[i - 1] \in S /\ f[i] \in Token
    BY <1>1, <2>3 DEF Walks
  <2>5. f[i - 1] = f[i] \/ {f[i - 1], f[i]} \in net
    BY <1>1, <2>3 DEF Walks
  <2>6. QED
    BY <2>4, <2>5
<1>3. QED
  BY <1>1, <1>2 DEF Walks

\* A path of the network is a walk.
LEMMA JoinsNear ==
  ASSUME NEW path, NEW from, NEW to, NEW net, net \subseteq SUBSET Token,
         Joins(path, from, to, net)
  PROVE  Len(path) - 1 \in 0..MaxHops /\ Near(net, from, to, Len(path) - 1)
<1>1. PICK k \in 1..MaxHops : Len(path) = k + 1
  BY BoundsAssumption DEF Joins
<1>2. \A j \in 1..k : {path[j], path[j + 1]} \in net
  BY <1>1 DEF Joins
<1>3. \A j \in 1..(k + 1) : path[j] \in Token
  <2>1. ASSUME NEW j \in 1..k PROVE path[j] \in Token /\ path[j + 1] \in Token
    <3>1. {path[j], path[j + 1]} \in SUBSET Token
      BY <1>2
    <3>2. QED
      BY <3>1
  <2>2. ASSUME NEW j \in 1..(k + 1) PROVE path[j] \in Token
    <3>1. j \in 1..k \/ (j - 1 \in 1..k /\ (j - 1) + 1 = j)
      OBVIOUS
    <3>2. CASE j \in 1..k
      BY <2>1, <3>2
    <3>3. CASE j - 1 \in 1..k /\ (j - 1) + 1 = j
      <4>1. PICK i \in 1..k : i + 1 = j
        BY <3>3
      <4>2. QED
        BY <2>1, <4>1
    <3>4. QED
      BY <3>1, <3>2, <3>3
  <2>3. QED
    BY <2>2
<1> DEFINE f == [i \in 0..k |-> path[i + 1]]
<1>4. f \in [0..k -> Token] /\ \A i \in 0..k : f[i] = path[i + 1]
  BY <1>3
<1> HIDE DEF f
<1>5. f[0] = from /\ f[k] = to
  BY <1>1, <1>4 DEF Joins
<1>6. ASSUME NEW i \in 1..k PROVE {f[i - 1], f[i]} \in net
  <2>1. f[i - 1] = path[i] /\ f[i] = path[i + 1]
    BY <1>4
  <2>2. QED
    BY <1>2, <2>1
<1>7. Walks(net, from, to, k, f)
  BY <1>4, <1>5, <1>6 DEF Walks
<1>8. QED
  BY <1>1, <1>7, BoundsAssumption DEF Near

\* The tokens within k steps.
Around(net, e, k) == {t \in Token : Near(net, e, t, k)}

\* A side whose layers up to k are complete: seen is what it has visited, fresh the part
\* of it that is further away, front the tokens that are still to be expanded.
Layered(net, e, k, seen, fresh, front) ==
  /\ e \in Token /\ seen = Around(net, e, k) \cup fresh
  /\ fresh \subseteq Around(net, e, k + 1)
  /\ front \subseteq Around(net, e, k)
  /\ \A t \in Around(net, e, k), n \in Token : {t, n} \in net => n \in seen \/ t \in front

\* How layers begin, grow by a neighbour, lose a token that has been expanded, and
\* become the next one.
LEMMA LayersBegin ==
  ASSUME NEW net, NEW e \in Token
  PROVE  Layered(net, e, 0, {e}, {}, {e})
<1>1. Around(net, e, 0) = {e}
  BY NearZero, NearSelf DEF Around
<1>2. QED
  BY <1>1 DEF Layered

LEMMA LayerGrows ==
  ASSUME NEW net, NEW e, NEW k \in Nat, NEW seen, NEW fresh, NEW front,
         Layered(net, e, k, seen, fresh, front),
         NEW h \in front, NEW n \in Token, {h, n} \in net
  PROVE  Layered(net, e, k, seen \cup {n}, fresh \cup {n}, front)
<1>1. n \in Around(net, e, k + 1)
  <2>1. Near(net, e, h, k)
    BY DEF Layered, Around
  <2>2. QED
    BY <2>1, NearNext DEF Around
<1>2. QED
  BY <1>1 DEF Layered

LEMMA LayerShrinks ==
  ASSUME NEW net, NEW e, NEW k \in Nat, NEW seen, NEW fresh, NEW front, NEW rest, NEW h,
         Layered(net, e, k, seen, fresh, front),
         rest \subseteq front, front \subseteq rest \cup {h},
         \A n \in Token : {h, n} \in net => n \in seen
  PROVE  Layered(net, e, k, seen, fresh, rest)
  BY DEF Layered

LEMMA LayerEnds ==
  ASSUME NEW net, NEW e, NEW k \in Nat, NEW seen, NEW fresh,
         Layered(net, e, k, seen, fresh, {})
  PROVE  Layered(net, e, k + 1, seen, {}, fresh)
<1>1. \A t : Near(net, e, t, k + 1) =>
                \E c \in Token : Near(net, e, c, k) /\ (c = t \/ {c, t} \in net)
  <2>1. PICK m : m = k + 1
    OBVIOUS
  <2>2. ASSUME NEW t, Near(net, e, t, m)
        PROVE  \E c \in Token : Near(net, e, c, k) /\ (c = t \/ {c, t} \in net)
    BY <2>1, <2>2, NearLast
  <2>3. QED
    BY <2>1, <2>2
<1>2. Around(net, e, k) \subseteq Around(net, e, k + 1)
  BY NearFarther DEF Around
<1>3. Around(net, e, k + 1) \subseteq seen
  <2>1. ASSUME NEW t \in Token, Near(net, e, t, k + 1) PROVE t \in seen
    <3>1. PICK c \in Token : Near(net, e, c, k) /\ (c = t \/ {c, t} \in net)
      BY <1>1, <2>1
    <3>2. QED
      BY <3>1, <2>1 DEF Layered, Around
  <2>2. QED
    BY <2>1 DEF Around
<1>4. seen = Around(net, e, k + 1)
  BY <1>2, <1>3 DEF Layered
<1>5. \A t \in Around(net, e, k + 1), n \in Token : {t, n} \in net => n \in seen \/ t \in fresh
  BY <1>4 DEF Layered
<1>6. QED
  BY <1>4, <1>5 DEF Layered

\* Two sides that have seen no token in common are further apart than they are deep.
LEMMA Apart ==
  ASSUME NEW net, NEW a, NEW b, NEW i \in Nat, NEW j \in Nat, NEW d \in Nat,
         NEW seenA, NEW freshA, NEW frontA, NEW seenB, NEW freshB, NEW frontB,
         Layered(net, a, i, seenA, freshA, frontA), Layered(net, b, j, seenB, freshB, frontB),
         seenA \cap seenB = {}, Near(net, a, b, d)
  PROVE  d > i + j
<1>1. SUFFICES ASSUME d <= i + j PROVE FALSE
  OBVIOUS
<1>2. Near(net, a, b, i + j)
  BY <1>1, NearFarther
<1>3. PICK t \in Token : Near(net, a, t, i) /\ Near(net, b, t, j)
  BY <1>2, NearBetween
<1>4. QED
  BY <1>3 DEF Layered, Around

\* Nothing left to expand: the other end is not connected.
LEMMA Unconnected ==
  ASSUME NEW net, NEW a, NEW b, NEW i \in Nat, NEW j \in Nat, NEW d \in Nat,
         NEW seenA, NEW seenB, NEW freshB, NEW frontB,
         Layered(net, a, i, seenA, {}, {}), Layered(net, b, j, seenB, freshB, frontB),
         seenA \cap seenB = {}, Near(net, a, b, d)
  PROVE  FALSE
<1>1. a \in seenA /\ b \in seenB
  BY NearSelf DEF Layered, Around
<1>2. \A t \in seenA, n \in Token : {t, n} \in net => n \in seenA
  BY DEF Layered
<1>3. b \in seenA
  BY <1>1, <1>2, NearClosed
<1>4. QED
  BY <1>1, <1>3

\* What is around at one more step is around already, or next to what is.
LEMMA AroundLast ==
  ASSUME NEW net, NEW e, NEW j \in Nat, NEW t \in Around(net, e, j + 1)
  PROVE  \E c \in Around(net, e, j) : c = t \/ {c, t} \in net
<1>1. PICK m : m = j + 1
  OBVIOUS
<1>2. PICK c \in Token : Near(net, e, c, j) /\ (c = t \/ {c, t} \in net)
  <2>1. Near(net, e, t, m)
    BY <1>1 DEF Around
  <2>2. QED
    BY <1>1, <2>1, NearLast
<1>3. c \in Around(net, e, j)
  BY <1>2 DEF Around
<1>4. QED
  BY <1>2, <1>3

\* Within is that: the sets do satisfy the recursion, and it has one solution.
LEMMA WithinIsNear ==
  ASSUME NEW e \in Token, e = ends["forward"]
  PROVE  \A k \in 0..MaxHops : Within[k] = Around(network, e, k)
<1> DEFINE G(g, k) == IF k = 0 THEN {ends["forward"]}
                      ELSE g[k - 1] \cup UNION {Neighbors(t) : t \in g[k - 1]}
           g0 == [k \in 0..MaxHops |-> Around(network, e, k)]
           w == Within
<1>1. MaxHops \in Nat
  BY BoundsAssumption
<1>2. Around(network, e, 0) = {e}
  BY NearZero, NearSelf DEF Around
<1>3. ASSUME NEW k \in 0..MaxHops, k # 0
      PROVE  Around(network, e, k) = Around(network, e, k - 1)
                 \cup UNION {Neighbors(t) : t \in Around(network, e, k - 1)}
  <2>1. PICK j \in Nat : j = k - 1 /\ k = j + 1
    BY <1>1, <1>3
  <2>2. ASSUME NEW t \in Around(network, e, j + 1)
        PROVE  t \in Around(network, e, j) \cup UNION {Neighbors(s) : s \in Around(network, e, j)}
    <3>1. PICK c \in Around(network, e, j) : c = t \/ {c, t} \in network
      BY <2>2, AroundLast
    <3>2. t \in Token
      BY <2>2 DEF Around
    <3>3. c = t \/ t \in Neighbors(c)
      BY <3>1, <3>2 DEF Neighbors
    <3>4. QED
      BY <3>3
  <2>3. ASSUME NEW t \in Around(network, e, j) PROVE t \in Around(network, e, j + 1)
    BY <2>3, NearFarther DEF Around
  <2>4. ASSUME NEW c \in Around(network, e, j), NEW t \in Neighbors(c)
        PROVE  t \in Around(network, e, j + 1)
    <3>1. Near(network, e, c, j) /\ t \in Token /\ {c, t} \in network
      BY <2>4 DEF Around, Neighbors
    <3>2. QED
      BY <3>1, NearNext DEF Around
  <2>5. QED
    BY <2>1, <2>2, <2>3, <2>4
<1>4. g0 = [k \in 0..MaxHops |-> G(g0, k)]
  <2>1. \A k \in 0..MaxHops : g0[k] = Around(network, e, k)
    OBVIOUS
  <2>2. \A k \in 0..MaxHops : k # 0 => k - 1 \in 0..MaxHops
    BY <1>1
  <2> HIDE DEF g0
  <2>3. \A k \in 0..MaxHops : G(g0, k) = Around(network, e, k)
    BY <1>2, <1>3, <2>1, <2>2
  <2>4. QED
    BY <2>3 DEF g0
<1>5. w = CHOOSE g : g = [k \in 0..MaxHops |-> G(g, k)]
  BY DEF Within
<1>6. w = [k \in 0..MaxHops |-> G(w, k)]
  <2> HIDE DEF w, g0
  <2>1. QED
    BY <1>4, <1>5
<1>7. AlikeSoFar(w, g0, MaxHops)
  <2> HIDE DEF w, g0
  <2>1. \A k \in 0..MaxHops : w[k] = G(w, k) /\ g0[k] = G(g0, k)
    BY <1>4, <1>6
  <2>2. 0 \in 0..MaxHops /\ \A k \in 1..MaxHops : k \in 0..MaxHops /\ k # 0
    BY <1>1
  <2>3. w[0] = g0[0]
    BY <2>1, <2>2
  <2>4. ASSUME NEW k \in 1..MaxHops, w[k - 1] = g0[k - 1] PROVE w[k] = g0[k]
    BY <2>1, <2>2, <2>4
  <2>5. QED
    BY <2>3, <2>4 DEF AlikeSoFar
<1>8. Alike(w, g0, MaxHops)
  <2> HIDE DEF w, g0
  <2>1. QED
    BY <1>1, <1>7, Agreement
<1>9. QED
  BY <1>8 DEF Alike

\* What a side has visited, and what of it is in the layer that is being built.
Seen(s) == {t \in Token : mark[s][t] = gen}
Fresh(s) == IF s = stage THEN Range(next) ELSE {}

\* The layers of both sides are exact.
LayersAreExact ==
  stage \in Side =>
    \A s \in Side :
      /\ Layered(network, ends[s], LayerDepth(s), Seen(s), Fresh(s), Range(frontier[s]))
      /\ s = stage /\ frontier[s] # <<>> =>
           \A n \in Token : {Head(frontier[s]), n} \in network => n \in Seen(s) \/ n > cursor
      /\ s # stage => \A t \in Seen(s) : Reached(s, t, LayerDepth(s))

\* The sides have not met as long as there is no path; the first one is as short as any
\* walk; no path means that there is none.
FirstIsShortest ==
  /\ stage \in Side /\ paths = <<>> => Seen("forward") \cap Seen("backward") = {}
  /\ paths # <<>> =>
       \A j \in Nat : Near(network, ends["forward"], ends["backward"], j) =>
                        Len(paths[1]) - 1 <= j
  /\ stage = "found" /\ paths = <<>> =>
       \A j \in 0..MaxHops : ~Near(network, ends["forward"], ends["backward"], j)
  /\ stage = "found" => ends \in [Side -> Token]

\* The inductive invariant, with PathsInv and JoinInv.
ShortInv == LayersAreExact /\ FirstIsShortest

\* The tokens of a layer.
LEMMA RangeParts ==
  ASSUME NEW f \in Seq(Token)
  PROVE  /\ Range(f) \subseteq Token
         /\ f = <<>> => Range(f) = {}
         /\ \A n \in Token : Range(Append(f, n)) = Range(f) \cup {n}
         /\ f # <<>> => /\ Head(f) \in Range(f)
                        /\ Range(Tail(f)) \subseteq Range(f)
                        /\ Range(f) \subseteq Range(Tail(f)) \cup {Head(f)}
<1>1. Range(f) \subseteq Token /\ (f = <<>> => Range(f) = {})
  BY DEF Range
<1>2. ASSUME NEW n \in Token PROVE Range(Append(f, n)) = Range(f) \cup {n}
  <2> DEFINE g == Append(f, n)
  <2>1. /\ DOMAIN g = 1..(Len(f) + 1) /\ g[Len(f) + 1] = n /\ \A i \in 1..Len(f) : g[i] = f[i]
        /\ DOMAIN f = 1..Len(f) /\ Len(f) \in Nat
    OBVIOUS
  <2> HIDE DEF g
  <2>2. \A i \in DOMAIN g : i = Len(f) + 1 \/ i \in DOMAIN f
    BY <2>1
  <2>3. Len(f) + 1 \in DOMAIN g /\ \A i \in DOMAIN f : i \in DOMAIN g
    BY <2>1
  <2>4. \A i \in DOMAIN f : g[i] = f[i]
    BY <2>1
  <2>5. Range(g) = Range(f) \cup {n}
    BY <2>1, <2>2, <2>3, <2>4 DEF Range
  <2>6. QED
    BY <2>5 DEF g
<1>3. ASSUME f # <<>>
      PROVE  /\ Head(f) \in Range(f)
             /\ Range(Tail(f)) \subseteq Range(f)
             /\ Range(f) \subseteq Range(Tail(f)) \cup {Head(f)}
  <2> DEFINE g == Tail(f)
             h == Head(f)
  <2>1. /\ Len(f) \in Nat /\ Len(f) >= 1 /\ DOMAIN f = 1..Len(f) /\ h = f[1]
        /\ DOMAIN g = 1..(Len(f) - 1) /\ \A i \in 1..(Len(f) - 1) : g[i] = f[i + 1]
    <3>1. Len(f) \in Nat /\ Len(f) >= 1 /\ DOMAIN f = 1..Len(f) /\ h = f[1]
      BY <1>3
    <3>2. g \in Seq(Token) /\ Len(g) = Len(f) - 1 /\ \A i \in 1..Len(g) : g[i] = f[i + 1]
      BY <1>3, HeadTailProperties
    <3> HIDE DEF g, h
    <3>3. QED
      BY <3>1, <3>2
  <2> HIDE DEF g, h
  <2>2. h \in Range(f)
    BY <2>1 DEF Range
  <2>3. \A i \in DOMAIN g : i + 1 \in DOMAIN f /\ g[i] = f[i + 1]
    BY <2>1
  <2>4. Range(g) \subseteq Range(f)
    BY <2>3 DEF Range
  <2>5. ASSUME NEW i \in DOMAIN f PROVE f[i] \in Range(g) \cup {h}
    <3>1. CASE i = 1
      BY <2>1, <3>1
    <3>2. CASE i # 1
      <4>1. i - 1 \in 1..(Len(f) - 1) /\ (i - 1) + 1 = i
        BY <2>1, <3>2
      <4>2. PICK j \in DOMAIN g : j + 1 = i
        BY <2>1, <4>1
      <4>3. QED
        BY <2>3, <4>2 DEF Range
    <3>3. QED
      BY <3>1, <3>2
  <2>6. Range(f) \subseteq Range(g) \cup {h}
    BY <2>5 DEF Range
  <2>7. QED
    BY <2>2, <2>4, <2>6 DEF g, h
<1>4. QED
  BY <1>1, <1>2, <1>3

\* The roots are layers of depth 0.
LEMMA StartShort ==
  ASSUME PathsInv, TokensFit, served < Len(Requests),
         NEW r \in Requests[served + 1], Start(r)
  PROVE  ShortInv'
<1> USE BoundsAssumption DEF PathsInv
<1>1. r \in Request /\ r.from # r.to
  <2>1. Requests \in Seq(SUBSET Request) /\ served \in Nat
    BY RequestsAssumption DEF PathsTypeOK
  <2>2. Len(Requests) \in Nat /\ served + 1 \in 1..Len(Requests)
    BY <2>1
  <2>3. Requests[served + 1] \in SUBSET Request /\ served + 1 \in DOMAIN Requests
    BY <2>1, <2>2
  <2>4. QED
    BY <2>3, RequestsAssumption
<1>2. r.from \in Token /\ r.to \in Token
  BY <1>1 DEF Request
<1>3. /\ ends' = [s \in Side |-> IF s = "forward" THEN r.from ELSE r.to]
      /\ network' = r.network /\ stage = "idle"
  BY DEF Start
<1>4. /\ ends' \in [Side -> Token]
      /\ ends'["forward"] = r.from /\ ends'["backward"] = r.to
  BY <1>2, <1>3 DEF Side
<1>5. CASE {r.from, r.to} \in r.network
  <2>1. paths' = <<<<r.from, r.to>>>> /\ stage' = "found"
    BY <1>5 DEF Start
  <2>2. paths' # <<>> /\ Len(paths'[1]) - 1 = 1
    BY <2>1
  <2>3. ASSUME NEW j \in Nat, Near(network', r.from, r.to, j) PROVE 1 <= j
    <3>1. j # 0
      BY <1>1, <2>3, NearZero
    <3>2. QED
      BY <3>1
  <2>4. LayersAreExact'
    BY <2>1 DEF LayersAreExact, Side
  <2>5. FirstIsShortest'
    BY <1>4, <2>1, <2>2, <2>3 DEF FirstIsShortest, Side
  <2>6. QED
    BY <2>4, <2>5 DEF ShortInv
<1>6. CASE {r.from, r.to} \notin r.network
  <2>1. /\ stage = "idle" /\ stage' = "forward" /\ paths' = paths
        /\ gen' = gen /\ depth' = 1 /\ next' = <<>> /\ cursor' = -1
        /\ mark' = [s \in Side |-> IF ends'[s] < Capacity
                                   THEN [mark[s] EXCEPT ![ends'[s]] = gen]
                                   ELSE mark[s]]
        /\ parent' = [s \in Side |-> IF ends'[s] < Capacity
                                     THEN [parent[s] EXCEPT ![ends'[s]] = NoParent]
                                     ELSE parent[s]]
        /\ frontier' = [s \in Side |-> <<ends'[s]>>]
    BY <1>6 DEF Start
  <2>2. paths' = <<>>
    BY <2>1 DEF HasRoom
  <2>3. \A s \in Side, t \in Token : mark[s][t] # gen
    <3>1. \A s \in Side, t \in Token : mark[s][t] <= gen - 1 /\ mark[s][t] \in Int
      BY <2>1 DEF ArenaIsClean, PathsTypeOK
    <3>2. gen \in Int
      BY DEF PathsTypeOK
    <3>3. QED
      BY <3>1, <3>2
  <2>4. ASSUME NEW s \in Side, NEW e \in Token, e = ends'[s]
        PROVE  /\ Seen(s)' = {e} /\ Fresh(s)' = {} /\ Range(frontier'[s]) = {e}
               /\ Head(frontier'[s]) = e
               /\ LayerDepth(s)' = 0 /\ Reached(s, e, 0)'
    <3>1. e < Capacity
      BY DEF TokensFit
    <3>2. /\ mark'[s] = [mark[s] EXCEPT ![e] = gen]
          /\ parent'[s] = [parent[s] EXCEPT ![e] = NoParent]
          /\ frontier'[s] = <<e>>
      BY <2>1, <2>4, <3>1
    <3>3. DOMAIN mark[s] = Token /\ DOMAIN parent[s] = Token
      BY DEF PathsTypeOK
    <3>4. mark'[s][e] = gen' /\ parent'[s][e] = NoParent
      BY <2>1, <3>2, <3>3
    <3>5. \A t \in Token : mark'[s][t] = gen' => t = e
      BY <2>1, <2>3, <3>2, <3>3
    <3>6. Seen(s)' = {e}
      BY <3>4, <3>5 DEF Seen
    <3>7. Range(<<e>>) = {e} /\ Head(<<e>>) = e /\ Range(<<>>) = {}
      BY DEF Range
    <3>8. Fresh(s)' = {}
      BY <2>1, <3>7 DEF Fresh
    <3>9. LayerDepth(s)' = 0
      BY <2>1 DEF LayerDepth
    <3>10. Reached(s, e, 0)'
      BY <2>4, <3>4, RootsReached
    <3>11. QED
      BY <3>2, <3>6, <3>7, <3>8, <3>9, <3>10
  <2>5. ASSUME NEW s \in Side
        PROVE  /\ Layered(network, ends[s], LayerDepth(s), Seen(s), Fresh(s), Range(frontier[s]))'
               /\ \A n \in Token : n > cursor'
               /\ \A t \in Seen(s)' : Reached(s, t, LayerDepth(s))'
    <3>1. PICK e \in Token : e = ends'[s]
      BY <1>4
    <3> DEFINE net == network'
    <3>2. Layered(net, e, 0, {e}, {}, {e})
      BY LayersBegin
    <3>3. /\ Seen(s)' = {e} /\ Fresh(s)' = {} /\ Range(frontier'[s]) = {e}
          /\ LayerDepth(s)' = 0 /\ Reached(s, e, 0)'
      BY <2>4, <3>1
    <3>4. Layered(network, ends[s], LayerDepth(s), Seen(s), Fresh(s), Range(frontier[s]))'
      BY <3>1, <3>2, <3>3
    <3>5. \A n \in Token : n > cursor'
      BY <2>1, TokenAssumption
    <3>6. \A t \in Seen(s)' : Reached(s, t, LayerDepth(s))'
      BY <3>3 DEF Reached
    <3>7. QED
      BY <3>4, <3>5, <3>6
  <2>6. LayersAreExact'
    BY <2>5 DEF LayersAreExact
  <2>7. (Seen("forward") \cap Seen("backward") = {})'
    <3>1. Seen("forward")' = {r.from} /\ Seen("backward")' = {r.to}
      BY <1>2, <1>4, <2>4 DEF Side
    <3>2. QED
      BY <1>1, <3>1
  <2>8. FirstIsShortest'
    BY <2>1, <2>2, <2>7 DEF FirstIsShortest
  <2>9. QED
    BY <2>6, <2>8 DEF ShortInv
<1>7. QED
  BY <1>5, <1>6

\* A visit keeps the layers exact, and the first path is found where the sides meet.
LEMMA VisitShort ==
  ASSUME PathsInv, JoinInv, ShortInv, TokensFit, SidesMeet, NEW side \in Side, Visit(side)
  PROVE  ShortInv'
<1> USE DEF PathsInv
<1>1. PICK n \in Unvisited(side) :
        /\ \A m \in Unvisited(side) : n <= m
        /\ cursor' = n
        /\ next' = Append(next, n)
        /\ IF n < Capacity
           THEN /\ mark' = [mark EXCEPT ![side][n] = gen]
                /\ parent' = [parent EXCEPT ![side][n] = Head(frontier[side])]
           ELSE UNCHANGED <<mark, parent>>
        /\ paths' = Recorded(side, n)
  BY DEF Visit
<1>2. /\ n \in Token /\ n < Capacity /\ stage = side
      /\ frontier[side] \in Seq(Token) /\ frontier[side] # <<>> /\ next \in Seq(Token)
      /\ gen' = gen /\ depth' = depth /\ frontier' = frontier
      /\ network' = network /\ ends' = ends
      /\ stage' = IF Len(paths') > Len(paths) /\ Len(paths') >= MaxPaths
                  THEN "found" ELSE stage
  BY DEF Visit, Unvisited, Neighbors, PathsTypeOK, TokensFit
<1>3. PICK h \in Token : h = Head(frontier[side])
  BY <1>2, LayerParts
<1>4. /\ mark' = [mark EXCEPT ![side][n] = gen]
      /\ parent' = [parent EXCEPT ![side][n] = h]
  BY <1>1, <1>2, <1>3
<1>5. {h, n} \in network /\ {n, h} \in network /\ mark[side][n] # gen
  <2>1. n \in Neighbors(h) /\ ~Visited(side, n)
    BY <1>3 DEF Unvisited
  <2>2. {h, n} = {n, h}
    OBVIOUS
  <2>3. QED
    BY <1>2, <2>1, <2>2 DEF Neighbors, Visited
<1>6. depth \in Int /\ depth >= 1 /\ depth <= MaxDepthPerSide
      /\ MaxDepthPerSide + MaxDepthPerSide <= MaxHops /\ MaxHops \in Nat
      /\ MaxDepthPerSide \in Int
  <2>1. MaxDepthPerSide \in Nat /\ MaxDepthPerSide + MaxDepthPerSide <= MaxHops /\ MaxHops \in Nat
    BY BoundsAssumption DEF MaxDepthPerSide, SidesMeet
  <2>2. depth # 0
    BY <1>2 DEF HasRoom
  <2>3. QED
    BY <2>1, <2>2 DEF PathsTypeOK
<1>7. /\ ends \in [Side -> Token] /\ ends["forward"] # ends["backward"]
      /\ \A i \in DOMAIN frontier[side] : Reached(side, frontier[side][i], LayerDepth(side))
  BY <1>2 DEF JoinInv, TreesGrow
<1>8. /\ mark'[side][n] = gen /\ parent'[side][n] = h
      /\ \A x \in Token : x # n => /\ mark'[side][x] = mark[side][x]
                                   /\ parent'[side][x] = parent[side][x]
      /\ \A s \in Side : s # side => mark'[s] = mark[s] /\ parent'[s] = parent[s]
  BY <1>2, <1>4 DEF PathsTypeOK
<1> DEFINE o == Other(side)
<1>9. o \in Side /\ o # side /\ \A s \in Side : s = side \/ s = o
  BY DEF Other, Side
<1>10. /\ LayerDepth(side) = depth - 1
       /\ LayerDepth(o) \in Nat
       /\ LayerDepth(o) = IF side = "backward" THEN depth ELSE depth - 1
  <2>1. side = "forward" => o = "backward"
    BY DEF Other
  <2>2. side = "backward" => o = "forward"
    BY DEF Other
  <2>3. side = "forward" \/ side = "backward"
    BY DEF Side
  <2>4. QED
    BY <1>2, <1>6, <2>1, <2>2, <2>3 DEF LayerDepth
<1>11. /\ Layered(network, ends[side], depth - 1, Seen(side), Range(next), Range(frontier[side]))
       /\ Layered(network, ends[o], LayerDepth(o), Seen(o), {}, Range(frontier[o]))
       /\ \A m \in Token : {h, m} \in network => m \in Seen(side) \/ m > cursor
       /\ \A t \in Seen(o) : Reached(o, t, LayerDepth(o))
  <2>1. Fresh(side) = Range(next) /\ Fresh(o) = {}
    BY <1>2, <1>9 DEF Fresh
  <2>2. QED
    BY <1>2, <1>3, <1>9, <1>10, <2>1 DEF ShortInv, LayersAreExact
<1>12. Seen(side)' = Seen(side) \cup {n} /\ Seen(o)' = Seen(o)
  BY <1>2, <1>8, <1>9 DEF Seen
<1>13. h \in Range(frontier[side]) /\ Range(next') = Range(next) \cup {n}
  BY <1>1, <1>2, <1>3, RangeParts
<1>14. Reached(side, n, depth)'
  <2>1. PICK d \in Nat : d = depth - 1
    BY <1>6
  <2>2. 1 \in DOMAIN frontier[side] /\ h = frontier[side][1]
    BY <1>2, <1>3
  <2>3. Reached(side, h, d)
    BY <1>7, <1>10, <2>1, <2>2
  <2>4. Reached(side, n, d + 1)'
    BY <1>2, <1>5, <1>8, <2>3, OneStepFurther
  <2>5. d + 1 = depth'
    BY <1>2, <1>6, <2>1
  <2>6. QED
    BY <2>4, <2>5 DEF Reached
<1>15. ASSUME NEW t, NEW d \in Int, Reached(o, t, d)
       PROVE  Reached(o, t, d)'
  <2>1. \A x \in Token : mark[o][x] = gen => mark'[o][x] = gen /\ parent'[o][x] = parent[o][x]
    BY <1>8, <1>9
  <2>2. UNCHANGED <<network, ends, gen>> /\ d <= d
    BY <1>2
  <2> HIDE DEF o
  <2>3. QED
    BY <1>15, <2>1, <2>2, ReachedStays
<1>16. LayersAreExact'
  <2> SUFFICES ASSUME stage' = side PROVE LayersAreExact'
    BY <1>2 DEF LayersAreExact, Side
  <2> HIDE DEF o
  <2>1. LayerDepth(side)' = depth - 1 /\ LayerDepth(o)' = LayerDepth(o)
    BY <1>2, <1>10 DEF LayerDepth
  <2>2. Fresh(side)' = Range(next') /\ Fresh(o)' = {}
    BY <1>2, <1>9 DEF Fresh
  <2>3. Layered(network, ends[side], LayerDepth(side), Seen(side), Fresh(side), Range(frontier[side]))'
    <3> DEFINE e == ends[side]
               k == depth - 1
               seen == Seen(side)
               fresh == Range(next)
               front == Range(frontier[side])
    <3>1. k \in Nat /\ Layered(network, e, k, seen, fresh, front) /\ h \in front
      BY <1>6, <1>11, <1>13
    <3> HIDE DEF e, k, seen, fresh, front
    <3>2. Layered(network, e, k, seen \cup {n}, fresh \cup {n}, front)
      BY <1>2, <1>5, <3>1, LayerGrows
    <3>3. /\ e = ends'[side] /\ k = LayerDepth(side)' /\ seen \cup {n} = Seen(side)'
          /\ fresh \cup {n} = Fresh(side)' /\ front = Range(frontier'[side])
      BY <1>2, <1>12, <1>13, <2>1, <2>2 DEF e, k, seen, fresh, front
    <3>4. QED
      BY <1>2, <3>2, <3>3
  <2>4. Layered(network, ends[o], LayerDepth(o), Seen(o), Fresh(o), Range(frontier[o]))'
    BY <1>2, <1>11, <1>12, <2>1, <2>2
  <2>5. ASSUME NEW m \in Token, {h, m} \in network PROVE m \in Seen(side)' \/ m > cursor'
    <3>1. CASE m \in Seen(side) \/ m = n
      BY <1>12, <3>1
    <3>2. CASE m \notin Seen(side) /\ m # n
      <4>1. m > cursor /\ ~Visited(side, m)
        BY <1>11, <2>5, <3>2 DEF Visited, Seen
      <4>2. m # h
        <5>1. h \in Seen(side)
          BY <1>11, <1>13 DEF Layered
        <5>2. QED
          BY <3>2, <5>1
      <4>3. m \in Unvisited(side)
        BY <1>3, <2>5, <4>1, <4>2 DEF Unvisited, Neighbors
      <4>4. n <= m /\ n \in Int /\ m \in Int
        BY <1>1, <1>2, <4>3, TokenAssumption
      <4>5. QED
        BY <1>1, <3>2, <4>4
    <3>3. QED
      BY <3>1, <3>2
  <2>6. ASSUME NEW t \in Seen(o)' PROVE Reached(o, t, LayerDepth(o))'
    <3>1. PICK d \in Int : d = LayerDepth(o)
      BY <1>10
    <3>2. Reached(o, t, d)
      BY <1>11, <1>12, <3>1
    <3>3. Reached(o, t, d)'
      BY <1>15, <3>2
    <3>4. d = LayerDepth(o)'
      BY <2>1, <3>1
    <3>5. QED
      BY <3>3, <3>4 DEF Reached
  <2>7. Head(frontier'[side]) = h /\ network' = network
    BY <1>2, <1>3
  <2>8. QED
    BY <1>9, <2>3, <2>4, <2>5, <2>6, <2>7 DEF LayersAreExact
<1>17. paths' = paths \/ paths' = Append(paths, Path(parent', n))
  BY <1>1 DEF Recorded
<1>18. CASE paths # <<>>
  <2> DEFINE path == Path(parent', n)
  <2>1. PICK T : paths \in Seq(T)
    BY DEF HasRoom
  <2>2. paths' = paths \/ paths' = Append(paths, path)
    BY <1>17
  <2> HIDE DEF path
  <2>3. paths' # <<>> /\ paths'[1] = paths[1]
    BY <1>18, <2>1, <2>2
  <2>4. QED
    BY <1>2, <1>7, <1>16, <1>18, <2>3 DEF ShortInv, FirstIsShortest
<1>19. CASE paths = <<>> /\ paths' = paths
  <2>1. stage' = side
    <3>1. ~(Len(paths') > Len(paths))
      BY <1>19
    <3>2. QED
      BY <1>2, <3>1
  <2>2. ~Visited(o, n)
    <3>1. Append(paths, Path(parent', n)) # paths
      BY <1>19
    <3>2. Range(paths) = {}
      BY <1>19 DEF Range
    <3>3. QED
      BY <1>1, <1>19, <3>1, <3>2 DEF Recorded
  <2>3. n \notin Seen(o)
    BY <1>2, <2>2 DEF Visited, Seen
  <2>4. Seen("forward") \cap Seen("backward") = {}
    BY <1>2, <1>19 DEF ShortInv, FirstIsShortest
  <2>5. (Seen("forward") \cap Seen("backward") = {})'
    <3>1. Seen(side) \cap Seen(o) = {}
      BY <2>4 DEF Other, Side
    <3>2. Seen(side)' \cap Seen(o)' = {}
      BY <1>12, <2>3, <3>1
    <3>3. QED
      BY <3>2 DEF Other, Side
  <2>6. stage' # "found"
    BY <2>1 DEF Side
  <2>7. QED
    BY <1>16, <1>19, <2>5, <2>6 DEF ShortInv, FirstIsShortest
<1>20. CASE paths = <<>> /\ paths' # paths
  <2> DEFINE path == Path(parent', n)
    <2>1. paths' = Append(paths, path) /\ Visited(o, n)
    BY <1>1, <1>20 DEF Recorded
  <2>2. PICK a \in Int, b \in Int : a = depth /\ b = LayerDepth(o)
    BY <1>6, <1>10
  <2>3. Reached(o, n, b)'
    <3>1. n \in Seen(o)
      BY <1>2, <2>1 DEF Visited, Seen
    <3>2. QED
      BY <1>11, <1>15, <2>2, <3>1
  <2>4. Reached(side, n, a)' /\ Reached(o, n, b)'
    <3>1. a = depth'
      BY <1>2, <2>2
    <3>2. QED
      BY <1>14, <2>3, <3>1
  <2>5. a + b <= MaxHops
    <3>1. b <= a
      BY <1>6, <1>10, <2>2
    <3>2. a <= MaxDepthPerSide
      BY <1>6, <2>2
    <3>3. QED
      BY <1>6, <3>1, <3>2
  <2>6. Len(path) - 1 <= a + b
    <3>1. ends'["forward"] # ends'["backward"]
      BY <1>2, <1>7
    <3>2. CASE side = "forward"
      <4>1. o = "backward"
        BY <3>2 DEF Other
      <4>2. QED
        BY <2>4, <2>5, <3>1, <3>2, <4>1, SidesJoin
    <3>3. CASE side = "backward"
      <4>1. o = "forward" /\ b + a = a + b
        BY <2>2, <3>3 DEF Other
      <4>2. QED
        BY <2>4, <2>5, <3>1, <3>3, <4>1, SidesJoin
    <3>4. QED
      BY <3>2, <3>3 DEF Side
  <2>7. Seen(side) \cap Seen(o) = {}
    <3>1. Seen("forward") \cap Seen("backward") = {}
      BY <1>2, <1>20 DEF ShortInv, FirstIsShortest
    <3>2. QED
      BY <3>1 DEF Other, Side
  <2>8. ASSUME NEW d \in Nat, Near(network, ends["forward"], ends["backward"], d)
        PROVE  d > (a - 1) + b
    <3>1. a - 1 \in Nat /\ b \in Nat
      BY <1>6, <1>10, <2>2
    <3>2. PICK x \in Nat : x = a - 1
      BY <3>1
    <3>3. /\ Layered(network, ends[side], x, Seen(side), Range(next), Range(frontier[side]))
          /\ Layered(network, ends[o], b, Seen(o), {}, Range(frontier[o]))
      BY <1>11, <2>2, <3>2
    <3>4. CASE side = "forward"
      <4>1. o = "backward"
        BY <3>4 DEF Other
      <4>2. d > x + b
        BY <2>7, <2>8, <3>1, <3>3, <3>4, <4>1, Apart
      <4>3. QED
        BY <3>2, <4>2
    <3>5. CASE side = "backward"
      <4>1. o = "forward"
        BY <3>5 DEF Other
      <4>2. Seen(o) \cap Seen(side) = {}
        BY <2>7
      <4>3. d > b + x
        BY <2>8, <3>1, <3>3, <3>5, <4>1, <4>2, Apart
      <4>4. QED
        BY <3>1, <3>2, <4>3
    <3>6. QED
      BY <3>4, <3>5 DEF Side
  <2> HIDE DEF path
  <2>9. paths' # <<>> /\ paths'[1] = path
    BY <1>20, <2>1
  <2>10. Len(path) \in Int
    <3>1. PathsAreJoined'
      BY VisitJoin DEF JoinInv
    <3>2. Joins(paths'[1], ends'["forward"], ends'["backward"], network')
      <4>1. 1 \in DOMAIN paths'
        BY <1>20, <2>1
      <4>2. QED
        BY <3>1, <4>1 DEF PathsAreJoined
    <3>3. QED
      BY <2>9, <3>2, BoundsAssumption DEF Joins
  <2>11. ASSUME NEW d \in Nat, Near(network', ends'["forward"], ends'["backward"], d)
         PROVE  Len(paths'[1]) - 1 <= d
    <3>1. d > (a - 1) + b
      BY <1>2, <2>8, <2>11
    <3>2. QED
      BY <2>6, <2>9, <2>10, <3>1
  <2>12. QED
    BY <1>2, <1>7, <1>16, <2>9, <2>11 DEF ShortInv, FirstIsShortest
<1>21. QED
  BY <1>18, <1>19, <1>20

\* A token whose neighbours have all been visited leaves its layer.
LEMMA NextTokenShort ==
  ASSUME PathsInv, JoinInv, TokensFit, ShortInv, NEW side \in Side, NextToken(side)
  PROVE  ShortInv'
<1> USE DEF PathsInv
<1>1. /\ gen' = gen /\ mark' = mark /\ parent' = parent /\ network' = network
      /\ ends' = ends /\ stage' = stage /\ depth' = depth /\ next' = next
      /\ paths' = paths /\ stage = side /\ cursor' = -1
      /\ frontier' = [frontier EXCEPT ![side] = Tail(frontier[side])]
      /\ frontier[side] # <<>> /\ Unvisited(side) = {}
  BY DEF NextToken, arenaVars
<1>2. frontier[side] \in Seq(Token)
  BY DEF PathsTypeOK
<1>3. PICK h \in Token : h = Head(frontier[side])
  BY <1>1, <1>2, LayerParts
<1>4. \A s \in Side : /\ Seen(s)' = Seen(s) /\ Fresh(s)' = Fresh(s)
                      /\ LayerDepth(s)' = LayerDepth(s)
  BY <1>1 DEF Seen, Fresh, LayerDepth
<1>5. ASSUME NEW s, NEW t, NEW d, Reached(s, t, d)
      PROVE  Reached(s, t, d)'
  BY <1>1, <1>5 DEF Reached, Climbed
<1>6. \A n \in Token : n > cursor'
  BY <1>1, TokenAssumption
<1>7. ASSUME NEW n \in Token, {h, n} \in network PROVE n \in Seen(side)
  <2>1. n \in Seen(side) \/ n > cursor
    BY <1>1, <1>3, <1>7 DEF ShortInv, LayersAreExact
  <2>2. h \in Seen(side)
    <3>1. h \in Range(frontier[side])
      BY <1>1, <1>2, <1>3, RangeParts
    <3>2. QED
      BY <1>1, <3>1 DEF ShortInv, LayersAreExact, Layered
  <2>3. ASSUME n \notin Seen(side) PROVE FALSE
    <3>1. n \in Unvisited(side)
      BY <1>3, <1>7, <2>1, <2>2, <2>3 DEF Unvisited, Neighbors, Visited, Seen
    <3>2. QED
      BY <1>1, <3>1
  <2>4. QED
    BY <2>3
<1>8. ASSUME NEW s \in Side
      PROVE  Layered(network, ends[s], LayerDepth(s), Seen(s), Fresh(s), Range(frontier[s]))'
  <2>1. Layered(network, ends[s], LayerDepth(s), Seen(s), Fresh(s), Range(frontier[s]))
    BY <1>1 DEF ShortInv, LayersAreExact
  <2>2. CASE s = side
    <3> DEFINE front == Range(frontier[side])
               rest == Range(Tail(frontier[side]))
               seen == Seen(side)
               fresh == Fresh(side)
               k == LayerDepth(side)
               e == ends[side]
    <3>1. rest \subseteq front /\ front \subseteq rest \cup {h}
      BY <1>1, <1>2, <1>3, RangeParts
    <3>2. Layered(network, e, k, seen, fresh, front) /\ \A n \in Token : {h, n} \in network => n \in seen
      BY <1>7, <2>1, <2>2
    <3>3. k \in Nat
      <4>1. depth # 0
        BY <1>1 DEF HasRoom
      <4>2. depth \in Nat
        BY BoundsAssumption DEF PathsTypeOK, MaxDepthPerSide
      <4>3. QED
        BY <4>1, <4>2 DEF LayerDepth
    <3>4. frontier'[s] = Tail(frontier[side])
      BY <1>1, <2>2 DEF JoinInv, TreesGrow
    <3>5. /\ rest = Range(frontier'[s]) /\ seen = Seen(s)' /\ fresh = Fresh(s)'
          /\ k = LayerDepth(s)' /\ e = ends'[s]
      BY <1>1, <1>4, <2>2, <3>4
    <3> HIDE DEF front, rest, seen, fresh, k, e
    <3>6. Layered(network, e, k, seen, fresh, rest)
      BY <3>1, <3>2, <3>3, LayerShrinks
    <3>7. QED
      BY <1>1, <3>5, <3>6
  <2>3. CASE s # side
    <3>1. frontier'[s] = frontier[s]
      BY <1>1, <2>3
    <3>2. QED
      BY <1>1, <1>4, <2>1, <3>1
  <2>4. QED
    BY <2>2, <2>3
<1>9. ASSUME NEW s \in Side, s # side, NEW t \in Seen(s)'
      PROVE  Reached(s, t, LayerDepth(s))'
  <2>1. PICK d : d = LayerDepth(s)
    OBVIOUS
  <2>2. Reached(s, t, d)
    BY <1>1, <1>4, <1>9, <2>1 DEF ShortInv, LayersAreExact
  <2>3. Reached(s, t, d)' /\ d = LayerDepth(s)'
    BY <1>4, <1>5, <2>1, <2>2
  <2>4. QED
    BY <2>3 DEF Reached
<1>10. LayersAreExact'
  BY <1>1, <1>6, <1>8, <1>9 DEF LayersAreExact
<1>11. FirstIsShortest'
  BY <1>1, <1>4 DEF ShortInv, FirstIsShortest, Side
<1>12. QED
  BY <1>10, <1>11 DEF ShortInv

\* A layer that is complete lets its side begin the next one, and the search end when both
\* sides are as deep as they go or have nothing left.
LEMMA NextLayerShort ==
  ASSUME PathsInv, JoinInv, TokensFit, SidesMeet, ShortInv, NEW side \in Side, NextLayer(side)
  PROVE  ShortInv'
<1> USE DEF PathsInv
<1> DEFINE o == Other(side)
           Net == network
<1>1. /\ gen' = gen /\ mark' = mark /\ parent' = parent /\ network' = network
      /\ ends' = ends /\ next' = <<>> /\ paths' = paths /\ stage = side /\ cursor' = -1
      /\ frontier' = [frontier EXCEPT ![side] = next] /\ frontier[side] = <<>>
      /\ \/ side = "forward" /\ stage' = "backward" /\ depth' = depth
         \/ /\ side = "backward" /\ stage' = "found"
            /\ depth = MaxDepthPerSide \/ \A s \in Side : frontier'[s] = <<>>
         \/ side = "backward" /\ stage' = "forward" /\ depth' = depth + 1
  BY DEF NextLayer, arenaVars, Side
<1>2. /\ depth \in Nat /\ depth - 1 \in Nat /\ (depth - 1) + 1 = depth
      /\ MaxHops = MaxDepthPerSide + MaxDepthPerSide
      /\ ends \in [Side -> Token] /\ DOMAIN frontier = Side
  <2>1. MaxDepthPerSide \in Nat /\ MaxHops = MaxDepthPerSide + MaxDepthPerSide
    BY BoundsAssumption DEF MaxDepthPerSide, SidesMeet
  <2>2. depth # 0
    BY <1>1 DEF HasRoom
  <2>3. ends \in [Side -> Token] /\ DOMAIN frontier = Side
    BY <1>1 DEF JoinInv, TreesGrow
  <2>4. QED
    BY <2>1, <2>2, <2>3 DEF PathsTypeOK
<1>3. o \in Side /\ o # side /\ (\A s \in Side : s = side \/ s = o)
      /\ (side = "forward" => o = "backward") /\ (side = "backward" => o = "forward")
  BY DEF Other, Side
<1>4. \A s \in Side : Seen(s)' = Seen(s)
  BY <1>1 DEF Seen
<1>5. /\ LayerDepth(side) = depth - 1
      /\ LayerDepth(o) = IF side = "forward" THEN depth - 1 ELSE depth
  BY <1>1, <1>3 DEF LayerDepth, Side
<1>6. Range(<<>>) = {}
  BY DEF Range
<1>7. /\ Layered(network, ends[side], depth - 1, Seen(side), Range(next), {})
      /\ Layered(network, ends[o], LayerDepth(o), Seen(o), {}, Range(frontier[o]))
      /\ \A t \in Seen(o) : Reached(o, t, LayerDepth(o))
  <2>1. Fresh(side) = Range(next) /\ Fresh(o) = {}
    BY <1>1, <1>3 DEF Fresh
  <2>2. QED
    BY <1>1, <1>3, <1>5, <1>6, <2>1 DEF ShortInv, LayersAreExact
<1>8. Layered(network, ends[side], depth, Seen(side), {}, Range(next))
  <2> DEFINE e == ends[side]
             seen == Seen(side)
             fresh == Range(next)
  <2>1. PICK k \in Nat : k = depth - 1 /\ k + 1 = depth
    BY <1>2
  <2>2. Layered(network, e, k, seen, fresh, {})
    BY <1>7, <2>1
  <2> HIDE DEF e, seen, fresh
  <2>3. Layered(network, e, k + 1, seen, {}, fresh)
    BY <2>2, LayerEnds
  <2>4. QED
    BY <2>1, <2>3 DEF e, seen, fresh
<1>9. ASSUME NEW s, NEW t, NEW d, Reached(s, t, d)
      PROVE  Reached(s, t, d)'
  BY <1>1, <1>9 DEF Reached, Climbed
<1>10. \A t \in Seen(side) : Reached(side, t, depth)
  BY <1>1 DEF JoinInv, TreesGrow, Seen
<1>11. frontier'[side] = next /\ frontier'[o] = frontier[o]
  BY <1>1, <1>2, <1>3
<1>12. CASE stage' = "found"
  <2>1. side = "backward" /\ o = "forward"
    BY <1>1, <1>3, <1>12
  <2>2. ASSUME paths = <<>>, NEW j \in 0..MaxHops,
               Near(network, ends["forward"], ends["backward"], j)
        PROVE  FALSE
    <3>1. Seen("forward") \cap Seen("backward") = {}
      BY <1>1, <2>2 DEF ShortInv, FirstIsShortest
    <3>2. PICK x \in Nat : x = depth
      BY <1>2
    <3>3. /\ Layered(network, ends["forward"], x, Seen("forward"), {}, Range(frontier["forward"]))
          /\ Layered(network, ends["backward"], x, Seen("backward"), {}, Range(next))
      BY <1>5, <1>7, <1>8, <2>1, <3>2
    <3>4. j \in Nat
      OBVIOUS
    <3>5. CASE depth = MaxDepthPerSide
      <4>1. j > x + x
        BY <2>2, <3>1, <3>3, <3>4, Apart
      <4>2. QED
        BY <1>2, <3>2, <3>5, <4>1
    <3>6. CASE \A s \in Side : frontier'[s] = <<>>
      <4>1. Range(frontier["forward"]) = {}
        BY <1>3, <1>6, <1>11, <2>1, <3>6
      <4>2. Layered(network, ends["forward"], x, Seen("forward"), {}, {})
        BY <3>3, <4>1
      <4>3. QED
        BY <2>2, <3>1, <3>3, <3>4, <4>2, Unconnected
    <3>7. QED
      BY <1>1, <1>12, <3>5, <3>6
  <2>3. LayersAreExact'
    BY <1>12 DEF LayersAreExact, Side
  <2>4. FirstIsShortest'
    <3>1. ends' \in [Side -> Token] /\ stage' \notin Side
      BY <1>1, <1>2, <1>12 DEF Side
    <3>2. QED
      BY <1>1, <1>12, <2>2, <3>1 DEF ShortInv, FirstIsShortest
  <2>5. QED
    BY <2>3, <2>4 DEF ShortInv
<1>13. CASE stage' # "found"
  <2>1. /\ stage' = o
        /\ LayerDepth(side)' = depth
        /\ LayerDepth(o)' = LayerDepth(o)
    <3>1. CASE side = "forward" /\ stage' = "backward" /\ depth' = depth
      BY <1>3, <1>5, <3>1 DEF LayerDepth
    <3>2. CASE side = "backward" /\ stage' = "forward" /\ depth' = depth + 1
      BY <1>2, <1>3, <1>5, <3>2 DEF LayerDepth
    <3>3. QED
      BY <1>1, <1>13, <3>1, <3>2
  <2> HIDE DEF o
  <2>2. Fresh(side)' = {} /\ Fresh(o)' = {}
    BY <1>1, <1>3, <1>6, <2>1 DEF Fresh
  <2>3. Layered(network, ends[side], LayerDepth(side), Seen(side), Fresh(side), Range(frontier[side]))'
    BY <1>1, <1>4, <1>8, <1>11, <2>1, <2>2
  <2>4. Layered(network, ends[o], LayerDepth(o), Seen(o), Fresh(o), Range(frontier[o]))'
    BY <1>1, <1>3, <1>4, <1>7, <1>11, <2>1, <2>2
  <2>5. \A n \in Token : n > cursor'
    BY <1>1, TokenAssumption
  <2>6. ASSUME NEW t \in Seen(side)' PROVE Reached(side, t, LayerDepth(side))'
    <3>1. PICK d : d = depth
      OBVIOUS
    <3>2. Reached(side, t, d)'
      BY <1>4, <1>9, <1>10, <3>1
    <3>3. d = LayerDepth(side)'
      BY <2>1, <3>1
    <3>4. QED
      BY <3>2, <3>3 DEF Reached
  <2>7. LayersAreExact'
    BY <1>3, <2>1, <2>3, <2>4, <2>5, <2>6 DEF LayersAreExact
  <2>8. FirstIsShortest'
    BY <1>1, <1>4, <1>13 DEF ShortInv, FirstIsShortest, Side
  <2>9. QED
    BY <2>7, <2>8 DEF ShortInv
<1>14. QED
  BY <1>12, <1>13

\* An arena without a search.
LEMMA IdleShort ==
  ASSUME stage' = "idle", paths' = <<>>
  PROVE  ShortInv'
<1>1. LayersAreExact'
  BY DEF LayersAreExact, Side
<1>2. FirstIsShortest'
  BY DEF FirstIsShortest, Side
<1>3. QED
  BY <1>1, <1>2 DEF ShortInv

\* No search runs.
LEMMA InitShort == Init => ShortInv
<1> SUFFICES ASSUME Init PROVE ShortInv
  OBVIOUS
<1>1. LayersAreExact
  BY DEF Init, LayersAreExact, Side
<1>2. FirstIsShortest
  BY DEF Init, FirstIsShortest, Side
<1>3. QED
  BY <1>1, <1>2 DEF ShortInv

LEMMA StutterShort ==
  ASSUME ShortInv, UNCHANGED vars
  PROVE  ShortInv'
<1>1. /\ gen' = gen /\ mark' = mark /\ parent' = parent /\ network' = network
      /\ ends' = ends /\ stage' = stage /\ depth' = depth /\ next' = next
      /\ paths' = paths /\ cursor' = cursor /\ frontier' = frontier
  BY DEF vars, arenaVars, layerVars
<1>2. LayersAreExact'
  <2>1. \A s \in Side : Seen(s)' = Seen(s) /\ Fresh(s)' = Fresh(s) /\ LayerDepth(s)' = LayerDepth(s)
    BY <1>1 DEF Seen, Fresh, LayerDepth
  <2>2. \A s, t, d : Reached(s, t, d) => Reached(s, t, d)'
    BY <1>1 DEF Reached, Climbed
  <2>3. ASSUME NEW s \in Side, s # stage, stage \in Side, NEW t \in Seen(s)'
        PROVE  Reached(s, t, LayerDepth(s))'
    <3>1. PICK d : d = LayerDepth(s)
      OBVIOUS
    <3>2. Reached(s, t, d)
      BY <2>1, <2>3, <3>1 DEF ShortInv, LayersAreExact
    <3>3. Reached(s, t, d)' /\ d = LayerDepth(s)'
      BY <2>1, <2>2, <3>1, <3>2
    <3>4. QED
      BY <3>3 DEF Reached
  <2>4. QED
    BY <1>1, <2>1, <2>3 DEF ShortInv, LayersAreExact
<1>3. FirstIsShortest'
  BY <1>1 DEF ShortInv, FirstIsShortest, Seen
<1>4. QED
  BY <1>2, <1>3 DEF ShortInv

LEMMA ShortInvHolds ==
  ASSUME TokensFit, SidesMeet
  PROVE  Spec => []ShortInv
<1>1. PathsInv /\ JoinInv /\ ShortInv /\ [Next]_vars => ShortInv'
  <2> SUFFICES ASSUME PathsInv, JoinInv, ShortInv, [Next]_vars PROVE ShortInv'
    OBVIOUS
  <2>1. CASE served < Len(Requests) /\ \E r \in Requests[served + 1] : Start(r)
    BY <2>1, StartShort
  <2>2. CASE \E side \in Side : Visit(side) \/ NextToken(side) \/ NextLayer(side)
    BY <2>2, VisitShort, NextTokenShort, NextLayerShort
  <2>3. CASE Release
    <3>1. stage' = "idle" /\ paths' = <<>>
      BY <2>3 DEF Release
    <3>2. QED
      BY <3>1, IdleShort
  <2>4. CASE NewArena
    <3>1. stage' = "idle" /\ paths' = <<>>
      BY <2>4 DEF NewArena, PathsInv, HasRoom
    <3>2. QED
      BY <3>1, IdleShort
  <2>5. CASE UNCHANGED vars
    BY <2>5, StutterShort
  <2>6. QED
    BY <2>1, <2>2, <2>3, <2>4, <2>5 DEF Next
<1>2. QED
  BY <1>1, InitShort, InvHolds, JoinInvHolds, PTL DEF Spec

-----------------------------------------------------------------------------
\* Types: among them that the search never records more paths than the arena
\* has storage for (pathfinder.go:43, 297).
THEOREM PathsTypeCorrect == Spec => []PathsTypeOK
<1>1. PathsInv => PathsTypeOK
  BY DEF PathsInv
<1> QED BY <1>1, InvHolds, PTL

\* The generation tells the searches of an arena apart, also when it comes
\* round (pathfinder.go:87-97).
THEOREM ArenaStaysClean == Spec => []ArenaIsClean
<1>1. PathsInv => ArenaIsClean
  BY DEF PathsInv
<1> QED BY <1>1, InvHolds, PTL

\* Whatever the arena was used for before, a path that is returned leads from the one
\* token to the other over pools of this snapshot (pathfinder.go:292-371), when the
\* arena has a place for every token and MaxHops is even, as it is.
THEOREM PathsJoin ==
  ASSUME TokensFit, SidesMeet
  PROVE  Spec => []PathsJoinEnds
<1>1. JoinInv => PathsJoinEnds
  BY DEF JoinInv, PathsAreJoined, PathsJoinEnds, Joins
<1>2. QED
  BY <1>1, JoinInvHolds, PTL

\* A search finds a path exactly when there is one of at most MaxHops hops, and a shortest
\* one first (pathfinder.go:195-345): why the caller may take the first as the
\* cheapest in hops, and why no answer means that there is none.
THEOREM ShortestFirst ==
  ASSUME TokensFit, SidesMeet
  PROVE  Spec => []FirstPathIsShortest
<1>1. PathsInv /\ JoinInv /\ ShortInv => FirstPathIsShortest
  <2> SUFFICES ASSUME PathsInv, JoinInv, ShortInv, stage = "found" PROVE FirstPathIsShortest
    BY DEF FirstPathIsShortest
  <2> DEFINE a == ends["forward"]
             b == ends["backward"]
             hops == {k \in 0..MaxHops : b \in Within[k]}
  <2>1. a \in Token /\ b \in Token
    BY DEF ShortInv, FirstIsShortest, Side
  <2>2. \A k \in 0..MaxHops : b \in Within[k] <=> Near(network, a, b, k)
    BY <2>1, WithinIsNear DEF Around
  <2>3. CASE paths = <<>>
    <3>1. hops = {}
      BY <2>2, <2>3 DEF ShortInv, FirstIsShortest
    <3>2. QED
      BY <2>3, <3>1 DEF FirstPathIsShortest
  <2>4. CASE paths # <<>>
    <3>1. Joins(paths[1], a, b, network)
      <4>1. 1 \in DOMAIN paths
        BY <2>4 DEF PathsInv, HasRoom
      <4>2. QED
        BY <4>1 DEF JoinInv, PathsAreJoined
    <3>2. network \subseteq SUBSET Token
      BY DEF PathsInv, PathsTypeOK
    <3> DEFINE k == Len(paths[1]) - 1
    <3>3. k \in 0..MaxHops /\ Near(network, a, b, k)
      BY <3>1, <3>2, JoinsNear
    <3>4. \A j \in 0..MaxHops : Near(network, a, b, j) => k <= j
      BY <2>4 DEF ShortInv, FirstIsShortest
    <3> HIDE DEF a, b
    <3>5. k \in hops /\ \A j \in hops : k <= j
      BY <2>2, <3>3, <3>4
    <3>6. hops \subseteq Int
      BY <3>3
    <3> HIDE DEF hops, k
    <3>7. k = Min(hops)
      <4>1. \E x \in hops : \A y \in hops : x <= y
        BY <3>5
      <4>2. Min(hops) \in hops /\ \A y \in hops : Min(hops) <= y
        BY <4>1 DEF Min
      <4>3. Min(hops) <= k /\ k <= Min(hops) /\ k \in Int /\ Min(hops) \in Int
        BY <3>5, <3>6, <4>2
      <4>4. QED
        BY <4>3
    <3>8. hops # {}
      BY <3>5
    <3>9. QED
      BY <2>4, <3>7, <3>8 DEF FirstPathIsShortest, hops, k, b
  <2>5. QED
    BY <2>3, <2>4
<1>2. QED
  BY <1>1, InvHolds, JoinInvHolds, ShortInvHolds, PTL
=============================================================================
