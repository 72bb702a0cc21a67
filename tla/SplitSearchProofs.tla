-------------------------- MODULE SplitSearchProofs -------------------------
(***************************************************************************)
(* The answer of SplitSearch is as good as every split that was evaluated, *)
(* for all curves, any three pools, any amount and both modes.             *)
(*                                                                         *)
(* While a search runs its splits are measured against inner, those of the *)
(* searches before it against best; the invariant says that each split is  *)
(* covered by one of the two, and that nothing is left in inner when a     *)
(* search has been handed over.                                            *)
(*                                                                         *)
(* The second part is about the percentages: the window of the two-way     *)
(* search and the three of the other stay in bounds, and so does every     *)
(* split that is made of them.                                             *)
(*                                                                         *)
(* The third is about what the halving reaches where the output of a pair  *)
(* is a concave function of its percentage: a split next to an optimum.    *)
(***************************************************************************)
EXTENDS SplitSearch, TLAPS, WellFoundedInduction, FiniteSetTheorems

Valued(s) == s.in \in Int /\ s.out \in Int

\* In mode m, with this split kept there is no use for that one.
Covers(m, this, that) ==
  \/ that = None
  \/ this # None /\ IF m THEN this.out >= that.out ELSE this.in <= that.in

Typed ==
  /\ exactIn \in BOOLEAN
  /\ \E n \in 1..3 : pools \in [1..n -> Curve]
  /\ lo \in MinSplitPercent..(100 - MinSplitPercent)
  /\ hi \in MinSplitPercent..(100 - MinSplitPercent)
  /\ p \in [1..3 -> Int] /\ InBounds(p)
  /\ step \in Int

Enough ==
  /\ stage \in {"probe", "halve"} => {1, 2} \subseteq DOMAIN pools
  /\ stage \in {"even", "adjust"} => {1, 2, 3} \subseteq DOMAIN pools

Covered ==
  /\ Valued(inner) /\ Valued(best)
  /\ \A s \in tried : Valued(s) /\ (Covers(exactIn, best, s) \/ Covers(exactIn, inner, s))
  /\ stage \in {"single", "probe", "even", "done"} => inner = None

SplitInv == Typed /\ Enough /\ Covered

LEMMA NoneValued == Valued(None)
  BY DEF Valued, None

\* Covers is what Better denies.
LEMMA NotBetterCovers ==
  ASSUME NEW old, NEW s, Valued(old), Valued(s), exactIn \in BOOLEAN
  PROVE  Covers(exactIn, old, s) <=> s = None \/ ~Better(s, old)
  BY DEF Better, Covers, Valued

\* Coverage goes on through a chain, and every split covers itself.
LEMMA CoversChain ==
  ASSUME NEW m \in BOOLEAN, NEW a, NEW b, NEW c, Valued(a), Valued(b), Valued(c)
  PROVE  /\ Covers(m, a, a)
         /\ Covers(m, a, None)
         /\ Covers(m, a, b) /\ Covers(m, b, c) => Covers(m, a, c)
         /\ Covers(m, None, c) => Covers(m, a, c)
  BY DEF Covers, Valued

\* What is kept covers what there was and what came.
LEMMA KeepCovers ==
  ASSUME NEW old, NEW new, Valued(old), Valued(new), exactIn \in BOOLEAN
  PROVE  /\ Valued(Keep(old, new))
         /\ Covers(exactIn, Keep(old, new), new)
         /\ Covers(exactIn, Keep(old, new), old)
  BY DEF Keep, Better, Covers, Valued

\* The two amounts of a split are numbers.
LEMMA SplitValued ==
  ASSUME NEW q, \A i \in DOMAIN q : i \in DOMAIN pools /\ q[i] \in 1..99, Typed
  PROVE  Valued(Split(q))
<1> DEFINE used == {i \in DOMAIN q : /\ q[i] >= MinSplitPercent
                                     /\ Part(q[i]) > 0
                                     /\ ~Fails(pools[i], Part(q[i]))}
           paid(i) == IF i \in used THEN Out(i, Part(q[i])) ELSE 0
<1>1. \A i \in used : Out(i, Part(q[i])) \in Int
  <2> SUFFICES ASSUME NEW i \in used PROVE Out(i, Part(q[i])) \in Int
    OBVIOUS
  <2>1. Part(q[i]) \in Amount /\ pools[i] \in Curve
    BY DEF Amount, Typed
  <2>2. Give(pools[i], Part(q[i])) \in Nat
    BY <2>1, CurveAssumption
  <2>3. Part(q[i]) \in Int
    BY NumbersAssumption DEF Part
  <2> QED BY <2>2, <2>3 DEF Out
<1>2. \A i : paid(i) \in Int
  BY <1>1
<1>3. Split(q) = IF used = {} THEN None
                 ELSE [parts |-> Restrict(q, used), in |-> Total,
                       out |-> paid(1) + paid(2) + paid(3)]
  BY DEF Split
<1>4. paid(1) + paid(2) + paid(3) \in Int
  BY <1>2
<1> HIDE DEF used, paid
<1> QED BY <1>3, <1>4, NumbersAssumption DEF Valued, None

LEMMA SingleValued ==
  ASSUME Typed
  PROVE  Valued(Single(1))
<1>1. 1 \in DOMAIN pools /\ pools[1] \in Curve
  BY DEF Typed
<1>2. Give(pools[1], Total) \in Nat /\ Take(pools[1], Total) \in Nat /\ Total \in Nat
  BY <1>1, CurveAssumption, NumbersAssumption DEF Amount
<1> QED BY <1>2 DEF Single, Valued, None, In, Out

\* Two-way splits.
LEMMA PairValued ==
  ASSUME Typed, {1, 2} \subseteq DOMAIN pools,
         NEW q \in MinSplitPercent..(100 - MinSplitPercent)
  PROVE  Valued(Split(<<q, 100 - q>>))
<1>1. \A i \in DOMAIN <<q, 100 - q>> :
        i \in DOMAIN pools /\ <<q, 100 - q>>[i] \in 1..99
  BY NumbersAssumption
<1> QED BY <1>1, SplitValued

\* Three-way splits.
LEMMA TripleValued ==
  ASSUME Typed, {1, 2, 3} \subseteq DOMAIN pools,
         NEW q \in [1..3 -> Int], InBounds(q)
  PROVE  Valued(Split(q))
<1>1. \A i \in DOMAIN q : i \in DOMAIN pools /\ q[i] \in 1..99
  BY NumbersAssumption DEF InBounds
<1> QED BY <1>1, SplitValued

\* The probes of a round are within the bounds.
LEMMA MidBounds ==
  ASSUME Typed
  PROVE  /\ Mid \in MinSplitPercent..(100 - MinSplitPercent)
         /\ MidLeft \in MinSplitPercent..(100 - MinSplitPercent)
         /\ MidRight \in MinSplitPercent..(100 - MinSplitPercent)
<1> USE NumbersAssumption
<1>1. Mid \in MinSplitPercent..(100 - MinSplitPercent)
  BY DEF Mid, Typed
<1>2. ASSUME NEW a \in Int, NEW b \in Int
      PROVE  /\ Max({a, b}) \in {a, b} /\ Max({a, b}) >= a /\ Max({a, b}) >= b
             /\ Min({a, b}) \in {a, b} /\ Min({a, b}) <= a /\ Min({a, b}) <= b
  <2>1. \E x \in {a, b} : \A y \in {a, b} : x >= y
    BY SMT
  <2>2. \E x \in {a, b} : \A y \in {a, b} : x =< y
    BY SMT
  <2> QED BY <2>1, <2>2 DEF Max, Min
<1>3. MidLeft >= MinSplitPercent /\ MidLeft \in {Mid - 2, MinSplitPercent}
  <2>1. Mid - 2 \in Int /\ MinSplitPercent \in Int
    BY <1>1
  <2> QED BY <1>2, <2>1 DEF MidLeft
<1>4. /\ MidRight <= 100 - MinSplitPercent
      /\ MidRight \in {Mid + 2, 100 - MinSplitPercent}
  <2>1. Mid + 2 \in Int /\ 100 - MinSplitPercent \in Int
    BY <1>1
  <2> QED BY <1>2, <2>1 DEF MidRight
<1> QED BY <1>1, <1>3, <1>4

LEMMA SplitInit == Init => SplitInv
<1> SUFFICES ASSUME Init PROVE SplitInv
  OBVIOUS
<1>1. Typed
  <2>1. \E n \in 1..3 : pools \in [1..n -> Curve]
    <3>1. PICK n \in 1..MaxSplits : pools \in [1..n -> Curve]
      BY DEF Init
    <3>2. n \in 1..3
      BY NumbersAssumption
    <3> QED BY <3>1, <3>2
  <2>2. p \in [1..3 -> Int] /\ InBounds(p)
    BY NumbersAssumption DEF Init, InBounds
  <2> QED BY <2>1, <2>2, NumbersAssumption DEF Init, Typed
<1>2. Enough
  BY DEF Init, Enough
<1>3. Covered
  BY NoneValued DEF Init, Covered
<1> QED BY <1>1, <1>2, <1>3 DEF SplitInv

\* Most steps leave what is typed alone.
LEMMA TypedKept ==
  ASSUME Typed, exactIn' = exactIn, pools' = pools, lo' = lo, hi' = hi, p' = p,
         step' = step
  PROVE  Typed'
  BY DEF Typed, InBounds

LEMMA SingleInv ==
  ASSUME SplitInv, TrySingle
  PROVE  SplitInv'
<1> USE DEF SplitInv
<1>1. /\ exactIn' = exactIn /\ pools' = pools /\ lo' = lo /\ hi' = hi /\ p' = p
      /\ step' = step /\ inner' = inner /\ stage = "single"
      /\ best' = Single(1) /\ tried' = {Single(1)}
      /\ stage' = IF Len(pools) = 1 THEN "done" ELSE "probe"
  BY DEF TrySingle
<1>2. Typed'
  BY <1>1, TypedKept
<1>3. Enough'
  <2>1. PICK n \in 1..3 : pools \in [1..n -> Curve]
    BY DEF Typed
  <2>2. Len(pools) = n /\ DOMAIN pools = 1..n
    BY <2>1
  <2> QED BY <1>1, <2>2 DEF Enough
<1>4. Covered'
  <2> DEFINE one == Single(1)
  <2>1. Valued(one)
    BY SingleValued
  <2>2. exactIn \in BOOLEAN
    BY DEF Typed
  <2> HIDE DEF one
  <2>3. Covers(exactIn, one, one)
    BY <2>1, <2>2, CoversChain
  <2>4. best' = one /\ tried' = {one} /\ inner' = None
    BY <1>1 DEF one, Covered
  <2> QED BY <1>1, <2>1, <2>3, <2>4, NoneValued DEF Covered
<1> QED BY <1>2, <1>3, <1>4

\* A step that keeps one more split, or compares it and drops it, covers all
\* that was covered: inner is replaced by something that covers it and what is new.
Grown ==
  \A s \in tried' : s \in tried \/ (Valued(s) /\ Covers(exactIn, inner', s))

LEMMA InnerGrows ==
  ASSUME Typed, Covered, exactIn' = exactIn, best' = best,
         Valued(inner'), Covers(exactIn, inner', inner),
         Grown, stage' \in {"halve", "adjust"}
  PROVE  Covered'
<1>1. exactIn \in BOOLEAN /\ Valued(best) /\ Valued(inner)
  BY DEF Typed, Covered
<1>2. ASSUME NEW s \in tried'
      PROVE  Valued(s) /\ (Covers(exactIn, best, s) \/ Covers(exactIn, inner', s))
  <2>1. CASE s \in tried
    <3>1. Valued(s) /\ (Covers(exactIn, best, s) \/ Covers(exactIn, inner, s))
      BY <2>1 DEF Covered
    <3> QED BY <1>1, <3>1, CoversChain
  <2>2. CASE Valued(s) /\ Covers(exactIn, inner', s)
    BY <2>2
  <2> QED BY <2>1, <2>2 DEF Grown
<1> QED BY <1>1, <1>2 DEF Covered

LEMMA ProbeInv ==
  ASSUME SplitInv, Probe
  PROVE  SplitInv'
<1> USE DEF SplitInv
<1> DEFINE low == Split(<<lo, 100 - lo>>)
           even == Split(<<50, 50>>)
           high == Split(<<hi, 100 - hi>>)
           one == Keep(None, low)
           two == Keep(one, even)
<1>1. /\ exactIn' = exactIn /\ pools' = pools /\ lo' = lo /\ hi' = hi /\ p' = p
      /\ step' = step /\ best' = best /\ stage = "probe" /\ stage' = "halve"
      /\ inner' = Keep(two, high) /\ tried' = tried \cup {low, even, high}
  BY DEF Probe
<1>2. Typed' /\ Enough' /\ {1, 2} \subseteq DOMAIN pools /\ exactIn \in BOOLEAN
  BY <1>1, TypedKept DEF Enough, Typed
<1>3. Valued(low) /\ Valued(even) /\ Valued(high)
  <2>1. /\ lo \in MinSplitPercent..(100 - MinSplitPercent)
        /\ hi \in MinSplitPercent..(100 - MinSplitPercent)
        /\ 50 \in MinSplitPercent..(100 - MinSplitPercent)
    BY NumbersAssumption DEF Typed
  <2>2. Valued(Split(<<50, 100 - 50>>))
    BY <1>2, <2>1, PairValued
  <2> QED BY <1>2, <2>1, <2>2, PairValued
<1> HIDE DEF low, even, high
<1>4. Valued(one) /\ Covers(exactIn, one, low)
  BY <1>2, <1>3, KeepCovers, NoneValued DEF one
<1> HIDE DEF one
<1>5. Valued(two) /\ Covers(exactIn, two, one) /\ Covers(exactIn, two, even)
  BY <1>2, <1>3, <1>4, KeepCovers DEF two
<1> HIDE DEF two
<1>6. /\ Valued(inner') /\ Covers(exactIn, inner', two)
      /\ Covers(exactIn, inner', high)
  BY <1>1, <1>2, <1>3, <1>5, KeepCovers
<1>7. Covers(exactIn, inner', one) /\ Covers(exactIn, inner', even)
  BY <1>2, <1>3, <1>4, <1>5, <1>6, CoversChain
<1>8. Covers(exactIn, inner', low)
  BY <1>2, <1>3, <1>4, <1>6, <1>7, CoversChain
<1>9. Covers(exactIn, inner', inner)
  BY <1>1 DEF Covered, Covers
<1>10. Covered'
  <2>1. Grown
    BY <1>1, <1>3, <1>6, <1>7, <1>8 DEF Grown
  <2>2. stage' \in {"halve", "adjust"}
    BY <1>1
  <2> QED BY <1>1, <1>6, <1>9, <2>1, <2>2, InnerGrows
<1> QED BY <1>2, <1>10

LEMMA HalveInv ==
  ASSUME SplitInv, Halve
  PROVE  SplitInv'
<1> USE DEF SplitInv
<1> DEFINE one == Keep(inner, Left)
<1>1. /\ exactIn' = exactIn /\ pools' = pools /\ p' = p /\ step' = step
      /\ best' = best /\ stage = "halve" /\ stage' = stage
      /\ lo' \in {lo, Mid} /\ hi' \in {hi, Mid}
      /\ inner' = Keep(one, Right) /\ tried' = tried \cup {Left, Right}
  BY DEF Halve
<1>2. Typed'
  BY <1>1, MidBounds DEF Typed, InBounds
<1>3. Enough' /\ {1, 2} \subseteq DOMAIN pools /\ exactIn \in BOOLEAN /\ Valued(inner)
  BY <1>1 DEF Enough, Typed, Covered
<1>4. Valued(Left) /\ Valued(Right)
  BY <1>3, MidBounds, PairValued DEF Left, Right
<1>5. Valued(one) /\ Covers(exactIn, one, inner) /\ Covers(exactIn, one, Left)
  BY <1>3, <1>4, KeepCovers
<1> HIDE DEF one
<1>6. /\ Valued(inner') /\ Covers(exactIn, inner', one)
      /\ Covers(exactIn, inner', Right)
  BY <1>1, <1>3, <1>4, <1>5, KeepCovers
<1>7. Covers(exactIn, inner', inner) /\ Covers(exactIn, inner', Left)
  BY <1>3, <1>4, <1>5, <1>6, CoversChain
<1>8. Covered'
  <2>1. Grown
    BY <1>1, <1>4, <1>6, <1>7 DEF Grown
  <2>2. stage' \in {"halve", "adjust"}
    BY <1>1
  <2> QED BY <1>1, <1>6, <1>7, <2>1, <2>2, InnerGrows
<1> QED BY <1>2, <1>3, <1>8

\* Handing over: best covers what inner covered.
LEMMA HandOver ==
  ASSUME Typed, Covered, exactIn' = exactIn, tried' = tried,
         best' = Keep(best, inner), inner' = None
  PROVE  Covered'
<1>1. exactIn \in BOOLEAN /\ Valued(best) /\ Valued(inner)
  BY DEF Typed, Covered
<1>2. /\ Valued(best') /\ Covers(exactIn, best', best)
      /\ Covers(exactIn, best', inner)
  BY <1>1, KeepCovers
<1>3. ASSUME NEW s \in tried PROVE Valued(s) /\ Covers(exactIn, best', s)
  <2>1. Valued(s) /\ (Covers(exactIn, best, s) \/ Covers(exactIn, inner, s))
    BY DEF Covered
  <2> QED BY <1>1, <1>2, <2>1, CoversChain
<1> QED BY <1>2, <1>3, NoneValued DEF Covered

LEMMA EndHalvingInv ==
  ASSUME SplitInv, EndHalving
  PROVE  SplitInv'
<1> USE DEF SplitInv
<1>1. /\ exactIn' = exactIn /\ pools' = pools /\ lo' = lo /\ hi' = hi /\ p' = p
      /\ step' = step /\ tried' = tried
      /\ best' = Keep(best, inner) /\ inner' = None
      /\ stage' = IF Len(pools) >= 3 THEN "even" ELSE "done"
  BY DEF EndHalving
<1>2. Typed'
  BY <1>1, TypedKept
<1>3. Enough'
  <2>1. PICK n \in 1..3 : pools \in [1..n -> Curve]
    BY DEF Typed
  <2>2. Len(pools) = n /\ DOMAIN pools = 1..n
    BY <2>1
  <2> QED BY <1>1, <2>2 DEF Enough
<1>4. Covered'
  BY <1>1, HandOver
<1> QED BY <1>2, <1>3, <1>4

LEMMA EndAdjustingInv ==
  ASSUME SplitInv, EndAdjusting
  PROVE  SplitInv'
<1> USE DEF SplitInv
<1>1. /\ exactIn' = exactIn /\ pools' = pools /\ lo' = lo /\ hi' = hi /\ p' = p
      /\ step' = step /\ tried' = tried /\ stage' = "done"
      /\ best' = Keep(best, inner) /\ inner' = None
  BY DEF EndAdjusting
<1>2. Typed' /\ Enough' /\ Covered'
  BY <1>1, TypedKept, HandOver DEF Enough
<1> QED BY <1>2

LEMMA EvenInv ==
  ASSUME SplitInv, TryEven
  PROVE  SplitInv'
<1> USE DEF SplitInv
<1>1. /\ exactIn' = exactIn /\ pools' = pools /\ lo' = lo /\ hi' = hi /\ p' = p
      /\ step' = step /\ best' = best /\ stage = "even"
      /\ inner' = Split(p) /\ tried' = tried \cup {Split(p)}
      /\ stage' = IF Split(p) = None THEN "done" ELSE "adjust"
  BY DEF TryEven
<1>2. Typed' /\ Enough' /\ {1, 2, 3} \subseteq DOMAIN pools /\ exactIn \in BOOLEAN
  BY <1>1, TypedKept DEF Enough, Typed
<1> DEFINE even == Split(p)
<1>3. Valued(even) /\ Valued(best)
  BY <1>2, TripleValued DEF Typed, Covered
<1>4. inner = None
  BY <1>1 DEF Covered
<1> HIDE DEF even
<1>5. Covers(exactIn, even, even)
  BY <1>2, <1>3, CoversChain
<1>6. inner' = even /\ tried' = tried \cup {even}
      /\ stage' = IF even = None THEN "done" ELSE "adjust"
  BY <1>1 DEF even
<1>7. ASSUME NEW s \in tried'
      PROVE  Valued(s) /\ (Covers(exactIn, best, s) \/ Covers(exactIn, even, s))
  <2>1. CASE s \in tried
    <3>1. Valued(s) /\ (Covers(exactIn, best, s) \/ Covers(exactIn, None, s))
      BY <2>1, <1>4 DEF Covered
    <3> QED BY <1>2, <1>3, <3>1, CoversChain
  <2>2. CASE s = even
    BY <1>3, <1>5, <2>2
  <2> QED BY <1>6, <2>1, <2>2
<1>8. Covered'
  BY <1>1, <1>3, <1>6, <1>7 DEF Covered
<1> QED BY <1>2, <1>8

\* What an adjustment tries is a split of three in bounds.
LEMMA AdjustedInBounds ==
  ASSUME SplitInv, stage = "adjust", NEW k \in Candidates
  PROVE  /\ Adjusted(k) \in [1..3 -> Int] /\ InBounds(Adjusted(k))
         /\ Valued(Split(Adjusted(k)))
<1>1. Typed /\ {1, 2, 3} \subseteq DOMAIN pools
  BY DEF SplitInv, Enough
<1>2. k \in 1..6 /\ InBounds(Adjusted(k))
  BY DEF Candidates
<1>3. Adjustments[k][1] \in Int /\ Adjustments[k][2] \in Int
  BY <1>1, <1>2, SMTT(40) DEF Adjustments, Typed
<1>4. Adjusted(k) \in [1..3 -> Int]
  <2> DEFINE p1 == p[1] + Adjustments[k][1]
             p2 == p[2] + Adjustments[k][2]
  <2>1. p1 \in Int /\ p2 \in Int
    BY <1>1, <1>3 DEF Typed
  <2>2. Adjusted(k) = <<p1, p2, 100 - p1 - p2>>
    BY DEF Adjusted
  <2> HIDE DEF p1, p2
  <2> QED BY <2>1, <2>2
<1> QED BY <1>1, <1>2, <1>4, TripleValued

LEMMA AdjustInv ==
  ASSUME SplitInv, Adjust
  PROVE  SplitInv'
<1> USE DEF SplitInv
<1>1. PICK k \in Improving :
        /\ \A j \in Improving : k <= j
        /\ inner' = Split(Adjusted(k))
        /\ tried' = tried \cup {Split(Adjusted(j)) : j \in {c \in Candidates : c <= k}}
        /\ p' = Adjusted(k)
  BY DEF Adjust
<1>2. /\ exactIn' = exactIn /\ pools' = pools /\ lo' = lo /\ hi' = hi
      /\ step' = step /\ best' = best /\ stage = "adjust" /\ stage' = stage
  BY DEF Adjust
<1>3. k \in Candidates /\ Candidates \subseteq 1..6
  BY DEF Improving, Candidates
<1>4. /\ Adjusted(k) \in [1..3 -> Int] /\ InBounds(Adjusted(k))
      /\ Valued(inner')
  BY <1>1, <1>2, <1>3, AdjustedInBounds
<1>5. Typed'
  BY <1>1, <1>2, <1>4 DEF Typed, InBounds
<1>6. Enough' /\ exactIn \in BOOLEAN /\ Valued(inner)
  BY <1>2 DEF Enough, Typed, Covered
<1>7. Covers(exactIn, inner', inner)
  <2>1. Better(inner', inner) /\ inner' # None
    BY <1>1 DEF Improving
  <2> QED BY <1>4, <1>6, <2>1 DEF Better, Covers, Valued
<1>8. ASSUME NEW j \in Candidates, j <= k
      PROVE  Valued(Split(Adjusted(j))) /\ Covers(exactIn, inner', Split(Adjusted(j)))
  <2> DEFINE new == Split(Adjusted(j))
  <2>1. Valued(new)
    BY <1>2, AdjustedInBounds
  <2>2. CASE j = k
    BY <1>1, <1>4, <1>6, <2>2, CoversChain
  <2>3. CASE j # k
    <3>1. ~(k <= j)
      BY <1>3, <1>8, <2>3
    <3>2. new = None \/ ~Better(new, inner)
      BY <1>1, <3>1 DEF Improving
    <3> HIDE DEF new
    <3>3. Covers(exactIn, inner, new)
      BY <1>6, <2>1, <3>2, NotBetterCovers
    <3>4. Covers(exactIn, inner', new)
      BY <1>4, <1>6, <1>7, <2>1, <3>3, CoversChain
    <3> QED BY <2>1, <3>4 DEF new
  <2> QED BY <2>1, <2>2, <2>3
<1>9. Covered'
  <2>1. Grown
    BY <1>1, <1>8 DEF Grown
  <2>2. stage' \in {"halve", "adjust"}
    BY <1>2
  <2> QED BY <1>2, <1>4, <1>7, <2>1, <2>2, InnerGrows
<1> QED BY <1>5, <1>6, <1>9

LEMMA RefineInv ==
  ASSUME SplitInv, Refine
  PROVE  SplitInv'
<1> USE DEF SplitInv
<1>1. /\ exactIn' = exactIn /\ pools' = pools /\ lo' = lo /\ hi' = hi /\ p' = p
      /\ best' = best /\ inner' = inner /\ stage = "adjust" /\ stage' = stage
      /\ step' = step \div 2 /\ Improving = {}
      /\ tried' = tried \cup {Split(Adjusted(j)) : j \in Candidates}
  BY DEF Refine
<1>2. Typed'
  BY <1>1 DEF Typed, InBounds
<1>3. Enough' /\ exactIn \in BOOLEAN /\ Valued(inner)
  BY <1>1 DEF Enough, Typed, Covered
<1>4. ASSUME NEW j \in Candidates
      PROVE  Valued(Split(Adjusted(j))) /\ Covers(exactIn, inner, Split(Adjusted(j)))
  <2> DEFINE new == Split(Adjusted(j))
  <2>1. Valued(new)
    BY <1>1, AdjustedInBounds
  <2>2. new = None \/ ~Better(new, inner)
    BY <1>1 DEF Improving
  <2> HIDE DEF new
  <2>3. Covers(exactIn, inner, new)
    BY <1>3, <2>1, <2>2, NotBetterCovers
  <2> QED BY <2>1, <2>3 DEF new
<1>5. Covers(exactIn, inner', inner)
  BY <1>1, <1>3, CoversChain
<1>6. Covered'
  <2>1. Grown
    BY <1>1, <1>4 DEF Grown
  <2>2. stage' \in {"halve", "adjust"}
    BY <1>1
  <2> QED BY <1>1, <1>3, <1>5, <2>1, <2>2, InnerGrows
<1> QED BY <1>2, <1>3, <1>6

LEMMA StutterInv ==
  ASSUME SplitInv, UNCHANGED vars
  PROVE  SplitInv'
<1>1. Typed' /\ Enough'
  BY TypedKept DEF SplitInv, vars, Enough
<1>2. Covered'
  BY DEF SplitInv, vars, Covered
<1> QED BY <1>1, <1>2 DEF SplitInv

LEMMA InvHolds == Spec => []SplitInv
<1>1. SplitInv /\ [Next]_vars => SplitInv'
  BY SingleInv, ProbeInv, HalveInv, EndHalvingInv, EvenInv, AdjustInv, RefineInv,
     EndAdjustingInv, StutterInv DEF Next
<1> QED BY <1>1, SplitInit, PTL DEF Spec

\* findOptimalSplit returns the best of what it, binarySearchSplit and
\* optimizeThreeWaySplit evaluated (router.go:259-448).
THEOREM BestIsKept == Spec => []AnswerIsBestTried
<1>1. SplitInv => AnswerIsBestTried
  <2> SUFFICES ASSUME SplitInv, stage = "done", NEW s \in tried
               PROVE  s = None \/ ~Better(s, best)
    BY DEF AnswerIsBestTried
  <2>1. /\ Valued(s) /\ Valued(best) /\ exactIn \in BOOLEAN
        /\ Covers(exactIn, best, s) \/ Covers(exactIn, None, s)
    BY DEF SplitInv, Covered, Typed
  <2>2. Covers(exactIn, best, s)
    BY <2>1, CoversChain
  <2> QED BY <2>1, <2>2, NotBetterCovers
<1> QED BY <1>1, InvHolds, PTL

-----------------------------------------------------------------------------
(* The percentages of every split that is evaluated.                       *)

\* Among these pools.
FairIn(P, s) ==
  /\ \A i \in DOMAIN s.parts : i \in P /\ s.parts[i] \in MinSplitPercent..100
  /\ Shared(s) <= 100

Bounded ==
  /\ exactIn \in BOOLEAN
  /\ stage \in {"single", "probe", "halve", "even", "adjust", "done"}
  /\ lo \in MinSplitPercent..hi /\ hi \in lo..(100 - MinSplitPercent)
  /\ iteration \in 0..4 /\ rounds \in 0..3 /\ step \in 1..5
  /\ InBounds(p) /\ p[1] + p[2] + p[3] = 100
  /\ stage \in {"single", "probe"} => iteration = 0 /\ rounds = 0

FairInv ==
  Bounded /\ \A s \in tried \cup {inner, best} : FairIn(DOMAIN pools, s)

LEMMA FairIsTypeOK == ASSUME FairInv PROVE SplitTypeOK
  BY DEF FairInv, Bounded, FairIn, SplitTypeOK

LEMMA NoneIsFair == ASSUME NEW P PROVE FairIn(P, None)
  BY DEF FairIn, Shared, None

\* The parts of a split are some of the percentages it was given.
LEMMA SplitIsFair ==
  ASSUME NEW q, DOMAIN q \subseteq 1..3, DOMAIN q \subseteq DOMAIN pools,
         \A i \in DOMAIN q : q[i] \in 1..100,
         NEW x \in Nat, NEW y \in Nat, NEW w \in Nat, x + y + w <= 100,
         1 \in DOMAIN q => q[1] = x,
         2 \in DOMAIN q => q[2] = y,
         3 \in DOMAIN q => q[3] = w
  PROVE  FairIn(DOMAIN pools, Split(q))
<1> DEFINE used == {i \in DOMAIN q : /\ q[i] >= MinSplitPercent
                                     /\ Part(q[i]) > 0
                                     /\ ~Fails(pools[i], Part(q[i]))}
           s == Split(q)
<1>1. CASE used = {}
  <2>1. s = None
    BY <1>1 DEF Split
  <2> QED BY <2>1, NoneIsFair
<1>2. CASE used # {}
  <2>1. s.parts = [i \in used |-> q[i]]
    BY <1>2 DEF Split, Restrict
  <2>2. \A i \in used : i \in DOMAIN q /\ q[i] >= MinSplitPercent
    OBVIOUS
  <2> HIDE DEF used, s
  <2>3. DOMAIN s.parts = used /\ \A i \in used : s.parts[i] = q[i]
    BY <2>1
  <2>4. \A i \in DOMAIN s.parts : i \in DOMAIN pools /\ s.parts[i] \in MinSplitPercent..100
    BY <2>2, <2>3, NumbersAssumption
  <2> DEFINE of(i) == IF i \in DOMAIN s.parts THEN s.parts[i] ELSE 0
  <2>5. of(1) \in {0, x} /\ of(2) \in {0, y} /\ of(3) \in {0, w}
    BY <2>2, <2>3
  <2>6. Shared(s) = of(1) + of(2) + of(3)
    BY DEF Shared
  <2> HIDE DEF of
  <2>7. Shared(s) <= 100
    BY <2>5, <2>6
  <2> QED BY <2>4, <2>7 DEF FairIn, s
<1> QED BY <1>1, <1>2

LEMMA PairIsFair ==
  ASSUME {1, 2} \subseteq DOMAIN pools, NEW q \in MinSplitPercent..(100 - MinSplitPercent)
  PROVE  FairIn(DOMAIN pools, Split(<<q, 100 - q>>))
<1> DEFINE pair == <<q, 100 - q>>
           rest == 100 - q
<1>1. q \in 1..99 /\ rest \in 1..99 /\ q + rest + 0 <= 100
  BY NumbersAssumption
<1>2. DOMAIN pair = {1, 2} /\ pair[1] = q /\ pair[2] = rest
  OBVIOUS
<1> HIDE DEF pair, rest
<1>3. DOMAIN pair \subseteq 1..3 /\ DOMAIN pair \subseteq DOMAIN pools
      /\ \A i \in DOMAIN pair : pair[i] \in 1..100
  BY <1>1, <1>2
<1>4. 3 \notin DOMAIN pair /\ q \in Nat /\ rest \in Nat
  BY <1>1, <1>2
<1>5. FairIn(DOMAIN pools, Split(pair))
  BY <1>1, <1>2, <1>3, <1>4, SplitIsFair
<1> QED BY <1>5 DEF pair, rest

LEMMA TripleIsFair ==
  ASSUME {1, 2, 3} \subseteq DOMAIN pools, NEW q \in [1..3 -> Int], InBounds(q),
         q[1] + q[2] + q[3] = 100
  PROVE  FairIn(DOMAIN pools, Split(q))
<1>1. q[1] \in 1..99 /\ q[2] \in 1..99 /\ q[3] \in 1..99
  BY NumbersAssumption DEF InBounds
<1>2. DOMAIN q \subseteq 1..3 /\ DOMAIN q \subseteq DOMAIN pools
      /\ \A i \in DOMAIN q : q[i] \in 1..100
  BY <1>1
<1> DEFINE x == q[1]
           y == q[2]
           w == q[3]
<1>3. x \in Nat /\ y \in Nat /\ w \in Nat /\ x + y + w <= 100
      /\ q[1] = x /\ q[2] = y /\ q[3] = w
  BY <1>1
<1> HIDE DEF x, y, w
<1> QED BY <1>2, <1>3, SplitIsFair

LEMMA SingleIsFair ==
  ASSUME 1 \in DOMAIN pools
  PROVE  FairIn(DOMAIN pools, Single(1))
<1>1. CASE Fails(pools[1], Total)
  <2>1. Single(1) = None
    BY <1>1 DEF Single
  <2> QED BY <2>1, NoneIsFair
<1>2. CASE ~Fails(pools[1], Total)
  <2> DEFINE s == Single(1)
  <2>1. s.parts = [j \in {1} |-> 100]
    BY <1>2 DEF Single
  <2> HIDE DEF s
  <2>2. DOMAIN s.parts = {1} /\ s.parts[1] = 100
    BY <2>1
  <2>3. 1 \in DOMAIN s.parts /\ 2 \notin DOMAIN s.parts /\ 3 \notin DOMAIN s.parts
    BY <2>2
  <2>4. Shared(s) = 100
    BY <2>2, <2>3 DEF Shared
  <2> QED BY <2>2, <2>4, NumbersAssumption DEF FairIn, s
<1> QED BY <1>1, <1>2

\* What is kept is one of the two.
LEMMA KeepIsFair ==
  ASSUME NEW P, NEW old, NEW new, FairIn(P, old), FairIn(P, new)
  PROVE  FairIn(P, Keep(old, new))
  BY DEF Keep

LEMMA FairInit == ASSUME Init PROVE FairInv
<1>1. Bounded
  BY NumbersAssumption DEF Init, Bounded, InBounds
<1> QED BY <1>1, NoneIsFair DEF Init, FairInv

\* A step that evaluates some splits of which each is fair.
LEMMA FairGrows ==
  ASSUME FairInv, pools' = pools, Bounded',
         \A s \in tried' : s \in tried \/ FairIn(DOMAIN pools, s),
         FairIn(DOMAIN pools, inner'), FairIn(DOMAIN pools, best')
  PROVE  FairInv'
<1>1. \A s \in tried' \cup {inner', best'} : FairIn(DOMAIN pools, s)
  BY DEF FairInv
<1> QED BY <1>1 DEF FairInv

LEMMA FairStep == ASSUME SplitInv, FairInv, [Next]_vars PROVE FairInv'
<1> DEFINE P == DOMAIN pools
<1>1. /\ Bounded /\ FairIn(P, inner) /\ FairIn(P, best)
      /\ Typed /\ Enough
  BY DEF FairInv, SplitInv
<1>2. CASE TrySingle
  <2>1. 1 \in P
    BY <1>1 DEF Typed
  <2>2. FairIn(P, Single(1))
    BY <2>1, SingleIsFair
  <2>3. /\ UNCHANGED <<exactIn, pools, lo, hi, iteration, p, step, rounds, inner>>
        /\ stage = "single" /\ stage' \in {"done", "probe"}
        /\ best' = Single(1) /\ tried' = {Single(1)}
    BY <1>2 DEF TrySingle
  <2>4. Bounded'
    BY <1>1, <2>3 DEF Bounded, InBounds
  <2> QED BY <1>1, <2>2, <2>3, <2>4, FairGrows
<1>3. CASE Probe
  <2> DEFINE low == Split(<<lo, 100 - lo>>)
             even == Split(<<50, 50>>)
             high == Split(<<hi, 100 - hi>>)
  <2>1. {1, 2} \subseteq P /\ 100 - 50 = 50
        /\ lo \in MinSplitPercent..(100 - MinSplitPercent)
        /\ hi \in MinSplitPercent..(100 - MinSplitPercent)
        /\ 50 \in MinSplitPercent..(100 - MinSplitPercent)
    BY <1>1, <1>3, NumbersAssumption DEF Probe, Enough, Typed
  <2>2. FairIn(P, low) /\ FairIn(P, high) /\ FairIn(P, Split(<<50, 100 - 50>>))
    BY <2>1, PairIsFair
  <2>3. FairIn(P, even)
    BY <2>1, <2>2
  <2>4. /\ UNCHANGED <<exactIn, pools, lo, hi, iteration, p, step, rounds, best>>
        /\ stage = "probe" /\ stage' = "halve"
        /\ inner' = Keep(Keep(Keep(None, low), even), high)
        /\ tried' = tried \cup {low, even, high}
    BY <1>3 DEF Probe
  <2> HIDE DEF low, even, high
  <2>5. FairIn(P, inner')
    BY <2>2, <2>3, <2>4, NoneIsFair, KeepIsFair
  <2>6. Bounded'
    BY <1>1, <2>4 DEF Bounded, InBounds
  <2> QED BY <1>1, <2>2, <2>3, <2>4, <2>5, <2>6, FairGrows
<1>4. CASE Halve
  <2>1. {1, 2} \subseteq P
    BY <1>1, <1>4 DEF Halve, Enough
  <2>2. FairIn(P, Left) /\ FairIn(P, Right)
    BY <1>1, <2>1, MidBounds, PairIsFair DEF Left, Right
  <2>3. /\ UNCHANGED <<exactIn, pools, stage, p, step, rounds, best>>
        /\ stage = "halve" /\ iteration < 4 /\ iteration' = iteration + 1
        /\ inner' = Keep(Keep(inner, Left), Right)
        /\ tried' = tried \cup {Left, Right}
        /\ (hi' = Mid /\ lo' = lo) \/ (lo' = Mid /\ hi' = hi)
    BY <1>4 DEF Halve, MoreToHalve
  <2>4. FairIn(P, inner')
    BY <1>1, <2>2, <2>3, KeepIsFair
  <2>5. lo \in Int /\ hi \in Int /\ Mid \in Int /\ lo <= Mid /\ Mid <= hi
        /\ MinSplitPercent \in Int /\ MinSplitPercent <= lo /\ hi <= 100 - MinSplitPercent
    BY <1>1, NumbersAssumption DEF Bounded, Mid
  <2>6. /\ lo' \in Int /\ hi' \in Int /\ lo' <= hi'
        /\ MinSplitPercent <= lo' /\ hi' <= 100 - MinSplitPercent
    BY <2>3, <2>5
  <2>7. lo' \in MinSplitPercent..hi' /\ hi' \in lo'..(100 - MinSplitPercent)
    BY <2>5, <2>6
  <2>8. iteration' \in 0..4
    BY <1>1, <2>3 DEF Bounded
  <2>9. Bounded'
    BY <1>1, <2>3, <2>7, <2>8 DEF Bounded, InBounds
  <2> QED BY <1>1, <2>2, <2>3, <2>4, <2>9, FairGrows
<1>5. CASE EndHalving \/ EndAdjusting
  <2>1. /\ UNCHANGED <<exactIn, pools, lo, hi, iteration, p, step, rounds, tried>>
        /\ best' = Keep(best, inner) /\ inner' = None /\ stage' \in {"even", "done"}
    BY <1>5 DEF EndHalving, EndAdjusting
  <2>2. FairIn(P, best') /\ FairIn(P, inner')
    BY <1>1, <2>1, NoneIsFair, KeepIsFair
  <2>3. Bounded'
    BY <1>1, <2>1 DEF Bounded, InBounds
  <2> QED BY <2>1, <2>2, <2>3, FairGrows
<1>6. CASE TryEven
  <2>1. {1, 2, 3} \subseteq P /\ p \in [1..3 -> Int] /\ InBounds(p) /\ p[1] + p[2] + p[3] = 100
    BY <1>1, <1>6 DEF TryEven, Enough, Typed, Bounded
  <2>2. FairIn(P, Split(p))
    BY <2>1, TripleIsFair
  <2>3. /\ UNCHANGED <<exactIn, pools, lo, hi, iteration, p, step, rounds, best>>
        /\ inner' = Split(p) /\ tried' = tried \cup {Split(p)} /\ stage' \in {"done", "adjust"}
    BY <1>6 DEF TryEven
  <2>4. Bounded'
    BY <1>1, <2>3 DEF Bounded, InBounds
  <2> QED BY <1>1, <2>2, <2>3, <2>4, FairGrows
<1>7. ASSUME stage = "adjust", NEW k \in Candidates
      PROVE  /\ Adjusted(k)[1] + Adjusted(k)[2] + Adjusted(k)[3] = 100
             /\ InBounds(Adjusted(k)) /\ FairIn(P, Split(Adjusted(k)))
  <2> DEFINE q == Adjusted(k)
             p1 == p[1] + Adjustments[k][1]
             p2 == p[2] + Adjustments[k][2]
  <2>1. q \in [1..3 -> Int] /\ InBounds(q)
    BY <1>7, AdjustedInBounds
  <2>2. q = <<p1, p2, 100 - p1 - p2>>
    BY DEF Adjusted
  <2> HIDE DEF q, p1, p2
  <2>3. q[1] = p1 /\ q[2] = p2 /\ q[3] = 100 - p1 - p2
    BY <2>2
  <2>4. q[1] \in Int /\ q[2] \in Int
    BY <2>1
  <2>5. q[1] + q[2] + q[3] = 100
    BY <2>3, <2>4
  <2>6. {1, 2, 3} \subseteq P
    BY <1>1, <1>7 DEF Enough
  <2>7. FairIn(P, Split(q))
    BY <2>1, <2>5, <2>6, TripleIsFair
  <2> QED BY <2>1, <2>5, <2>7 DEF q
<1>8. CASE Adjust
  <2>1. PICK k \in Improving :
          /\ inner' = Split(Adjusted(k))
          /\ tried' = tried \cup {Split(Adjusted(j)) : j \in {c \in Candidates : c <= k}}
          /\ p' = Adjusted(k)
          /\ rounds' \in {3, rounds + 1}
    BY <1>8 DEF Adjust
  <2>2. /\ UNCHANGED <<exactIn, pools, stage, lo, hi, iteration, step, best>>
        /\ stage = "adjust" /\ rounds < 3
    BY <1>8 DEF Adjust, MoreToAdjust
  <2>3. k \in Candidates
    BY DEF Improving
  <2>4. /\ Adjusted(k)[1] + Adjusted(k)[2] + Adjusted(k)[3] = 100
        /\ InBounds(Adjusted(k)) /\ FairIn(P, Split(Adjusted(k)))
    BY <1>7, <2>2, <2>3
  <2>5. \A j \in Candidates : FairIn(P, Split(Adjusted(j)))
    BY <1>7, <2>2
  <2>6. rounds' \in 0..3
    BY <1>1, <2>1, <2>2 DEF Bounded
  <2>7. InBounds(p') /\ p'[1] + p'[2] + p'[3] = 100
    BY <2>1, <2>4
  <2>8. Bounded'
    BY <1>1, <2>2, <2>6, <2>7 DEF Bounded, InBounds
  <2>9. \A s \in tried' : s \in tried \/ FairIn(P, s)
    BY <2>1, <2>5
  <2> QED BY <1>1, <2>1, <2>2, <2>4, <2>8, <2>9, FairGrows
<1>9. CASE Refine
  <2>1. /\ UNCHANGED <<exactIn, pools, stage, lo, hi, iteration, p, inner, best>>
        /\ stage = "adjust" /\ step >= 2 /\ rounds < 3
        /\ step' = step \div 2 /\ rounds' = rounds + 1
        /\ tried' = tried \cup {Split(Adjusted(j)) : j \in Candidates}
    BY <1>9 DEF Refine, MoreToAdjust
  <2>2. \A j \in Candidates : FairIn(P, Split(Adjusted(j)))
    BY <1>7, <2>1
  <2>3. step' \in 1..5 /\ rounds' \in 0..3
    BY <1>1, <2>1 DEF Bounded
  <2>4. Bounded'
    BY <1>1, <2>1, <2>3 DEF Bounded, InBounds
  <2>5. \A s \in tried' : s \in tried \/ FairIn(P, s)
    BY <2>1, <2>2
  <2> QED BY <1>1, <2>1, <2>4, <2>5, FairGrows
<1>10. CASE UNCHANGED vars
  <2>1. Bounded'
    BY <1>1, <1>10 DEF Bounded, InBounds, vars
  <2> QED BY <1>1, <1>10, <2>1, FairGrows DEF vars
<1> QED BY <1>2, <1>3, <1>4, <1>5, <1>6, <1>8, <1>9, <1>10 DEF Next

\* SplitTypeOK: the window never turns inside out, the three percentages make 100
\* after every adjustment, and every split that was evaluated gives each of its
\* pools its minimum and all of them no more than the whole.
THEOREM SplitsAreFair == Spec => []SplitTypeOK
<1>1. SplitInv /\ FairInv /\ [Next]_vars => FairInv'
  BY FairStep
<1>2. Init => FairInv
  BY FairInit
<1>3. FairInv => SplitTypeOK
  BY FairIsTypeOK
<1> QED BY <1>1, <1>2, <1>3, InvHolds, PTL DEF Spec
-----------------------------------------------------------------------------
(* The optimum of two pools.  Halving keeps the side of the middle on which  *)
(* the better of two probes lies; the optimum is on that side too, or close  *)
(* to a probe, if a concave output that falls goes on falling.               *)

\* What a pool gives for one more percent never grows.
Concave ==
  \A r \in Curve : \A x, y, w \in 1..99 :
    x < y /\ y < w =>
      (Give(r, Part(y)) - Give(r, Part(x))) * (w - y)
        >= (Give(r, Part(w)) - Give(r, Part(y))) * (y - x)

\* One percent of the amount is not nothing.
Divisible == Total >= 100

Percents == MinSplitPercent..(100 - MinSplitPercent)
Optimal(q) == q \in Percents /\ \A other \in Percents : TwoWay(other) <= TwoWay(q)

\* A pair of which the first has this percentage was evaluated.
TriedIn(seen, q) == \E s \in seen : s # None /\ DOMAIN s.parts = {1, 2} /\ s.parts[1] = q

ApproachedIn(seen) == \E q \in Percents, e \in -2..2 : Optimal(q) /\ TriedIn(seen, q + e)

LEMMA PartCounts ==
  ASSUME Divisible, NEW q \in 1..99
  PROVE  Part(q) \in Nat /\ Part(q) > 0 /\ Part(q) \in Amount
<1> DEFINE n == Total * q
<1>1. n \in Nat /\ n >= 100
  BY NumbersAssumption DEF Divisible
<1> HIDE DEF n
<1>2. n \div 100 \in Nat /\ n \div 100 > 0
  BY <1>1
<1> QED BY <1>2 DEF n, Part, Amount

LEMMA PercentsBounded ==
  /\ MinSplitPercent \in Int /\ 1 <= MinSplitPercent /\ MinSplitPercent <= 33
  /\ \A q \in Percents : q \in 1..99 /\ 100 - q \in Percents /\ 100 - q \in 1..99
  BY NumbersAssumption DEF Percents

\* Where the pools always answer, a pair gives what its two parts give.
LEMMA PairGives ==
  ASSUME Divisible, Typed, exactIn, Answers, {1, 2} \subseteq DOMAIN pools,
         NEW q \in Percents
  PROVE  /\ TwoWay(q) = Give(pools[1], Part(q)) + Give(pools[2], Part(100 - q))
         /\ Give(pools[1], Part(q)) \in Nat /\ Give(pools[2], Part(100 - q)) \in Nat
         /\ TwoWay(q) \in Int
         /\ TriedIn({Split(<<q, 100 - q>>)}, q)
         /\ Split(<<q, 100 - q>>) # None
<1> DEFINE rest == 100 - q
           pair == <<q, rest>>
           s == Split(pair)
           used == {i \in DOMAIN pair : /\ pair[i] >= MinSplitPercent
                                        /\ Part(pair[i]) > 0
                                        /\ ~Fails(pools[i], Part(pair[i]))}
           paid(i) == IF i \in used THEN Out(i, Part(pair[i])) ELSE 0
<1>1. q \in 1..99 /\ rest \in 1..99 /\ q >= MinSplitPercent /\ rest >= MinSplitPercent
  BY PercentsBounded DEF Percents
<1>2. Part(q) > 0 /\ Part(rest) > 0 /\ Part(q) \in Amount /\ Part(rest) \in Amount
  BY <1>1, PartCounts
<1>3. ~Fails(pools[1], Part(q)) /\ ~Fails(pools[2], Part(rest))
  <2>1. q \in 1..100 /\ rest \in 1..100
    BY <1>1
  <2> HIDE DEF rest
  <2> QED BY <2>1 DEF Answers
<1>4. DOMAIN pair = {1, 2} /\ pair[1] = q /\ pair[2] = rest
  OBVIOUS
<1> HIDE DEF pair, rest
<1>5. used = {1, 2}
  BY <1>1, <1>2, <1>3, <1>4
<1>6. s = [parts |-> Restrict(pair, used), in |-> Total, out |-> paid(1) + paid(2) + paid(3)]
  BY <1>5 DEF Split
<1>7. /\ paid(1) = Give(pools[1], Part(q)) /\ paid(2) = Give(pools[2], Part(rest))
      /\ paid(3) = 0
  BY <1>4, <1>5 DEF Out
<1> HIDE DEF used, paid, s
<1>8. s.out = paid(1) + paid(2) + paid(3) /\ s.parts = [i \in {1, 2} |-> pair[i]]
  BY <1>5, <1>6 DEF Restrict
<1>9. pools[1] \in Curve /\ pools[2] \in Curve
  BY DEF Typed
<1>10. Give(pools[1], Part(q)) \in Nat /\ Give(pools[2], Part(rest)) \in Nat
  BY <1>2, <1>9, CurveAssumption
<1>11. DOMAIN s.parts = {1, 2} /\ s.parts[1] = q /\ s # None
  <2>1. DOMAIN s.parts = {1, 2} /\ s.parts[1] = q
    BY <1>4, <1>8
  <2>2. DOMAIN None.parts = {}
    BY DEF None
  <2> QED BY <2>1, <2>2
<1>12. TwoWay(q) = s.out /\ s = Split(<<q, 100 - q>>)
  BY DEF TwoWay, s, pair, rest
<1>13. s.out = Give(pools[1], Part(q)) + Give(pools[2], Part(rest))
  BY <1>7, <1>8, <1>10
<1> QED BY <1>10, <1>11, <1>12, <1>13 DEF TriedIn, rest

\* The rise of a sum, from the rise of one part and the fall of the other.
LEMMA ProductsAdd ==
  ASSUME NEW m \in Int, NEW n \in Int, NEW f \in Int, NEW g \in Int, NEW h \in Int,
         NEW k \in Int, f * m >= g * n, h * n >= k * m
  PROVE  (f - k) * m >= (g - h) * n
<1>1. (f - k) * m = f * m - k * m /\ (g - h) * n = g * n - h * n
  OBVIOUS
<1>2. f * m \in Int /\ g * n \in Int /\ h * n \in Int /\ k * m \in Int
  OBVIOUS
<1> QED BY <1>1, <1>2

LEMMA PairIsConcave ==
  ASSUME Concave, Divisible, Typed, exactIn, Answers, {1, 2} \subseteq DOMAIN pools,
         NEW x \in Percents, NEW y \in Percents, NEW w \in Percents, x < y, y < w
  PROVE  (TwoWay(y) - TwoWay(x)) * (w - y) >= (TwoWay(w) - TwoWay(y)) * (y - x)
<1> DEFINE f(q) == Give(pools[1], Part(q))
           g(q) == Give(pools[2], Part(100 - q))
<1>1. /\ x \in 1..99 /\ 100 - x \in 1..99 /\ y \in 1..99 /\ 100 - y \in 1..99
      /\ w \in 1..99 /\ 100 - w \in 1..99
      /\ pools[1] \in Curve /\ pools[2] \in Curve
  BY PercentsBounded, ZenonT(40) DEF Typed
<1>2. /\ TwoWay(x) = f(x) + g(x) /\ TwoWay(y) = f(y) + g(y) /\ TwoWay(w) = f(w) + g(w)
      /\ f(x) \in Nat /\ g(x) \in Nat /\ f(y) \in Nat /\ g(y) \in Nat
      /\ f(w) \in Nat /\ g(w) \in Nat
  BY PairGives, ZenonT(40)
<1>3. (f(y) - f(x)) * (w - y) >= (f(w) - f(y)) * (y - x)
  BY <1>1, ZenonT(60) DEF Concave
<1>4. (g(y) - g(w)) * (y - x) >= (g(x) - g(y)) * (w - y)
  <2>1. 100 - w < 100 - y /\ 100 - y < 100 - x
    BY <1>1
  <2>2. (g(y) - g(w)) * ((100 - x) - (100 - y)) >= (g(x) - g(y)) * ((100 - y) - (100 - w))
    BY <1>1, <2>1, ZenonT(60) DEF Concave
  <2>3. (100 - x) - (100 - y) = y - x /\ (100 - y) - (100 - w) = w - y
    BY <1>1
  <2> HIDE DEF g
  <2> QED BY <2>2, <2>3
<1> DEFINE m == w - y
           n == y - x
           f1 == f(y) - f(x)
           f2 == f(w) - f(y)
           g1 == g(y) - g(w)
           g2 == g(x) - g(y)
<1>5. m \in Int /\ n \in Int /\ f1 \in Int /\ f2 \in Int /\ g1 \in Int /\ g2 \in Int
  <2> HIDE DEF f, g
  <2> QED BY <1>1, <1>2
<1>6. f1 - g2 = TwoWay(y) - TwoWay(x) /\ f2 - g1 = TwoWay(w) - TwoWay(y)
  <2> HIDE DEF f, g
  <2> QED BY <1>2
<1>7. f1 * m >= f2 * n /\ g1 * n >= g2 * m
  BY <1>3, <1>4
<1> HIDE DEF m, n, f1, f2, g1, g2
<1>8. (f1 - g2) * m >= (f2 - g1) * n
  BY <1>5, <1>7, ProductsAdd
<1> QED BY <1>6, <1>8 DEF m, n

\* What falls goes on falling; what does not fall did not fall before.
LEMMA Turning ==
  ASSUME NEW e \in Int, NEW f \in Int, NEW m \in Int, NEW n \in Int, m > 0, n > 0,
         e * m >= f * n
  PROVE  (f >= 0 => e >= 0) /\ (e < 0 => f < 0)
<1>1. ASSUME f >= 0, e < 0 PROVE FALSE
  <2>1. f * n >= 0 /\ e * m < 0
    BY <1>1
  <2>2. f * n \in Int /\ e * m \in Int
    OBVIOUS
  <2> QED BY <2>1, <2>2
<1> QED BY <1>1

\* Some percentage is optimal: among finitely many, one has none above it.
LEMMA SomeOptimum ==
  ASSUME Divisible, Typed, exactIn, Answers, {1, 2} \subseteq DOMAIN pools
  PROVE  \E q \in Percents : Optimal(q)
<1> DEFINE Above(q) == {other \in Percents : TwoWay(other) > TwoWay(q)}
           B == {Above(q) : q \in Percents}
           R == StrictSubsetOrdering(Percents)
<1>1. Percents # {} /\ \A q \in Percents : TwoWay(q) \in Int
  <2>1. 50 \in Percents
    BY PercentsBounded DEF Percents
  <2> QED BY <2>1, PairGives
<1>2. B \subseteq FiniteSubsetsOf(Percents) /\ B # {}
  <2>1. IsFiniteSet(Percents)
    BY PercentsBounded, FS_Interval DEF Percents
  <2>2. \A q \in Percents : IsFiniteSet(Above(q)) /\ Above(q) \subseteq Percents
    BY <2>1, FS_Subset
  <2> QED BY <1>1, <2>2 DEF FiniteSubsetsOf
<1>3. IsWellFoundedOn(R, FiniteSubsetsOf(Percents))
  BY FS_StrictSubsetOrderingWellFounded
<1> HIDE DEF R
<1>4. PICK least \in B : \A other \in B : ~(<<other, least>> \in R)
  <2> HIDE DEF B
  <2> QED BY <1>2, <1>3, WFMin
<1>5. PICK q \in Percents : least = Above(q)
  OBVIOUS
<1>6. ASSUME NEW other \in Percents, TwoWay(other) > TwoWay(q) PROVE FALSE
  <2>1. Above(other) \subseteq Above(q) /\ Above(other) # Above(q)
    <3>1. other \in Above(q) /\ other \notin Above(other)
      BY <1>1, <1>6
    <3>2. ASSUME NEW third \in Percents, TwoWay(third) > TwoWay(other)
          PROVE  TwoWay(third) > TwoWay(q)
      BY <1>1, <1>6, <3>2
    <3> QED BY <3>1, <3>2
  <2>2. <<Above(other), Above(q)>> \in R
    BY <2>1 DEF R, StrictSubsetOrdering
  <2> QED BY <1>4, <1>5, <2>2
<1> QED BY <1>1, <1>6 DEF Optimal

Wanted == exactIn /\ Answers /\ {1, 2} \subseteq DOMAIN pools

\* The width of the window after the rounds there have been, at most.
Wide == <<98, 49, 25, 13, 7>>

\* An end of the window is where the first probes were, or the middle of a round,
\* two percent from one of its probes.
EndsTried(seen, low, high, n) ==
  \E l, h \in {0, 2} : /\ TriedIn(seen, low + l) /\ TriedIn(seen, high - h)
                       /\ n = 0 \/ l = 2 \/ h = 2

Narrowed(seen, low, high, n) ==
  /\ ApproachedIn(seen) \/ \E q \in low..high : Optimal(q)
  /\ high - low <= Wide[n + 1]
  /\ n = 0 => high - low > 5
  /\ EndsTried(seen, low, high, n)

ApproachInv ==
  Wanted =>
    /\ stage \in {"single", "probe"} =>
         lo = MinSplitPercent /\ hi = 100 - MinSplitPercent /\ iteration = 0
    /\ stage = "halve" => Narrowed(tried, lo, hi, iteration)
    /\ stage \in {"even", "adjust", "done"} => ApproachedIn(tried)

\* The probes of a round, and how it divides the window.
LEMMA MidDivides ==
  ASSUME Bounded, hi - lo > 5
  PROVE  /\ Mid \in Int /\ MidLeft = Mid - 2 /\ MidRight = Mid + 2
         /\ lo + 3 <= Mid /\ Mid + 3 <= hi
         /\ 2 * (Mid - lo) <= hi - lo + 1 /\ 2 * (hi - Mid) <= hi - lo + 1
<1>1. /\ lo \in Int /\ hi \in Int /\ MinSplitPercent \in Int
      /\ MinSplitPercent <= lo /\ hi <= 100 - MinSplitPercent
  BY NumbersAssumption DEF Bounded
<1>2. /\ Mid \in Int /\ lo + 3 <= Mid /\ Mid + 3 <= hi
      /\ 2 * (Mid - lo) <= hi - lo + 1 /\ 2 * (hi - Mid) <= hi - lo + 1
  BY <1>1 DEF Mid
<1> DEFINE left == Mid - 2
           right == Mid + 2
           least == MinSplitPercent
           most == 100 - MinSplitPercent
<1>3. left \in Int /\ right \in Int /\ least \in Int /\ most \in Int
      /\ least <= left /\ right <= most
  BY <1>1, <1>2
<1> HIDE DEF left, right, least, most
<1>4. Max({left, least}) = left
  <2>1. \E x \in {left, least} : \A y \in {left, least} : x >= y
    BY <1>3
  <2>2. Max({left, least}) \in {left, least} /\ Max({left, least}) >= left
        /\ Max({left, least}) >= least
    BY <2>1 DEF Max
  <2> DEFINE m == Max({left, least})
  <2> HIDE DEF m
  <2>3. m \in {left, least} /\ m >= left
    BY <2>2 DEF m
  <2>4. m = left
    BY <1>3, <2>3
  <2> QED BY <2>4 DEF m
<1>5. Min({right, most}) = right
  <2>1. \E x \in {right, most} : \A y \in {right, most} : x =< y
    BY <1>3
  <2>2. Min({right, most}) \in {right, most} /\ Min({right, most}) =< right
    BY <2>1 DEF Min
  <2> DEFINE m == Min({right, most})
  <2> HIDE DEF m
  <2>3. m \in {right, most} /\ m =< right
    BY <2>2 DEF m
  <2>4. m = right
    BY <1>3, <2>3
  <2> QED BY <2>4 DEF m
<1> QED BY <1>2, <1>4, <1>5 DEF MidLeft, MidRight, left, right, least, most

\* An optimum close to a percentage that was tried.
LEMMA CloseToTried ==
  ASSUME NEW seen, NEW q \in Percents, Optimal(q), NEW r \in Int, TriedIn(seen, r),
         q - 2 <= r, r <= q + 2
  PROVE  ApproachedIn(seen)
<1> DEFINE e == r - q
<1>1. e \in -2..2 /\ q + e = r
  BY PercentsBounded
<1> HIDE DEF e
<1>2. TriedIn(seen, q + e)
  BY <1>1
<1> QED BY <1>1, <1>2 DEF ApproachedIn

LEMMA TriedGrows ==
  ASSUME NEW seen, NEW more, seen \subseteq more
  PROVE  /\ \A q : TriedIn(seen, q) => TriedIn(more, q)
         /\ ApproachedIn(seen) => ApproachedIn(more)
  BY DEF TriedIn, ApproachedIn

\* Narrow enough, no optimum in the window is far from a probe.
LEMMA NarrowApproaches ==
  ASSUME Bounded, Narrowed(tried, lo, hi, iteration), ~MoreToHalve
  PROVE  ApproachedIn(tried)
<1>1. CASE ApproachedIn(tried)
  BY <1>1
<1>2. CASE \E q \in lo..hi : Optimal(q)
  <2>1. PICK q \in lo..hi : Optimal(q)
    BY <1>2
  <2>2. lo \in Int /\ hi \in Int /\ q \in Int /\ lo <= q /\ q <= hi /\ q \in Percents
        /\ iteration \in 0..4
    BY <2>1, NumbersAssumption DEF Bounded, Optimal
  <2>3. iteration # 0 /\ hi - lo <= 7
    <3>1. iteration = 4 \/ hi - lo <= 5
      BY <2>2 DEF MoreToHalve
    <3>2. iteration = 4 => hi - lo <= 7
      BY DEF Narrowed, Wide
    <3>3. iteration = 0 => hi - lo > 5
      BY DEF Narrowed
    <3> QED BY <2>2, <3>1, <3>2, <3>3
  <2>4. PICK l \in {0, 2}, h \in {0, 2} :
          TriedIn(tried, lo + l) /\ TriedIn(tried, hi - h) /\ (l = 2 \/ h = 2)
    BY <2>3 DEF Narrowed, EndsTried
  <2> DEFINE left == lo + l
             right == hi - h
  <2>5. /\ left \in Int /\ right \in Int
        /\ \/ q - 2 <= left /\ left <= q + 2
           \/ q - 2 <= right /\ right <= q + 2
    BY <2>2, <2>3, <2>4
  <2>6. TriedIn(tried, left) /\ TriedIn(tried, right)
    BY <2>4
  <2> HIDE DEF left, right
  <2> QED BY <2>1, <2>2, <2>5, <2>6, CloseToTried
<1> QED BY <1>1, <1>2 DEF Narrowed

LEMMA ApproachInit == ASSUME Init PROVE ApproachInv
<1>1. stage = "single" /\ lo = MinSplitPercent /\ hi = 100 - MinSplitPercent
      /\ iteration = 0
  BY DEF Init
<1> QED BY <1>1 DEF ApproachInv

LEMMA ProbeApproaches ==
  ASSUME Divisible, SplitInv, ApproachInv, Probe, Wanted
  PROVE  Narrowed(tried', lo', hi', iteration')
<1>1. /\ stage = "probe" /\ lo' = lo /\ hi' = hi /\ iteration' = iteration
      /\ Split(<<lo, 100 - lo>>) \in tried' /\ Split(<<hi, 100 - hi>>) \in tried'
  BY DEF Probe
<1>2. lo = MinSplitPercent /\ hi = 100 - MinSplitPercent /\ iteration = 0
  BY <1>1 DEF ApproachInv
<1>3. /\ Typed /\ exactIn /\ Answers /\ {1, 2} \subseteq DOMAIN pools
  BY DEF SplitInv, Wanted
<1>4. lo \in Percents /\ hi \in Percents /\ lo \in Int /\ hi \in Int
      /\ hi - lo > 5 /\ hi - lo <= 98
  BY <1>2, PercentsBounded DEF Percents
<1>5. TriedIn(tried', lo) /\ TriedIn(tried', hi)
  BY <1>1, <1>3, <1>4, PairGives DEF TriedIn
<1>6. EndsTried(tried', lo, hi, 0)
  <2>1. lo + 0 = lo /\ hi - 0 = hi /\ 0 \in {0, 2}
    BY <1>4
  <2> QED BY <1>5, <2>1 DEF EndsTried
<1>7. \E q \in lo..hi : Optimal(q)
  BY <1>2, <1>3, SomeOptimum DEF Percents
<1>8. Wide[1] = 98 /\ 0 + 1 = 1
  BY DEF Wide
<1> QED BY <1>1, <1>2, <1>4, <1>6, <1>7, <1>8 DEF Narrowed

LEMMA HalveApproaches ==
  ASSUME Concave, Divisible, SplitInv, Bounded, ApproachInv, Halve, Wanted
  PROVE  Narrowed(tried', lo', hi', iteration')
<1> DEFINE left == Mid - 2
           right == Mid + 2
<1>1. /\ stage = "halve" /\ iteration < 4 /\ hi - lo > 5 /\ iteration' = iteration + 1
      /\ tried' = tried \cup {Left, Right}
      /\ IF LeftBetter THEN hi' = Mid /\ lo' = lo ELSE lo' = Mid /\ hi' = hi
  BY DEF Halve, MoreToHalve
<1>2. Narrowed(tried, lo, hi, iteration)
  BY <1>1 DEF ApproachInv
<1>3. /\ Typed /\ exactIn /\ Answers /\ {1, 2} \subseteq DOMAIN pools
  BY DEF SplitInv, Wanted
<1>4. /\ Mid \in Int /\ MidLeft = left /\ MidRight = right
      /\ lo + 3 <= Mid /\ Mid + 3 <= hi
      /\ 2 * (Mid - lo) <= hi - lo + 1 /\ 2 * (hi - Mid) <= hi - lo + 1
  BY <1>1, MidDivides
<1>5. lo \in Int /\ hi \in Int /\ iteration \in 0..3 /\ MinSplitPercent \in Int
      /\ MinSplitPercent <= lo /\ hi <= 100 - MinSplitPercent
  BY <1>1, NumbersAssumption DEF Bounded
<1>6. left \in Percents /\ right \in Percents /\ left \in Int /\ right \in Int
      /\ left < right
  BY <1>4, <1>5 DEF Percents
<1>7. /\ Left = Split(<<left, 100 - left>>) /\ Right = Split(<<right, 100 - right>>)
  BY <1>4 DEF Left, Right
<1>8. /\ Left # None /\ Right # None /\ Left.out = TwoWay(left) /\ Right.out = TwoWay(right)
      /\ TriedIn({Left}, left) /\ TriedIn({Right}, right)
      /\ TwoWay(left) \in Int /\ TwoWay(right) \in Int
  <2> HIDE DEF left, right
  <2> QED BY <1>3, <1>6, <1>7, PairGives, ZenonT(40) DEF TwoWay
<1>9. TriedIn(tried', left) /\ TriedIn(tried', right)
  BY <1>1, <1>8 DEF TriedIn
<1>10. LeftBetter <=> TwoWay(left) > TwoWay(right)
  BY <1>3, <1>8 DEF LeftBetter
<1>11. \A q : TriedIn(tried, q) => TriedIn(tried', q)
  BY <1>1, TriedGrows
<1>12. ApproachedIn(tried) => ApproachedIn(tried')
  BY <1>1, TriedGrows
<1>13. hi' - lo' <= Wide[iteration' + 1] /\ iteration' # 0
  <2>1. hi - lo <= Wide[iteration + 1]
    BY <1>2 DEF Narrowed
  <2>2. 2 * (hi' - lo') <= hi - lo + 1 /\ hi' - lo' \in Int
    BY <1>1, <1>4, <1>5
  <2>3. iteration \in {0, 1, 2, 3}
    BY <1>5
  <2> QED BY <1>1, <1>5, <2>1, <2>2, <2>3 DEF Wide
<1>14. EndsTried(tried', lo', hi', iteration')
  <2>1. PICK l \in {0, 2}, h \in {0, 2} : TriedIn(tried, lo + l) /\ TriedIn(tried, hi - h)
    BY <1>2 DEF Narrowed, EndsTried
  <2>2. TriedIn(tried', lo + l) /\ TriedIn(tried', hi - h)
    BY <1>11, <2>1
  <2>3. 2 \in {0, 2}
    OBVIOUS
  <2>4. CASE hi' = Mid /\ lo' = lo
    BY <1>9, <2>2, <2>3, <2>4 DEF EndsTried
  <2>5. CASE lo' = Mid /\ hi' = hi
    BY <1>9, <2>2, <2>3, <2>5 DEF EndsTried
  <2> QED BY <1>1, <2>4, <2>5
<1>15. ApproachedIn(tried') \/ \E q \in lo'..hi' : Optimal(q)
  <2>1. SUFFICES ASSUME NEW q \in lo..hi, Optimal(q)
                 PROVE  ApproachedIn(tried') \/ \E r \in lo'..hi' : Optimal(r)
    BY <1>2, <1>12 DEF Narrowed
  <2>2. q \in Percents /\ q \in Int /\ lo <= q /\ q <= hi /\ TwoWay(q) \in Int
    <3>1. q \in Percents
      BY <2>1 DEF Optimal
    <3>2. q \in Int /\ lo <= q /\ q <= hi
      BY <1>5, <2>1
    <3>3. TwoWay(q) \in Int
      BY <1>3, <3>1, PairGives
    <3> QED BY <3>1, <3>2, <3>3
  <2>3. TwoWay(left) <= TwoWay(q) /\ TwoWay(right) <= TwoWay(q)
    BY <1>6, <2>1 DEF Optimal
  <2> HIDE DEF left, right
  <2>4. CASE LeftBetter
    <3>1. TwoWay(left) > TwoWay(right) /\ hi' = Mid /\ lo' = lo
      BY <1>1, <1>10, <2>4
    <3>2. ASSUME right < q PROVE FALSE
      <4> DEFINE e == TwoWay(right) - TwoWay(left)
                 f == TwoWay(q) - TwoWay(right)
                 m == q - right
                 n == right - left
      <4>1. e * m >= f * n
        BY <1>3, <1>6, <2>2, <3>2, PairIsConcave
      <4>2. e \in Int /\ f \in Int /\ m \in Int /\ n \in Int /\ m > 0 /\ n > 0 /\ e < 0
        BY <1>6, <1>8, <2>2, <3>1, <3>2
      <4>3. f < 0
        <5> HIDE DEF e, f, m, n
        <5> QED BY <4>1, <4>2, Turning
      <4> QED BY <1>8, <2>2, <2>3, <4>3
    <3>3. CASE q <= Mid
      <4>1. q \in lo'..hi'
        BY <1>4, <1>5, <2>2, <3>1, <3>3
      <4> QED BY <2>1, <4>1
    <3>4. CASE Mid < q
      <4>1. q - 2 <= right /\ right <= q + 2
        BY <1>4, <1>6, <2>2, <3>2, <3>4 DEF right
      <4> QED BY <1>6, <1>9, <2>1, <2>2, <4>1, CloseToTried
    <3> QED BY <1>4, <2>2, <3>3, <3>4
  <2>5. CASE ~LeftBetter
    <3>1. TwoWay(left) <= TwoWay(right) /\ lo' = Mid /\ hi' = hi
      BY <1>1, <1>8, <1>10, <2>5
    <3>2. CASE Mid <= q
      <4>1. q \in lo'..hi'
        BY <1>4, <1>5, <2>2, <3>1, <3>2
      <4> QED BY <2>1, <4>1
    <3>3. CASE left <= q /\ q < Mid
      <4>1. q - 2 <= left /\ left <= q + 2
        BY <1>4, <1>6, <2>2, <3>3 DEF left
      <4> QED BY <1>6, <1>9, <2>1, <2>2, <4>1, CloseToTried
    <3>4. CASE q < left
      <4> DEFINE e == TwoWay(left) - TwoWay(q)
                 f == TwoWay(right) - TwoWay(left)
                 m == right - left
                 n == left - q
      <4>1. e * m >= f * n
        BY <1>3, <1>6, <2>2, <3>4, PairIsConcave
      <4>2. e \in Int /\ f \in Int /\ m \in Int /\ n \in Int /\ m > 0 /\ n > 0 /\ f >= 0
        BY <1>6, <1>8, <2>2, <3>1, <3>4
      <4>3. e >= 0
        <5> HIDE DEF e, f, m, n
        <5> QED BY <4>1, <4>2, Turning
      <4>4. TwoWay(left) = TwoWay(q)
        BY <1>8, <2>2, <2>3, <4>3
      <4>5. Optimal(left)
        BY <1>6, <2>1, <4>4 DEF Optimal
      <4>6. left - 2 <= left /\ left <= left + 2
        BY <1>6
      <4> QED BY <1>6, <1>9, <4>5, <4>6, CloseToTried
    <3> QED BY <1>4, <1>6, <2>2, <3>2, <3>3, <3>4
  <2> QED BY <2>4, <2>5
<1> QED BY <1>13, <1>14, <1>15 DEF Narrowed

\* The pools stand still, and what is optimal with them.
LEMMA SamePools ==
  ASSUME exactIn' = exactIn, pools' = pools
  PROVE  Wanted' = Wanted /\ \A q : Optimal(q)' = Optimal(q)
  BY DEF Wanted, Answers, Optimal, TwoWay, Split, Out

LEMMA ApproachStep ==
  ASSUME Concave, Divisible, SplitInv, Bounded, ApproachInv, [Next]_vars
  PROVE  ApproachInv'
<1>1. exactIn' = exactIn /\ pools' = pools
  BY DEF Next, vars, TrySingle, Probe, Halve, EndHalving, TryEven, Adjust, Refine,
         EndAdjusting
<1>2. Wanted' = Wanted /\ \A q : Optimal(q)' = Optimal(q)
  BY <1>1, SamePools
<1>3. /\ \A seen : ApproachedIn(seen)' = ApproachedIn(seen)
      /\ \A seen, low, high, n : Narrowed(seen, low, high, n)' = Narrowed(seen, low, high, n)
  BY <1>2 DEF ApproachedIn, Narrowed
<1>4. ASSUME Wanted
      PROVE  /\ stage' \in {"single", "probe"} =>
                  lo' = MinSplitPercent /\ hi' = 100 - MinSplitPercent /\ iteration' = 0
             /\ stage' = "halve" => Narrowed(tried', lo', hi', iteration')
             /\ stage' \in {"even", "adjust", "done"} => ApproachedIn(tried')
  <2>1. /\ stage \in {"single", "probe"} =>
             lo = MinSplitPercent /\ hi = 100 - MinSplitPercent /\ iteration = 0
        /\ stage = "halve" => Narrowed(tried, lo, hi, iteration)
        /\ stage \in {"even", "adjust", "done"} => ApproachedIn(tried)
    BY <1>4 DEF ApproachInv
  <2>2. CASE TrySingle
    <3>1. /\ stage = "single" /\ lo' = lo /\ hi' = hi /\ iteration' = iteration
          /\ stage' = IF Len(pools) = 1 THEN "done" ELSE "probe"
      BY <2>2 DEF TrySingle
    <3>2. Len(pools) # 1
      <4>1. PICK n \in 1..3 : pools \in [1..n -> Curve]
        BY DEF SplitInv, Typed
      <4>2. Len(pools) = n /\ DOMAIN pools = 1..n
        BY <4>1
      <4>3. 2 \in 1..n
        BY <1>4, <4>2 DEF Wanted
      <4> QED BY <4>2, <4>3
    <3> QED BY <2>1, <3>1, <3>2
  <2>3. CASE Probe
    <3>1. stage' = "halve" /\ Narrowed(tried', lo', hi', iteration')
      BY <1>4, <2>3, ProbeApproaches DEF Probe
    <3> QED BY <3>1
  <2>4. CASE Halve
    <3>1. stage' = "halve" /\ Narrowed(tried', lo', hi', iteration')
      BY <1>4, <2>4, HalveApproaches DEF Halve
    <3> QED BY <3>1
  <2>5. CASE EndHalving
    <3>1. /\ stage = "halve" /\ ~MoreToHalve /\ tried' = tried
          /\ stage' \in {"even", "done"}
      BY <2>5 DEF EndHalving
    <3>2. ApproachedIn(tried)
      BY <2>1, <3>1, NarrowApproaches
    <3> QED BY <3>1, <3>2
  <2>6. CASE TryEven \/ Adjust \/ Refine \/ EndAdjusting
    <3>1. /\ stage \in {"even", "adjust"} /\ tried \subseteq tried'
          /\ stage' \in {"adjust", "done"}
      BY <2>6 DEF TryEven, Adjust, Refine, EndAdjusting
    <3>2. ApproachedIn(tried')
      BY <2>1, <3>1, TriedGrows
    <3> QED BY <3>1, <3>2
  <2>7. CASE UNCHANGED vars
    BY <2>1, <2>7 DEF vars
  <2> QED BY <2>2, <2>3, <2>4, <2>5, <2>6, <2>7 DEF Next
<1> QED BY <1>2, <1>3, <1>4 DEF ApproachInv

\* OptimumIsApproached: whatever the curves, if no pool gives more for a later
\* percent than for an earlier one and the pools answer everywhere, the halving
\* has tried a split within 2 percent of an optimum.
THEOREM OptimumApproached ==
  ASSUME Concave, Divisible
  PROVE  Spec => []OptimumIsApproached
<1>1. SplitInv /\ Bounded /\ ApproachInv => OptimumIsApproached
  <2>1. SUFFICES ASSUME SplitInv, ApproachInv, exactIn, Answers, Len(pools) >= 2,
                        stage \in {"even", "adjust", "done"}
                 PROVE  \E q \in Optima, d \in -2..2 :
                          \E s \in tried : s # None /\ DOMAIN s.parts = {1, 2}
                                          /\ s.parts[1] = q + d
    BY DEF OptimumIsApproached
  <2>2. Typed /\ {1, 2} \subseteq DOMAIN pools
    <3>1. PICK n \in 1..3 : pools \in [1..n -> Curve]
      BY <2>1 DEF SplitInv, Typed
    <3>2. Len(pools) = n /\ DOMAIN pools = 1..n
      BY <3>1
    <3> QED BY <2>1, <3>2 DEF SplitInv
  <2>3. PICK q \in Percents, e \in -2..2 : Optimal(q) /\ TriedIn(tried, q + e)
    BY <2>1, <2>2 DEF ApproachInv, Wanted, ApproachedIn
  <2> DEFINE S == {TwoWay(other) : other \in Percents}
             top == TwoWay(q)
             m == Max(S)
  <2>4. S \subseteq Int /\ top \in S /\ \A y \in S : top >= y
    <3>1. \A other \in Percents : TwoWay(other) \in Int
      BY <2>1, <2>2, PairGives
    <3> QED BY <2>3, <3>1 DEF Optimal
  <2>5. m = top
    <3> HIDE DEF S, top
    <3>1. Max(S) \in S /\ \A y \in S : Max(S) >= y
      BY <2>4 DEF Max
    <3> HIDE DEF m
    <3>2. m \in Int /\ top \in Int /\ m >= top /\ top >= m
      BY <2>4, <3>1 DEF m
    <3> QED BY <3>2
  <2>6. Optima = {other \in Percents : TwoWay(other) = m}
    BY DEF Optima, Percents
  <2> HIDE DEF m
  <2>7. q \in Optima
    BY <2>5, <2>6
  <2> QED BY <2>3, <2>7 DEF TriedIn
<1>2. SplitInv /\ FairInv /\ ApproachInv /\ Concave /\ Divisible /\ [Next]_vars
        => FairInv' /\ ApproachInv'
  BY FairStep, ApproachStep DEF FairInv
<1>3. Init => FairInv /\ ApproachInv
  BY FairInit, ApproachInit
<1>4. FairInv => Bounded
  BY DEF FairInv
<1>5. Concave /\ Divisible
  OBVIOUS
<1> QED BY <1>1, <1>2, <1>3, <1>4, <1>5, InvHolds, PTL DEF Spec
=============================================================================
