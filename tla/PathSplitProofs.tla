--------------------------- MODULE PathSplitProofs --------------------------
(***************************************************************************)
(* Promises of PathSplit for all curves, any amount, both modes and both   *)
(* twins.  The division of two routes that is kept is the best that was    *)
(* tried; where a route alone answers there is an answer; the two ratios of*)
(* the golden section stay in order and inside the window, and so does an  *)
(* optimum if the sum of the routes is concave; the shares of every round  *)
(* of ADMM make a whole and are fair; the percentages of an answer make    *)
(* 100.                                                                    *)
(*                                                                         *)
(* All but the first two are about rounding: Golden is a quotient, and so  *)
(* are the parts of the amount, the projection, the enforced minimum and   *)
(* the percentages.  Each has a lemma that says how far the rounding takes *)
(* it, for all integers.                                                   *)
(***************************************************************************)
EXTENDS PathSplit, TLAPS, WellFoundedInduction, FiniteSetTheorems

Counted(t) == t.total \in Nat

Typed ==
  /\ fast \in BOOLEAN /\ exactIn \in BOOLEAN
  /\ a \in Int /\ b \in Int /\ c \in Int /\ d \in Int
  /\ stage \in {"choose", "golden"} /\ Len(paths) = 2 => paths \in [1..2 -> Curve]
  /\ stage = "golden" => Len(paths) = 2
  /\ Counted(best) /\ \A t \in tried : Counted(t)

\* BestIsKept, with the mode and the twin as parameters.
Beats(f, m, new, old) ==
  IF m THEN new > old ELSE new < old /\ (f => new > 0)

Kept(f, m, seen, top) ==
  m \/ (\A t \in seen : t.total > 0) => \A t \in seen : ~Beats(f, m, t.total, top.total)

LEMMA BeatsIsBetter ==
  ASSUME NEW new, NEW old, fast \in BOOLEAN, exactIn \in BOOLEAN
  PROVE  BetterDivided(new, old) <=> Beats(fast, exactIn, new.total, old.total)
  BY DEF BetterDivided, Better, Beats

LEMMA KeptIsBestIsKept ==
  ASSUME fast \in BOOLEAN, exactIn \in BOOLEAN
  PROVE  BestIsKept <=> Kept(fast, exactIn, tried, best)
  BY BeatsIsBetter DEF BestIsKept, Kept

\* A division has a natural number as its total.
LEMMA DividedCounts ==
  ASSUME NEW ratio \in Int, paths \in [1..2 -> Curve], exactIn \in BOOLEAN
  PROVE  Counted(Divided(ratio))
<1> DEFINE one == Part(ratio)
           two == Total - one
<1>1. one \in Int /\ two \in Int /\ Total \in Nat
  BY PathSplitAssumption DEF Part, Whole
<1>2. CASE Answers(1, one) /\ Answers(2, two)
  <2>1. one > 0 /\ two > 0
    BY <1>2 DEF Answers
  <2> HIDE DEF one
  <2>2. one \in 1..Total /\ two \in 1..Total
    BY <1>1, <2>1
  <2>3. paths[1] \in Curve /\ paths[2] \in Curve
    OBVIOUS
  <2>4. Value(1, one) \in Nat /\ Value(2, two) \in Nat
    BY <2>2, <2>3, PathSplitAssumption DEF Value
  <2>5. Value(1, one) + Value(2, two) \in Nat
    BY <2>4
  <2>6. Divided(ratio) = [at |-> ratio, total |-> Value(1, one) + Value(2, two)]
    BY <1>2 DEF Divided, one
  <2> QED BY <2>5, <2>6 DEF Counted
<1>3. CASE ~(Answers(1, one) /\ Answers(2, two))
  <2>1. Divided(ratio) = Nothing
    BY <1>3 DEF Divided
  <2> QED BY <2>1 DEF Counted, Nothing
<1> QED BY <1>2, <1>3

\* What is kept of an old best and a newcomer is best of all.
LEMMA KeepIsBest ==
  ASSUME NEW seen, NEW old, NEW new, fast \in BOOLEAN, exactIn \in BOOLEAN,
         Counted(old), Counted(new), \A t \in seen : Counted(t),
         Kept(fast, exactIn, seen, old)
  PROVE  /\ Counted(Keep(old, new))
         /\ Kept(fast, exactIn, seen \cup {new}, Keep(old, new))
<1>1. Keep(old, new) = IF new.total > 0 /\ Beats(fast, exactIn, new.total, old.total)
                       THEN new ELSE old
  BY BeatsIsBetter DEF Keep
<1>2. Counted(Keep(old, new))
  BY <1>1
<1>3. ASSUME exactIn \/ \A t \in seen \cup {new} : t.total > 0,
             NEW t \in seen \cup {new}
      PROVE  ~Beats(fast, exactIn, t.total, Keep(old, new).total)
  <2>1. t.total \in Nat /\ new.total \in Nat /\ old.total \in Nat
    BY DEF Counted
  <2>2. exactIn \/ new.total > 0
    BY <1>3
  <2>3. t \in seen => ~Beats(fast, exactIn, t.total, old.total)
    BY <1>3 DEF Kept
  <2>4. t = new \/ t \in seen
    OBVIOUS
  <2>5. CASE new.total > 0 /\ Beats(fast, exactIn, new.total, old.total)
    <3>1. Keep(old, new) = new
      BY <1>1, <2>5
    <3>2. t = new => ~Beats(fast, exactIn, t.total, new.total)
      BY <2>1 DEF Beats
    <3>3. t \in seen => ~Beats(fast, exactIn, t.total, new.total)
      <4>1. CASE exactIn
        BY <2>1, <2>3, <2>5, <4>1 DEF Beats
      <4>2. CASE ~exactIn
        <5>1. t \in seen => t.total > 0
          BY <1>3, <4>2
        <5> QED BY <2>1, <2>3, <2>5, <4>2, <5>1 DEF Beats
      <4> QED BY <4>1, <4>2
    <3> QED BY <2>4, <3>1, <3>2, <3>3
  <2>6. CASE ~(new.total > 0 /\ Beats(fast, exactIn, new.total, old.total))
    <3>1. Keep(old, new) = old
      BY <1>1, <2>6
    <3>2. t = new => ~Beats(fast, exactIn, t.total, old.total)
      BY <2>1, <2>2, <2>6 DEF Beats
    <3> QED BY <2>3, <2>4, <3>1, <3>2
  <2> QED BY <2>5, <2>6
<1>4. Kept(fast, exactIn, seen \cup {new}, Keep(old, new))
  BY <1>3 DEF Kept
<1> QED BY <1>2, <1>4

KeptInv == Typed /\ Kept(fast, exactIn, tried, best)

LEMMA KeptInit == ASSUME Init PROVE KeptInv
<1>1. Kept(fast, exactIn, tried, best)
  BY DEF Init, Kept
<1>2. Counted(best) /\ \A t \in tried : Counted(t)
  BY DEF Init, Counted, Nothing
<1>3. a \in Int /\ b \in Int /\ c \in Int /\ d \in Int
  BY DEF Init, MinSplitRatio, MaxSplitRatio, Golden
<1>4. Len(paths) = 2 => paths \in [1..2 -> Curve]
  <2>1. PICK n \in 1..3 : paths \in [1..n -> Curve]
    BY DEF Init
  <2>2. Len(paths) = n
    BY <2>1
  <2> QED BY <2>1, <2>2
<1>5. stage = "choose" /\ fast \in BOOLEAN /\ exactIn \in BOOLEAN
  BY DEF Init
<1> QED BY <1>1, <1>2, <1>3, <1>4, <1>5 DEF KeptInv, Typed

\* The steps that neither narrow the window nor begin it leave what was kept.
Quiet == /\ fast' = fast /\ exactIn' = exactIn /\ paths' = paths
         /\ a' = a /\ b' = b /\ c' = c /\ d' = d
         /\ best' = best /\ tried' = tried
         /\ stage' = "done" \/ (stage' = "solve" /\ Len(paths) = 3)
            \/ stage' = stage

LEMMA QuietSteps ==
  ASSUME TakeTheOne \/ EndGolden \/ BeginSolve \/ Iterate \/ EndSolve
         \/ UNCHANGED vars
  PROVE  Quiet
<1>1. CASE TakeTheOne
  BY <1>1 DEF TakeTheOne, Quiet
<1>2. CASE EndGolden
  BY <1>2 DEF EndGolden, Quiet
<1>3. CASE BeginSolve
  BY <1>3 DEF BeginSolve, Quiet
<1>4. CASE Iterate
  BY <1>4 DEF Iterate, Quiet
<1>5. CASE EndSolve
  BY <1>5 DEF EndSolve, Quiet
<1>6. CASE UNCHANGED vars
  BY <1>6 DEF vars, Quiet
<1> QED BY <1>1, <1>2, <1>3, <1>4, <1>5, <1>6

LEMMA KeptStep == ASSUME KeptInv, [Next]_vars PROVE KeptInv'
<1>1. fast \in BOOLEAN /\ exactIn \in BOOLEAN /\ Counted(best)
      /\ (\A t \in tried : Counted(t)) /\ Kept(fast, exactIn, tried, best)
      /\ a \in Int /\ b \in Int /\ c \in Int /\ d \in Int
  BY DEF KeptInv, Typed
<1>2. CASE BeginGolden
  <2>1. paths \in [1..2 -> Curve] /\ Len(paths) = 2
    BY <1>2 DEF BeginGolden, KeptInv, Typed
  <2>2. /\ fast' = fast /\ exactIn' = exactIn /\ paths' = paths /\ stage' = "golden"
        /\ a' = a /\ b' = b /\ c' = c /\ d' = d
        /\ tried' = {Divided(c), Divided(d)}
        /\ best' = IF Beats(fast, exactIn, Divided(c).total, Divided(d).total)
                   THEN Divided(c) ELSE Divided(d)
    BY <1>1, <1>2, BeatsIsBetter DEF BeginGolden
  <2>3. Counted(Divided(c)) /\ Counted(Divided(d))
    BY <1>1, <2>1, DividedCounts
  <2>4. Kept(fast, exactIn, tried', best')
    BY <1>1, <2>2, <2>3 DEF Kept, Beats, Counted
  <2>5. Counted(best') /\ \A t \in tried' : Counted(t)
    BY <2>2, <2>3
  <2> QED BY <1>1, <2>1, <2>2, <2>4, <2>5 DEF KeptInv, Typed, Counted
<1>3. CASE NarrowLeft
  <2>1. paths \in [1..2 -> Curve] /\ Len(paths) = 2
    BY <1>3 DEF NarrowLeft, KeptInv, Typed
  <2>2. /\ fast' = fast /\ exactIn' = exactIn /\ paths' = paths /\ stage' = "golden"
        /\ a' = a /\ b' = d /\ d' = c /\ c' = d - Golden(d - a)
        /\ tried' = tried \cup {Divided(c')} /\ best' = Keep(best, Divided(c'))
    BY <1>3 DEF NarrowLeft
  <2>3. c' \in Int
    BY <1>1, <2>2 DEF Golden
  <2> DEFINE new == Divided(c')
  <2>4. Counted(new)
    BY <1>1, <2>1, <2>3, DividedCounts
  <2> HIDE DEF new
  <2>5. Counted(Keep(best, new)) /\ Kept(fast, exactIn, tried \cup {new}, Keep(best, new))
    BY <1>1, <2>4, KeepIsBest
  <2>6. tried' = tried \cup {new} /\ best' = Keep(best, new)
    BY <2>2 DEF new
  <2> QED BY <1>1, <2>1, <2>2, <2>3, <2>4, <2>5, <2>6 DEF KeptInv, Typed, Counted
<1>4. CASE NarrowRight
  <2>1. paths \in [1..2 -> Curve] /\ Len(paths) = 2
    BY <1>4 DEF NarrowRight, KeptInv, Typed
  <2>2. /\ fast' = fast /\ exactIn' = exactIn /\ paths' = paths /\ stage' = "golden"
        /\ a' = c /\ b' = b /\ c' = d /\ d' = c + Golden(b - c)
        /\ tried' = tried \cup {Divided(d')} /\ best' = Keep(best, Divided(d'))
    BY <1>4 DEF NarrowRight
  <2>3. d' \in Int
    BY <1>1, <2>2 DEF Golden
  <2> DEFINE new == Divided(d')
  <2>4. Counted(new)
    BY <1>1, <2>1, <2>3, DividedCounts
  <2> HIDE DEF new
  <2>5. Counted(Keep(best, new)) /\ Kept(fast, exactIn, tried \cup {new}, Keep(best, new))
    BY <1>1, <2>4, KeepIsBest
  <2>6. tried' = tried \cup {new} /\ best' = Keep(best, new)
    BY <2>2 DEF new
  <2> QED BY <1>1, <2>1, <2>2, <2>3, <2>4, <2>5, <2>6 DEF KeptInv, Typed, Counted
<1>5. CASE Quiet
  BY <1>1, <1>5 DEF Quiet, KeptInv, Typed, Counted
<1> QED BY <1>2, <1>3, <1>4, <1>5, QuietSteps DEF Next

\* The division of two routes that is kept is the best that was tried.
THEOREM BestDivisionIsKept == Spec => []BestIsKept
<1>1. KeptInv => BestIsKept
  BY KeptIsBestIsKept DEF KeptInv, Typed
<1> QED BY <1>1, KeptInit, KeptStep, PTL DEF Spec

-----------------------------------------------------------------------------
\* An answer names the routes it uses: it is not None.
LEMMA BestAloneAnswers ==
  ASSUME \E i \in DOMAIN paths : Answers(i, Total)
  PROVE  BestAlone # None
<1> DEFINE able == {i \in DOMAIN paths : Answers(i, Total)}
           first == {i \in able : \A j \in able :
                       /\ ~Better(Value(j, Total), Value(i, Total))
                       /\ Value(j, Total) = Value(i, Total) => i <= j}
           one == CHOOSE i \in first : TRUE
<1>1. BestAlone = Alone(one)
  BY DEF BestAlone
<1> HIDE DEF one
<1>2. DOMAIN Alone(one).shares = {one}
  BY DEF Alone
<1>3. DOMAIN None.shares = {}
  BY DEF None
<1> QED BY <1>1, <1>2, <1>3

\* Where a route alone answers the whole amount, the splitter ends with an answer.
THEOREM AnswersAreFound == Spec => []AnAnswerIsFound
<1>1. Init => AnAnswerIsFound
  BY DEF Init, AnAnswerIsFound
<1>2. ASSUME AnAnswerIsFound, [Next]_vars PROVE AnAnswerIsFound'
  <2>1. CASE stage' = "done" /\ stage # "done"
    <3>1. SUFFICES ASSUME \E i \in DOMAIN paths : Answers(i, Total)
                   PROVE  answer' # None
      <4>1. paths' = paths
        BY <1>2, <2>1 DEF Next, vars, TakeTheOne, BeginGolden, NarrowLeft, NarrowRight,
                          EndGolden, BeginSolve, Iterate, EndSolve
      <4> QED BY <4>1 DEF AnAnswerIsFound, Answers
    <3>2. BestAlone # None
      BY <3>1, BestAloneAnswers
    <3>3. CASE TakeTheOne
      BY <3>2, <3>3 DEF TakeTheOne
    <3>4. CASE EndGolden
      <4>1. DOMAIN TwoRoutes.shares = 1..2 /\ DOMAIN None.shares = {} /\ 1 \in 1..2
        BY DEF TwoRoutes, None
      <4>2. TwoRoutes # None
        BY <4>1
      <4> QED BY <3>2, <3>4, <4>2 DEF EndGolden
    <3>5. CASE EndSolve
      <4>1. ThreeRoutes = None => ~(ThreeRoutes.out > 0)
        BY DEF None
      <4> QED BY <3>2, <3>5, <4>1 DEF EndSolve
    <3>6. TakeTheOne \/ EndGolden \/ EndSolve
      BY <1>2, <2>1 DEF Next, vars, BeginGolden, NarrowLeft, NarrowRight, BeginSolve, Iterate
    <3> QED BY <3>3, <3>4, <3>5, <3>6
  <2>2. CASE stage' # "done"
    BY <2>2 DEF AnAnswerIsFound
  <2>3. CASE stage = "done"
    <3>1. stage' = stage /\ paths' = paths /\ answer' = answer
      BY <1>2, <2>3 DEF Next, vars, TakeTheOne, BeginGolden, NarrowLeft, NarrowRight,
                        EndGolden, BeginSolve, Iterate, EndSolve
    <3> QED BY <1>2, <3>1 DEF AnAnswerIsFound, Answers
  <2> QED BY <2>1, <2>2, <2>3
<1> QED BY <1>1, <1>2, PTL DEF Spec

-----------------------------------------------------------------------------
(* The golden section: rounding moves the two inner ratios by no more than  *)
(* one each round, and the window is too narrow to go on before they cross. *)

\* The width of the window after n rounds, at most.
Wide == <<8000, 4944, 3057, 1891, 1172, 728, 455, 287, 185, 122, 85>>

\* How far the ratio that was not computed last has drifted.
Low(n) == -(2 * (n \div 2))
High(n) == 2 * ((n + 1) \div 2)

\* A window of this width, with the distance from its left end to d and the one
\* from its right end to c.
Fits(n, width, left, right) ==
  /\ n \in 0..10 /\ width \in 54..Wide[n + 1] /\ left \in Int /\ right \in Int
  /\ \/ left = Golden(width) /\ right - Golden(width) \in Low(n)..High(n)
     \/ right = Golden(width) /\ left - Golden(width) \in Low(n)..High(n)

LEMMA GoldenBounds ==
  ASSUME NEW n \in Int
  PROVE  /\ Golden(n) \in Int
         /\ 1618 * Golden(n) <= 1000 * n /\ 1000 * n < 1618 * (Golden(n) + 1)
  BY DEF Golden

\* What is left of a window after both parts of the section.
Rest(n) == n - Golden(n) - Golden(Golden(n))

LEMMA GoldenTwice ==
  ASSUME NEW n \in Nat, n <= 8000
  PROVE  Rest(n) \in 0..2
<1> DEFINE g == Golden(n)
           gg == Golden(g)
<1>1. g \in Int /\ 1618 * g <= 1000 * n /\ 1000 * n < 1618 * (g + 1)
  BY GoldenBounds
<1> HIDE DEF g
<1>2. gg \in Int /\ 1618 * gg <= 1000 * g /\ 1000 * g < 1618 * (gg + 1)
  BY <1>1, GoldenBounds
<1> HIDE DEF gg
<1>3. 1618 * (n - g - gg) <= 1618 * n - 2618 * g + 1617
      /\ 1618 * (n - g - gg) >= 1618 * n - 2618 * g
  BY <1>1, <1>2
<1>4. 1618 * n - 2618 * g <= 2617 /\ 1618 * n - 2618 * g >= -400
  BY <1>1, SMT
<1>5. n - g - gg >= 0 /\ n - g - gg <= 2
  BY <1>1, <1>2, <1>3, <1>4, SMT
<1> QED BY <1>1, <1>2, <1>5 DEF g, gg, Rest

\* A small displacement is not made larger.
Moved(n, e) ==
  LET shift == Golden(n + e) - Golden(n)
  IN  IF e >= 0 THEN shift \in 0..e ELSE shift \in e..0

LEMMA GoldenShifts ==
  ASSUME NEW n \in Int, NEW e \in Int
  PROVE  Moved(n, e)
<1> DEFINE m == n + e
           old == Golden(n)
           new == Golden(m)
<1>1. old \in Int /\ 1618 * old <= 1000 * n /\ 1000 * n < 1618 * (old + 1)
  BY GoldenBounds
<1>2. m \in Int /\ m = n + e
  OBVIOUS
<1> HIDE DEF m
<1>3. new \in Int /\ 1618 * new <= 1000 * m /\ 1000 * m < 1618 * (new + 1)
  BY <1>2, GoldenBounds
<1> HIDE DEF old, new
<1>4. /\ e >= 0 => new - old \in 0..e
      /\ e <= 0 => new - old \in e..0
  BY <1>1, <1>2, <1>3
<1> QED BY <1>4 DEF old, new, m, Moved

LEMMA Drift ==
  ASSUME NEW n \in 0..9
  PROVE  /\ Low(n) \in -8..0 /\ High(n) \in 0..10
         /\ Low(n + 1) = -High(n) /\ High(n + 1) = 2 - Low(n)
  BY DEF Low, High

\* The right end is given up: d becomes the end.
LEMMA FitsStep ==
  ASSUME NEW n, NEW width, NEW left, NEW right, Fits(n, width, left, right),
         width > GoldenTolerance
  PROVE  Fits(n + 1, left, width - right, Golden(left))
<1>1. /\ n \in 0..10 /\ width \in 54..Wide[n + 1] /\ left \in Int /\ right \in Int
      /\ width \in Int /\ width > 100
  BY DEF Fits, GoldenTolerance
<1>2. n \in 0..9
  BY <1>1 DEF Wide
<1>3. Wide[n + 1] <= 8000 /\ Wide[n + 1] \in Int
  BY <1>2 DEF Wide
<1> DEFINE g == Golden(width)
           gg == Golden(g)
<1>4. /\ g \in Int /\ gg \in Int /\ Golden(left) \in Int
      /\ 1618 * g <= 1000 * width /\ 1000 * width < 1618 * (g + 1)
  BY <1>1, GoldenBounds
<1>5. width - g - gg \in 0..2
  <2>1. width \in Nat /\ width <= 8000
    BY <1>1, <1>3
  <2>2. Rest(width) \in 0..2
    BY <2>1, GoldenTwice
  <2> QED BY <2>2 DEF Rest
<1>6. /\ Low(n) \in -8..0 /\ High(n) \in 0..10
      /\ Low(n + 1) = -High(n) /\ High(n + 1) = 2 - Low(n)
  BY <1>2, Drift
<1>7. left - g \in Low(n)..High(n)
  BY <1>4, <1>6 DEF Fits
<1>8. width - right - Golden(left) \in Low(n + 1)..High(n + 1)
  <2>1. CASE left = g /\ right - g \in Low(n)..High(n)
    BY <1>1, <1>4, <1>5, <1>6, <2>1
  <2>2. CASE right = g /\ left - g \in Low(n)..High(n)
    <3> DEFINE e == left - g
    <3>1. e \in Int /\ g + e = left
      BY <1>1, <1>4
    <3>2. /\ e >= 0 => Golden(left) - gg \in 0..e
          /\ e <= 0 => Golden(left) - gg \in e..0
      <4> HIDE DEF e, g
      <4>1. Moved(g, e)
        BY <1>4, <3>1, GoldenShifts
      <4> QED BY <3>1, <4>1 DEF Moved
    <3> QED BY <1>1, <1>4, <1>5, <1>6, <2>2, <3>1, <3>2
  <2> QED BY <2>1, <2>2 DEF Fits
<1>9. left \in 54..Wide[n + 2]
  <2> HIDE DEF g
  <2>1. n \in {0, 1, 2, 3, 4, 5, 6, 7, 8, 9}
    BY <1>2
  <2> QED BY <1>1, <1>4, <1>6, <1>7, <2>1 DEF Wide, Low, High
<1> QED BY <1>1, <1>2, <1>4, <1>8, <1>9 DEF Fits

LEMMA FitsTurns ==
  ASSUME NEW n, NEW width, NEW left, NEW right, Fits(n, width, left, right)
  PROVE  Fits(n, width, right, left)
  BY DEF Fits

\* The two ratios are inside and in order.
LEMMA FitsOrders ==
  ASSUME NEW n, NEW width, NEW left, NEW right, Fits(n, width, left, right)
  PROVE  0 <= width - right /\ width - right <= left /\ left <= width
<1>1. /\ n \in 0..10 /\ width \in Int /\ width >= 54 /\ left \in Int /\ right \in Int
  <2>1. n \in 0..10 /\ Wide[n + 1] \in Int
    BY DEF Fits, Wide
  <2> QED BY <2>1 DEF Fits
<1>2. Low(n) \in -10..0 /\ High(n) \in 0..10
  BY <1>1 DEF Low, High
<1>3. /\ Golden(width) \in Int
      /\ 1618 * Golden(width) <= 1000 * width /\ 1000 * width < 1618 * (Golden(width) + 1)
  BY <1>1, GoldenBounds
<1> QED BY <1>1, <1>2, <1>3 DEF Fits

Window == Fits(rounds, b - a, d - a, b - c)

SectionInv ==
  /\ fast \in BOOLEAN /\ exactIn \in BOOLEAN
  /\ stage \in {"choose", "golden", "solve", "done"}
  /\ rounds \in 0..MaxIter
  /\ a \in Int /\ b \in Int /\ c \in Int /\ d \in Int
  /\ MinSplitRatio <= a /\ a <= c /\ c <= d /\ d <= b /\ b <= MaxSplitRatio
  /\ stage \in {"choose", "golden"} => Window
  /\ stage = "choose" => rounds = 0
  /\ best \in tried \cup {Nothing}

LEMMA SectionInit == ASSUME Init PROVE SectionInv
<1>1. Golden(8000) = 4944
  BY DEF Golden
<1>2. a = 1000 /\ b = 9000 /\ c = 4056 /\ d = 5944 /\ rounds = 0
  BY <1>1 DEF Init, MinSplitRatio, MaxSplitRatio
<1>3. 0 \in Low(0)..High(0)
  <2>1. 0 \in 0..9
    OBVIOUS
  <2>2. Low(0) \in -8..0 /\ High(0) \in 0..10
    BY <2>1, Drift
  <2> QED BY <2>2
<1>4. Wide[0 + 1] = 8000
  BY DEF Wide
<1>5. Fits(0, 8000, 4944, 4944)
  BY <1>1, <1>3, <1>4 DEF Fits
<1>6. Window
  BY <1>2, <1>5 DEF Window
<1> QED BY <1>2, <1>6, PathSplitAssumption DEF Init, SectionInv, MinSplitRatio, MaxSplitRatio

\* A step that leaves the window and the divisions alone.
LEMMA SectionRests ==
  ASSUME SectionInv, fast' = fast, exactIn' = exactIn, a' = a, b' = b, c' = c, d' = d,
         best' = best, tried' = tried, rounds' \in 0..MaxIter,
         \/ stage' = stage /\ rounds' = rounds
         \/ stage' \in {"solve", "done"}
  PROVE  SectionInv'
<1>1. stage' \in {"choose", "golden"} => stage' = stage /\ rounds' = rounds
  OBVIOUS
<1> QED BY <1>1 DEF SectionInv, Window

LEMMA SectionStep == ASSUME SectionInv, [Next]_vars PROVE SectionInv'
<1>1. CASE BeginGolden
  <2>1. /\ UNCHANGED <<fast, exactIn, a, b, c, d, rounds>> /\ stage = "choose"
        /\ stage' = "golden" /\ best' \in tried'
    BY <1>1 DEF BeginGolden
  <2> QED BY <2>1 DEF SectionInv, Window
<1>2. CASE NarrowLeft
  <2>1. /\ UNCHANGED <<fast, exactIn, stage, a>> /\ stage = "golden"
        /\ b' = d /\ d' = c /\ c' = d - Golden(d - a)
        /\ rounds < MaxIter /\ b - a > GoldenTolerance /\ rounds' = rounds + 1
        /\ best' \in {best, Divided(c')} /\ tried' = tried \cup {Divided(c')}
    BY <1>2 DEF NarrowLeft, MoreToNarrow, Keep
  <2>2. Fits(rounds + 1, d - a, (b - a) - (b - c), Golden(d - a))
    BY <2>1, FitsStep DEF SectionInv, Window
  <2>3. /\ a \in Int /\ b \in Int /\ c \in Int /\ d \in Int /\ Golden(d - a) \in Int
        /\ 1000 <= a /\ d <= b /\ b <= 9000
    BY GoldenBounds DEF SectionInv, MinSplitRatio, MaxSplitRatio
  <2>4. b' - a' = d - a /\ d' - a' = (b - a) - (b - c) /\ b' - c' = Golden(d - a)
    BY <2>1, <2>3
  <2>5. Window'
    BY <2>1, <2>2, <2>4 DEF Window
  <2>6. /\ 0 <= (b' - a') - (b' - c') /\ (b' - a') - (b' - c') <= d' - a'
        /\ d' - a' <= b' - a'
    BY <2>5, FitsOrders DEF Window
  <2>7. /\ a' \in Int /\ b' \in Int /\ c' \in Int /\ d' \in Int
        /\ 1000 <= a' /\ a' <= c' /\ c' <= d' /\ d' <= b' /\ b' <= 9000
    BY <2>1, <2>3, <2>6
  <2>8. rounds' \in 0..MaxIter
    BY <2>1, PathSplitAssumption DEF SectionInv
  <2>9. best' \in tried' \cup {Nothing}
    BY <2>1 DEF SectionInv
  <2> QED BY <2>1, <2>5, <2>7, <2>8, <2>9 DEF SectionInv, MinSplitRatio, MaxSplitRatio
<1>3. CASE NarrowRight
  <2>1. /\ UNCHANGED <<fast, exactIn, stage, b>> /\ stage = "golden"
        /\ a' = c /\ c' = d /\ d' = c + Golden(b - c)
        /\ rounds < MaxIter /\ b - a > GoldenTolerance /\ rounds' = rounds + 1
        /\ best' \in {best, Divided(d')} /\ tried' = tried \cup {Divided(d')}
    BY <1>3 DEF NarrowRight, MoreToNarrow, Keep
  <2>2. Fits(rounds, b - a, b - c, d - a)
    BY <2>1, FitsTurns DEF SectionInv, Window
  <2>3. Fits(rounds + 1, b - c, (b - a) - (d - a), Golden(b - c))
    BY <2>1, <2>2, FitsStep
  <2>4. Fits(rounds + 1, b - c, Golden(b - c), (b - a) - (d - a))
    BY <2>3, FitsTurns
  <2>5. /\ a \in Int /\ b \in Int /\ c \in Int /\ d \in Int /\ Golden(b - c) \in Int
        /\ 1000 <= a /\ a <= c /\ b <= 9000
    BY GoldenBounds DEF SectionInv, MinSplitRatio, MaxSplitRatio
  <2>6. b' - a' = b - c /\ d' - a' = Golden(b - c) /\ b' - c' = (b - a) - (d - a)
    BY <2>1, <2>5
  <2>7. Window'
    BY <2>1, <2>4, <2>6 DEF Window
  <2>8. /\ 0 <= (b' - a') - (b' - c') /\ (b' - a') - (b' - c') <= d' - a'
        /\ d' - a' <= b' - a'
    BY <2>7, FitsOrders DEF Window
  <2>9. /\ a' \in Int /\ b' \in Int /\ c' \in Int /\ d' \in Int
        /\ 1000 <= a' /\ a' <= c' /\ c' <= d' /\ d' <= b' /\ b' <= 9000
    BY <2>1, <2>5, <2>8
  <2>10. rounds' \in 0..MaxIter
    BY <2>1, PathSplitAssumption DEF SectionInv
  <2>11. best' \in tried' \cup {Nothing}
    BY <2>1 DEF SectionInv
  <2> QED BY <2>1, <2>7, <2>9, <2>10, <2>11 DEF SectionInv, MinSplitRatio, MaxSplitRatio
<1>4. CASE TakeTheOne \/ EndGolden \/ BeginSolve \/ EndSolve \/ UNCHANGED vars
  <2>1. /\ UNCHANGED <<fast, exactIn, a, b, c, d, best, tried, rounds>>
        /\ stage' = stage \/ stage' \in {"solve", "done"}
    BY <1>4 DEF TakeTheOne, EndGolden, BeginSolve, EndSolve, vars
  <2>2. rounds' \in 0..MaxIter
    BY <2>1 DEF SectionInv
  <2> QED BY <2>1, <2>2, SectionRests
<1>5. CASE Iterate
  <2>1. /\ UNCHANGED <<fast, exactIn, a, b, c, d, best, tried, stage>>
        /\ stage = "solve" /\ rounds < MaxIter /\ rounds' \in {MaxIter, rounds + 1}
    BY <1>5 DEF Iterate
  <2>2. rounds' \in 0..MaxIter
    BY <2>1, PathSplitAssumption DEF SectionInv
  <2> QED BY <2>1, <2>2, SectionRests
<1> QED BY <1>1, <1>2, <1>3, <1>4, <1>5 DEF Next

\* PathSplitTypeOK: the types, and the two ratios stay inside the window and in
\* order, however the divisions are rounded.
THEOREM RatiosStayInWindow == Spec => []PathSplitTypeOK
<1>1. SectionInv => PathSplitTypeOK
  BY DEF SectionInv, PathSplitTypeOK
<1> QED BY <1>1, SectionInit, SectionStep, PTL DEF Spec

-----------------------------------------------------------------------------
(* The optimum of two routes.  What is given up of the window is on the far  *)
(* side of the better of the two ratios, and a concave sum that falls there  *)
(* goes on falling: no optimum is lost, or not the last one.                 *)

\* What a route gives for one more unit never grows.
Concave ==
  \A r \in Curve : \A x, y, w \in 1..Total :
    x < y /\ y < w =>
      (Give(r, y) - Give(r, x)) * (w - y) >= (Give(r, w) - Give(r, y)) * (y - x)

\* The amount is large enough for two ratios a few hundredths of a percent apart
\* to make two different divisions.
Divisible == Total >= 1000

Splits == Part(MinSplitRatio)..Part(MaxSplitRatio)
Optimal(one) == one \in Splits /\ \A other \in Splits : Sum2(other) <= Sum2(one)

LEMMA PartBounds ==
  ASSUME NEW ratio \in Int
  PROVE  /\ Part(ratio) \in Int
         /\ 10000 * Part(ratio) <= Total * ratio
         /\ Total * ratio < 10000 * (Part(ratio) + 1)
<1> DEFINE n == Total * ratio
<1>1. n \in Int
  BY PathSplitAssumption
<1> HIDE DEF n
<1>2. /\ n \div 10000 \in Int /\ 10000 * (n \div 10000) <= n
      /\ n < 10000 * ((n \div 10000) + 1)
  BY <1>1
<1> QED BY <1>2 DEF n, Part, Whole

LEMMA Larger ==
  ASSUME NEW t \in Nat, NEW m \in Int, NEW n \in Int, m <= n
  PROVE  t * m <= t * n
  OBVIOUS

\* A larger ratio is no smaller part, and larger by one from 13 hundredths of a
\* percent on.
LEMMA PartGrows ==
  ASSUME NEW low \in Int, NEW high \in Int, low <= high
  PROVE  Part(low) <= Part(high)
<1>1. Total * low <= Total * high
  BY PathSplitAssumption, Larger
<1>2. /\ Part(low) \in Int /\ 10000 * Part(low) <= Total * low
      /\ Part(high) \in Int /\ Total * high < 10000 * (Part(high) + 1)
  BY PartBounds
<1> DEFINE m == Total * low
           n == Total * high
<1>3. m \in Int /\ n \in Int
  BY PathSplitAssumption
<1> HIDE DEF m, n
<1> QED BY <1>1, <1>2, <1>3 DEF m, n

LEMMA PartGrowsMore ==
  ASSUME Divisible, NEW low \in Int, NEW high \in Int, low + 13 <= high
  PROVE  Part(low) < Part(high)
<1> DEFINE m == Total * low
           n == Total * high
           more == Total * 13
<1>1. m \in Int /\ n \in Int /\ more \in Int /\ more >= 13000
  BY PathSplitAssumption DEF Divisible
<1>2. Total * (low + 13) <= n
  BY PathSplitAssumption, Larger
<1>3. Total * (low + 13) = m + more
  BY PathSplitAssumption
<1>4. /\ Part(low) \in Int /\ 10000 * Part(low) <= m
      /\ Part(high) \in Int /\ n < 10000 * (Part(high) + 1)
  BY PartBounds
<1> HIDE DEF m, n, more
<1> QED BY <1>1, <1>2, <1>3, <1>4

\* Every part of a split is some of the amount, and not all of it.
LEMMA SplitsAreParts ==
  ASSUME Divisible
  PROVE  /\ Part(MinSplitRatio) \in Int /\ Part(MaxSplitRatio) \in Int
         /\ Part(MinSplitRatio) <= Part(MaxSplitRatio)
         /\ \A one \in Splits : one \in 1..Total /\ Total - one \in 1..Total
<1>1. Total \in Nat /\ Total >= 1000
  BY PathSplitAssumption DEF Divisible
<1>2. /\ Part(1000) \in Int /\ Total * 1000 < 10000 * (Part(1000) + 1)
      /\ Part(9000) \in Int /\ 10000 * Part(9000) <= Total * 9000
  BY PartBounds
<1>3. Part(1000) >= 1 /\ Part(9000) <= Total - 1
  BY <1>1, <1>2
<1>4. Part(1000) <= Part(9000)
  BY PartGrows
<1> QED BY <1>1, <1>2, <1>3, <1>4 DEF Splits, MinSplitRatio, MaxSplitRatio

LEMMA RatioSplits ==
  ASSUME NEW ratio \in Int, MinSplitRatio <= ratio, ratio <= MaxSplitRatio
  PROVE  Part(ratio) \in Splits
<1>1. Part(MinSplitRatio) <= Part(ratio) /\ Part(ratio) <= Part(MaxSplitRatio)
  BY PartGrows DEF MinSplitRatio, MaxSplitRatio
<1>2. Part(ratio) \in Int /\ Part(MinSplitRatio) \in Int /\ Part(MaxSplitRatio) \in Int
  BY PartBounds DEF MinSplitRatio, MaxSplitRatio
<1> QED BY <1>1, <1>2 DEF Splits

LEMMA SumCounts ==
  ASSUME Divisible, exactIn, paths \in [1..2 -> Curve], NEW one \in Splits
  PROVE  /\ Sum2(one) = Give(paths[1], one) + Give(paths[2], Total - one)
         /\ Give(paths[1], one) \in Nat /\ Give(paths[2], Total - one) \in Nat
         /\ Sum2(one) \in Int
<1>1. one \in 1..Total /\ Total - one \in 1..Total
  BY SplitsAreParts
<1>2. paths[1] \in Curve /\ paths[2] \in Curve
  OBVIOUS
<1>3. Give(paths[1], one) \in Nat /\ Give(paths[2], Total - one) \in Nat
  BY <1>1, <1>2, PathSplitAssumption
<1>4. Sum2(one) = Give(paths[1], one) + Give(paths[2], Total - one)
  BY DEF Sum2, Value
<1> QED BY <1>3, <1>4

\* Where both routes always answer, a division is worth their sum.
LEMMA DividedIsSum ==
  ASSUME Divisible, exactIn, Always, paths \in [1..2 -> Curve],
         NEW ratio \in Int, MinSplitRatio <= ratio, ratio <= MaxSplitRatio
  PROVE  Divided(ratio).total = Sum2(Part(ratio))
<1> DEFINE one == Part(ratio)
<1>1. one \in Splits
  BY RatioSplits
<1> HIDE DEF one
<1>2. one \in 1..Total /\ Total - one \in 1..Total
  BY <1>1, SplitsAreParts
<1>3. Answers(1, one) /\ Answers(2, Total - one)
  BY <1>2 DEF Always
<1>4. Divided(ratio) = [at |-> ratio, total |-> Value(1, one) + Value(2, Total - one)]
  BY <1>3 DEF Divided, one
<1> QED BY <1>4 DEF Sum2, one

\* Two sums of products, the second of a route that gets what the first leaves.
LEMMA ProductsAdd ==
  ASSUME NEW p \in Int, NEW q \in Int, NEW f \in Int, NEW g \in Int, NEW h \in Int,
         NEW k \in Int, f * p >= g * q, h * q >= k * p
  PROVE  (f - k) * p >= (g - h) * q
<1>1. (f - k) * p = f * p - k * p /\ (g - h) * q = g * q - h * q
  OBVIOUS
<1>2. f * p \in Int /\ g * q \in Int /\ h * q \in Int /\ k * p \in Int
  OBVIOUS
<1> QED BY <1>1, <1>2

LEMMA SumIsConcave ==
  ASSUME Concave, Divisible, exactIn, paths \in [1..2 -> Curve],
         NEW x \in Splits, NEW y \in Splits, NEW w \in Splits, x < y, y < w
  PROVE  (Sum2(y) - Sum2(x)) * (w - y) >= (Sum2(w) - Sum2(y)) * (y - x)
<1> DEFINE f(one) == Give(paths[1], one)
           g(one) == Give(paths[2], Total - one)
<1>1. /\ x \in 1..Total /\ Total - x \in 1..Total
      /\ y \in 1..Total /\ Total - y \in 1..Total
      /\ w \in 1..Total /\ Total - w \in 1..Total
      /\ paths[1] \in Curve /\ paths[2] \in Curve /\ Total \in Int
  BY SplitsAreParts, PathSplitAssumption
<1>2. /\ Sum2(x) = f(x) + g(x) /\ Sum2(y) = f(y) + g(y) /\ Sum2(w) = f(w) + g(w)
      /\ f(x) \in Nat /\ g(x) \in Nat /\ f(y) \in Nat /\ g(y) \in Nat
      /\ f(w) \in Nat /\ g(w) \in Nat
  BY SumCounts
<1>3. (f(y) - f(x)) * (w - y) >= (f(w) - f(y)) * (y - x)
  BY <1>1 DEF Concave
<1>4. (g(y) - g(w)) * (y - x) >= (g(x) - g(y)) * (w - y)
  <2>1. Total - w < Total - y /\ Total - y < Total - x
    BY <1>1
  <2>2. (g(y) - g(w)) * ((Total - x) - (Total - y))
          >= (g(x) - g(y)) * ((Total - y) - (Total - w))
    BY <1>1, <2>1 DEF Concave
  <2>3. (Total - x) - (Total - y) = y - x /\ (Total - y) - (Total - w) = w - y
    BY <1>1
  <2> HIDE DEF g
  <2> QED BY <2>2, <2>3
<1> DEFINE p == w - y
           q == y - x
           f1 == f(y) - f(x)
           f2 == f(w) - f(y)
           g1 == g(y) - g(w)
           g2 == g(x) - g(y)
<1>5. p \in Int /\ q \in Int /\ f1 \in Int /\ f2 \in Int /\ g1 \in Int /\ g2 \in Int
  <2> HIDE DEF f, g
  <2> QED BY <1>1, <1>2
<1>6. f1 - g2 = Sum2(y) - Sum2(x) /\ f2 - g1 = Sum2(w) - Sum2(y)
  <2> HIDE DEF f, g
  <2> QED BY <1>2
<1>7. f1 * p >= f2 * q /\ g1 * q >= g2 * p
  BY <1>3, <1>4
<1> HIDE DEF p, q, f1, f2, g1, g2
<1>8. (f1 - g2) * p >= (f2 - g1) * q
  BY <1>5, <1>7, ProductsAdd
<1> QED BY <1>6, <1>8 DEF p, q

\* A concave sum that does not rise went no higher before, and one that falls
\* goes on falling.
LEMMA Turning ==
  ASSUME NEW e \in Int, NEW f \in Int, NEW p \in Int, NEW q \in Int, p > 0, q > 0,
         e * p >= f * q
  PROVE  (f >= 0 => e >= 0) /\ (e < 0 => f < 0)
<1>1. ASSUME f >= 0, e < 0 PROVE FALSE
  <2>1. f * q >= 0
    BY <1>1
  <2>2. e * p < 0
    BY <1>1
  <2>3. f * q \in Int /\ e * p \in Int
    OBVIOUS
  <2> QED BY <2>1, <2>2, <2>3
<1> QED BY <1>1

\* Some division is optimal: among finitely many parts, one has none above it.
LEMMA SomeOptimum ==
  ASSUME Divisible, exactIn, paths \in [1..2 -> Curve]
  PROVE  \E one \in Splits : Optimal(one)
<1> DEFINE Above(one) == {other \in Splits : Sum2(other) > Sum2(one)}
           B == {Above(one) : one \in Splits}
           R == StrictSubsetOrdering(Splits)
<1>1. Splits # {} /\ \A one \in Splits : Sum2(one) \in Int
  <2>1. Part(MinSplitRatio) \in Splits
    BY SplitsAreParts DEF Splits
  <2> QED BY <2>1, SumCounts
<1>2. B \subseteq FiniteSubsetsOf(Splits) /\ B # {}
  <2>1. IsFiniteSet(Splits)
    BY SplitsAreParts, FS_Interval DEF Splits
  <2>2. \A one \in Splits : IsFiniteSet(Above(one)) /\ Above(one) \subseteq Splits
    BY <2>1, FS_Subset
  <2> QED BY <1>1, <2>2 DEF FiniteSubsetsOf
<1>3. IsWellFoundedOn(R, FiniteSubsetsOf(Splits))
  BY FS_StrictSubsetOrderingWellFounded
<1> HIDE DEF R
<1>4. PICK least \in B : \A other \in B : ~(<<other, least>> \in R)
  <2> HIDE DEF B
  <2> QED BY <1>2, <1>3, WFMin
<1>5. PICK one \in Splits : least = Above(one)
  OBVIOUS
<1>6. ASSUME NEW other \in Splits, Sum2(other) > Sum2(one) PROVE FALSE
  <2>1. Above(other) \subseteq Above(one) /\ Above(other) # Above(one)
    <3>1. other \in Above(one) /\ other \notin Above(other)
      BY <1>1, <1>6
    <3>2. ASSUME NEW third \in Splits, Sum2(third) > Sum2(other)
          PROVE  Sum2(third) > Sum2(one)
      BY <1>1, <1>6, <3>2
    <3> QED BY <3>1, <3>2
  <2>2. <<Above(other), Above(one)>> \in R
    BY <2>1 DEF R, StrictSubsetOrdering
  <2> QED BY <1>4, <1>5, <2>2
<1> QED BY <1>1, <1>6 DEF Optimal

\* While there is something to narrow the two ratios are 13 hundredths of a
\* percent apart.
LEMMA RatiosApart ==
  ASSUME SectionInv, stage = "golden", b - a > GoldenTolerance
  PROVE  c + 13 <= d
<1> DEFINE width == b - a
           left == d - a
           right == b - c
<1>1. /\ a \in Int /\ b \in Int /\ c \in Int /\ d \in Int /\ width > 100
      /\ Fits(rounds, width, left, right)
  BY DEF SectionInv, Window, GoldenTolerance
<1>2. d - c = left + right - width
  BY <1>1
<1>3. width \in Int /\ left \in Int /\ right \in Int
  BY <1>1
<1> HIDE DEF width, left, right
<1>4. rounds \in 0..9
  <2>1. rounds \in 0..10 /\ width \in 54..Wide[rounds + 1]
    BY <1>1 DEF Fits
  <2> QED BY <1>1, <1>3, <2>1 DEF Wide
<1>5. Low(rounds) \in -8..0 /\ High(rounds) \in 0..10
  BY <1>4, Drift
<1>6. /\ Golden(width) \in Int
      /\ 1618 * Golden(width) <= 1000 * width
      /\ 1000 * width < 1618 * (Golden(width) + 1)
  BY <1>3, GoldenBounds
<1>7. left + right >= 2 * Golden(width) - 8
  BY <1>1, <1>3, <1>5, <1>6 DEF Fits
<1>8. left + right - width >= 13
  BY <1>1, <1>3, <1>6, <1>7
<1> QED BY <1>1, <1>2, <1>8

OptimumInside ==
  exactIn /\ stage = "golden" /\ Always => \E one \in Part(a)..Part(b) : Optimal(one)

OptimumInv ==
  /\ KeptInv /\ SectionInv /\ OptimumInside
  /\ stage = "choose" => a = MinSplitRatio /\ b = MaxSplitRatio

LEMMA OptimumInit == ASSUME Init PROVE OptimumInv
<1>1. stage = "choose" /\ a = MinSplitRatio /\ b = MaxSplitRatio
  BY DEF Init
<1> QED BY <1>1, KeptInit, SectionInit DEF OptimumInv, OptimumInside

\* The two ratios inside the window are two divisions, in order.
LEMMA InnerParts ==
  ASSUME Divisible, SectionInv, stage = "golden", b - a > GoldenTolerance
  PROVE  /\ Part(c) \in Splits /\ Part(d) \in Splits /\ Part(c) < Part(d)
         /\ Part(a) \in Int /\ Part(b) \in Int
<1>1. /\ a \in Int /\ b \in Int /\ c \in Int /\ d \in Int
      /\ MinSplitRatio <= c /\ c <= MaxSplitRatio
      /\ MinSplitRatio <= d /\ d <= MaxSplitRatio
  BY DEF SectionInv, MinSplitRatio, MaxSplitRatio
<1>2. c + 13 <= d
  BY RatiosApart
<1> QED BY <1>1, <1>2, RatioSplits, PartGrowsMore, PartBounds

\* What was optimal stays optimal, and the routes go on answering.
LEMMA SameRoutes ==
  ASSUME exactIn' = exactIn, paths' = paths
  PROVE  Always' = Always /\ \A one : Optimal(one)' = Optimal(one)
  BY DEF Always, Answers, Optimal, Splits, Sum2, Value

LEMMA OptimumStep ==
  ASSUME Concave, Divisible, OptimumInv, [Next]_vars
  PROVE  OptimumInv'
<1>1. KeptInv' /\ SectionInv'
  BY KeptStep, SectionStep DEF OptimumInv
<1>2. exactIn' = exactIn /\ paths' = paths
  BY DEF Next, vars, TakeTheOne, BeginGolden, NarrowLeft, NarrowRight, EndGolden,
         BeginSolve, Iterate, EndSolve
<1>3. Always' = Always /\ \A one : Optimal(one)' = Optimal(one)
  BY <1>2, SameRoutes
<1>4. stage' = "choose" => a' = MinSplitRatio /\ b' = MaxSplitRatio
  BY DEF OptimumInv, Next, vars, TakeTheOne, BeginGolden, NarrowLeft, NarrowRight,
         EndGolden, BeginSolve, Iterate, EndSolve
<1>5. ASSUME exactIn, stage' = "golden", Always
      PROVE  \E one \in Part(a')..Part(b') : Optimal(one)
  <2>1. CASE BeginGolden
    <3>1. a' = MinSplitRatio /\ b' = MaxSplitRatio /\ paths \in [1..2 -> Curve]
      BY <2>1 DEF BeginGolden, OptimumInv, KeptInv, Typed
    <3> QED BY <1>5, <3>1, SomeOptimum DEF Splits
  <2>2. CASE NarrowLeft \/ NarrowRight
    <3>1. stage = "golden" /\ b - a > GoldenTolerance
      BY <2>2 DEF NarrowLeft, NarrowRight, MoreToNarrow
    <3>2. SectionInv /\ paths \in [1..2 -> Curve] /\ fast \in BOOLEAN /\ exactIn \in BOOLEAN
      BY <3>1 DEF OptimumInv, KeptInv, Typed
    <3>3. PICK one \in Part(a)..Part(b) : Optimal(one)
      BY <1>5, <3>1 DEF OptimumInv, OptimumInside
    <3> DEFINE pa == Part(a)
               pb == Part(b)
               pc == Part(c)
               pd == Part(d)
    <3>4. pc \in Splits /\ pd \in Splits /\ pc < pd /\ pa \in Int /\ pb \in Int
      BY <3>1, <3>2, InnerParts
    <3>5. pc \in Int /\ pd \in Int /\ one \in Int /\ one \in Splits
      <4>1. one \in Splits
        BY <3>3 DEF Optimal
      <4>2. \A part \in Splits : part \in Int
        BY SplitsAreParts
      <4> QED BY <3>4, <4>1, <4>2
    <3>6. pd <= pb /\ pa <= pc
      BY <3>2, PartGrows DEF SectionInv
    <3>7. Divided(c).total = Sum2(pc) /\ Divided(d).total = Sum2(pd)
      <4>1. /\ c \in Int /\ MinSplitRatio <= c /\ c <= MaxSplitRatio
            /\ d \in Int /\ MinSplitRatio <= d /\ d <= MaxSplitRatio
        BY <3>2 DEF SectionInv, MinSplitRatio, MaxSplitRatio
      <4> QED BY <1>5, <3>2, <4>1, DividedIsSum
    <3>8. LeftIsBetter <=> Sum2(pc) > Sum2(pd)
      BY <1>5, <3>7 DEF LeftIsBetter, BetterDivided, Better
    <3>9. Sum2(one) \in Int /\ Sum2(pc) \in Int /\ Sum2(pd) \in Int
      BY <1>5, <3>2, <3>4, <3>5, SumCounts
    <3>10. Sum2(pc) <= Sum2(one) /\ Sum2(pd) <= Sum2(one)
      BY <3>3, <3>4 DEF Optimal
    <3>11. CASE NarrowLeft
      <4>1. a' = a /\ b' = d /\ Sum2(pc) > Sum2(pd)
        BY <3>8, <3>11 DEF NarrowLeft
      <4>2. ASSUME pd < one PROVE FALSE
        <5>1. (Sum2(pd) - Sum2(pc)) * (one - pd) >= (Sum2(one) - Sum2(pd)) * (pd - pc)
          BY <1>5, <3>2, <3>4, <3>5, <4>2, SumIsConcave
        <5> DEFINE e == Sum2(pd) - Sum2(pc)
                   f == Sum2(one) - Sum2(pd)
                   p == one - pd
                   q == pd - pc
        <5>2. e \in Int /\ f \in Int /\ p \in Int /\ q \in Int /\ p > 0 /\ q > 0 /\ e < 0
          BY <3>4, <3>5, <3>9, <4>1, <4>2
        <5>3. f < 0
          <6> HIDE DEF e, f, p, q
          <6>1. e * p >= f * q
            BY <5>1 DEF e, f, p, q
          <6> QED BY <5>2, <6>1, Turning
        <5> QED BY <3>9, <3>10, <5>3
      <4>3. one \in Part(a)..Part(d)
        BY <3>3, <3>4, <3>5, <4>2
      <4> QED BY <3>3, <4>1, <4>3
    <3>12. CASE NarrowRight
      <4>1. a' = c /\ b' = b /\ Sum2(pc) <= Sum2(pd)
        <5>1. a' = c /\ b' = b /\ ~LeftIsBetter
          BY <3>12 DEF NarrowRight
        <5> QED BY <3>8, <3>9, <5>1
      <4>2. CASE pc <= one
        <5>1. one \in Part(c)..Part(b)
          BY <3>3, <3>4, <3>5, <4>2
        <5> QED BY <3>3, <4>1, <5>1
      <4>3. CASE one < pc
        <5>1. (Sum2(pc) - Sum2(one)) * (pd - pc) >= (Sum2(pd) - Sum2(pc)) * (pc - one)
          BY <1>5, <3>2, <3>4, <3>5, <4>3, SumIsConcave
        <5> DEFINE e == Sum2(pc) - Sum2(one)
                   f == Sum2(pd) - Sum2(pc)
                   p == pd - pc
                   q == pc - one
        <5>2. e \in Int /\ f \in Int /\ p \in Int /\ q \in Int /\ p > 0 /\ q > 0 /\ f >= 0
          BY <3>4, <3>5, <3>9, <4>1, <4>3
        <5>3. e >= 0
          <6> HIDE DEF e, f, p, q
          <6>1. e * p >= f * q
            BY <5>1 DEF e, f, p, q
          <6> QED BY <5>2, <6>1, Turning
        <5>4. Sum2(pc) = Sum2(one)
          BY <3>9, <3>10, <5>3
        <5>5. Optimal(pc)
          BY <3>3, <3>4, <5>4 DEF Optimal
        <5>6. pc \in Part(c)..Part(b)
          BY <3>4, <3>5, <3>6
        <5> QED BY <4>1, <5>5, <5>6
      <4> QED BY <3>5, <4>2, <4>3
    <3> QED BY <2>2, <3>11, <3>12
  <2>3. CASE stage = "golden" /\ a' = a /\ b' = b
    BY <1>5, <2>3 DEF OptimumInv, OptimumInside
  <2>4. BeginGolden \/ NarrowLeft \/ NarrowRight \/ (stage = "golden" /\ a' = a /\ b' = b)
    BY <1>5 DEF Next, vars, TakeTheOne, EndGolden, BeginSolve, Iterate, EndSolve
  <2> QED BY <2>1, <2>2, <2>3, <2>4
<1>6. OptimumInside'
  BY <1>2, <1>3, <1>5 DEF OptimumInside
<1> QED BY <1>1, <1>4, <1>6 DEF OptimumInv

\* OptimumStaysInWindow: whatever the curves, if no route gives more for a later
\* unit than for an earlier one, a best division is inside the window to the end.
THEOREM OptimumStays ==
  ASSUME Concave, Divisible
  PROVE  Spec => []OptimumStaysInWindow
<1>1. OptimumInv => OptimumStaysInWindow
  <2>1. SUFFICES ASSUME OptimumInv, exactIn, stage = "golden", Always
                 PROVE  \E one \in Part(a)..Part(b) :
                          one \in Splits /\ Sum2(one) = Max({Sum2(other) : other \in Splits})
    BY DEF OptimumStaysInWindow, Splits
  <2>2. paths \in [1..2 -> Curve]
    BY <2>1 DEF OptimumInv, KeptInv, Typed
  <2>3. PICK one \in Part(a)..Part(b) : Optimal(one)
    BY <2>1 DEF OptimumInv, OptimumInside
  <2> DEFINE S == {Sum2(other) : other \in Splits}
  <2>4. S \subseteq Int /\ Sum2(one) \in S /\ \A y \in S : Sum2(one) >= y
    <3>1. \A other \in Splits : Sum2(other) \in Int
      BY <2>1, <2>2, SumCounts
    <3> QED BY <2>3, <3>1 DEF Optimal
  <2>5. Max(S) = Sum2(one)
    <3> DEFINE top == Sum2(one)
    <3> HIDE DEF S, top
    <3>1. S \subseteq Int /\ top \in S /\ \A y \in S : top >= y
      BY <2>4 DEF top
    <3>2. Max(S) \in S /\ \A y \in S : Max(S) >= y
      BY <3>1 DEF Max
    <3> DEFINE m == Max(S)
    <3> HIDE DEF m
    <3>3. m \in Int /\ top \in Int /\ m >= top /\ top >= m
      BY <3>1, <3>2 DEF m
    <3> QED BY <3>3 DEF m, top
  <2> QED BY <2>3, <2>5 DEF Optimal
<1>2. Concave /\ Divisible /\ OptimumInv /\ [Next]_vars => OptimumInv'
  BY OptimumStep
<1>3. Concave /\ Divisible
  OBVIOUS
<1> QED BY <1>1, <1>2, <1>3, OptimumInit, PTL DEF Spec

-----------------------------------------------------------------------------
(* Numbers for three routes.                                               *)

LEMMA SumOfThree ==
  ASSUME NEW f \in [1..3 -> Int]
  PROVE  Sum(f) = f[1] + f[2] + f[3] /\ Sum(f) \in Int
  BY DEF Sum

LEMMA LargerOfTwo ==
  ASSUME NEW m \in Int, NEW n \in Int
  PROVE  Max({m, n}) = IF m >= n THEN m ELSE n
<1> DEFINE larger == IF m >= n THEN m ELSE n
<1>1. larger \in {m, n} /\ \A y \in {m, n} : larger >= y
  OBVIOUS
<1>2. \A x \in {m, n} : (\A y \in {m, n} : x >= y) => x = larger
  OBVIOUS
<1> HIDE DEF larger
<1>3. Max({m, n}) = larger
  BY <1>1, <1>2 DEF Max
<1> QED BY <1>3 DEF larger

LEMMA LargestOfSome ==
  ASSUME NEW S \in SUBSET (1..3), S # {}
  PROVE  Max(S) \in S /\ \A y \in S : Max(S) >= y
<1>1. \E x \in S : \A y \in S : x >= y
  <2>1. CASE 3 \in S
    BY <2>1
  <2>2. CASE 3 \notin S /\ 2 \in S
    BY <2>2
  <2>3. CASE 3 \notin S /\ 2 \notin S
    <3>1. PICK x \in S : TRUE
      OBVIOUS
    <3>2. x = 1 /\ \A y \in S : y = 1
      BY <2>3
    <3> QED BY <3>1, <3>2
  <2> QED BY <2>1, <2>2, <2>3
<1> QED BY <1>1 DEF Max

LEMMA SmallestOfSome ==
  ASSUME NEW S \in SUBSET (1..3), S # {}
  PROVE  Min(S) \in S
<1>1. \E x \in S : \A y \in S : x =< y
  <2>1. CASE 1 \in S
    BY <2>1
  <2>2. CASE 1 \notin S /\ 2 \in S
    BY <2>2
  <2>3. CASE 1 \notin S /\ 2 \notin S
    <3>1. PICK x \in S : TRUE
      OBVIOUS
    <3>2. x = 3 /\ \A y \in S : y = 3
      BY <2>3
    <3> QED BY <3>1, <3>2
  <2> QED BY <2>1, <2>2, <2>3
<1> QED BY <1>1 DEF Min

\* The order of three numbers does not change their sum.
LEMMA OrderOfThree ==
  ASSUME NEW f \in [1..3 -> Int], NEW p \in [1..3 -> 1..3], {p[1], p[2], p[3]} = 1..3
  PROVE  f[p[1]] + f[p[2]] + f[p[3]] = f[1] + f[2] + f[3]
<1>1. p[1] \in {1, 2, 3} /\ p[2] \in {1, 2, 3} /\ p[3] \in {1, 2, 3}
  OBVIOUS
<1>2. p[1] # p[2] /\ p[1] # p[3] /\ p[2] # p[3]
  OBVIOUS
<1>3. f[1] \in Int /\ f[2] \in Int /\ f[3] \in Int
  OBVIOUS
<1> QED BY <1>1, <1>2, <1>3

\* sorted is v in another order.
SortsTo(s, v, p) ==
  /\ p \in [1..3 -> 1..3] /\ {p[1], p[2], p[3]} = 1..3
  /\ s = [i \in 1..3 |-> v[p[i]]]
  /\ v[p[1]] >= v[p[2]] /\ v[p[2]] >= v[p[3]]

LEMMA DecreasingSorts ==
  ASSUME NEW v \in [1..3 -> Int]
  PROVE  \E p : SortsTo(Decreasing(v), v, p)
<1> DEFINE Q(p) == /\ {p[1], p[2], p[3]} = 1..3
                   /\ v[p[1]] >= v[p[2]] /\ v[p[2]] >= v[p[3]]
           order == CHOOSE p \in [1..3 -> 1..3] : Q(p)
           by(i, j, k) == [n \in 1..3 |-> IF n = 1 THEN i ELSE IF n = 2 THEN j ELSE k]
<1>1. v[1] \in Int /\ v[2] \in Int /\ v[3] \in Int
  OBVIOUS
<1>2. \A i, j, k \in 1..3 :
        /\ by(i, j, k) \in [1..3 -> 1..3]
        /\ by(i, j, k)[1] = i /\ by(i, j, k)[2] = j /\ by(i, j, k)[3] = k
  OBVIOUS
<1> HIDE DEF by
<1>3. ASSUME NEW i \in 1..3, NEW j \in 1..3, NEW k \in 1..3, {i, j, k} = 1..3,
             v[i] >= v[j], v[j] >= v[k]
      PROVE  \E p \in [1..3 -> 1..3] : Q(p)
  BY <1>2, <1>3
<1>4. \E p \in [1..3 -> 1..3] : Q(p)
  <2> HIDE DEF Q
  <2>1. CASE v[1] >= v[2] /\ v[2] >= v[3]
    BY <1>3, <2>1
  <2>2. CASE v[1] >= v[3] /\ v[3] >= v[2]
    BY <1>3, <2>2
  <2>3. CASE v[2] >= v[1] /\ v[1] >= v[3]
    BY <1>3, <2>3
  <2>4. CASE v[2] >= v[3] /\ v[3] >= v[1]
    BY <1>3, <2>4
  <2>5. CASE v[3] >= v[1] /\ v[1] >= v[2]
    BY <1>3, <2>5
  <2>6. CASE v[3] >= v[2] /\ v[2] >= v[1]
    BY <1>3, <2>6
  <2> QED BY <1>1, <2>1, <2>2, <2>3, <2>4, <2>5, <2>6
<1>5. order \in [1..3 -> 1..3] /\ Q(order)
  <2> HIDE DEF Q
  <2> QED BY <1>4
<1>6. Decreasing(v) = [i \in 1..3 |-> v[order[i]]]
  BY DEF Decreasing
<1> HIDE DEF order
<1>7. SortsTo(Decreasing(v), v, order)
  BY <1>5, <1>6 DEF SortsTo
<1> QED BY <1>7

-----------------------------------------------------------------------------
(* The projection onto the shares that make a whole.                       *)

\* Numbers that are not negative and make a whole, but for the rounding.
Makes(w, low, high) == w \in [1..3 -> Nat] /\ w[1] + w[2] + w[3] \in low..high

\* Three numbers from the largest, and what the first j of them make.
Top(s, j) == IF j = 1 THEN s[1] ELSE IF j = 2 THEN s[1] + s[2] ELSE s[1] + s[2] + s[3]
Cut(m, theta) == IF m - theta >= 0 THEN m - theta ELSE 0

LEMMA TopIsSum ==
  ASSUME NEW s \in [1..3 -> Int], NEW j \in 1..3
  PROVE  Sum([i \in 1..j |-> s[i]]) = Top(s, j)
<1>1. s[1] \in Int /\ s[2] \in Int /\ s[3] \in Int
  OBVIOUS
<1>2. CASE j = 1
  BY <1>1, <1>2 DEF Sum, Top
<1>3. CASE j = 2
  BY <1>1, <1>3 DEF Sum, Top
<1>4. CASE j = 3
  BY <1>1, <1>4 DEF Sum, Top
<1> QED BY <1>2, <1>3, <1>4

\* What is cut by theta makes a whole, where rho is the last of the three that
\* stays positive.
LEMMA CutMakesWhole ==
  ASSUME NEW p1 \in Int, NEW p2 \in Int, NEW p3 \in Int, p1 >= p2, p2 >= p3,
         NEW s, s = [i \in 1..3 |-> IF i = 1 THEN p1 ELSE IF i = 2 THEN p2 ELSE p3],
         NEW rho \in 1..3, rho * s[rho] > Top(s, rho) - Whole,
         \A j \in 1..3 : j * s[j] > Top(s, j) - Whole => j <= rho,
         NEW theta, theta = (Top(s, rho) - Whole) \div rho
  PROVE  /\ theta \in Int
         /\ Cut(p1, theta) + Cut(p2, theta) + Cut(p3, theta) \in Whole..(Whole + 2)
<1>1. s[1] = p1 /\ s[2] = p2 /\ s[3] = p3
  OBVIOUS
<1>2. CASE rho = 1
  <2>1. ~(2 * p2 > p1 + p2 - 10000) /\ ~(3 * p3 > p1 + p2 + p3 - 10000)
    BY <1>1, <1>2 DEF Top, Whole
  <2>2. theta = p1 - 10000
    BY <1>1, <1>2 DEF Top, Whole
  <2> QED BY <2>1, <2>2 DEF Cut, Whole
<1>3. CASE rho = 2
  <2>1. 2 * p2 > p1 + p2 - 10000 /\ ~(3 * p3 > p1 + p2 + p3 - 10000)
    BY <1>1, <1>3 DEF Top, Whole
  <2>2. theta = (p1 + p2 - 10000) \div 2
    BY <1>1, <1>3 DEF Top, Whole
  <2>3. theta \in Int /\ 2 * theta <= p1 + p2 - 10000 /\ p1 + p2 - 10000 <= 2 * theta + 1
    BY <2>2
  <2>4. p2 >= theta /\ p1 >= theta /\ p3 <= theta
    BY <2>1, <2>3
  <2>5. Cut(p1, theta) = p1 - theta /\ Cut(p2, theta) = p2 - theta /\ Cut(p3, theta) = 0
    BY <2>3, <2>4 DEF Cut
  <2> QED BY <2>3, <2>5 DEF Whole
<1>4. CASE rho = 3
  <2>1. 3 * p3 > p1 + p2 + p3 - 10000
    BY <1>1, <1>4 DEF Top, Whole
  <2>2. theta = (p1 + p2 + p3 - 10000) \div 3
    BY <1>1, <1>4 DEF Top, Whole
  <2>3. theta \in Int /\ 3 * theta <= p1 + p2 + p3 - 10000
        /\ p1 + p2 + p3 - 10000 <= 3 * theta + 2
    BY <2>2
  <2>4. /\ Cut(p1, theta) = p1 - theta /\ Cut(p2, theta) = p2 - theta
        /\ Cut(p3, theta) = p3 - theta
    BY <2>1, <2>3 DEF Cut
  <2> QED BY <2>3, <2>4 DEF Whole
<1> QED BY <1>2, <1>3, <1>4

LEMMA Projected ==
  ASSUME NEW v \in [1..3 -> Int]
  PROVE  Makes(Project(v), Whole, Whole + 2)
<1>1. PICK p : SortsTo(Decreasing(v), v, p)
  BY DecreasingSorts
<1> DEFINE s == Decreasing(v)
           ok == {j \in DOMAIN v : j * s[j] > Sum([i \in 1..j |-> s[i]]) - Whole}
           rho == Max(ok)
           theta == (Sum([i \in 1..rho |-> s[i]]) - Whole) \div rho
<1>2. Project(v) = [i \in DOMAIN v |-> Max({v[i] - theta, 0})]
  BY DEF Project
<1> HIDE DEF s
<1>3. /\ p \in [1..3 -> 1..3] /\ {p[1], p[2], p[3]} = 1..3
      /\ s = [i \in 1..3 |-> v[p[i]]]
      /\ v[p[1]] >= v[p[2]] /\ v[p[2]] >= v[p[3]]
  BY <1>1 DEF SortsTo, s
<1> DEFINE p1 == v[p[1]]
           p2 == v[p[2]]
           p3 == v[p[3]]
<1>4. p1 \in Int /\ p2 \in Int /\ p3 \in Int /\ DOMAIN v = 1..3
  BY <1>3
<1>5. s \in [1..3 -> Int] /\ s[1] = p1 /\ s[2] = p2 /\ s[3] = p3
  BY <1>3, <1>4
<1>6. \A j \in 1..3 : Sum([i \in 1..j |-> s[i]]) = Top(s, j)
  BY <1>5, TopIsSum
<1> HIDE DEF p1, p2, p3
<1>7. 1 \in ok /\ ok \in SUBSET (1..3)
  <2>1. 1 * s[1] > Top(s, 1) - Whole
    BY <1>4, <1>5 DEF Top, Whole
  <2> QED BY <1>4, <1>6, <2>1
<1>8. rho \in ok /\ \A j \in ok : rho >= j
  <2> HIDE DEF ok
  <2> QED BY <1>7, LargestOfSome
<1>9. /\ rho \in 1..3 /\ rho * s[rho] > Top(s, rho) - Whole
      /\ \A j \in 1..3 : j * s[j] > Top(s, j) - Whole => j <= rho
  <2> HIDE DEF rho
  <2> QED BY <1>4, <1>6, <1>8
<1> HIDE DEF rho
<1>10. theta = (Top(s, rho) - Whole) \div rho
  BY <1>6, <1>9
<1> HIDE DEF theta
<1>11. s = [i \in 1..3 |-> IF i = 1 THEN p1 ELSE IF i = 2 THEN p2 ELSE p3]
  BY <1>5
<1>12. /\ theta \in Int
       /\ Cut(p1, theta) + Cut(p2, theta) + Cut(p3, theta) \in Whole..(Whole + 2)
  <2>1. p1 >= p2 /\ p2 >= p3
    BY <1>3 DEF p1, p2, p3
  <2> QED BY <1>4, <1>9, <1>10, <1>11, <2>1, CutMakesWhole
<1> DEFINE w == [i \in 1..3 |-> Cut(v[i], theta)]
<1>13. Project(v) = w
  <2>1. \A i \in 1..3 : Max({v[i] - theta, 0}) = Cut(v[i], theta)
    BY <1>12, LargerOfTwo DEF Cut
  <2> QED BY <1>2, <1>4, <2>1
<1>14. w \in [1..3 -> Nat]
  BY <1>12 DEF Cut
<1>15. w[p[1]] + w[p[2]] + w[p[3]] = w[1] + w[2] + w[3]
  <2>1. w \in [1..3 -> Int]
    BY <1>14
  <2> HIDE DEF w
  <2> QED BY <1>3, <2>1, OrderOfThree
<1>16. w[p[1]] = Cut(p1, theta) /\ w[p[2]] = Cut(p2, theta) /\ w[p[3]] = Cut(p3, theta)
  BY <1>3 DEF p1, p2, p3
<1>17. w[1] + w[2] + w[3] \in Whole..(Whole + 2)
  <2> HIDE DEF w
  <2> QED BY <1>12, <1>15, <1>16
<1> QED BY <1>13, <1>14, <1>17 DEF Makes

-----------------------------------------------------------------------------
(* What is divided in proportion.                                          *)

LEMMA Cancelled ==
  ASSUME NEW t \in Nat \ {0}, NEW x \in Int, NEW y \in Int
  PROVE  /\ t * x <= t * y => x <= y
         /\ t * x < t * y => x < y
<1>1. x > y => t * x > t * y
  <2>1. CASE x > y
    <3> DEFINE k == x - y
    <3>1. k >= 1 /\ k \in Int
      BY <2>1
    <3>2. t * k > 0
      <4> HIDE DEF k
      <4> QED BY <3>1
    <3>3. t * x = t * y + t * k
      OBVIOUS
    <3> QED BY <3>2, <3>3
  <2> QED BY <2>1
<1>2. x = y => t * x = t * y
  OBVIOUS
<1> QED BY <1>1, <1>2

LEMMA Quotient ==
  ASSUME NEW t \in Nat \ {0}, NEW n \in Nat
  PROVE  /\ n \div t \in Nat
         /\ t * (n \div t) <= n /\ n < t * (n \div t) + t
  OBVIOUS

\* The part of an amount that goes to one of three who have p out of t.
Portion(amount, p, t) == (amount * p) \div t

Proportional(amount, p, t, q) ==
  /\ q \in Nat /\ t * q <= amount * p /\ amount * p < t * q + t
  /\ amount <= t => q <= p
  /\ p <= t => q <= amount
  /\ p = 0 => q = 0

LEMMA OnePortion ==
  ASSUME NEW t \in Nat \ {0}, NEW amount \in Nat, NEW p \in Nat,
         NEW q, q = Portion(amount, p, t)
  PROVE  Proportional(amount, p, t, q)
<1> DEFINE n == amount * p
<1>1. n \in Nat /\ q = n \div t
  BY DEF Portion
<1> HIDE DEF n
<1>2. q \in Nat /\ t * q <= n /\ n < t * q + t
  BY <1>1, Quotient
<1>3. amount <= t => n <= t * p
  BY DEF n
<1>4. p <= t => n <= t * amount
  BY DEF n
<1>5. amount <= t => q <= p
  BY <1>1, <1>2, <1>3, Cancelled
<1>6. p <= t => q <= amount
  BY <1>1, <1>2, <1>4, Cancelled
<1>7. p = 0 => q = 0
  BY <1>2 DEF n
<1> QED BY <1>1, <1>2, <1>5, <1>6, <1>7 DEF n, Proportional

\* The parts of three fall short of the amount by two at most.
LEMMA ThreePortions ==
  ASSUME NEW amount \in Nat, NEW p1 \in Nat, NEW p2 \in Nat, NEW p3 \in Nat,
         NEW t \in Nat \ {0}, p1 + p2 + p3 = t
  PROVE  Portion(amount, p1, t) + Portion(amount, p2, t) + Portion(amount, p3, t)
           \in (amount - 2)..amount
<1> DEFINE q1 == Portion(amount, p1, t)
           q2 == Portion(amount, p2, t)
           q3 == Portion(amount, p3, t)
<1>1. /\ q1 \in Nat /\ t * q1 <= amount * p1 /\ amount * p1 < t * q1 + t
      /\ q2 \in Nat /\ t * q2 <= amount * p2 /\ amount * p2 < t * q2 + t
      /\ q3 \in Nat /\ t * q3 <= amount * p3 /\ amount * p3 < t * q3 + t
  <2>1. /\ Proportional(amount, p1, t, q1) /\ Proportional(amount, p2, t, q2)
        /\ Proportional(amount, p3, t, q3)
    BY OnePortion
  <2> HIDE DEF q1, q2, q3
  <2> QED BY <2>1 DEF Proportional
<1> HIDE DEF q1, q2, q3
<1> DEFINE q == q1 + q2 + q3
<1>2. amount * p1 + amount * p2 + amount * p3 = t * amount
  OBVIOUS
<1>3. t * q1 + t * q2 + t * q3 = t * q
  BY <1>1
<1>4. t * (q + 3) = t * q + t + t + t
  BY <1>1
<1>5. t * q <= t * amount
  BY <1>1, <1>2, <1>3
<1>6. t * amount < t * (q + 3)
  BY <1>1, <1>2, <1>3, <1>4
<1>7. q <= amount
  BY <1>1, <1>5, Cancelled
<1>8. amount < q + 3
  BY <1>1, <1>6, Cancelled
<1> QED BY <1>1, <1>7, <1>8 DEF q1, q2, q3

-----------------------------------------------------------------------------
(* The minimum that is enforced on a share.                                *)

\* Of two small shares and a whole, or less: what the small ones lack is there.
Lifted(m) == IF m \in 11..500 THEN 500 ELSE m
Above(m) == IF m - 500 >= 0 THEN m - 500 ELSE 0

Lifts(m, raised, spare) ==
  /\ raised \in Nat /\ spare \in Nat /\ spare <= raised /\ raised - m \in 0..489
  /\ raised \in 0..10 \/ raised >= 500
  /\ spare = 0 \/ raised - spare >= 500
  /\ spare >= m - 500

LEMMA LiftedFacts ==
  ASSUME NEW m \in Nat, NEW raised, NEW spare, raised = Lifted(m), spare = Above(m)
  PROVE  Lifts(m, raised, spare)
  BY DEF Lifted, Above, Lifts

LEMMA Enforced ==
  ASSUME NEW w, Makes(w, Whole, Whole + 2)
  PROVE  /\ Makes(Enforce(w), Whole - 2, Whole)
         /\ \A i \in 1..3 : Enforce(w)[i] \in 0..10 \/ Enforce(w)[i] >= 499
<1> DEFINE raised == [i \in DOMAIN w |-> IF w[i] \in 11..MinAlloc THEN MinAlloc ELSE w[i]]
           spare == [i \in DOMAIN w |-> Max({w[i] - MinAlloc, 0})]
           taken(i) == IF Sum(spare) = 0 THEN 0
                       ELSE ((Sum(raised) - Sum(w)) * spare[i]) \div Sum(spare)
           lowered == [i \in DOMAIN w |-> raised[i] - taken(i)]
<1>1. Enforce(w) = [i \in DOMAIN w |-> (lowered[i] * Whole) \div Sum(lowered)]
  BY DEF Enforce
<1>2. /\ w \in [1..3 -> Nat] /\ DOMAIN w = 1..3
      /\ w[1] \in Nat /\ w[2] \in Nat /\ w[3] \in Nat
      /\ w[1] + w[2] + w[3] >= 10000 /\ w[1] + w[2] + w[3] <= 10002
  BY DEF Makes, Whole
<1>3. raised \in [1..3 -> Nat] /\ \A i \in 1..3 : raised[i] = Lifted(w[i])
  BY <1>2 DEF Lifted, MinAlloc
<1>4. spare \in [1..3 -> Nat] /\ \A i \in 1..3 : spare[i] = Above(w[i])
  <2>1. \A i \in 1..3 : w[i] - MinAlloc \in Int /\ 0 \in Int
    BY <1>2 DEF MinAlloc
  <2>2. \A i \in 1..3 : Max({w[i] - MinAlloc, 0}) = Above(w[i])
    BY <2>1, LargerOfTwo DEF Above, MinAlloc
  <2>3. \A i \in 1..3 : Above(w[i]) \in Nat
    BY <1>2 DEF Above
  <2> QED BY <1>2, <2>2, <2>3
<1> DEFINE r1 == Lifted(w[1])
           r2 == Lifted(w[2])
           r3 == Lifted(w[3])
           s1 == Above(w[1])
           s2 == Above(w[2])
           s3 == Above(w[3])
<1>lifts. Lifts(w[1], r1, s1) /\ Lifts(w[2], r2, s2) /\ Lifts(w[3], r3, s3)
  BY <1>2, LiftedFacts
<1>5. /\ r1 \in Nat /\ r2 \in Nat /\ r3 \in Nat /\ s1 \in Nat /\ s2 \in Nat /\ s3 \in Nat
      /\ r1 - w[1] \in 0..489 /\ r2 - w[2] \in 0..489 /\ r3 - w[3] \in 0..489
      /\ s1 >= w[1] - 500 /\ s2 >= w[2] - 500 /\ s3 >= w[3] - 500
  <2> HIDE DEF r1, r2, r3, s1, s2, s3
  <2> QED BY <1>lifts DEF Lifts
<1>6. Sum(raised) = r1 + r2 + r3 /\ Sum(spare) = s1 + s2 + s3 /\ Sum(w) = w[1] + w[2] + w[3]
  <2> HIDE DEF raised, spare, r1, r2, r3, s1, s2, s3
  <2>1. raised \in [1..3 -> Int] /\ spare \in [1..3 -> Int] /\ w \in [1..3 -> Int]
    BY <1>2, <1>3, <1>4
  <2>2. /\ Sum(raised) = raised[1] + raised[2] + raised[3]
        /\ Sum(spare) = spare[1] + spare[2] + spare[3] /\ Sum(w) = w[1] + w[2] + w[3]
    BY <2>1, SumOfThree
  <2>3. /\ raised[1] = r1 /\ raised[2] = r2 /\ raised[3] = r3
        /\ spare[1] = s1 /\ spare[2] = s2 /\ spare[3] = s3
    BY <1>3, <1>4 DEF r1, r2, r3, s1, s2, s3
  <2> QED BY <2>2, <2>3
<1> HIDE DEF raised, spare
<1> DEFINE T == s1 + s2 + s3
           D == (r1 + r2 + r3) - (w[1] + w[2] + w[3])
<1>7. T \in Nat \ {0} /\ D \in Nat /\ D <= T
  <2> HIDE DEF r1, r2, r3, s1, s2, s3
  <2> QED BY <1>2, <1>5
<1> DEFINE t1 == Portion(D, s1, T)
           t2 == Portion(D, s2, T)
           t3 == Portion(D, s3, T)
<1>8. taken(1) = t1 /\ taken(2) = t2 /\ taken(3) = t3
  <2>1. /\ spare[1] = s1 /\ spare[2] = s2 /\ spare[3] = s3
    BY <1>4 DEF s1, s2, s3
  <2>2. Sum(spare) = T /\ T # 0 /\ Sum(raised) - Sum(w) = D
    BY <1>6, <1>7
  <2> HIDE DEF T, D, s1, s2, s3
  <2> QED BY <2>1, <2>2 DEF Portion
<1> HIDE DEF T, D
<1>portions. /\ Proportional(D, s1, T, t1) /\ Proportional(D, s2, T, t2)
             /\ Proportional(D, s3, T, t3)
  <2> HIDE DEF s1, s2, s3
  <2> QED BY <1>5, <1>7, OnePortion
<1>9. /\ t1 \in Nat /\ t1 <= s1 /\ t2 \in Nat /\ t2 <= s2 /\ t3 \in Nat /\ t3 <= s3
      /\ s1 = 0 => t1 = 0
      /\ s2 = 0 => t2 = 0
      /\ s3 = 0 => t3 = 0
  <2> HIDE DEF s1, s2, s3, t1, t2, t3
  <2> QED BY <1>5, <1>7, <1>portions DEF Proportional
<1>10. t1 + t2 + t3 \in (D - 2)..D
  <2>1. s1 + s2 + s3 = T
    BY DEF T
  <2> HIDE DEF s1, s2, s3
  <2> QED BY <1>5, <1>7, <2>1, ThreePortions
<1> HIDE DEF t1, t2, t3
<1> DEFINE low(i) == IF i = 1 THEN r1 - t1 ELSE IF i = 2 THEN r2 - t2 ELSE r3 - t3
           L == low(1) + low(2) + low(3)
<1>11. lowered = [i \in 1..3 |-> low(i)]
  <2>1. raised[1] = r1 /\ raised[2] = r2 /\ raised[3] = r3
    BY <1>3 DEF r1, r2, r3
  <2>2. \A i \in 1..3 : i = 1 \/ i = 2 \/ i = 3
    OBVIOUS
  <2>3. \A i \in 1..3 : raised[i] - taken(i) = low(i)
    <3> HIDE DEF taken, r1, r2, r3
    <3> QED BY <1>8, <2>1, <2>2
  <2> HIDE DEF low, taken
  <2> QED BY <1>2, <2>3
<1>12. \A i \in 1..3 : low(i) \in Nat /\ (low(i) \in 0..10 \/ low(i) >= 500)
  <2>1. /\ s1 <= r1 /\ (r1 \in 0..10 \/ r1 >= 500) /\ (r1 - s1 >= 500 \/ s1 = 0)
        /\ s2 <= r2 /\ (r2 \in 0..10 \/ r2 >= 500) /\ (r2 - s2 >= 500 \/ s2 = 0)
        /\ s3 <= r3 /\ (r3 \in 0..10 \/ r3 >= 500) /\ (r3 - s3 >= 500 \/ s3 = 0)
    <3> HIDE DEF r1, r2, r3, s1, s2, s3
    <3> QED BY <1>lifts DEF Lifts
  <2> HIDE DEF r1, r2, r3, s1, s2, s3
  <2>2. /\ r1 - t1 \in Nat /\ (r1 - t1 \in 0..10 \/ r1 - t1 >= 500)
        /\ r2 - t2 \in Nat /\ (r2 - t2 \in 0..10 \/ r2 - t2 >= 500)
        /\ r3 - t3 \in Nat /\ (r3 - t3 \in 0..10 \/ r3 - t3 >= 500)
    BY <1>5, <1>9, <2>1
  <2> QED BY <2>2
<1>13. L \in Nat /\ L >= 10000 /\ L <= 10004
  <2> HIDE DEF r1, r2, r3, s1, s2, s3
  <2> QED BY <1>2, <1>5, <1>9, <1>10 DEF D
<1>14. Sum(lowered) = L
  <2>1. [i \in 1..3 |-> low(i)] \in [1..3 -> Int]
    BY <1>12
  <2>2. \A i \in 1..3 : lowered[i] = low(i)
    BY <1>11
  <2> HIDE DEF lowered, low
  <2> QED BY <1>11, <2>1, <2>2, SumOfThree
<1> DEFINE e(i) == Portion(Whole, low(i), L)
<1>15. Enforce(w) = [i \in 1..3 |-> e(i)]
  <2>1. \A i \in 1..3 : lowered[i] = low(i) /\ low(i) \in Nat
    BY <1>11, <1>12
  <2> HIDE DEF lowered, low, L
  <2>2. \A i \in 1..3 : (lowered[i] * Whole) \div Sum(lowered) = e(i)
    <3>1. \A i \in 1..3 : lowered[i] * Whole = Whole * low(i)
      BY <2>1 DEF Whole
    <3> QED BY <1>14, <3>1 DEF Portion
  <2> HIDE DEF e
  <2> QED BY <1>1, <1>2, <2>2
<1>16. low(1) \in Nat /\ low(2) \in Nat /\ low(3) \in Nat /\ low(1) + low(2) + low(3) = L
  BY <1>12
<1> HIDE DEF low, L
<1>17. \A i \in 1..3 : e(i) \in Nat /\ (e(i) \in 0..10 \/ e(i) >= 499)
  <2> TAKE i \in 1..3
  <2> DEFINE l == low(i)
             q == e(i)
  <2>1. l \in Nat /\ (l \in 0..10 \/ l >= 500)
    BY <1>12
  <2>2. q \in Nat /\ L * q <= Whole * l /\ Whole * l < L * q + L
    <3> HIDE DEF l
    <3>1. l = low(i) /\ Whole \in Nat
      BY DEF l, Whole
    <3>2. q = Portion(Whole, l, L)
      BY <3>1
    <3>3. L \in Nat \ {0}
      BY <1>13
    <3> HIDE DEF q
    <3>4. Proportional(Whole, l, L, q)
      BY <2>1, <3>1, <3>2, <3>3, OnePortion
    <3> QED BY <3>4 DEF Proportional
  <2> HIDE DEF l, q
  <2>3. 10000 * q <= L * q /\ L * q <= 10004 * q
    BY <1>13, <2>2
  <2>4. q \in 0..10 \/ q >= 499
    BY <1>13, <2>1, <2>2, <2>3, SMT DEF Whole
  <2> QED BY <2>2, <2>4 DEF q
<1>18. e(1) + e(2) + e(3) \in (Whole - 2)..Whole
  <2> DEFINE l1 == low(1)
             l2 == low(2)
             l3 == low(3)
  <2>1. l1 \in Nat /\ l2 \in Nat /\ l3 \in Nat /\ l1 + l2 + l3 = L
    BY <1>16
  <2>2. L \in Nat \ {0} /\ Whole \in Nat
    BY <1>13 DEF Whole
  <2> HIDE DEF l1, l2, l3
  <2>3. Portion(Whole, l1, L) + Portion(Whole, l2, L) + Portion(Whole, l3, L)
          \in (Whole - 2)..Whole
    BY <2>1, <2>2, ThreePortions
  <2> QED BY <2>3 DEF l1, l2, l3
<1> HIDE DEF e
<1>19. [i \in 1..3 |-> e(i)] \in [1..3 -> Nat]
  BY <1>17
<1> QED BY <1>15, <1>17, <1>18, <1>19 DEF Makes

-----------------------------------------------------------------------------
(* Percentages.                                                            *)

\* Half up.
Rounded(y, total) == (200 * y + total) \div (2 * total)

LEMMA RoundedOne ==
  ASSUME NEW total \in Nat \ {0}, NEW y \in Nat, NEW q, q = Rounded(y, total)
  PROVE  /\ q \in Nat /\ 2 * (total * q) <= 200 * y + total
         /\ 200 * y + total < 2 * (total * q) + 2 * total
<1> DEFINE n == 200 * y + total
           t == 2 * total
<1>1. n \in Nat /\ t \in Nat \ {0} /\ q = n \div t
  BY DEF Rounded
<1> HIDE DEF n, t
<1>2. q \in Nat /\ t * q <= n /\ n < t * q + t
  BY <1>1, Quotient
<1> QED BY <1>2 DEF n, t

RoundedWell(y, q) ==
  q \in Nat /\ (y = 0 => q = 0) /\ (y >= 800 => q >= 2)

AllRounded(y1, y2, y3) ==
  LET q(y) == Rounded(y, y1 + y2 + y3)
  IN  /\ RoundedWell(y1, q(y1)) /\ RoundedWell(y2, q(y2)) /\ RoundedWell(y3, q(y3))
      /\ q(y1) + q(y2) + q(y3) \in 99..101

\* Three of them make 100 or one more or less.
LEMMA RoundedThree ==
  ASSUME NEW y1 \in Nat, NEW y2 \in Nat, NEW y3 \in Nat,
         y1 + y2 + y3 > 0, y1 + y2 + y3 <= 10000
  PROVE  AllRounded(y1, y2, y3)
<1> DEFINE total == y1 + y2 + y3
           q1 == Rounded(y1, total)
           q2 == Rounded(y2, total)
           q3 == Rounded(y3, total)
<1>1. total \in Nat \ {0} /\ total <= 10000 /\ total = y1 + y2 + y3
  OBVIOUS
<1> HIDE DEF total
<1>2. /\ q1 \in Nat /\ 2 * (total * q1) <= 200 * y1 + total
      /\ 200 * y1 + total < 2 * (total * q1) + 2 * total
  BY <1>1, RoundedOne
<1>3. /\ q2 \in Nat /\ 2 * (total * q2) <= 200 * y2 + total
      /\ 200 * y2 + total < 2 * (total * q2) + 2 * total
  BY <1>1, RoundedOne
<1>4. /\ q3 \in Nat /\ 2 * (total * q3) <= 200 * y3 + total
      /\ 200 * y3 + total < 2 * (total * q3) + 2 * total
  BY <1>1, RoundedOne
<1> HIDE DEF q1, q2, q3
<1>5. ASSUME NEW y \in Nat, NEW q \in Nat, 2 * (total * q) <= 200 * y + total,
             200 * y + total < 2 * (total * q) + 2 * total
      PROVE  RoundedWell(y, q)
  <2>1. CASE q = 0
    <3>1. total * q = 0
      BY <1>1, <2>1
    <3>2. 200 * y < total
      BY <1>1, <1>5, <3>1
    <3> QED BY <1>1, <2>1, <3>2 DEF RoundedWell
  <2>2. CASE q = 1
    <3>1. total * q = total
      BY <1>1, <2>2
    <3>2. 200 * y < 3 * total /\ total <= 200 * y
      BY <1>1, <1>5, <3>1
    <3> QED BY <1>1, <2>2, <3>2 DEF RoundedWell
  <2>3. CASE q >= 2
    <3>1. y = 0 => FALSE
      <4>1. total * 1 <= total * q
        BY <1>1, <2>3
      <4> QED BY <1>1, <1>5, <4>1
    <3> QED BY <2>3, <3>1 DEF RoundedWell
  <2> QED BY <2>1, <2>2, <2>3, <1>5
<1> DEFINE q == q1 + q2 + q3
<1>6. total * q1 + total * q2 + total * q3 = total * q
  BY <1>1, <1>2, <1>3, <1>4
<1>7. total * 98 = 98 * total /\ total * 102 = 102 * total /\ q \in Int
  BY <1>1, <1>2, <1>3, <1>4
<1> HIDE DEF q
<1>8. total * 98 < total * q
  BY <1>1, <1>2, <1>3, <1>4, <1>6, <1>7
<1>9. total * q < total * 102
  BY <1>1, <1>2, <1>3, <1>4, <1>6, <1>7
<1>10. 98 < q /\ q < 102
  BY <1>1, <1>7, <1>8, <1>9, Cancelled
<1>11. q1 + q2 + q3 \in 99..101
  BY <1>7, <1>10 DEF q
<1>12. RoundedWell(y1, q1) /\ RoundedWell(y2, q2) /\ RoundedWell(y3, q3)
  BY <1>2, <1>3, <1>4, <1>5
<1> QED BY <1>11, <1>12 DEF AllRounded, q1, q2, q3, total

\* The percentages of an answer.
MakeWhole(shares) == Sum(shares) = 100 /\ \A i \in DOMAIN shares : shares[i] \in 1..100

LEMMA PercentsAreWhole ==
  ASSUME z \in [1..3 -> Nat], z[1] + z[2] + z[3] <= Whole,
         NEW used \in SUBSET (1..3), used # {}, \A i \in used : z[i] >= PruneThresh
  PROVE  MakeWhole(Percents(used))
<1> DEFINE ratios == Sum([i \in used |-> z[i]])
           percent == [i \in used |-> (200 * z[i] + ratios) \div (2 * ratios)]
           excess == Sum(percent) - 100
           best3 == {i \in used : \A j \in used : percent[i] >= percent[j]}
           largest == Min(best3)
<1>1. Percents(used) = [i \in used |-> percent[i] - (IF i = largest THEN excess ELSE 0)]
  BY DEF Percents
<1> DEFINE y(i) == IF i \in used THEN z[i] ELSE 0
<1>2. y(1) \in Nat /\ y(2) \in Nat /\ y(3) \in Nat
  OBVIOUS
<1>3. ratios = y(1) + y(2) + y(3)
  BY DEF Sum
<1>4. ratios > 0 /\ ratios <= 10000
  <2>1. \A i \in used : z[i] >= 800
    BY DEF PruneThresh
  <2>2. PICK i \in used : TRUE
    OBVIOUS
  <2>3. i = 1 \/ i = 2 \/ i = 3
    OBVIOUS
  <2>4. y(1) <= z[1] /\ y(2) <= z[2] /\ y(3) <= z[3]
    OBVIOUS
  <2>5. y(i) >= 800
    BY <2>1
  <2>6. z[1] \in Nat /\ z[2] \in Nat /\ z[3] \in Nat
    OBVIOUS
  <2> HIDE DEF y, ratios
  <2> QED BY <1>2, <1>3, <2>3, <2>4, <2>5, <2>6 DEF Whole
<1> HIDE DEF ratios
<1> DEFINE p(i) == Rounded(y(i), ratios)
<1>5. /\ RoundedWell(y(1), p(1)) /\ RoundedWell(y(2), p(2))
      /\ RoundedWell(y(3), p(3)) /\ p(1) + p(2) + p(3) \in 99..101
  <2> DEFINE y1 == y(1)
             y2 == y(2)
             y3 == y(3)
  <2>1. y1 \in Nat /\ y2 \in Nat /\ y3 \in Nat /\ ratios = y1 + y2 + y3
    BY <1>2, <1>3
  <2> HIDE DEF y1, y2, y3
  <2>2. AllRounded(y1, y2, y3)
    BY <1>4, <2>1, RoundedThree
  <2>3. /\ RoundedWell(y1, Rounded(y1, ratios)) /\ RoundedWell(y2, Rounded(y2, ratios))
        /\ RoundedWell(y3, Rounded(y3, ratios))
        /\ Rounded(y1, ratios) + Rounded(y2, ratios) + Rounded(y3, ratios) \in 99..101
    BY <2>1, <2>2 DEF AllRounded
  <2> QED BY <2>3 DEF y1, y2, y3
<1>6. percent = [i \in used |-> p(i)]
  BY DEF Rounded
<1>7. \A i \in 1..3 : p(i) \in Nat /\ (i \in used => p(i) >= 2) /\ (i \notin used => p(i) = 0)
  <2>1. \A i \in 1..3 : RoundedWell(y(i), p(i))
    <3>1. \A i \in 1..3 : i = 1 \/ i = 2 \/ i = 3
      OBVIOUS
    <3> HIDE DEF y, p
    <3> QED BY <1>5, <3>1
  <2>2. \A i \in 1..3 : (i \in used => y(i) >= 800) /\ (i \notin used => y(i) = 0)
    BY DEF PruneThresh
  <2> HIDE DEF p, y
  <2> QED BY <2>1, <2>2 DEF RoundedWell
<1> HIDE DEF p, percent
<1>8. percent \in [used -> Nat] /\ Sum(percent) = p(1) + p(2) + p(3)
  BY <1>6, <1>7 DEF Sum
<1>9. excess \in -1..1 /\ excess = (p(1) + p(2) + p(3)) - 100
  BY <1>5, <1>8
<1>10. largest \in best3
  <2>1. \E i \in used : \A j \in used : percent[i] >= percent[j]
    <3>1. \A i \in used : percent[i] = p(i) /\ (i = 1 \/ i = 2 \/ i = 3)
      BY <1>6
    <3>2. p(1) \in Nat /\ p(2) \in Nat /\ p(3) \in Nat
      BY <1>7
    <3>3. \E i \in used : \A j \in used : p(i) >= p(j)
      <4>1. CASE p(1) >= p(2) /\ p(1) >= p(3) /\ 1 \in used
        BY <3>1, <3>2, <4>1
      <4>2. CASE p(2) >= p(1) /\ p(2) >= p(3) /\ 2 \in used
        BY <3>1, <3>2, <4>2
      <4>3. CASE p(3) >= p(1) /\ p(3) >= p(2) /\ 3 \in used
        BY <3>1, <3>2, <4>3
      <4>4. PICK i \in used : TRUE
        OBVIOUS
      <4>5. p(i) >= 1
        BY <1>7
      <4>6. /\ 1 \notin used => p(1) = 0
            /\ 2 \notin used => p(2) = 0
            /\ 3 \notin used => p(3) = 0
        BY <1>7
      <4>7. i = 1 \/ i = 2 \/ i = 3
        OBVIOUS
      <4> QED BY <3>2, <4>1, <4>2, <4>3, <4>5, <4>6, <4>7
    <3> QED BY <3>1, <3>3
  <2>2. best3 \in SUBSET (1..3) /\ best3 # {}
    BY <2>1
  <2> HIDE DEF best3
  <2> QED BY <2>2, SmallestOfSome
<1> HIDE DEF largest, excess
<1>11. largest \in used
  BY <1>10
<1> DEFINE share(i) == IF i \in used THEN p(i) - (IF i = largest THEN excess ELSE 0) ELSE 0
<1>12. Percents(used) = [i \in used |-> share(i)]
  BY <1>1, <1>6
<1>13. Sum(Percents(used)) = share(1) + share(2) + share(3)
  BY <1>12 DEF Sum
<1>14. share(1) + share(2) + share(3) = 100
  <2>1. largest = 1 \/ largest = 2 \/ largest = 3
    BY <1>11
  <2>2. excess = (p(1) + p(2) + p(3)) - 100
    BY <1>9
  <2>3. p(1) \in Nat /\ p(2) \in Nat /\ p(3) \in Nat
    BY <1>7
  <2>4. /\ 1 \notin used => p(1) = 0
        /\ 2 \notin used => p(2) = 0
        /\ 3 \notin used => p(3) = 0
    BY <1>7
  <2> QED BY <1>9, <1>11, <2>1, <2>2, <2>3, <2>4
<1>15. \A i \in used : share(i) \in 1..100
  <2>1. \A i \in used : p(i) \in Nat /\ p(i) >= 2
    BY <1>7
  <2>2. p(1) \in Nat /\ p(2) \in Nat /\ p(3) \in Nat
    BY <1>7
  <2>3. \A i \in used : share(i) \in Int /\ share(i) >= 1
    BY <1>9, <2>1
  <2>4. /\ share(1) \in Int /\ share(1) >= 0 /\ share(2) \in Int /\ share(2) >= 0
        /\ share(3) \in Int /\ share(3) >= 0
    BY <2>3
  <2> HIDE DEF share
  <2>5. share(1) <= 100 /\ share(2) <= 100 /\ share(3) <= 100
    BY <1>14, <2>4
  <2>6. \A i \in used : i = 1 \/ i = 2 \/ i = 3
    OBVIOUS
  <2> QED BY <2>3, <2>5, <2>6
<1> HIDE DEF share
<1>16. DOMAIN Percents(used) = used /\ \A i \in used : Percents(used)[i] = share(i)
  BY <1>12
<1>17. Sum(Percents(used)) = 100
  BY <1>13, <1>14
<1> DEFINE shares == Percents(used)
<1>18. \A i \in DOMAIN shares : shares[i] \in 1..100
  <2> HIDE DEF shares
  <2>1. DOMAIN shares = used /\ \A i \in used : shares[i] = share(i)
    BY <1>16 DEF shares
  <2> TAKE i \in DOMAIN shares
  <2>2. i \in used
    BY <2>1
  <2> QED BY <1>15, <2>1, <2>2
<1> QED BY <1>17, <1>18 DEF MakeWhole

-----------------------------------------------------------------------------
(* The answer of a route alone, of two and of three.                       *)

Routes == UNION {[1..n -> Curve] : n \in 1..3}

LEMMA RoutesDomain ==
  ASSUME paths \in Routes
  PROVE  /\ DOMAIN paths \in SUBSET (1..3) /\ Len(paths) = 3 => DOMAIN paths = 1..3
         /\ \A i \in DOMAIN paths : paths[i] \in Curve
<1>1. PICK n \in 1..3 : paths \in [1..n -> Curve]
  BY DEF Routes
<1>2. DOMAIN paths = 1..n /\ Len(paths) = n
  BY <1>1
<1> QED BY <1>1, <1>2

\* Of some of three numbers there is a largest, the first of them; and a
\* smallest.
LEMMA FirstLargest ==
  ASSUME NEW S \in SUBSET (1..3), S # {}, NEW m \in [S -> Int]
  PROVE  \E i \in S : \A j \in S : m[j] <= m[i] /\ (m[j] = m[i] => i <= j)
<1>1. PICK x \in S : TRUE
  OBVIOUS
<1>2. \A i \in S : i = 1 \/ i = 2 \/ i = 3
  OBVIOUS
<1>3. CASE 1 \in S /\ \A j \in S : m[j] <= m[1]
  BY <1>2, <1>3
<1>4. CASE 2 \in S /\ (\A j \in S : m[j] <= m[2]) /\ (1 \in S => m[1] < m[2])
  BY <1>2, <1>4
<1>5. CASE 3 \in S /\ (1 \in S => m[1] < m[3]) /\ (2 \in S => m[2] < m[3])
  BY <1>2, <1>5
<1> QED BY <1>1, <1>2, <1>3, <1>4, <1>5

LEMMA OneIsWhole ==
  ASSUME NEW i \in 1..3
  PROVE  MakeWhole(Alone(i).shares)
<1> DEFINE shares == Alone(i).shares
<1>1. shares = [j \in {i} |-> 100]
  BY DEF Alone
<1>2. DOMAIN shares = {i} /\ shares[i] = 100
  BY <1>1
<1> HIDE DEF shares
<1>3. i = 1 \/ i = 2 \/ i = 3
  OBVIOUS
<1>4. Sum(shares) = 100
  BY <1>2, <1>3 DEF Sum
<1>5. MakeWhole(shares)
  BY <1>2, <1>4 DEF MakeWhole
<1> QED BY <1>5 DEF shares

\* No answer, or one that makes a whole.
WellShared(ans) == ans # None => MakeWhole(ans.shares)

LEMMA BestAloneIsWhole ==
  ASSUME paths \in Routes, exactIn \in BOOLEAN
  PROVE  WellShared(BestAlone)
<1> DEFINE able == {i \in DOMAIN paths : Answers(i, Total)}
           first == {i \in able : \A j \in able :
                       /\ ~Better(Value(j, Total), Value(i, Total))
                       /\ Value(j, Total) = Value(i, Total) => i <= j}
<1>1. BestAlone = IF able = {} THEN None ELSE Alone(CHOOSE i \in first : TRUE)
  BY DEF BestAlone
<1>2. able \in SUBSET (1..3)
  <2>1. DOMAIN paths \in SUBSET (1..3)
    <3>1. PICK n \in 1..3 : paths \in [1..n -> Curve]
      BY DEF Routes
    <3> QED BY <3>1
  <2> QED BY <2>1
<1>3. \A i \in able : Value(i, Total) \in Int
  <2>1. Total \in 1..Total /\ \A i \in DOMAIN paths : paths[i] \in Curve
    BY PathSplitAssumption, RoutesDomain
  <2> QED BY <2>1, PathSplitAssumption DEF Value
<1> HIDE DEF able
<1>4. ASSUME able # {} PROVE \E i \in able : i \in first
  <2> DEFINE v(i) == Value(i, Total)
             m == [i \in able |-> IF exactIn THEN v(i) ELSE -v(i)]
  <2>1. m \in [able -> Int] /\ \A i \in able : v(i) \in Int
    BY <1>3
  <2>2. \A i, j \in able : m[j] <= m[i] => ~Better(v(j), v(i))
    <3> HIDE DEF v
    <3> QED BY <2>1 DEF Better
  <2>3. \A i, j \in able : v(j) = v(i) => m[j] = m[i]
    OBVIOUS
  <2> HIDE DEF m, v
  <2>4. \E i \in able : \A j \in able : m[j] <= m[i] /\ (m[j] = m[i] => i <= j)
    BY <1>2, <1>4, <2>1, FirstLargest
  <2>5. \E i \in able : \A j \in able : ~Better(v(j), v(i)) /\ (v(j) = v(i) => i <= j)
    BY <2>2, <2>3, <2>4
  <2> QED BY <2>5 DEF v
<1> DEFINE one == CHOOSE i \in first : TRUE
<1>5. ASSUME able # {} PROVE one \in 1..3
  <2>1. one \in first
    <3> HIDE DEF first
    <3> QED BY <1>4, <1>5
  <2> HIDE DEF one
  <2> QED BY <1>2, <2>1
<1> HIDE DEF one
<1>6. able # {} => MakeWhole(Alone(one).shares)
  BY <1>5, OneIsWhole
<1> QED BY <1>1, <1>6 DEF WellShared, one

LEMMA TwoAreWhole ==
  ASSUME best.at \in Int, MinSplitRatio <= best.at, best.at <= MaxSplitRatio
  PROVE  MakeWhole(TwoRoutes.shares)
<1> DEFINE percent == best.at \div 100
           shares == TwoRoutes.shares
<1>1. percent \in Int /\ percent >= 10 /\ percent <= 90
  BY DEF MinSplitRatio, MaxSplitRatio
<1>2. shares = <<percent, 100 - percent>>
  BY DEF TwoRoutes
<1> HIDE DEF percent, shares
<1>3. DOMAIN shares = 1..2 /\ shares[1] = percent /\ shares[2] = 100 - percent
  BY <1>2
<1>4. Sum(shares) = 100
  <2>1. 1 \in DOMAIN shares /\ 2 \in DOMAIN shares /\ 3 \notin DOMAIN shares
    BY <1>3
  <2> QED BY <1>1, <1>3, <2>1 DEF Sum
<1>5. \A i \in DOMAIN shares : shares[i] \in 1..100
  BY <1>1, <1>3
<1> QED BY <1>4, <1>5 DEF MakeWhole, shares

LEMMA ThreeAreWhole ==
  ASSUME z \in [1..3 -> Nat], z[1] + z[2] + z[3] <= Whole
  PROVE  WellShared(ThreeRoutes)
<1> DEFINE used == {i \in DOMAIN z : z[i] >= PruneThresh /\ Answers(i, Part(z[i]))}
<1>1. used \in SUBSET (1..3) /\ \A i \in used : z[i] >= PruneThresh
  OBVIOUS
<1>2. CASE used = {}
  <2>1. ThreeRoutes = None
    BY <1>2 DEF ThreeRoutes
  <2> QED BY <2>1 DEF WellShared
<1>3. CASE used # {}
  <2>1. ThreeRoutes.shares = Percents(used)
    BY <1>3 DEF ThreeRoutes
  <2> HIDE DEF used
  <2>2. MakeWhole(Percents(used))
    BY <1>1, <1>3, PercentsAreWhole
  <2> QED BY <2>1, <2>2 DEF WellShared
<1> QED BY <1>2, <1>3

-----------------------------------------------------------------------------
(* The shares in every round, and the answer.                              *)

FairShares(w) ==
  /\ Makes(w, Whole - 2, Whole)
  /\ \A i \in 1..3 : w[i] \in 0..10 \/ w[i] >= 499

LEMMA ClampIsInt == ASSUME NEW n \in Int PROVE Clamp(n) \in Int
<1> DEFINE m == Min({Whole, n})
<1>1. m \in Int
  <2>1. \E x \in {Whole, n} : \A y \in {Whole, n} : x =< y
    BY DEF Whole
  <2> DEFINE S == {Whole, n}
  <2>2. S \subseteq Int
    BY DEF Whole
  <2> HIDE DEF S
  <2>3. \E x \in S : \A y \in S : x =< y
    BY <2>1 DEF S
  <2>4. Min(S) \in S
    BY <2>3 DEF Min
  <2> QED BY <2>2, <2>4 DEF S
<1> HIDE DEF m
<1>2. Max({0, m}) \in Int
  BY <1>1, LargerOfTwo
<1> QED BY <1>2 DEF Clamp, m

LEMMA AllocationIsInt ==
  ASSUME NEW i, NEW target \in Int
  PROVE  Allocation(i, target) \in Int
<1> DEFINE ok(ratio) == ratio >= 100 /\ Answers(i, Part(ratio))
           worth(ratio) == (IF exactIn THEN 1 ELSE -1) * Value(i, Part(ratio))
           score(ratio) ==
             IF ok(ratio) THEN [at |-> ratio, worth |-> worth(ratio), off |-> Abs(ratio - target)]
                          ELSE [at |-> ratio, worth |-> -Refused, off |-> 0]
           low == Clamp(target - 500)
           start == IF fast \/ ok(low) THEN score(low)
                                       ELSE [at |-> target, worth |-> 0, off |-> 0]
           try(seen, ratio) == IF (fast \/ ok(ratio)) /\ Higher(score(ratio), seen)
                               THEN score(ratio) ELSE seen
<1>1. Allocation(i, target) = try(try(start, target), Clamp(target + 500)).at
  BY DEF Allocation
<1>2. \A ratio : score(ratio).at = ratio
  <2> HIDE DEF ok, worth
  <2> QED OBVIOUS
<1>3. low \in Int /\ Clamp(target + 500) \in Int
  BY ClampIsInt
<1> HIDE DEF score, ok, low
<1>4. start.at \in Int
  BY <1>2, <1>3
<1> HIDE DEF start
<1>5. try(start, target).at \in Int
  BY <1>2, <1>4
<1> DEFINE then == try(start, target)
<1> HIDE DEF then
<1>6. try(then, Clamp(target + 500)).at \in Int
  <2>1. then.at \in Int
    BY <1>5 DEF then
  <2> QED BY <1>2, <1>3, <2>1
<1> QED BY <1>1, <1>6 DEF then

\* One round of ADMM.
LEMMA RoundIsFair ==
  ASSUME z \in [1..3 -> Nat], u \in [1..3 -> Int], Iterate
  PROVE  FairShares(z') /\ u' \in [1..3 -> Int]
<1> DEFINE x == [i \in 1..3 |-> Allocation(i, Clamp(z[i] - u[i]))]
           v == [i \in 1..3 |-> x[i] + u[i]]
           shares == Enforce(Project(v))
<1>1. z' = shares /\ u' = [i \in 1..3 |-> u[i] + x[i] - shares[i]]
  BY DEF Iterate
<1>2. x \in [1..3 -> Int]
  <2>1. \A i \in 1..3 : Clamp(z[i] - u[i]) \in Int
    BY ClampIsInt
  <2>2. \A i \in 1..3 : Allocation(i, Clamp(z[i] - u[i])) \in Int
    BY <2>1, AllocationIsInt
  <2> QED BY <2>2
<1> HIDE DEF x
<1>3. v \in [1..3 -> Int]
  BY <1>2
<1> HIDE DEF v
<1> DEFINE w == Project(v)
<1>4. Makes(w, Whole, Whole + 2)
  BY <1>3, Projected
<1> HIDE DEF w
<1>5. FairShares(Enforce(w))
  BY <1>4, Enforced DEF FairShares
<1>6. FairShares(shares)
  BY <1>5 DEF w
<1> HIDE DEF shares
<1>7. shares \in [1..3 -> Nat]
  BY <1>6 DEF FairShares, Makes
<1> QED BY <1>1, <1>2, <1>6, <1>7

AtRatio(t) == t = Nothing \/ (t.at \in Int /\ MinSplitRatio <= t.at /\ t.at <= MaxSplitRatio)

LEMMA DividedAt ==
  ASSUME NEW ratio \in Int, MinSplitRatio <= ratio, ratio <= MaxSplitRatio
  PROVE  AtRatio(Divided(ratio))
  BY DEF Divided, AtRatio

SolveInv ==
  /\ SectionInv /\ paths \in Routes /\ AtRatio(best)
  /\ stage = "solve" => Len(paths) = 3 /\ FairShares(z) /\ u \in [1..3 -> Int]
  /\ WellShared(answer)

LEMMA SolveInit == ASSUME Init PROVE SolveInv
<1>1. paths \in Routes /\ best = Nothing /\ answer = None /\ stage = "choose"
  BY DEF Init, Routes
<1> QED BY <1>1, SectionInit DEF SolveInv, AtRatio, WellShared

LEMMA SolveStep == ASSUME SolveInv, [Next]_vars PROVE SolveInv'
<1>1. SectionInv'
  BY SectionStep DEF SolveInv
<1>2. /\ SectionInv /\ paths \in Routes /\ AtRatio(best) /\ WellShared(answer)
      /\ exactIn \in BOOLEAN
  BY DEF SolveInv, SectionInv
<1>3. paths' = paths
  BY DEF Next, vars, TakeTheOne, BeginGolden, NarrowLeft, NarrowRight, EndGolden,
         BeginSolve, Iterate, EndSolve
<1>4. AtRatio(best')
  <2>1. /\ c \in Int /\ MinSplitRatio <= c /\ c <= MaxSplitRatio
        /\ d \in Int /\ MinSplitRatio <= d /\ d <= MaxSplitRatio
    BY <1>2 DEF SectionInv, MinSplitRatio, MaxSplitRatio
  <2>2. /\ c' \in Int /\ MinSplitRatio <= c' /\ c' <= MaxSplitRatio
        /\ d' \in Int /\ MinSplitRatio <= d' /\ d' <= MaxSplitRatio
    BY <1>1 DEF SectionInv, MinSplitRatio, MaxSplitRatio
  <2>3. CASE BeginGolden
    <3>1. best' \in {Divided(c), Divided(d)}
      BY <2>3 DEF BeginGolden
    <3>2. AtRatio(Divided(c)) /\ AtRatio(Divided(d))
      BY <2>1, DividedAt
    <3> QED BY <3>1, <3>2
  <2>4. CASE NarrowLeft
    <3> DEFINE k == c'
    <3>1. best' \in {best, Divided(k)}
      BY <2>4 DEF NarrowLeft, Keep
    <3> HIDE DEF k
    <3>2. AtRatio(Divided(k))
      BY <2>2, DividedAt DEF k
    <3> QED BY <1>2, <3>1, <3>2
  <2>5. CASE NarrowRight
    <3> DEFINE k == d'
    <3>1. best' \in {best, Divided(k)}
      BY <2>5 DEF NarrowRight, Keep
    <3> HIDE DEF k
    <3>2. AtRatio(Divided(k))
      BY <2>2, DividedAt DEF k
    <3> QED BY <1>2, <3>1, <3>2
  <2>6. CASE best' = best
    BY <1>2, <2>6
  <2>7. BeginGolden \/ NarrowLeft \/ NarrowRight \/ best' = best
    BY DEF Next, vars, TakeTheOne, EndGolden, BeginSolve, Iterate, EndSolve
  <2> QED BY <2>3, <2>4, <2>5, <2>6, <2>7
<1>5. ASSUME stage' = "solve"
      PROVE  Len(paths') = 3 /\ FairShares(z') /\ u' \in [1..3 -> Int]
  <2>1. CASE BeginSolve
    <3>1. /\ z' = [i \in 1..3 |-> 3333] /\ u' = [i \in 1..3 |-> 0] /\ Len(paths) = 3
          /\ paths' = paths
      <4>1. Whole \div 3 = 3333
        BY DEF Whole
      <4> QED BY <2>1, <4>1 DEF BeginSolve
    <3> DEFINE w == [i \in 1..3 |-> 3333]
    <3>2. w \in [1..3 -> Nat] /\ w[1] = 3333 /\ w[2] = 3333 /\ w[3] = 3333
      OBVIOUS
    <3>3. \A i \in 1..3 : w[i] >= 499
      OBVIOUS
    <3> HIDE DEF w
    <3>4. FairShares(w)
      BY <3>2, <3>3 DEF FairShares, Makes, Whole
    <3> QED BY <3>1, <3>4 DEF w
  <2>2. CASE Iterate
    <3>1. stage = "solve" /\ paths' = paths
      BY <2>2 DEF Iterate
    <3>2. z \in [1..3 -> Nat] /\ u \in [1..3 -> Int] /\ Len(paths) = 3
      BY <3>1 DEF SolveInv, FairShares, Makes
    <3> QED BY <2>2, <3>1, <3>2, RoundIsFair
  <2>3. CASE UNCHANGED vars
    BY <1>5, <2>3 DEF vars, SolveInv
  <2>4. BeginSolve \/ Iterate \/ UNCHANGED vars
    BY <1>5 DEF Next, TakeTheOne, BeginGolden, NarrowLeft, NarrowRight, EndGolden, EndSolve
  <2> QED BY <2>1, <2>2, <2>3, <2>4
<1>6. WellShared(answer')
  <2>1. WellShared(BestAlone)
    BY <1>2, BestAloneIsWhole
  <2>2. CASE TakeTheOne
    BY <2>1, <2>2 DEF TakeTheOne
  <2>3. CASE EndGolden
    <3>1. best # Nothing => MakeWhole(TwoRoutes.shares)
      BY <1>2, TwoAreWhole DEF AtRatio
    <3> QED BY <2>1, <2>3, <3>1 DEF EndGolden, WellShared
  <2>4. CASE EndSolve
    <3>1. FairShares(z)
      BY <2>4 DEF EndSolve, SolveInv
    <3>2. z \in [1..3 -> Nat] /\ z[1] + z[2] + z[3] <= Whole
      BY <3>1 DEF FairShares, Makes, Whole
    <3>3. WellShared(ThreeRoutes)
      BY <3>2, ThreeAreWhole
    <3> QED BY <2>1, <2>4, <3>3 DEF EndSolve
  <2>5. CASE answer' = answer
    BY <1>2, <2>5
  <2>6. TakeTheOne \/ EndGolden \/ EndSolve \/ answer' = answer
    BY DEF Next, vars, BeginGolden, NarrowLeft, NarrowRight, BeginSolve, Iterate
  <2> QED BY <2>2, <2>3, <2>4, <2>5, <2>6
<1> QED BY <1>1, <1>2, <1>3, <1>4, <1>5, <1>6 DEF SolveInv

\* SharesAreFair: in every round of ADMM the shares make a whole but for the
\* rounding, and each is next to nothing or 5 percent, whatever the routes answer.
THEOREM SharesStayFair == Spec => []SharesAreFair
<1>1. SolveInv => SharesAreFair
  <2>1. ASSUME FairShares(z)
        PROVE  /\ Sum(z) \in (Whole - 3)..Whole
               /\ \A i \in 1..3 : z[i] \in 0..10 \/ z[i] >= MinAlloc - 3
    <3>1. z \in [1..3 -> Int] /\ z[1] + z[2] + z[3] \in (Whole - 2)..Whole
      BY <2>1 DEF FairShares, Makes
    <3>2. Sum(z) = z[1] + z[2] + z[3]
      BY <3>1, SumOfThree
    <3>3. Sum(z) \in (Whole - 3)..Whole
      BY <3>1, <3>2 DEF Whole
    <3>4. \A i \in 1..3 : z[i] \in 0..10 \/ z[i] >= MinAlloc - 3
      BY <2>1, <3>1 DEF FairShares, MinAlloc
    <3> QED BY <3>3, <3>4
  <2> QED BY <2>1 DEF SolveInv, SharesAreFair
<1> QED BY <1>1, SolveInit, SolveStep, PTL DEF Spec

\* PercentsMakeWhole: the percentages of every answer make 100 and none is 0.
THEOREM PercentsStayWhole == Spec => []PercentsMakeWhole
<1>1. SolveInv => PercentsMakeWhole
  BY DEF SolveInv, WellShared, MakeWhole, PercentsMakeWhole
<1> QED BY <1>1, SolveInit, SolveStep, PTL DEF Spec
=============================================================================
