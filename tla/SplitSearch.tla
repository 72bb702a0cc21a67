---------------------------- MODULE SplitSearch ----------------------------
(***************************************************************************)
(* How one trade is divided among the pools of a pair (router.go:100-563,  *)
(* and its uint64 twin, 609-860): the best pool alone, two pools by halving*)
(* a window of percentages, three pools by small adjustments, and the best *)
(* of what was tried.                                                      *)
(*                                                                         *)
(* A pool is its curve: what it gives for an amount, what it takes for one,*)
(* and up to where it can answer.  The curves stand still during a search. *)
(***************************************************************************)
EXTENDS Integers, Sequences, FiniteSets, FiniteSetsExt, Functions

CONSTANTS
  Curve,              \* the curves a pool may have
  Give(_, _),         \* what a pool on a curve pays out for an amount put in
  Take(_, _),         \* what it asks for an amount to be paid out
  Fails(_, _),        \* whether the quoter refuses an amount on a curve
  Total,              \* the amount of the request
  MinSplitPercent,
  MaxSplits

ASSUME NumbersAssumption ==
  /\ Total \in Nat \ {0}
  /\ MinSplitPercent \in 1..33 /\ MaxSplits \in 1..3

\* The product is exact, as the one of the twin on big integers is.  The uint64 twin
\* (router.go:815) wraps where Total * 100 does not fit 64 bits: for those amounts
\* nothing is said of it.
Part(percent) == (Total * percent) \div 100

\* The amounts a pool may be asked about.
Amount == {Total} \cup {Part(percent) : percent \in 1..99}

ASSUME CurveAssumption ==
  \A c \in Curve, a \in Amount : Give(c, a) \in Nat /\ Take(c, a) \in Nat

VARIABLES
  exactIn,            \* Total is put in, or to be paid out
  pools,              \* ranked pools, by their curves
  stage,              \* "single", "probe", "halve", "even", "adjust", "done"
  lo, hi, iteration,  \* the window of the two-way search and its rounds
  p, step, rounds,    \* percentages, stride and rounds of the three-way search
  inner, best,        \* bestResult of the search that runs, and overall
  tried               \* all splits evaluated so far

vars == <<exactIn, pools, stage, lo, hi, iteration, p, step, rounds,
          inner, best, tried>>

-----------------------------------------------------------------------------
None == [parts |-> <<>>, in |-> 0, out |-> 0]

\* The quote of one pool for an amount.
In(i, amount) == IF exactIn THEN amount ELSE Take(pools[i], amount)
Out(i, amount) == IF exactIn THEN Give(pools[i], amount) ELSE amount

\* getSinglePoolQuote
Single(i) ==
  IF Fails(pools[i], Total) THEN None
  ELSE [parts |-> [j \in {i} |-> 100], in |-> In(i, Total), out |-> Out(i, Total)]

\* calculateSplit: a pool that fails is left out, and the input of the whole is
\* said to be Total.  There are at most three pools.
Split(percents) ==
  LET used == {i \in DOMAIN percents :
                 /\ percents[i] >= MinSplitPercent
                 /\ Part(percents[i]) > 0
                 /\ ~Fails(pools[i], Part(percents[i]))}
      paid(i) == IF i \in used THEN Out(i, Part(percents[i])) ELSE 0
  IN  IF used = {} THEN None
      ELSE [parts |-> Restrict(percents, used),
            in |-> Total,
            out |-> paid(1) + paid(2) + paid(3)]

\* isBetterSplit
Better(new, old) ==
  \/ old = None
  \/ new # None /\ IF exactIn THEN new.out > old.out ELSE new.in < old.in

\* The newest split replaces what there is.
KeepLast(old, new) == IF new # None THEN new ELSE old

Keep(old, new) == IF new # None /\ Better(new, old) THEN new ELSE old

-----------------------------------------------------------------------------
Init ==
  /\ exactIn \in BOOLEAN
  /\ pools \in UNION {[1..n -> Curve] : n \in 1..MaxSplits}
  /\ stage = "single"
  /\ lo = MinSplitPercent /\ hi = 100 - MinSplitPercent /\ iteration = 0
  /\ p = <<34, 33, 33>> /\ step = 5 /\ rounds = 0
  /\ inner = None /\ best = None /\ tried = {}

\* The best pool alone, then two pools if there are as many.
TrySingle ==
  /\ stage = "single"
  /\ best' = Single(1) /\ tried' = {Single(1)}
  /\ stage' = IF Len(pools) = 1 THEN "done" ELSE "probe"
  /\ UNCHANGED <<exactIn, pools, lo, hi, iteration, p, step, rounds, inner>>

\* Both ends of the window and the middle.
Probe ==
  /\ stage = "probe" /\ stage' = "halve"
  /\ LET low == Split(<<lo, 100 - lo>>)
         even == Split(<<50, 50>>)
         high == Split(<<hi, 100 - hi>>)
     IN  /\ inner' = Keep(Keep(Keep(None, low), even), high)
         /\ tried' = tried \cup {low, even, high}
  /\ UNCHANGED <<exactIn, pools, lo, hi, iteration, p, step, rounds, best>>

Mid == (lo + hi) \div 2
MidLeft == Max({Mid - 2, MinSplitPercent})
MidRight == Min({Mid + 2, 100 - MinSplitPercent})
Left == Split(<<MidLeft, 100 - MidLeft>>)
Right == Split(<<MidRight, 100 - MidRight>>)

\* The comparison of a cost where a gain is meant.
LeftBetterByCost ==
  /\ Left # None
  /\ Right # None => IF exactIn THEN Left.out < Right.out ELSE Left.in < Right.in

LeftBetter ==
  /\ Left # None
  /\ Right # None => IF exactIn THEN Left.out > Right.out ELSE Left.in < Right.in

MoreToHalve == iteration < 4 /\ hi - lo > 5

\* One round: the half of the window on the better side of its middle.
Halve ==
  /\ stage = "halve" /\ MoreToHalve
  /\ inner' = Keep(Keep(inner, Left), Right)
  /\ tried' = tried \cup {Left, Right}
  /\ IF LeftBetter THEN hi' = Mid /\ lo' = lo ELSE lo' = Mid /\ hi' = hi
  /\ iteration' = iteration + 1
  /\ UNCHANGED <<exactIn, pools, stage, p, step, rounds, best>>

\* The best two-way split against the single pool; then three pools.
EndHalving ==
  /\ stage = "halve" /\ ~MoreToHalve
  /\ best' = Keep(best, inner) /\ inner' = None
  /\ stage' = IF Len(pools) >= 3 THEN "even" ELSE "done"
  /\ UNCHANGED <<exactIn, pools, lo, hi, iteration, p, step, rounds, tried>>

\* optimizeThreeWaySplit gives up when the even split fails.
TryEven ==
  /\ stage = "even"
  /\ inner' = Split(p) /\ tried' = tried \cup {Split(p)}
  /\ stage' = IF Split(p) = None THEN "done" ELSE "adjust"
  /\ UNCHANGED <<exactIn, pools, lo, hi, iteration, p, step, rounds, best>>

Adjustments == <<<<step, -step>>, <<-step, step>>, <<step, 0>>, <<-step, 0>>,
                 <<0, step>>, <<0, -step>>>>

Adjusted(k) == LET p1 == p[1] + Adjustments[k][1]
                   p2 == p[2] + Adjustments[k][2]
               IN  <<p1, p2, 100 - p1 - p2>>

InBounds(q) == \A i \in 1..3 : q[i] \in MinSplitPercent..(100 - 2 * MinSplitPercent)

\* Adjustments that are tried, and those that would replace what there is.
Candidates == {k \in 1..6 : InBounds(Adjusted(k))}
Improving == {k \in Candidates : /\ Split(Adjusted(k)) # None
                                 /\ Better(Split(Adjusted(k)), inner)}

\* Less than 10 basis points of the amount that counts.  Of an amount of 0 nothing is
\* slight in the uint64 twin (router.go:770), which this is; the twin on big integers
\* divides by it (line 426) and panics.
Slight(new, old) ==
  LET a == IF exactIn THEN new.out ELSE new.in
      b == IF exactIn THEN old.out ELSE old.in
  IN  b > 0 /\ (Max({a - b, b - a}) * 10000) \div b < 10

\* As long as there is something to gain.
MoreToAdjustEver == step >= 2

MoreToAdjust == step >= 2 /\ rounds < 3

\* The first adjustment that is better is taken; one that is hardly better
\* ends the search.
Adjust ==
  /\ stage = "adjust" /\ MoreToAdjust
  /\ \E k \in Improving :
       /\ \A j \in Improving : k <= j
       /\ inner' = Split(Adjusted(k))
       /\ tried' = tried \cup {Split(Adjusted(j)) : j \in {c \in Candidates : c <= k}}
       /\ p' = Adjusted(k)
       /\ rounds' = IF Slight(inner', inner) THEN 3 ELSE rounds + 1
  /\ UNCHANGED <<exactIn, pools, stage, lo, hi, iteration, step, best>>

\* No adjustment is better: half the stride.
Refine ==
  /\ stage = "adjust" /\ MoreToAdjust /\ Improving = {}
  /\ step' = step \div 2 /\ rounds' = rounds + 1
  /\ tried' = tried \cup {Split(Adjusted(j)) : j \in Candidates}
  /\ UNCHANGED <<exactIn, pools, stage, lo, hi, iteration, p, inner, best>>

\* The best three-way split against what there was.
EndAdjusting ==
  /\ stage = "adjust" /\ ~MoreToAdjust
  /\ best' = Keep(best, inner) /\ inner' = None
  /\ stage' = "done"
  /\ UNCHANGED <<exactIn, pools, lo, hi, iteration, p, step, rounds, tried>>

Next == \/ TrySingle \/ Probe \/ Halve \/ EndHalving
        \/ TryEven \/ Adjust \/ Refine \/ EndAdjusting

Spec == Init /\ [][Next]_vars
-----------------------------------------------------------------------------
(* What the search promises.                                               *)

\* What the pools of a split have together, in percent.
Shared(s) ==
  LET of(i) == IF i \in DOMAIN s.parts THEN s.parts[i] ELSE 0
  IN  of(1) + of(2) + of(3)

\* Types; a split gives every pool in it at least MinSplitPercent and all of
\* them no more than 100, at any point of the three-way search too.
SplitTypeOK ==
  /\ exactIn \in BOOLEAN
  /\ stage \in {"single", "probe", "halve", "even", "adjust", "done"}
  /\ lo \in MinSplitPercent..hi /\ hi \in lo..(100 - MinSplitPercent)
  /\ iteration \in 0..4 /\ rounds \in 0..3 /\ step \in 1..5
  /\ InBounds(p) /\ p[1] + p[2] + p[3] = 100
  /\ \A s \in tried \cup {inner, best} :
       /\ \A i \in DOMAIN s.parts :
            i \in DOMAIN pools /\ s.parts[i] \in MinSplitPercent..100
       /\ Shared(s) <= 100

\* The answer is the best of everything that was evaluated: no replacement, in
\* either search or between them, loses a better split.
AnswerIsBestTried ==
  stage = "done" => \A s \in tried : s = None \/ ~Better(s, best)

\* Where the output of the two first pools is a concave function of the
\* percentage of the first (which it is when both quote and each pool pays less
\* for more), the search ends with a split within 2 percent of an optimum tried.
Answers == \A i \in DOMAIN pools, percent \in 1..100 : ~Fails(pools[i], Part(percent))

TwoWay(percent) == Split(<<percent, 100 - percent>>).out
Optima == LET window == MinSplitPercent..(100 - MinSplitPercent)
              most == Max({TwoWay(q) : q \in window})
          IN  {q \in window : TwoWay(q) = most}

OptimumIsApproached ==
  exactIn /\ Answers /\ Len(pools) >= 2 /\ stage \in {"even", "adjust", "done"} =>
    \E q \in Optima, d \in -2..2 :
      \E s \in tried : s # None /\ DOMAIN s.parts = {1, 2} /\ s.parts[1] = q + d
=============================================================================
