----------------------------- MODULE PathSplit -----------------------------
(***************************************************************************)
(* How a trade is divided among two or three routes (splitter.go): between *)
(* two by a golden section search of their ratio (golden_section.go), among*)
(* three by ADMM on the shares (admm_solver.go).  Each exists twice, over   *)
(* big.Int and over uint64; the twins differ where a route fails.           *)
(*                                                                         *)
(* A route is its curve: what it gives for an amount, what it takes for    *)
(* one, and what it refuses.  Ratios, floating point in the code, are in   *)
(* hundredths of a percent, rounded down.                                  *)
(***************************************************************************)
EXTENDS Integers, Sequences, FiniteSets, FiniteSetsExt, SequencesExt

CONSTANTS
  Curve,              \* the curves a route may have
  Give(_, _), Take(_, _), Fails(_, _),
  Total,              \* the amount of the request
  Refused,            \* scoreRatioFast gives minus this where a route fails
  MaxIter             \* GoldenMaxIter and ADMMMaxIter

ASSUME PathSplitAssumption ==
  /\ Total \in Nat \ {0} /\ Refused \in Nat /\ MaxIter \in Nat
  /\ \A r \in Curve, a \in 1..Total :
       Give(r, a) \in Nat /\ Take(r, a) \in Nat /\ Fails(r, a) \in BOOLEAN

Whole == 10000
MinSplitRatio == 1000
MaxSplitRatio == 9000
GoldenTolerance == 100
MinAlloc == 500
PruneThresh == 800

VARIABLES
  fast,               \* the uint64 twin answers
  exactIn,            \* Total is put in, or to be paid out
  paths,              \* the routes, by their curves
  stage,              \* "choose", "golden", "solve", "done"
  rounds,
  a, b, c, d,         \* the golden section: a window and two ratios in it
  best,               \* the best division between two routes so far
  tried,              \* all of them that were evaluated
  z, u,               \* ADMM: the shares, and what x has strayed from them
  before,             \* the objective of the round before
  answer

vars == <<fast, exactIn, paths, stage, rounds, a, b, c, d, best, tried,
          z, u, before, answer>>

-----------------------------------------------------------------------------
(* Quotes.                                                                 *)

None == [shares |-> <<>>, in |-> 0, out |-> 0]
Nothing == [at |-> 0, total |-> 0]

\* mulRatio, mulRatioU64.  The product is exact, as the uint64 twin takes it in 128
\* bits; the twin on big integers takes an amount of 64 bits in 64
\* (golden_section.go:176): of amounts above some 1.8e13 nothing is said for it.
Part(ratio) == (Total * ratio) \div Whole

Answers(i, amount) == amount > 0 /\ ~Fails(paths[i], amount)

\* What counts of a quote: what comes out, or what has to go in.
Value(i, amount) ==
  IF exactIn THEN Give(paths[i], amount) ELSE Take(paths[i], amount)

Better(new, old) == IF exactIn THEN new > old ELSE new < old

In(i, amount) == IF exactIn THEN amount ELSE Value(i, amount)
Out(i, amount) == IF exactIn THEN Value(i, amount) ELSE amount

Alone(i) == [shares |-> [j \in {i} |-> 100],
             in |-> In(i, Total), out |-> Out(i, Total)]

\* Nobody is asked.
NoFallback == None

\* The first of the routes that do best alone: fallbackBestSinglePath and the
\* end of findOptimalTwoPathSplit.
BestAlone ==
  LET able == {i \in DOMAIN paths : Answers(i, Total)}
      first == {i \in able : \A j \in able :
                  /\ ~Better(Value(j, Total), Value(i, Total))
                  /\ Value(j, Total) = Value(i, Total) => i <= j}
  IN  IF able = {} THEN None ELSE Alone(CHOOSE i \in first : TRUE)

-----------------------------------------------------------------------------
(* Two routes.                                                             *)

\* evalSplit: both routes must answer, or the division counts for nothing.
Divided(ratio) ==
  LET one == Part(ratio)
      two == Total - one
  IN  IF Answers(1, one) /\ Answers(2, two)
      THEN [at |-> ratio, total |-> Value(1, one) + Value(2, two)]
      ELSE Nothing

\* isBetter: for an exact output the uint64 twin does not take nothing for a
\* low cost, the other does.
BetterDivided(new, old) ==
  Better(new.total, old.total) /\ (fast /\ ~exactIn => new.total > 0)

KeepLast(old, new) == IF new.total > 0 THEN new ELSE old

Keep(old, new) ==
  IF new.total > 0 /\ BetterDivided(new, old) THEN new ELSE old

\* The smaller part of a distance divided in the golden section.
GoldenSmall(distance) == (distance * 618) \div 1618

\* The larger part of a distance divided in the golden section.
Golden(distance) == (distance * 1000) \div 1618

TwoRoutes ==
  LET percent == best.at \div 100
  IN  [shares |-> <<percent, 100 - percent>>,
       in |-> IF exactIn THEN Total ELSE best.total,
       out |-> IF exactIn THEN best.total ELSE Total]

-----------------------------------------------------------------------------
(* Three routes.                                                           *)

\* Of numbers for some of the three routes.
Sum(f) ==
  LET at(i) == IF i \in DOMAIN f THEN f[i] ELSE 0
  IN  at(1) + at(2) + at(3)

Clamp(ratio) == Max({0, Min({Whole, ratio})})
Abs(n) == IF n < 0 THEN -n ELSE n

\* A score is the output, or minus the input, less a penalty for the distance
\* that is always smaller than one unit.
Higher(s, t) == s.worth > t.worth \/ (s.worth = t.worth /\ s.off < t.off)

\* optimizeSingleAllocation: the ratio that does best of one and its neighbours.
\* A ratio that is refused is passed over, and if that is the first, the others
\* must do better than 0; the uint64 twin gives it a low score.
Allocation(i, target) ==
  LET ok(ratio) == ratio >= 100 /\ Answers(i, Part(ratio))
      worth(ratio) == (IF exactIn THEN 1 ELSE -1) * Value(i, Part(ratio))
      score(ratio) ==
        IF ok(ratio) THEN [at |-> ratio, worth |-> worth(ratio), off |-> Abs(ratio - target)]
                     ELSE [at |-> ratio, worth |-> -Refused, off |-> 0]
      low == Clamp(target - 500)
      start == IF fast \/ ok(low) THEN score(low)
                                  ELSE [at |-> target, worth |-> 0, off |-> 0]
      try(seen, ratio) == IF (fast \/ ok(ratio)) /\ Higher(score(ratio), seen)
                          THEN score(ratio) ELSE seen
  IN  try(try(start, target), Clamp(target + 500)).at

\* The insertion sort in projectOntoSimplexInto: from the largest.
Decreasing(v) ==
  LET order == CHOOSE p \in [1..3 -> 1..3] :
                 /\ {p[1], p[2], p[3]} = 1..3
                 /\ v[p[1]] >= v[p[2]] /\ v[p[2]] >= v[p[3]]
  IN  [i \in 1..3 |-> v[order[i]]]

\* projectOntoSimplexInto: the nearest shares that are not negative and make
\* a whole.
Project(v) ==
  LET sorted == Decreasing(v)
      top(j) == Sum([i \in 1..j |-> sorted[i]])
      rho == Max({j \in DOMAIN v : j * sorted[j] > top(j) - Whole})
      theta == (top(rho) - Whole) \div rho
  IN  [i \in DOMAIN v |-> Max({v[i] - theta, 0})]

\* Without the last step of it.
EnforceOnlyMinimum(w) ==
  [i \in DOMAIN w |-> IF w[i] \in 11..MinAlloc THEN MinAlloc ELSE w[i]]

\* enforceMinimumAllocationInPlace: what the small shares are given is taken
\* from the others, in proportion to what they have to spare.
Enforce(w) ==
  LET raised == [i \in DOMAIN w |-> IF w[i] \in 11..MinAlloc THEN MinAlloc ELSE w[i]]
      spare == [i \in DOMAIN w |-> Max({w[i] - MinAlloc, 0})]
      taken(i) == IF Sum(spare) = 0 THEN 0
                  ELSE ((Sum(raised) - Sum(w)) * spare[i]) \div Sum(spare)
      lowered == [i \in DOMAIN w |-> raised[i] - taken(i)]
  IN  [i \in DOMAIN w |-> (lowered[i] * Whole) \div Sum(lowered)]

\* evaluateObjective
Objective(w) ==
  LET counted == {i \in DOMAIN w : w[i] >= 100 /\ Answers(i, Part(w[i]))}
      sum == Sum([i \in counted |-> Value(i, Part(w[i]))])
  IN  IF exactIn THEN sum ELSE -sum

\* Each share rounded by itself.
PercentsRounded(used) ==
  LET ratios == Sum([i \in used |-> z[i]])
  IN  [i \in used |-> (200 * z[i] + ratios) \div (2 * ratios)]

\* Rounded, and the largest share corrected so that they make 100.
Percents(used) ==
  LET ratios == Sum([i \in used |-> z[i]])
      percent == [i \in used |-> (200 * z[i] + ratios) \div (2 * ratios)]
      excess == Sum(percent) - 100
      largest == Min({i \in used : \A j \in used : percent[i] >= percent[j]})
  IN  [i \in used |-> percent[i] - (IF i = largest THEN excess ELSE 0)]

\* buildAllocations and AllocationsToSplitResult: small shares and routes that
\* fail are left out.
ThreeRoutes ==
  LET used == {i \in DOMAIN z : z[i] >= PruneThresh /\ Answers(i, Part(z[i]))}
  IN  IF used = {} THEN None
      ELSE [shares |-> Percents(used),
            in |-> Sum([i \in used |-> In(i, Part(z[i]))]),
            out |-> Sum([i \in used |-> Out(i, Part(z[i]))])]

-----------------------------------------------------------------------------
Init ==
  /\ fast \in BOOLEAN /\ exactIn \in BOOLEAN
  /\ paths \in UNION {[1..n -> Curve] : n \in 1..3}
  /\ stage = "choose" /\ rounds = 0
  /\ a = MinSplitRatio /\ b = MaxSplitRatio
  /\ c = b - Golden(b - a) /\ d = a + Golden(b - a)
  /\ best = Nothing /\ tried = {}
  /\ z = <<>> /\ u = <<>> /\ before = 0
  /\ answer = None

\* FindOptimalSplit with one route.
TakeTheOne ==
  /\ stage = "choose" /\ Len(paths) = 1
  /\ answer' = BestAlone /\ stage' = "done"
  /\ UNCHANGED <<fast, exactIn, paths, rounds, a, b, c, d, best, tried, z, u, before>>

\* GoldenSectionSplit, first both inner ratios.
BeginGolden ==
  /\ stage = "choose" /\ Len(paths) = 2
  /\ best' = IF BetterDivided(Divided(c), Divided(d)) THEN Divided(c) ELSE Divided(d)
  /\ tried' = {Divided(c), Divided(d)}
  /\ stage' = "golden"
  /\ UNCHANGED <<fast, exactIn, paths, rounds, a, b, c, d, z, u, before, answer>>

MoreToNarrow == rounds < MaxIter /\ b - a > GoldenTolerance

\* The comparison of a cost where a gain is meant.
LeftIsBetterByCost == Divided(c).total < Divided(d).total

\* The right end of the window, or its left end, is given up.
LeftIsBetter == BetterDivided(Divided(c), Divided(d))

NarrowLeft ==
  /\ stage = "golden" /\ MoreToNarrow /\ LeftIsBetter
  /\ b' = d /\ d' = c /\ c' = d - Golden(d - a)
  /\ best' = Keep(best, Divided(c')) /\ tried' = tried \cup {Divided(c')}
  /\ rounds' = rounds + 1
  /\ UNCHANGED <<fast, exactIn, paths, stage, a, z, u, before, answer>>

NarrowRight ==
  /\ stage = "golden" /\ MoreToNarrow /\ ~LeftIsBetter
  /\ a' = c /\ c' = d /\ d' = c + Golden(b - c)
  /\ best' = Keep(best, Divided(d')) /\ tried' = tried \cup {Divided(d')}
  /\ rounds' = rounds + 1
  /\ UNCHANGED <<fast, exactIn, paths, stage, b, z, u, before, answer>>

\* findOptimalTwoPathSplit: a route alone if no division is left.
EndGolden ==
  /\ stage = "golden" /\ ~MoreToNarrow
  /\ answer' = IF best = Nothing THEN BestAlone ELSE TwoRoutes
  /\ stage' = "done"
  /\ UNCHANGED <<fast, exactIn, paths, rounds, a, b, c, d, best, tried, z, u, before>>

BeginSolve ==
  /\ stage = "choose" /\ Len(paths) = 3
  /\ z' = [i \in 1..3 |-> Whole \div 3] /\ u' = [i \in 1..3 |-> 0]
  /\ stage' = "solve"
  /\ UNCHANGED <<fast, exactIn, paths, rounds, a, b, c, d, best, tried, before, answer>>

\* One round of ADMM; it ends when x and z agree within half a percent, or, from
\* the fourth round on, when the objective hardly changes.
Iterate ==
  /\ stage = "solve" /\ rounds < MaxIter
  /\ LET x == [i \in 1..3 |-> Allocation(i, Clamp(z[i] - u[i]))]
         shares == Enforce(Project([i \in 1..3 |-> x[i] + u[i]]))
         objective == Objective(shares)
         agreed == Sum([i \in 1..3 |-> (x[i] - shares[i]) * (x[i] - shares[i])]) < 2500
         stalled == /\ rounds > 2 /\ objective > 0 /\ before > 0
                    /\ Abs(objective - before) <= (before - 1) \div 2000
     IN  /\ z' = shares /\ u' = [i \in 1..3 |-> u[i] + x[i] - shares[i]]
         /\ before' = objective
         /\ rounds' = IF agreed \/ stalled THEN MaxIter ELSE rounds + 1
  /\ UNCHANGED <<fast, exactIn, paths, stage, a, b, c, d, best, tried, answer>>

\* findOptimalMultiPathSplit: a route alone if nothing comes of the shares.
EndSolve ==
  /\ stage = "solve" /\ rounds = MaxIter
  /\ answer' = IF ThreeRoutes.out > 0 THEN ThreeRoutes ELSE BestAlone
  /\ stage' = "done"
  /\ UNCHANGED <<fast, exactIn, paths, rounds, a, b, c, d, best, tried, z, u, before>>

Next == \/ TakeTheOne \/ BeginGolden \/ NarrowLeft \/ NarrowRight \/ EndGolden
        \/ BeginSolve \/ Iterate \/ EndSolve

Spec == Init /\ [][Next]_vars
-----------------------------------------------------------------------------
(* What the splitter promises.                                             *)

\* Types; the two ratios are inside the window.
PathSplitTypeOK ==
  /\ fast \in BOOLEAN /\ exactIn \in BOOLEAN
  /\ stage \in {"choose", "golden", "solve", "done"}
  /\ rounds \in 0..MaxIter
  /\ MinSplitRatio <= a /\ a <= c /\ c <= d /\ d <= b /\ b <= MaxSplitRatio
  /\ best \in tried \cup {Nothing}

\* Where the sum of two routes that answer everywhere is a concave function of the
\* ratio, an optimum between 10 and 90 percent never leaves the window.
Sum2(one) == Value(1, one) + Value(2, Total - one)
Always == \A i \in DOMAIN paths, amount \in 1..Total : Answers(i, amount)

OptimumStaysInWindow ==
  exactIn /\ stage = "golden" /\ Always =>
    LET range == Part(MinSplitRatio)..Part(MaxSplitRatio)
        most == Max({Sum2(one) : one \in range})
    IN  \E one \in Part(a)..Part(b) : one \in range /\ Sum2(one) = most

\* The division that is kept is the best that was tried, if what counts is the
\* output or all those tried answered.
BestIsKept ==
  exactIn \/ (\A t \in tried : t.total > 0) =>
    \A t \in tried : ~BetterDivided(t, best)

\* The shares make a whole, and each is nothing or at least 5 percent, in every
\* round.
SharesAreFair ==
  stage = "solve" =>
    /\ Sum(z) \in (Whole - 3)..Whole
    /\ \A i \in 1..3 : z[i] \in 0..10 \/ z[i] >= MinAlloc - 3

\* The percentages of an answer make 100, none is 0.
PercentsMakeWhole ==
  answer # None => Sum(answer.shares) = 100 /\ \A i \in DOMAIN answer.shares :
                                                   answer.shares[i] \in 1..100

\* Where a route alone answers, so does the splitter.
AnAnswerIsFound ==
  stage = "done" /\ (\E i \in DOMAIN paths : Answers(i, Total)) => answer # None
=============================================================================
