---------------------------- MODULE CapacityStats ----------------------------
(***************************************************************************)
(* The capacity statistics of resources.go: CalculateAbsUsedCapacity and   *)
(* FitInScore.  Both compute in float64.  A float is a rational [num, den] *)
(* (see Fairness) rounded after every operation to Precision significant   *)
(* bits, ties to even, as IEEE 754 rounds a float64 to 53.  FitInScore     *)
(* adds its per-type terms in map iteration order, which Go leaves        *)
(* unspecified; it returns the set of scores over every order.            *)
(***************************************************************************)
EXTENDS Fairness

LOCAL Seqs == INSTANCE SequencesExt

CONSTANT PctWidth   \* math.MaxInt32 is 2^(PctWidth-1) - 1 (PctWidth = 32)

\* float64(math.MaxInt32) is exact, and the percentage fits a Quantity.
ASSUME PctWidth - 1 <= Precision /\ PctWidth <= Width

MaxPct == 2^(PctWidth - 1) - 1

\* floor(log2(n / d)) for positive integers n and d.
FloorLog2(n, d) ==
  LET t == BitLen(n) - BitLen(d)
      atLeast == IF t >= 0 THEN n >= d * 2^t ELSE n * 2^(-t) >= d
  IN  IF atLeast THEN t ELSE t - 1

\* The float nearest to the rational x, ties to even.
RoundF(x) ==
  IF x.num = 0 THEN Zero_
  ELSE LET n   == Abs(x.num)
           e   == FloorLog2(n, x.den) - (Precision - 1)
           sn  == IF e <= 0 THEN n * 2^(-e) ELSE n
           sd  == IF e <= 0 THEN x.den ELSE x.den * 2^e
           q   == sn \div sd
           rem == sn % sd
           m   == IF 2 * rem > sd \/ (2 * rem = sd /\ q % 2 = 1) THEN q + 1 ELSE q
       IN  IF e >= 0 THEN IntShare(Sign(x.num) * m * 2^e)
           ELSE Frac(Sign(x.num) * m, 2^(-e))

\* float64(a) / float64(b), float times an exact constant, float sum.
FDiv(a, b) == RoundF(Frac(RoundToFloat(a), RoundToFloat(b)))
FMul(x, c) == RoundF([num |-> x.num * c, den |-> x.den])
FAdd(x, y) ==
  LET l == (x.den * y.den) \div GCD(x.den, y.den)
  IN  RoundF([num |-> x.num * (l \div x.den) + y.num * (l \div y.den), den |-> l])

\* Truncation of a non-negative float to an integer: int64(div).
Trunc(x) == x.num \div x.den

-----------------------------------------------------------------------------
\* The percentage of one type without the MaxInt32 cap.
AbsUsedUncapped(usedResource, capResource) ==
  CASE usedResource <= 0 -> 0
    [] capResource <= 0  -> 100
    [] OTHER -> Trunc(FMul(FDiv(usedResource, capResource), 100))

(***************************************************************************)
(* The percentage of one type (1090-1111): 0 without usage, 100 without   *)
(* capacity, otherwise float64(used) / float64(cap) * 100, capped at       *)
(* MaxInt32 and truncated.                                                 *)
(***************************************************************************)
AbsUsed(usedResource, capResource) ==
  CASE usedResource <= 0 -> 0
    [] capResource <= 0  -> 100
    [] OTHER -> LET div == FMul(FDiv(usedResource, capResource), 100)
                IN  IF Lt(IntShare(MaxPct), div) THEN MaxPct ELSE Trunc(div)

\* CalculateAbsUsedCapacity (1072-1117): the types of capacity that used
\* defines; nil gives a new empty resource.
CalculateAbsUsedCapacity(capacity, used) ==
  IF capacity = Nil \/ used = Nil THEN EmptyRes
  ELSE [k \in DOMAIN capacity \cap DOMAIN used |-> AbsUsed(used[k], capacity[k])]

-----------------------------------------------------------------------------
\* The FitInScore loop with a non-positive receiver value counted as a fit.
RECURSIVE ScoreSumNoMiss(_, _, _, _)
ScoreSumNoMiss(r, fit, order, score) ==
  IF order = <<>> THEN score
  ELSE LET key    == Head(order)
           fitVal == fit[key]
           resVal == Get(r, key)
           rest   == Tail(order)
       IN  CASE fitVal <= 0 \/ resVal <= 0 -> ScoreSumNoMiss(r, fit, rest, score)
             [] fitVal > resVal ->
                  ScoreSumNoMiss(r, fit, rest, FAdd(score, FDiv(fitVal - resVal, fitVal)))
             [] OTHER -> ScoreSumNoMiss(r, fit, rest, score)

(***************************************************************************)
(* The loop of FitInScore (221-237) over one iteration order of fit's      *)
(* types: a non-positive fit value is skipped, a non-positive receiver     *)
(* value adds 1, a smaller one adds (fitVal - resVal) / fitVal; each       *)
(* addition rounds.                                                        *)
(***************************************************************************)
RECURSIVE ScoreSum(_, _, _, _)
ScoreSum(r, fit, order, score) ==
  IF order = <<>> THEN score
  ELSE LET key    == Head(order)
           fitVal == fit[key]
           resVal == Get(r, key)
           rest   == Tail(order)
       IN  CASE fitVal <= 0 -> ScoreSum(r, fit, rest, score)
             [] resVal <= 0 -> ScoreSum(r, fit, rest, FAdd(score, IntShare(1)))
             [] fitVal > resVal ->
                  ScoreSum(r, fit, rest, FAdd(score, FDiv(fitVal - resVal, fitVal)))
             [] OTHER -> ScoreSum(r, fit, rest, score)

\* FitInScore with the branches of its nil short cut swapped.
FitInScoreNilSwapped(r, fit) ==
  CASE fit = Nil -> {Zero_}
    [] r = Nil   -> {Zero_}
    [] OTHER     -> {ScoreSum(r, fit, order, Zero_) :
                       order \in Seqs!SetToSeqs(DOMAIN fit)}

\* FitInScore (212-238): a nil fit scores 0, a nil receiver the number of
\* fit's types; otherwise the scores over every iteration order.
FitInScore(r, fit) ==
  CASE fit = Nil -> {Zero_}
    [] r = Nil   -> {IntShare(Cardinality(DOMAIN fit))}
    [] OTHER     -> {ScoreSum(r, fit, order, Zero_) :
                       order \in Seqs!SetToSeqs(DOMAIN fit)}
=============================================================================
