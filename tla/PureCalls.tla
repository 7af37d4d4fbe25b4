------------------------------ MODULE PureCalls ------------------------------
(***************************************************************************)
(* One call of a function without side effects per step:                 *)
(* CalculateAbsUsedCapacity or FitInScore on any pair of resources from   *)
(* the input sets (nil included), or NewResourceFromConf on a config map, *)
(* recording the arguments and the result; the caller then takes the      *)
(* result and is ready for its next call.  Where the result depends on    *)
(* the map iteration order it is one of the results some order produces.  *)
(***************************************************************************)
EXTENDS CapacityStats, Conversions

CONSTANTS
  PctKeys, PctCapVals, PctUseVals,        \* CalculateAbsUsedCapacity inputs
  ScoreKeys, ScoreFitVals, ScoreResVals,  \* FitInScore inputs
  ConfKeys,                               \* the keys of a config map
  CmpKeys, CmpVals                        \* comparison inputs

ASSUME PctKeys \cup ScoreKeys \cup ConfKeys \cup CmpKeys \subseteq Keys

\* nil, or a resource defining any subset of keys with values from vals.
Inputs(keys, vals) == {Nil} \cup UNION {[D -> vals] : D \in SUBSET keys}

VARIABLES op, left, right, result

vars == <<op, left, right, result>>

Init ==
  /\ op = "none"
  /\ left = Nil /\ right = Nil
  /\ result = Zero_

AbsUsedCall ==
  /\ op = "none"
  /\ \E capacity \in Inputs(PctKeys, PctCapVals), used \in Inputs(PctKeys, PctUseVals) :
       /\ op' = "CalculateAbsUsedCapacity"
       /\ left' = capacity /\ right' = used
       /\ result' = CalculateAbsUsedCapacity(capacity, used)

FitInScoreCall ==
  /\ op = "none"
  /\ \E r \in Inputs(ScoreKeys, ScoreResVals), fit \in Inputs(ScoreKeys, ScoreFitVals) :
       \E score \in FitInScore(r, fit) :
         /\ op' = "FitInScore"
         /\ left' = r /\ right' = fit
         /\ result' = score

ConfCall ==
  /\ op = "none"
  /\ \E configMap \in UNION {[D -> Strings] : D \in SUBSET ConfKeys} :
       \E out \in NewResourceFromConf(configMap) :
         /\ op' = "NewResourceFromConf"
         /\ left' = configMap /\ right' = Nil
         /\ result' = out

\* A comparison (FitInMaxUndef, DeepEquals, MatchAny, EqualsOrEmpty,
\* StrictlyGreaterThanOnlyExisting, StrictlyGreaterThanZero) of two
\* resources; same records that the caller passed one object twice.
CompareCall ==
  /\ op = "none"
  /\ \E l, r \in Inputs(CmpKeys, CmpVals), same \in BOOLEAN :
       /\ same => l = r
       /\ op' = "Compare"
       /\ left' = l /\ right' = r
       /\ result' = same

\* The caller has used the result.
Return ==
  /\ op # "none"
  /\ op' = "none"
  /\ left' = Nil /\ right' = Nil
  /\ result' = Zero_

Next == AbsUsedCall \/ FitInScoreCall \/ ConfCall \/ CompareCall \/ Return

Spec == Init /\ [][Next]_vars

-----------------------------------------------------------------------------
TypeOK ==
  /\ op \in {"none", "CalculateAbsUsedCapacity", "FitInScore", "NewResourceFromConf",
            "Compare"}
  /\ op = "Compare" => result \in BOOLEAN
  /\ op = "CalculateAbsUsedCapacity" => result \in [DOMAIN result -> 0..MaxPct]
  /\ op = "FitInScore" => result.den > 0
  /\ op = "NewResourceFromConf" =>
       result.res = Nil \/ result.res \in [DOMAIN result.res -> Quantity]

\* The exact percentage the comment of CalculateAbsUsedCapacity (1066-1071)
\* and spec 4.5 describe: used * 100 / capacity truncated, capped at MaxInt32.
ExactPct(used, cap) ==
  CASE used <= 0 -> 0
    [] cap <= 0  -> 100
    [] OTHER     -> GoMin((used * 100) \div cap, MaxPct)

\* CalculateAbsUsedCapacity reports exactly the types both resources define,
\* each within one percent of the exact truncated percentage (the float
\* quotient and product can each round across an integer), and never above
\* MaxInt32.
AbsUsedCapacityNearExact ==
  op = "CalculateAbsUsedCapacity" =>
    /\ DOMAIN result = IF left = Nil \/ right = Nil THEN {}
                       ELSE DOMAIN left \cap DOMAIN right
    /\ \A k \in DOMAIN result :
         /\ result[k] <= MaxPct
         /\ Abs(result[k] - ExactPct(right[k], left[k])) <= 1

\* The percentage is the exact truncated one (spec 4.5: "usage/capacity*100,
\* truncated toward zero").
AbsUsedCapacityExact ==
  op = "CalculateAbsUsedCapacity" =>
    \A k \in DOMAIN result : result[k] = ExactPct(right[k], left[k])

PositiveTypes(fit) == {k \in DOMAIN fit : fit[k] > 0}

\* For a non-nil receiver FitInScore lies in 0..(number of fit's positive
\* types), whatever the rounding and the order of the sum, and is 0 exactly
\* when the receiver covers every positive type of fit (comment 201-205:
\* "A score of 0 is a fit", "The score has a range between 0..#fit-res").
FitInScoreMeasuresFit ==
  (op = "FitInScore" /\ left # Nil /\ right # Nil) =>
    /\ ~Lt(result, Zero_)
    /\ ~Lt(IntShare(Cardinality(PositiveTypes(right))), result)
    /\ (result = Zero_) <=> \A k \in PositiveTypes(right) : Get(left, k) >= right[k]

\* The same receiver and fit always get the same score (comment 205: "Same
\* score means same fit"), whatever order the map is walked in.
FitInScoreDeterministic ==
  op = "FitInScore" => FitInScore(left, right) = {result}

\* A nil receiver gets the maximum score (comment 212: "A nil receiver gives
\* back the maximum score"): its short cut is at least the score any
\* receiver gets for the same fit, in any iteration order.
FitInScoreNilMaximal ==
  (op = "FitInScore" /\ left = Nil /\ right # Nil) =>
    \A r \in Inputs(ScoreKeys, ScoreResVals) \ {Nil} :
      \A s \in FitInScore(r, right) : ~Lt(result, s)

\* NewResourceFromConf builds all or nothing (spec 6 and 7: a parse failure
\* "aborts construction of the whole vector (no partial result)"): whatever
\* the iteration order of the config map, the result is (nil, err) when any
\* value fails its parser, and otherwise every key with its parsed value.
ConfAllOrNothing ==
  op = "NewResourceFromConf" =>
    LET parse(k) == IF k = CPU THEN ParseVCore(left[k]) ELSE ParseQuantity(left[k])
    IN  IF \E k \in DOMAIN left : ~parse(k).ok
        THEN result = [err |-> TRUE, res |-> Nil]
        ELSE result = [err |-> FALSE, res |-> [k \in DOMAIN left |-> parse(k).val]]

\* The comparisons agree with one another on every pair of resources, nil,
\* explicit zeros and negatives included: DeepEquals (729-749) implies
\* Equals, which implies EqualsOrEmpty; equal resources are not strictly
\* larger than each other under StrictlyGreaterThanOnlyExisting (comment at
\* 879); whatever fits under FitIn also fits under FitInMaxUndef; something
\* strictly greater than zero fits only in a non-zero resource; and a
\* non-empty resource matches any resource deeply equal to it (MatchAny).
ComparisonsCoherent ==
  op = "Compare" =>
    /\ DeepEquals(left, right) => Equals(left, right)
    /\ Equals(left, right) => EqualsOrEmpty(left, right)
    /\ DeepEquals(left, right) => ~StrictlyGreaterThanOnlyExisting(left, right)
    /\ FitIn(left, right) => FitInMaxUndef(left, right)
    /\ StrictlyGreaterThanZero(right) /\ FitIn(left, right) => ~IsZero(left)
    /\ ~IsEmpty(left) /\ DeepEquals(left, right) => MatchAny(left, right, result)
=============================================================================
