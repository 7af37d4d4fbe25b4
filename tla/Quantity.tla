------------------------------- MODULE Quantity -------------------------------
(***************************************************************************)
(* The wrapping-safe scalar calculators of resources.go: addVal, subVal,   *)
(* mulVal and mulValRatio on a Quantity (a Go int64).                      *)
(*                                                                         *)
(* The integer width is the constant Width (64 in the code): Go arithmetic *)
(* on Quantity wraps modulo 2^Width, and the overflow checks of the code   *)
(* are evaluated on the wrapped values.  A float64 has fewer significant   *)
(* bits (53) than an int64 (63 + sign); the constant Precision plays that  *)
(* role, so that float64(math.MaxInt64) rounds up to 2^(Width-1) exactly   *)
(* as it does in the code.  A float ratio is a dyadic number, given as an  *)
(* integer count of 2^-FracBits units.                                     *)
(***************************************************************************)
EXTENDS Integers

CONSTANTS
  Width,      \* bits of a Quantity (int64: 64)
  Precision,  \* significant bits of a float64 (53)
  FracBits    \* a float ratio r stands for r / 2^FracBits

ASSUME Width \in 2..16 /\ Precision \in 1..(Width - 1) /\ FracBits \in 0..4

MinQ == -(2^(Width - 1))        \* math.MinInt64
MaxQ == 2^(Width - 1) - 1       \* math.MaxInt64
Quantity == MinQ..MaxQ
Scale == 2^FracBits

\* Two's complement wrap of an exact integer into the Quantity range: what
\* Go's +, - and * on int64 produce.
Wrap(x) == ((x - MinQ) % (2^Width)) + MinQ

Abs(x) == IF x < 0 THEN -x ELSE x
Sign(x) == IF x < 0 THEN -1 ELSE 1

\* Go's integer division truncates toward zero; MinInt64 / -1 wraps.
TruncDiv(x, y) ==
  LET q == Abs(x) \div Abs(y)
  IN  IF (x < 0) = (y < 0) THEN q ELSE -q
GoDiv(x, y) == Wrap(TruncDiv(x, y))

\* Number of bits of a positive integer.
BitLen(n) == CHOOSE k \in 1..(2 * Width + 2 * FracBits + 2) :
               2^(k - 1) <= n /\ n < 2^k

\* Conversion of an integer to float64: round to Precision significant bits,
\* ties to even (IEEE 754 round-to-nearest-even).
RoundToFloat(x) ==
  IF x = 0 THEN 0
  ELSE LET a    == Abs(x)
           e    == IF BitLen(a) > Precision THEN BitLen(a) - Precision ELSE 0
           q    == a \div 2^e
           rem  == a % 2^e
           half == 2^e \div 2
           m    == IF e > 0 /\ (rem > half \/ (rem = half /\ q % 2 = 1))
                   THEN q + 1 ELSE q
       IN  Sign(x) * m * 2^e

\* addVal without its wrap check.
addValUnchecked(valA, valB) == Wrap(valA + valB)

(***************************************************************************)
(* addVal (resources.go 245-264): add, and if the sign wrapped return the  *)
(* bound on valA's side.                                                   *)
(***************************************************************************)
addVal(valA, valB) ==
  LET result == Wrap(valA + valB)
  IN  IF (result < valA) # (valB < 0)
      THEN IF valA < 0 THEN MinQ ELSE MaxQ
      ELSE result

\* subVal (266-268): addVal of the negated operand; -valB is itself an int64
\* negation and wraps for MinInt64.
subVal(valA, valB) == addVal(valA, Wrap(-valB))

\* mulVal without the MinInt64 * -1 special case.
mulValNoMinSpecial(valA, valB) ==
  IF valA = 0 \/ valB = 0 THEN 0
  ELSE LET result == Wrap(valA * valB)
       IN  IF GoDiv(result, valB) # valA
           THEN IF (valA < 0) # (valB < 0) THEN MinQ ELSE MaxQ
           ELSE result

(***************************************************************************)
(* mulVal (270-295): zero short cut; overflow detected by dividing the     *)
(* wrapped product back, with MinInt64 * -1 special cased.                 *)
(***************************************************************************)
mulVal(valA, valB) ==
  IF valA = 0 \/ valB = 0 THEN 0
  ELSE LET result == Wrap(valA * valB)
       IN  IF GoDiv(result, valB) # valA \/ (valA = MinQ /\ valB = -1)
           THEN IF (valA < 0) # (valB < 0) THEN MinQ ELSE MaxQ
           ELSE result

(***************************************************************************)
(* mulValRatio (297-319): float64(value) * ratio, rounded to a float, two  *)
(* range guards against the float constants MaxInt64 and MinInt64, then   *)
(* Quantity(result), which truncates toward zero.  A float outside the     *)
(* int64 range converts to an implementation-dependent value (Go spec,     *)
(* Conversions): MinInt64 on amd64, the saturated MaxInt64 on arm64.  The  *)
(* operator returns the set of outcomes a build can produce.               *)
(***************************************************************************)
FloatProduct(value, ratio) == RoundToFloat(RoundToFloat(value) * ratio)

\* mulValRatio converting the float product without its range guards.
mulValRatioUnguarded(value, ratio) ==
  IF value = 0 \/ ratio = 0 THEN {0}
  ELSE {TruncDiv(FloatProduct(value, ratio), Scale)}

mulValRatio(value, ratio) ==
  IF value = 0 \/ ratio = 0 THEN {0}
  ELSE LET result == FloatProduct(value, ratio)     \* in 2^-FracBits units
           asInt  == TruncDiv(result, Scale)
       IN  IF result > RoundToFloat(MaxQ) * Scale THEN {MaxQ}
           ELSE IF result < RoundToFloat(MinQ) * Scale THEN {MinQ}
           ELSE IF asInt \in Quantity THEN {asInt}
           ELSE {MinQ, MaxQ}

-----------------------------------------------------------------------------
(* Reference definitions: the mathematically correct result, clamped to    *)
(* the nearest representable bound as the comments of resources.go and    *)
(* the spec require ("They will always return a valid int64 ... Returning  *)
(* the appropriate MaxInt64 or MinInt64 value").                           *)
Clamp(x) == IF x > MaxQ THEN MaxQ ELSE IF x < MinQ THEN MinQ ELSE x
=============================================================================
