----------------------------- MODULE QuantityCalc -----------------------------
(***************************************************************************)
(* The scalar calculators as a state machine: each step is one call of     *)
(* addVal, subVal, mulVal or mulValRatio on arbitrary operands, recording  *)
(* the operands and the result, so that invariants can compare every       *)
(* result with the clamped reference value.                                *)
(***************************************************************************)
EXTENDS Quantity

CONSTANT Ratios   \* float ratios passed to mulValRatio, in 2^-FracBits units

ASSUME Ratios \subseteq Int

VARIABLES
  op,      \* the calculator last called
  valA,    \* its first operand
  valB,    \* its second operand (the scaled ratio for mulValRatio)
  result   \* what it returned

vars == <<op, valA, valB, result>>

Ops == {"none", "addVal", "subVal", "mulVal", "mulValRatio"}

Init ==
  /\ op = "none"
  /\ valA = 0
  /\ valB = 0
  /\ result = 0

Call(name, a, b, r) ==
  /\ op' = name
  /\ valA' = a
  /\ valB' = b
  /\ result' = r

AddVal == \E a, b \in Quantity : Call("addVal", a, b, addVal(a, b))

SubVal == \E a, b \in Quantity : Call("subVal", a, b, subVal(a, b))

MulVal == \E a, b \in Quantity : Call("mulVal", a, b, mulVal(a, b))

\* An out-of-range float conversion may produce any of its build outcomes.
MulValRatio ==
  \E v \in Quantity, r \in Ratios :
    \E out \in mulValRatio(v, r) : Call("mulValRatio", v, r, out)

Next == AddVal \/ SubVal \/ MulVal \/ MulValRatio

Spec == Init /\ [][Next]_vars

-----------------------------------------------------------------------------
TypeOK ==
  /\ op \in Ops
  /\ valA \in Quantity
  /\ valB \in Quantity \cup Ratios
  /\ result \in Quantity

\* addVal never wraps: it returns the exact sum, or the bound on the side the
\* sum overflowed (the sign-wrap test of addVal, resources.go 248).
AddValClamps == op = "addVal" => result = Clamp(valA + valB)

\* subVal never wraps (resources.go 242-244: "They will always return a valid
\* int64 ... Returning the appropriate MaxInt64 or MinInt64 value"), including
\* for the operand MinInt64 whose negation in subVal wraps.
SubValClamps == op = "subVal" => result = Clamp(valA - valB)

\* mulVal never wraps: the divide-back test and the MinInt64 * -1 special
\* case of resources.go 279 catch every overflow, and the sign test picks
\* the right bound.
MulValClamps == op = "mulVal" => result = Clamp(valA * valB)

\* mulValRatio never turns an overflow into a value of the wrong sign: a
\* product at or above MaxInt64 + 1 yields MaxInt64, one at or below
\* MinInt64 - 1 yields MinInt64 (resources.go 303-316).
MulValRatioClamps ==
  op = "mulValRatio" =>
    LET exact == valA * valB     \* the product in 2^-FracBits units
    IN  /\ exact >= (MaxQ + 1) * Scale => result = MaxQ
        /\ exact <= (MinQ - 1) * Scale => result = MinQ

=============================================================================
