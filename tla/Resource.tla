------------------------------- MODULE Resource -------------------------------
(***************************************************************************)
(* The Resource vector of resources.go as a value: a function from the     *)
(* resource types it defines (a subset of Keys) to Quantity, or Nil for a  *)
(* nil *Resource.  A type absent from the map reads as 0, as a Go map      *)
(* lookup does.  The operations are the value-level meaning of the Go      *)
(* functions; which pointer a function returns (a clone, a new object or   *)
(* nil) is modelled in ResourceStore.                                      *)
(***************************************************************************)
EXTENDS Quantity, FiniteSets

CONSTANTS
  Keys,   \* resource type names
  Nil     \* the nil *Resource

ASSUME Nil \notin Keys

\* A resource value: the Resources map of a non-nil *Resource.
Values == UNION {[D -> Quantity] : D \in SUBSET Keys}

EmptyRes == [k \in {} |-> 0]           \* NewResource(), and the value of Zero

\* r.Resources[k] of a non-nil resource: 0 when the type is not defined.
Get(r, k) == IF k \in DOMAIN r THEN r[k] ELSE 0

\* A nil input treated as Zero, as most functions do first.
OrZero(r) == IF r = Nil THEN EmptyRes ELSE r

GoMin(a, b) == IF a < b THEN a ELSE b
GoMax(a, b) == IF a > b THEN a ELSE b

\* for k, v := range delta.Resources { out[k] = addVal(out[k], v) }, and the
\* same loop with subVal: the types of both, base's value where delta has none.
AddEach(base, delta) ==
  [k \in DOMAIN base \cup DOMAIN delta |->
     IF k \in DOMAIN delta THEN addVal(Get(base, k), delta[k]) ELSE base[k]]
SubEach(base, delta) ==
  [k \in DOMAIN base \cup DOMAIN delta |->
     IF k \in DOMAIN delta THEN subVal(Get(base, k), delta[k]) ELSE base[k]]

-----------------------------------------------------------------------------
(* In-place updates of the map of a non-nil receiver.                      *)

\* Prune (150-159): drop the types set to 0.
Prune(r) == [k \in {k \in DOMAIN r : r[k] # 0} |-> r[k]]

\* AddTo with a plain sum in place of addVal.
AddToUnchecked(r, add) ==
  IF add = Nil THEN r
  ELSE [k \in DOMAIN r \cup DOMAIN add |-> Get(r, k) + Get(add, k)]

\* AddTo (165-174) and SubFrom (180-189): a nil delta changes nothing.
AddTo(r, add) == IF add = Nil THEN r ELSE AddEach(r, add)
SubFrom(r, sub) == IF sub = Nil THEN r ELSE SubEach(r, sub)

\* The possible results of mulValRatio applied to every value of r.
RatioOutcomes(r, ratio) ==
  LET out == [k \in DOMAIN r |-> mulValRatio(r[k], ratio)]
  IN  {f \in [DOMAIN r -> UNION {out[k] : k \in DOMAIN r}] :
         \A k \in DOMAIN r : f[k] \in out[k]}

\* MultiplyTo (193-199): the set of results the build can produce.
MultiplyTo(r, ratio) == RatioOutcomes(r, ratio)

-----------------------------------------------------------------------------
(* Functions returning a new value.                                        *)

\* Add (330-345), Sub (350-365): union of the types, nil is Zero.
Add(left, right) == IF right = Nil THEN OrZero(left)
                    ELSE AddEach(OrZero(left), right)
Sub(left, right) == IF right = Nil THEN OrZero(left)
                    ELSE SubEach(OrZero(left), right)

\* SubOnlyExisting (368-379), AddOnlyExisting (382-393): only base's types.
SubOnlyExisting(base, delta) ==
  IF base = Nil \/ delta = Nil THEN base
  ELSE [k \in DOMAIN base |-> subVal(base[k], Get(delta, k))]
AddOnlyExisting(base, delta) ==
  IF base = Nil \/ delta = Nil THEN base
  ELSE [k \in DOMAIN base |-> addVal(base[k], Get(delta, k))]

(***************************************************************************)
(* subNonNegative (418-443): subtract right's types, reset each negative   *)
(* result to 0 and report its type.  The message lists the reported types; *)
(* its wording and order are abstracted to the set "negative".             *)
(***************************************************************************)
subNonNegative(left, right) ==
  LET l   == OrZero(left)
      sub == [k \in DOMAIN right |-> subVal(Get(l, k), right[k])]
  IN  IF right = Nil THEN [res |-> l, negative |-> {}]
      ELSE [res      |-> [k \in DOMAIN l \cup DOMAIN right |->
                            IF k \in DOMAIN right THEN GoMax(sub[k], 0)
                            ELSE l[k]],
            negative |-> {k \in DOMAIN right : sub[k] < 0}]

\* SubEliminateNegative (398-401) drops the message; SubErrorNegative
\* (407-414) returns an error exactly when the message is not empty.
SubEliminateNegative(left, right) == subNonNegative(left, right).res
SubErrorNegative(left, right) ==
  LET s == subNonNegative(left, right)
  IN  [res |-> s.res, err |-> s.negative # {}]

\* Multiply with a plain product in place of mulVal.
MultiplyUnchecked(base, ratio) ==
  IF base = Nil \/ ratio = 0 THEN EmptyRes
  ELSE [k \in DOMAIN base |-> base[k] * ratio]

\* Multiply (788-799): nil or a zero ratio give a new empty resource.
Multiply(base, ratio) ==
  IF base = Nil \/ ratio = 0 THEN EmptyRes
  ELSE [k \in DOMAIN base |-> mulVal(base[k], ratio)]

\* MultiplyBy (805-814): the set of results the build can produce.
MultiplyBy(base, ratio) ==
  IF base = Nil \/ ratio = 0 THEN {EmptyRes} ELSE RatioOutcomes(base, ratio)

\* ComponentWiseMin (946-972): a one-sided type keeps its value.
ComponentWiseMin(left, right) ==
  CASE left = Nil /\ right = Nil -> Nil
    [] left = Nil  -> right
    [] right = Nil -> left
    [] OTHER -> [k \in DOMAIN left \cup DOMAIN right |->
                   IF k \in DOMAIN left /\ k \in DOMAIN right
                   THEN GoMin(left[k], right[k])
                   ELSE IF k \in DOMAIN left THEN left[k] ELSE right[k]]

\* MergeIfNotPresent (978-995): right's types that left does not define.
MergeIfNotPresent(left, right) ==
  CASE left = Nil /\ right = Nil -> Nil
    [] left = Nil  -> right
    [] right = Nil -> left
    [] OTHER -> [k \in DOMAIN left \cup DOMAIN right |->
                   IF k \in DOMAIN left THEN left[k] ELSE right[k]]

\* ComponentWiseMinOnlyExisting (999-1018): only left's types.
ComponentWiseMinOnlyExisting(left, right) ==
  CASE left = Nil  -> Nil
    [] right = Nil -> left
    [] OTHER -> [k \in DOMAIN left |->
                   IF k \in DOMAIN right THEN GoMin(left[k], right[k])
                   ELSE left[k]]

\* ComponentWiseMax (1039-1050): an undefined type reads as 0 on both sides.
ComponentWiseMax(left, right) ==
  IF left # Nil /\ right # Nil
  THEN [k \in DOMAIN left \cup DOMAIN right |-> GoMax(Get(left, k), Get(right, k))]
  ELSE EmptyRes

-----------------------------------------------------------------------------
(* Predicates.                                                             *)

\* fitIn (462-484): every type of smaller fits in max(0, larger's value);
\* with skipUndef a type larger does not define always fits.
fitIn(r, smaller, skipUndef) ==
  LET larger == OrZero(r)
  IN  smaller = Nil \/
      \A k \in DOMAIN smaller :
        \/ skipUndef /\ k \notin DOMAIN larger
        \/ smaller[k] <= GoMax(0, Get(larger, k))

FitIn(r, smaller) == fitIn(r, smaller, FALSE)              \* 448-450
FitInMaxUndef(r, smaller) == fitIn(r, smaller, TRUE)       \* 455-457

\* StrictlyGreaterThanOrEquals (853-874): both loops, nil is Zero.
StrictlyGreaterThanOrEquals(larger, smaller) ==
  LET l == OrZero(larger)
      s == OrZero(smaller)
  IN  /\ \A k \in DOMAIN l : Get(s, k) <= l[k]
      /\ \A k \in DOMAIN s : Get(l, k) >= s[k]

\* StrictlyGreaterThan without its second loop over smaller's types.
StrictlyGreaterThanLargerOnly(larger, smaller) ==
  LET l == OrZero(larger)
      s == OrZero(smaller)
  IN  /\ \A k \in DOMAIN l : Get(s, k) <= l[k]
      /\ \E k \in DOMAIN l : Get(l, k) # Get(s, k)

\* StrictlyGreaterThan (818-850): the same, and some type differs.
StrictlyGreaterThan(larger, smaller) ==
  LET l == OrZero(larger)
      s == OrZero(smaller)
  IN  /\ \A k \in DOMAIN l : Get(s, k) <= l[k]
      /\ \A k \in DOMAIN s : Get(l, k) >= s[k]
      /\ \E k \in DOMAIN l \cup DOMAIN s : Get(l, k) # Get(s, k)

IsEmpty(r) == r = Nil \/ DOMAIN r = {}                     \* 1033-1035

\* StrictlyGreaterThanOnlyExisting (880-923).
StrictlyGreaterThanOnlyExisting(r, smaller) ==
  LET l      == OrZero(r)
      s      == OrZero(smaller)
      common == DOMAIN l \cap DOMAIN s
  IN  /\ \A k \in common : s[k] <= l[k]
      /\ CASE IsEmpty(s) /\ ~IsEmpty(l) -> \A k \in DOMAIN l : l[k] > 0
           [] common # {} -> \E k \in common : s[k] # l[k]
           [] OTHER -> ~IsEmpty(l) /\ ~IsEmpty(s)

\* StrictlyGreaterThanZero (927-941): nil is not.
StrictlyGreaterThanZero(larger) ==
  /\ larger # Nil
  /\ \A k \in DOMAIN larger : larger[k] >= 0
  /\ \E k \in DOMAIN larger : larger[k] > 0

HasNegativeValue(r) == r # Nil /\ \E k \in DOMAIN r : r[k] < 0   \* 1020-1030

IsZero(r) == r = Nil \/ \A k \in DOMAIN r : r[k] = 0             \* 1054-1064

\* Equals (701-721): undefined types read as 0; nil equals only nil.  The
\* same-pointer short cut returns what the loops would.
Equals(left, right) ==
  IF left = Nil \/ right = Nil THEN left = right
  ELSE \A k \in DOMAIN left \cup DOMAIN right : Get(left, k) = Get(right, k)

\* DeepEquals without the length check (736): the types of left, with the
\* same values, exist in right.
DeepEqualsSubset(left, right) ==
  \/ left = right
  \/ /\ left # Nil /\ right # Nil
     /\ \A k \in DOMAIN left : k \in DOMAIN right /\ right[k] = left[k]

\* DeepEquals (729-749): same types and same values.
DeepEquals(left, right) == left = right

\* r.MatchAny(other) (755-768): false for nil, true when same (r and other
\* are one object), otherwise whether the maps share a type.
MatchAny(r, other, same) ==
  CASE r = Nil \/ other = Nil -> FALSE
    [] same                  -> TRUE
    [] OTHER                 -> DOMAIN r \cap DOMAIN other # {}

\* EqualsOrEmpty (778-783).
EqualsOrEmpty(left, right) == (IsZero(left) /\ IsZero(right)) \/ Equals(left, right)
=============================================================================
