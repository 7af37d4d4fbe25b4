------------------------------- MODULE Fairness -------------------------------
(***************************************************************************)
(* The share computations of resources.go that the queue and application   *)
(* sorters use: getShares, compareShares, CompUsageRatio, FairnessRatio,   *)
(* getShareFairForDenominator, getFairShare, CompUsageRatioSeparately and  *)
(* DominantResourceType.                                                   *)
(*                                                                         *)
(* A float64 share v / t is the exact rational [num, den] in lowest terms  *)
(* with den > 0, so equal shares are equal records.  Float division rounds *)
(* each share monotonically, which can merge two shares but never swaps   *)
(* them; the order properties checked on exact shares are the ones that    *)
(* matter for the rounded ones.  Go map iteration order is unspecified:    *)
(* where a result depends on it, the operator returns the set of results   *)
(* over every order.                                                       *)
(***************************************************************************)
EXTENDS Resource, Sequences, TLC

LOCAL Seqs == INSTANCE SequencesExt

RECURSIVE GCD(_, _)
GCD(a, b) == IF b = 0 THEN a ELSE GCD(b, a % b)

\* The rational n / d, d # 0, in lowest terms with a positive denominator.
Frac(n, d) ==
  LET g == GCD(Abs(n), Abs(d))
      s == Sign(d)
  IN  [num |-> (s * n) \div g, den |-> (s * d) \div g]

IntShare(n) == Frac(n, 1)
Lt(a, b) == a.num * b.den < b.num * a.den
Pos(a) == a.num > 0
Neg(a) == a.num < 0
Zero_ == IntShare(0)

-----------------------------------------------------------------------------
\* getShares that leaves out the 0.0 slots of zero usages.
getSharesNoZeroSlots(res, total) ==
  IF res = Nil \/ DOMAIN res = {} THEN <<>>
  ELSE LET used   == {k \in DOMAIN res : res[k] # 0}
           keys   == Seqs!SetToSeq(used)
           share(k) == IF total = Nil \/ Get(total, k) = 0 THEN IntShare(res[k])
                       ELSE Frac(res[k], total[k])
       IN  SortSeq([i \in 1..Len(keys) |-> share(keys[i])], Lt)

(***************************************************************************)
(* getShares (545-587): one slot per defined type.  A type with usage 0 is *)
(* skipped, leaving a 0.0 slot at the end; the share is the usage itself   *)
(* when total is nil or 0 for the type, otherwise usage / total.  The      *)
(* slots are then sorted in increasing order.                              *)
(***************************************************************************)
getShares(res, total) ==
  IF res = Nil \/ DOMAIN res = {} THEN <<>>
  ELSE LET used   == {k \in DOMAIN res : res[k] # 0}
           keys   == Seqs!SetToSeq(used)
           share(k) == IF total = Nil \/ Get(total, k) = 0 THEN IntShare(res[k])
                       ELSE Frac(res[k], total[k])
           filled == [i \in 1..Len(keys) |-> share(keys[i])]
                     \o [i \in 1..Cardinality(DOMAIN res \ used) |-> Zero_]
       IN  SortSeq(filled, Lt)

\* The sign of the first non-zero share from index i down: the walk of the
\* left-over shares in cases 2 and 3 of compareShares.
RECURSIVE LeftOver(_, _)
LeftOver(s, i) ==
  IF i = 0 THEN 0
  ELSE IF Pos(s[i]) THEN 1
  ELSE IF Neg(s[i]) THEN -1
  ELSE LeftOver(s, i - 1)

\* compareShares with the sign of case 3 inverted.
LeftOverSameSign(ls, rs, li, ri) ==
  IF li > 0 THEN LeftOver(ls, li) ELSE LeftOver(rs, ri)

\* The end of compareShares (669-693): case 1 (both exhausted, 0), case 2
\* (shares left on the left) and case 3 (shares left on the right).
CompareLeftOver(ls, rs, li, ri) ==
  IF li > 0 THEN LeftOver(ls, li) ELSE -LeftOver(rs, ri)

(***************************************************************************)
(* compareShares (650-694): walk both sorted lists from the largest share  *)
(* down while both have one; the first difference decides.                *)
(***************************************************************************)
RECURSIVE Walk(_, _, _, _)
Walk(ls, rs, li, ri) ==
  IF li > 0 /\ ri > 0
  THEN IF Lt(rs[ri], ls[li]) THEN 1
       ELSE IF Lt(ls[li], rs[ri]) THEN -1
       ELSE Walk(ls, rs, li - 1, ri - 1)
  ELSE CompareLeftOver(ls, rs, li, ri)

compareShares(lshares, rshares) ==
  Walk(lshares, rshares, Len(lshares), Len(rshares))

\* CompUsageRatio (594-599).
CompUsageRatio(left, right, total) ==
  compareShares(getShares(left, total), getShares(right, total))

(***************************************************************************)
(* FairnessRatio (624-644): largest left share over largest right share    *)
(* (0 for an empty list), in IEEE arithmetic: x / 0 is +Inf or -Inf for    *)
(* x # 0, and 0 / 0 is NaN, which the code replaces by 1.                  *)
(***************************************************************************)
PosInf == [num |-> 1, den |-> 0]    \* +Inf
NegInf == [num |-> -1, den |-> 0]   \* -Inf

Largest(s) == IF s = <<>> THEN Zero_ ELSE s[Len(s)]

FairnessRatio(left, right, total) ==
  LET l == Largest(getShares(left, total))
      r == Largest(getShares(right, total))
  IN  CASE r.num # 0         -> Frac(l.num * r.den, l.den * r.num)
        [] Pos(l)            -> PosInf
        [] Neg(l)            -> NegInf
        [] OTHER             -> IntShare(1)

-----------------------------------------------------------------------------
getShareFairForDenominator(resourceType, allocated, denominatorResources) ==
  IF denominatorResources = Nil THEN [share |-> Zero_, found |-> FALSE]
  ELSE LET d == denominatorResources
       IN  CASE resourceType \in DOMAIN d /\ d[resourceType] <= 0 ->
                  [share |-> IF allocated <= 0 THEN Zero_ ELSE IntShare(1), found |-> TRUE]
             [] Get(d, resourceType) > 0 ->
                  [share |-> Frac(allocated, d[resourceType]), found |-> TRUE]
             [] OTHER -> [share |-> Zero_, found |-> FALSE]

(***************************************************************************)
(* getFairShare (517-540): the largest share, starting from 0, over the    *)
(* non-negative usages; the guaranteed denominator first, the fair one     *)
(* when the type has no guarantee.  The maximum does not depend on the     *)
(* iteration order.                                                        *)
(***************************************************************************)
FairShareOf(k, v, guaranteed, fair) ==
  LET g == getShareFairForDenominator(k, v, guaranteed)
  IN  IF g.found THEN g ELSE getShareFairForDenominator(k, v, fair)

getFairShare(allocated, guaranteed, fair) ==
  IF allocated = Nil \/ DOMAIN allocated = {} THEN Zero_
  ELSE LET found == {FairShareOf(k, allocated[k], guaranteed, fair) :
                       k \in {k \in DOMAIN allocated : allocated[k] >= 0}}
           shares == {s.share : s \in {f \in found : f.found}} \cup {Zero_}
       IN  CHOOSE m \in shares : \A s \in shares : ~Lt(m, s)

\* CompUsageRatioSeparately (606-618).
CompUsageRatioSeparately(la, lg, lf, ra, rg, rf) ==
  LET l == getFairShare(la, lg, lf)
      r == getFairShare(ra, rg, rf)
  IN  IF Lt(r, l) THEN 1 ELSE IF Lt(l, r) THEN -1 ELSE 0

-----------------------------------------------------------------------------
\* The usage ratio of DominantResourceType (1142-1150): 0 or 1 for a zero
\* capacity, otherwise used / capacity.
UsageRatio(usedVal, capVal) ==
  IF capVal = 0 THEN IF usedVal = 0 THEN Zero_ ELSE IntShare(1)
  ELSE Frac(usedVal, capVal)

\* DominantResourceType that finds the maximum but never records it.
RECURSIVE DominantNoUpdate(_, _, _, _, _)
DominantNoUpdate(r, capacity, order, div, dominant) ==
  IF order = <<>> THEN dominant
  ELSE LET name == Head(order)
       IN  IF name \notin DOMAIN capacity
           THEN DominantNoUpdate(r, capacity, Tail(order), div, dominant)
           ELSE LET temp == UsageRatio(r[name], capacity[name])
                IN  IF ~Lt(temp, div)
                    THEN DominantNoUpdate(r, capacity, Tail(order), div, name)
                    ELSE DominantNoUpdate(r, capacity, Tail(order), div, dominant)

(***************************************************************************)
(* The loop of DominantResourceType (1131-1157) over one iteration order:  *)
(* types capacity does not define are skipped; a ratio at least the        *)
(* largest so far (div, starting at 0) takes over, ties to the later one.  *)
(***************************************************************************)
RECURSIVE Dominant(_, _, _, _, _)
Dominant(r, capacity, order, div, dominant) ==
  IF order = <<>> THEN dominant
  ELSE LET name == Head(order)
       IN  IF name \notin DOMAIN capacity
           THEN Dominant(r, capacity, Tail(order), div, dominant)
           ELSE LET temp == UsageRatio(r[name], capacity[name])
                IN  IF ~Lt(temp, div)
                    THEN Dominant(r, capacity, Tail(order), temp, name)
                    ELSE Dominant(r, capacity, Tail(order), div, dominant)

NoType == ""   \* the "" DominantResourceType returns on nil and starts from

\* DominantResourceType (1126-1158): the results over every iteration order.
DominantResourceType(r, capacity) ==
  IF r = Nil \/ capacity = Nil THEN {NoType}
  ELSE {Dominant(r, capacity, order, Zero_, NoType) :
          order \in Seqs!SetToSeqs(DOMAIN r)}
=============================================================================
