---------------------------- MODULE ResourceStore ----------------------------
(***************************************************************************)
(* The *Resource objects of resources.go as a heap shared with a caller.   *)
(* The caller keeps *Resource variables (Regs), each nil or pointing to an *)
(* object; an object is a Resources map.  The package variable Zero is the *)
(* object ZeroPtr.  Each action is one call of an exported function: the   *)
(* in-place updates (Prune, AddTo, SubFrom, MultiplyTo) change the object  *)
(* of their receiver, and the functions returning a *Resource assign their *)
(* result to a caller variable.  Which object a function returns follows   *)
(* the code: a NewResource() it filled, a Clone() of an input or of Zero   *)
(* it then updated, or nil.  Arguments are any caller variable, nil or     *)
(* Zero itself (callers pass resources.Zero freely); a caller only         *)
(* updates in place a resource a function returned to it.                  *)
(***************************************************************************)
EXTENDS Conversions, TLC

CONSTANTS
  Regs,       \* the caller's *Resource variables
  Ptrs,       \* addresses of objects other than Zero
  ZeroPtr,    \* the address of the package variable Zero (line 49)
  IntRatios,  \* int64 ratios passed to Multiply
  Ratios,     \* float64 ratios passed to MultiplyTo and MultiplyBy (scaled)
  Jsons,      \* strings passed to NewResourceFromString
  Decode,     \* json.Unmarshal of each of them into an *si.Resource
  Configs     \* config maps passed to NewResourceFromConf

ASSUME /\ ZeroPtr \notin Ptrs /\ Nil \notin Ptrs \cup {ZeroPtr}
       /\ Cardinality(Ptrs) > Cardinality(Regs)   \* room for a fresh object
       /\ DOMAIN Decode = Jsons
       /\ Configs \subseteq UNION {[D -> Strings] : D \in SUBSET Keys}

VARIABLES
  heap,   \* heap[p]: the Resources map of the object at p, for live p
  reg,      \* reg[r]: the pointer held by the caller variable r, or Nil
  panicked  \* a call has panicked: the program has stopped

vars == <<heap, reg, panicked>>

Val(p) == IF p = Nil THEN Nil ELSE heap[p]

\* What a caller may pass as a *Resource argument.
Args == {reg[r] : r \in Regs} \cup {Nil, ZeroPtr}

\* The objects still reachable: Zero and those the caller refers to.
Live(h, rg) == [p \in ({ZeroPtr} \cup {rg[r] : r \in Regs}) \ {Nil} |-> h[p]]

(***************************************************************************)
(* The object a function returns: Nil, or [at |-> A, val |-> v], an object *)
(* at one of the addresses A whose map now holds v.  A new object may be   *)
(* at any free address; an existing object p is at {p}.                    *)
(***************************************************************************)
New(v) == [at |-> Ptrs \ DOMAIN heap, val |-> v]

\* A shallow copy that shares the Resources map with the original.
CloneSharing(p, v) == IF p = Nil THEN Nil ELSE [at |-> {p}, val |-> v]

\* p.Clone() (137-146) into which the caller then writes v: nil for a nil
\* receiver, otherwise a new object with its own map.
CloneThen(p, v) == IF p = Nil THEN Nil ELSE New(v)

Clone(p) == CloneThen(p, Val(p))

\* The caller variable dst receives the result res; unreachable objects are
\* dropped.
Assign(dst, res) ==
  \/ /\ res = Nil
     /\ reg' = [reg EXCEPT ![dst] = Nil]
     /\ heap' = Live(heap, reg')
  \/ /\ res # Nil
     /\ \E p \in res.at :
          /\ reg' = [reg EXCEPT ![dst] = p]
          /\ heap' = Live((p :> res.val) @@ heap, reg')
  /\ UNCHANGED panicked

\* The in-place update of the receiver r to the map v; nil is a no-op.
Update(r, v) ==
  /\ reg[r] # Nil
  /\ heap' = [heap EXCEPT ![reg[r]] = v]
  /\ UNCHANGED <<reg, panicked>>

ZeroOr(p) == IF p = Nil THEN ZeroPtr ELSE p

-----------------------------------------------------------------------------
(* Constructors (51-71).  NewResourceFromMap wraps the caller's map; the   *)
(* caller hands over a map it does not use afterwards.                     *)
NewResource(dst) == Assign(dst, New(EmptyRes))

NewResourceFromMap(dst) == \E m \in Values : Assign(dst, New(m))

CloneCall(dst, a) == Assign(dst, Clone(a))

(* Constructors from the wire and config forms (54-102): the caller keeps *)
(* the resource, or nil when an error is returned; a nil dereference in   *)
(* NewResourceFromProto stops the program.                                *)
NewResourceFromProtoCall(dst, proto) ==
  IF NewResourceFromProto(proto) = Panic
  THEN panicked' = TRUE /\ UNCHANGED <<heap, reg>>
  ELSE Assign(dst, New(NewResourceFromProto(proto)))

NewResourceFromStringCall(dst, str) ==
  LET out == NewResourceFromString(Decode[str])
  IN  CASE out.err         -> Assign(dst, Nil)
        [] out.res = Panic -> panicked' = TRUE /\ UNCHANGED <<heap, reg>>
        [] OTHER           -> Assign(dst, New(out.res))

NewResourceFromConfCall(dst, configMap) ==
  \E out \in NewResourceFromConf(configMap) :
    Assign(dst, IF out.err THEN Nil ELSE New(out.res))

(* In-place updates (150-199).                                             *)
PruneCall(r) == Update(r, Prune(Val(reg[r])))

AddToCall(r, a) == Update(r, AddTo(Val(reg[r]), Val(a)))

SubFromCall(r, a) == Update(r, SubFrom(Val(reg[r]), Val(a)))

MultiplyToCall(r, ratio) ==
  /\ reg[r] # Nil
  /\ \E v \in MultiplyTo(Val(reg[r]), ratio) : Update(r, v)

(* Add (330-345), Sub (350-365): a clone of left, or of Zero, updated.     *)
\* Add writing into its left operand (or Zero) instead of into a clone.
AddCallInPlace(dst, a, b) ==
  Assign(dst, CloneSharing(ZeroOr(a), Add(Val(a), Val(b))))

AddCall(dst, a, b) == Assign(dst, CloneThen(ZeroOr(a), Add(Val(a), Val(b))))

SubCall(dst, a, b) == Assign(dst, CloneThen(ZeroOr(a), Sub(Val(a), Val(b))))

(* SubOnlyExisting (368-379), AddOnlyExisting (382-393).                   *)
SubOnlyExistingCall(dst, a, b) ==
  Assign(dst, IF a = Nil \/ b = Nil THEN Clone(a)
              ELSE New(SubOnlyExisting(Val(a), Val(b))))

AddOnlyExistingCall(dst, a, b) ==
  Assign(dst, IF a = Nil \/ b = Nil THEN Clone(a)
              ELSE New(AddOnlyExisting(Val(a), Val(b))))

(* SubEliminateNegative and SubErrorNegative (398-443): a clone of left,   *)
(* or of Zero, updated; the error is returned beside it.                   *)
SubEliminateNegativeCall(dst, a, b) ==
  Assign(dst, CloneThen(ZeroOr(a), SubEliminateNegative(Val(a), Val(b))))

SubErrorNegativeCall(dst, a, b) ==
  Assign(dst, CloneThen(ZeroOr(a), SubErrorNegative(Val(a), Val(b)).res))

(* Multiply (788-799), MultiplyBy (805-814): a new object.                 *)
MultiplyCall(dst, a, ratio) == Assign(dst, New(Multiply(Val(a), ratio)))

MultiplyByCall(dst, a, ratio) ==
  \E v \in MultiplyBy(Val(a), ratio) : Assign(dst, New(v))

(* ComponentWiseMin (946-972), MergeIfNotPresent (978-995),                *)
(* ComponentWiseMinOnlyExisting (999-1018), ComponentWiseMax (1039-1050).  *)
ComponentWiseMinCall(dst, a, b) ==
  Assign(dst, CASE a = Nil /\ b = Nil -> Nil
                [] a = Nil -> Clone(b)
                [] b = Nil -> Clone(a)
                [] OTHER   -> New(ComponentWiseMin(Val(a), Val(b))))

MergeIfNotPresentCall(dst, a, b) ==
  Assign(dst, CASE a = Nil /\ b = Nil -> Nil
                [] a = Nil -> Clone(b)
                [] b = Nil -> Clone(a)
                [] OTHER   -> CloneThen(a, MergeIfNotPresent(Val(a), Val(b))))

ComponentWiseMinOnlyExistingCall(dst, a, b) ==
  Assign(dst, CASE a = Nil -> Nil
                [] b = Nil -> Clone(a)
                [] OTHER   -> New(ComponentWiseMinOnlyExisting(Val(a), Val(b))))

ComponentWiseMaxCall(dst, a, b) ==
  Assign(dst, New(ComponentWiseMax(Val(a), Val(b))))

-----------------------------------------------------------------------------
Init ==
  /\ heap = (ZeroPtr :> EmptyRes)
  /\ reg = [r \in Regs |-> Nil]
  /\ panicked = FALSE

\* The decoded protos a caller may also pass to NewResourceFromProto.
Protos == {Decode[s] : s \in Jsons} \ {DecodeError}

Next ==
  /\ ~panicked
  /\ \/ \E dst \in Regs :
          \/ NewResource(dst)
          \/ NewResourceFromMap(dst)
          \/ \E proto \in Protos : NewResourceFromProtoCall(dst, proto)
          \/ \E str \in Jsons : NewResourceFromStringCall(dst, str)
          \/ \E configMap \in Configs : NewResourceFromConfCall(dst, configMap)
          \/ \E a \in Args : CloneCall(dst, a)
          \/ \E a \in Args, ratio \in IntRatios : MultiplyCall(dst, a, ratio)
          \/ \E a \in Args, ratio \in Ratios : MultiplyByCall(dst, a, ratio)
          \/ \E a, b \in Args :
               \/ AddCall(dst, a, b)
               \/ SubCall(dst, a, b)
               \/ SubOnlyExistingCall(dst, a, b)
               \/ AddOnlyExistingCall(dst, a, b)
               \/ SubEliminateNegativeCall(dst, a, b)
               \/ SubErrorNegativeCall(dst, a, b)
               \/ ComponentWiseMinCall(dst, a, b)
               \/ MergeIfNotPresentCall(dst, a, b)
               \/ ComponentWiseMinOnlyExistingCall(dst, a, b)
               \/ ComponentWiseMaxCall(dst, a, b)
     \/ \E r \in Regs :
          \/ PruneCall(r)
          \/ \E a \in Args : AddToCall(r, a) \/ SubFromCall(r, a)
          \/ \E ratio \in Ratios : MultiplyToCall(r, ratio)

Spec == Init /\ [][Next]_vars

-----------------------------------------------------------------------------
TypeOK ==
  /\ reg \in [Regs -> Ptrs \cup {ZeroPtr, Nil}]
  /\ panicked \in BOOLEAN
  /\ ZeroPtr \in DOMAIN heap /\ DOMAIN heap \subseteq Ptrs \cup {ZeroPtr}
  /\ \A p \in DOMAIN heap : heap[p] \in Values

\* Zero is never updated (line 48: "Never update value of Zero"): no
\* function hands Zero, or a map shared with it, to a caller who may then
\* update it in place, although Add, Sub and subNonNegative start from
\* Zero for a nil left operand.
ZeroImmutable == heap[ZeroPtr] = EmptyRes

\* Resources behave as values (321-326): a call changes at most the caller
\* variable it assigns or whose object it updates in place.
Values_ == INSTANCE ResourceValues WITH
             Vals <- Values \cup {Nil},
             val  <- [r \in Regs |-> Val(reg[r])]
ValueSemantics == Values_!Spec

\* The two strict comparisons agree: StrictlyGreaterThan (818-850) holds
\* exactly when StrictlyGreaterThanOrEquals (853-874) does and the two
\* resources differ, nil being Zero in both.
StrictOrderConsistent ==
  \A a, b \in Regs :
    LET l == Val(reg[a])
        s == Val(reg[b])
    IN  StrictlyGreaterThan(l, s) <=>
          (StrictlyGreaterThanOrEquals(l, s) /\ ~Equals(OrZero(l), OrZero(s)))

\* SubErrorNegative's result has no negative value (403-406: "The returned
\* resource is valid and has all negative values reset to 0").
SubErrorNegativeClamped ==
  \A a, b \in Regs :
    ~HasNegativeValue(SubErrorNegative(Val(reg[a]), Val(reg[b])).res)

\* The wire form round-trips (spec 6): converting any resource a caller
\* holds, explicit zero, negative and clamped values included, with ToProto
\* and back with NewResourceFromProto gives the same types and values, and
\* a nil resource comes back as an empty one, never nil.
ProtoRoundTrip ==
  \A r \in Regs :
    NewResourceFromProto(ToProto(Val(reg[r]))) =
      IF reg[r] = Nil THEN EmptyRes ELSE Val(reg[r])

\* Construction from a string fails only with an error (spec 7: "Parsing
\* failures ... are the only hard failures"): no call stops the program.
NoPanic == ~panicked
=============================================================================
