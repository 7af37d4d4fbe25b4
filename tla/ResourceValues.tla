---------------------------- MODULE ResourceValues ----------------------------
(***************************************************************************)
(* What resources.go promises its callers about ownership (the package     *)
(* comment at 321-326: "the operations leave the passed in resources       *)
(* unchanged"; AddTo/SubFrom/MultiplyTo update only "the resource it is    *)
(* called on"): every Resource a caller holds behaves as a value.  A call  *)
(* changes the value of at most one of the caller's variables, the one it  *)
(* assigns or updates in place; no other variable, and no resource the     *)
(* caller did not pass as receiver, can change as a side effect.           *)
(***************************************************************************)
CONSTANTS
  Regs,     \* the caller's *Resource variables
  Vals      \* their possible values (a resource value, or nil)

VARIABLE val  \* val[r]: the value variable r refers to

Init == val \in [Regs -> Vals]

\* One call: at most one variable takes a new value.
Call == \E r \in Regs : \A s \in Regs \ {r} : val'[s] = val[s]

Spec == Init /\ [][Call]_val
=============================================================================
