---------------------------- MODULE MCResourceStore ----------------------------
(***************************************************************************)
(* Two caller variables, two resource types, a 3-bit Quantity (-4..3) and  *)
(* a 1-bit float (3 rounds up to 4, as MaxInt64 does to 2^63): enough for  *)
(* a variable to hold nil, a clone of the other or of Zero, a negative or  *)
(* a saturated value.  Three addresses leave one free for the result of a  *)
(* call while both variables hold distinct objects.                        *)
(*                                                                         *)
(* The strings given to NewResourceFromString decode to an error, to the   *)
(* JSON null, to a proto without resources and to protos with one and two  *)
(* quantities; MCJsonsNull adds one whose quantity is null.  The config    *)
(* strings stand for a core count in millicores ("1m"), a plain number     *)
(* ("2", which as cores would overflow the 3-bit Quantity) and garbage:    *)
(* each parser accepts one and rejects the others.                         *)
(***************************************************************************)
EXTENDS ResourceStore

CONSTANTS r1, r2, p1, p2, p3, cpu, memory

MCRegs == {r1, r2}
MCPtrs == {p1, p2, p3}
MCKeys == {cpu, memory}
MCIntRatios == {-1, 0, 2}
MCRatios == {-1, 0, 4}      \* -0.5, 0, 2: exact at 1-bit precision

MCDecode ==
  "x" :> DecodeError @@ "null" :> Nil @@ "{}" :> EmptyRes
  @@ "cpu:3" :> (cpu :> [Value |-> 3])
  @@ "cpu:-4,memory:0" :> (cpu :> [Value |-> -4] @@ memory :> [Value |-> 0])
MCJsons == DOMAIN MCDecode

MCDecodeNull == MCDecode @@ ("memory:null" :> (memory :> Nil))
MCJsonsNull == DOMAIN MCDecodeNull

\* ParseVCore gives millicores: "1m" is 1 and "2" is 2000, which the 3-bit
\* range cannot hold; no config below gives "2" to cpu, so that entry is
\* never read.
MCStrings == {"1m", "2", "x"}
MCVCoreTable ==
  "1m" :> [ok |-> TRUE, val |-> 1] @@ "2" :> [ok |-> FALSE] @@ "x" :> [ok |-> FALSE]
MCQuantityTable ==
  "1m" :> [ok |-> FALSE] @@ "2" :> [ok |-> TRUE, val |-> 2] @@ "x" :> [ok |-> FALSE]
MCConfigs ==
  {cpu :> "1m", cpu :> "x", memory :> "2", cpu :> "1m" @@ memory :> "2",
   cpu :> "1m" @@ memory :> "x", cpu :> "x" @@ memory :> "2"}

PtrSymmetry == Permutations(MCPtrs)
=============================================================================
