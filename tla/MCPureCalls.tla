------------------------------ MODULE MCPureCalls ------------------------------
(***************************************************************************)
(* Bounds for the capacity statistics.  A 12-bit Quantity with 10-bit      *)
(* floats keeps the proportions of int64 and float64: MaxInt rounds up,    *)
(* and a percentage below the 8-bit MaxInt32 analogue (127) is computed    *)
(* with an error far below one, as a float64 percentage below 2^31 is.     *)
(* One type with every usage -1..130 against every capacity -1..100 covers *)
(* the percentages 0..13000, the cap and the zero and negative cases.      *)
(* Three types with small values give FitInScore sums of three rounded     *)
(* terms in six orders.  Config maps of up to three keys over the strings *)
(* "1m", "2" and "x", each accepted by one parser or by none, give every   *)
(* position of the first failure in every iteration order.                *)
(***************************************************************************)
EXTENDS PureCalls

CONSTANTS cpu, memory, gpu

MCKeys == {cpu, memory, gpu}

MCPctKeys == {cpu}
MCPctCapVals == -1..100
MCPctUseVals == -1..130

MCScoreKeys == {cpu, memory, gpu}
MCScoreFitVals == {-1, 0, 3, 5, 7}
MCScoreResVals == {0, 1, 2, 4}

MCCmpKeys == {cpu, memory}
MCCmpVals == {-1, 0, 1}

MCStrings == {"1m", "2", "x"}
MCVCoreTable ==
  "1m" :> [ok |-> TRUE, val |-> 1] @@ "2" :> [ok |-> TRUE, val |-> 2000]
  @@ "x" :> [ok |-> FALSE]
MCQuantityTable ==
  "1m" :> [ok |-> FALSE] @@ "2" :> [ok |-> TRUE, val |-> 2] @@ "x" :> [ok |-> FALSE]
=============================================================================
