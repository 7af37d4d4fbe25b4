---------------------------- MODULE MCQuantityCalc ----------------------------
(***************************************************************************)
(* A 6-bit Quantity (-32..31) and 4-bit floats: like int64 and float64,    *)
(* the float has too few bits for MaxQ, which rounds up to 2^5.  Ratios    *)
(* are halves: -1, -0.5, 0, 0.5, 1, 1.5 and 2.                             *)
(***************************************************************************)
EXTENDS QuantityCalc

MCWidth == 6
MCPrecision == 4
MCFracBits == 1
MCRatios == {-2, -1, 0, 1, 2, 3, 4}
=============================================================================
