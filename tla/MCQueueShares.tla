----------------------------- MODULE MCQueueShares -----------------------------
(***************************************************************************)
(* Three queues (transitivity needs three), two resource types and a       *)
(* 3-bit Quantity (-4..3).  Asks of one unit of either type, or of both,   *)
(* make every allocation vector reachable, negative ones by releasing more *)
(* than was allocated.  The total has a zero entry for one type, so shares *)
(* both of the total and of the raw usage occur; the guarantee is zero for *)
(* one type and undefined for the other, so getFairShare takes all three   *)
(* branches of getShareFairForDenominator.                                 *)
(***************************************************************************)
EXTENDS QueueShares

CONSTANTS q1, q2, q3, cpu, memory

MCQueues == {q1, q2, q3}
MCKeys == {cpu, memory}
MCAsks == {(cpu :> 1), (memory :> 1), (cpu :> 1 @@ memory :> 2)}
MCTotal == cpu :> 3 @@ memory :> 0
MCGuaranteed == cpu :> 0
MCFairMax == cpu :> 2 @@ memory :> 3

QueueSymmetry == Permutations(MCQueues)
=============================================================================
