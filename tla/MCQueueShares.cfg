CONSTANTS
  Width = 3
  Precision = 1
  FracBits = 0
  Nil = Nil
  q1 = q1
  q2 = q2
  q3 = q3
  cpu = cpu
  memory = memory
  Keys <- MCKeys
  Queues <- MCQueues
  Asks <- MCAsks
  Total <- MCTotal
  Guaranteed <- MCGuaranteed
  FairMax <- MCFairMax
SYMMETRY QueueSymmetry
SPECIFICATION Spec
INVARIANTS
  TypeOK
  CompUsageRatioIsOrder
  
  DominantIsArgMax
PROPERTY
  AllocationRaisesRank
