CONSTANTS
  Width = 12
  Precision = 10
  FracBits = 0
  PctWidth = 8
  Nil = Nil
  DecodeError = DecodeError
  Panic = Panic
  cpu = cpu
  memory = memory
  gpu = gpu
  Keys <- MCKeys
  PctKeys <- MCPctKeys
  PctCapVals <- MCPctCapVals
  PctUseVals <- MCPctUseVals
  ScoreKeys <- MCScoreKeys
  ScoreFitVals <- MCScoreFitVals
  ScoreResVals <- MCScoreResVals
  ConfKeys <- MCScoreKeys
  CmpKeys <- MCCmpKeys
  CmpVals <- MCCmpVals
  CPU <- cpu
  Strings <- MCStrings
  VCoreTable <- MCVCoreTable
  QuantityTable <- MCQuantityTable
SPECIFICATION Spec
INVARIANT AbsUsedCapacityExact
