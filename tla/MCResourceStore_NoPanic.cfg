CONSTANTS
  Width = 3
  Precision = 1
  FracBits = 1
  Nil = Nil
  DecodeError = DecodeError
  Panic = Panic
  ZeroPtr = ZeroPtr
  r1 = r1
  r2 = r2
  p1 = p1
  p2 = p2
  p3 = p3
  cpu = cpu
  memory = memory
  Regs <- MCRegs
  Ptrs <- MCPtrs
  Keys <- MCKeys
  IntRatios <- MCIntRatios
  Ratios <- MCRatios
  CPU <- cpu
  Strings <- MCStrings
  VCoreTable <- MCVCoreTable
  QuantityTable <- MCQuantityTable
  Jsons <- MCJsonsNull
  Decode <- MCDecodeNull
  Configs <- MCConfigs
SYMMETRY PtrSymmetry
SPECIFICATION Spec
INVARIANT NoPanic
