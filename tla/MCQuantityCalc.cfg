CONSTANTS
  Width <- MCWidth
  Precision <- MCPrecision
  FracBits <- MCFracBits
  Ratios <- MCRatios
SPECIFICATION Spec
INVARIANTS
  TypeOK
  AddValClamps
  MulValClamps
