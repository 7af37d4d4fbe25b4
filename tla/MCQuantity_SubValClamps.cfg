CONSTANTS
  Width <- MCWidth
  Precision <- MCPrecision
  FracBits <- MCFracBits
  Ratios <- MCRatios
SPECIFICATION Spec
INVARIANT SubValClamps
