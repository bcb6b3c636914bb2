CONSTANTS
  F16 <- MCF16
  F32 <- MCF32
  F64 <- MCF64
SPECIFICATION MCSpec
PROPERTIES
  RoundsCorrectly
  FlagsAreExact
