SPECIFICATION Spec
CONSTANTS
  Bf16 <- MCBf16
  F32 <- MCF32
CHECK_DEADLOCK FALSE
INVARIANTS
  RoundsToNearestEven
  NanStaysNan
