SPECIFICATION Spec
CONSTANTS
  Jobs <- PlainProjection
  Keys <- MCKeys
  Names <- MCNames
  Sizes <- MCSizes
  HeaderLens <- MCHeaderLens
  TornAt <- MCTornAt
  ChunkLen = 20
  SourceExact = FALSE
  MaxKvs = 3
  MaxTensors = 60
CHECK_DEADLOCK FALSE
INVARIANT VHeadsAgree
