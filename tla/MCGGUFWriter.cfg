SPECIFICATION WSpec
CONSTANTS
  k1 = k1
  n1 = n1
  n2 = n2
  n3 = n3
  Keys <- MCKeys
  Names <- MCNames
  Sizes <- MCSizes
  HeaderLens <- MCHeaderLens
  TornAt <- MCTornAt
  ChunkLen = 20
  SourceExact = TRUE
  MaxKvs = 2
  MaxTensors = 3
CHECK_DEADLOCK FALSE
INVARIANTS
  TypeOK
  LayoutMatchesHeader
  NoTornRead
  FinishedIsComplete
PROPERTY HeaderIsFinal
