SPECIFICATION WSpec
CONSTANTS
  k1 = k1
  n1 = n1
  n2 = n2
  n3 = n3
  Keys <- MCKeys
  Names <- MCNames
  Sizes <- MCSizes
  HeaderLens <- MCHeaderLens
  TornAt <- MCTornAt
  ChunkLen = 20
  SourceExact = FALSE
  MaxKvs = 1
  MaxTensors = 2
CHECK_DEADLOCK FALSE
INVARIANT AllTensorsWritten
