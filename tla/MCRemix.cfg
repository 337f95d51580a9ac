SPECIFICATION Spec
CONSTANTS
  Jobs <- MCJobs
  Keys <- MCKeys
  Names <- MCNames
  Sizes <- MCSizes
  HeaderLens <- MCHeaderLens
  TornAt <- MCTornAt
  ChunkLen = 20
  SourceExact = FALSE
  MaxKvs = 2
  MaxTensors = 60
CHECK_DEADLOCK FALSE
INVARIANTS
  XTypeOK
  RegularSucceeds
  EachTensorOnce
  LayersKeptApart
  VHeadsAgreeIfQuantized
  OkMeansWhole
  OldFileSpared
  BlocksWithinCount
PROPERTY Terminates
