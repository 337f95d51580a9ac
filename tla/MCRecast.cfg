SPECIFICATION Spec
CONSTANTS
  Jobs <- MCJobs
  Preserved <- MCPreserved
  ReplaceWith <- MCReplaceWith
  Keys <- MCKeys
  Names <- MCNames
  Sizes <- MCSizes
  HeaderLens <- MCHeaderLens
  TornAt <- MCTornAt
  ChunkLen = 1
  SourceExact = TRUE
  MaxKvs = 20
  MaxTensors = 3
CHECK_DEADLOCK FALSE
INVARIANTS
  RTypeOK
  InfErrorOnlyT4
  MetadataDecodes
  RotationUndone
  FiniteSurvives
  TouchedOnlyAfterPass1
  ExitTellsTruth
  PanicsExactlyWhenDoomed
PROPERTIES
  UsesWriter
