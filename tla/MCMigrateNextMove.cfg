SPECIFICATION Spec
CONSTANTS
  Files <- MCFiles
  TypeTable <- TYPE_CODE_MIGRATIONS
  FtypeTable <- NextFtypeTable
  MaxRounds = 3
  Keys <- MCKeys
  Names <- MCNames
  Sizes <- MCSizes
  HeaderLens <- MCHeaderLens
  TornAt <- MCTornAt
  ChunkLen = 1
  SourceExact = TRUE
  MaxKvs = 9
  MaxTensors = 3
CHECK_DEADLOCK FALSE
INVARIANT MigratedIsCurrent
