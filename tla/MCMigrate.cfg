SPECIFICATION Spec
CONSTANTS
  Files <- MCFiles
  TypeTable <- TYPE_CODE_MIGRATIONS
  FtypeTable <- FTYPE_MIGRATIONS
  MaxRounds = 3
  Keys <- MCKeys
  Names <- MCNames
  Sizes <- MCSizes
  HeaderLens <- MCHeaderLens
  TornAt <- MCTornAt
  ChunkLen = 1
  SourceExact = TRUE
  MaxKvs = 9
  MaxTensors = 3
CHECK_DEADLOCK FALSE
INVARIANTS
  MTypeOK
  MigratedIsCurrent
  DataUntouched
  SecondRunChangesNothing
  SecondRunGoesThrough
PROPERTIES
  Implements
