SPECIFICATION Spec
CONSTANT Jobs <- MCJobs
CHECK_DEADLOCK FALSE
INVARIANTS
  Lossless
  ReordersAll
  PlannedLength
  ConvertsExactlyRegular
