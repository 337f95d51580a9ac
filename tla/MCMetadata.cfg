SPECIFICATION Spec
CONSTANT
  Dirs <- MCDirs
CHECK_DEADLOCK FALSE
INVARIANTS
  OneMeaning
  SpecialIdNamesItsToken
  PanicsOnlyWithoutHparam
