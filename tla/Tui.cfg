CONSTANTS
  Argvs <- MCArgvs
  SlaveCounts <- MCSlaveCounts
  KeyBound = 1
SPECIFICATION Spec
INVARIANTS
  NoNullSourceUse
  SelectionClampedForDraw
PROPERTIES
  QuitReturns
