CONSTANTS
  Argvs <- MCGoodArgvs
  SlaveCounts <- MCTwoSlaves
  KeyBound = 1
SPECIFICATION Spec
INVARIANT IndexedSlaveExists
