\* The active data source with the terminal UI; checks StartedMeansAcquiring alone.
CONSTANTS
  Topology <- MCTopology
  UIKinds <- MCTui
  MaxCycles = 3
  MaxPending = 2
SPECIFICATION Spec
INVARIANT
  StartedMeansAcquiring
