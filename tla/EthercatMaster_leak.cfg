\* The active data source with the Qt GUI, which allows discovery and start
\* to be repeated; checks PortClosedBetweenRuns alone.
CONSTANTS
  Topology <- MCTopology
  UIKinds <- MCGui
  MaxCycles = 3
  MaxPending = 2
SPECIFICATION Spec
INVARIANT
  PortClosedBetweenRuns
