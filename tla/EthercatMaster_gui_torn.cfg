\* The active data source with the Qt GUI: the callback only queues a signal
\* and handleDataChanged reads the slaves later, outside data_mutex.
CONSTANTS
  Topology <- MCTopology
  UIKinds <- MCGui
  MaxCycles = 3
  MaxPending = 2
SPECIFICATION Spec
INVARIANT
  ViewConsistent
