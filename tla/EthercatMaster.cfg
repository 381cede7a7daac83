\* The active data source driven by either UI: the terminal UI renders the
\* slaves inside the callback, the Qt GUI reads them later on its own thread.
CONSTANTS
  Topology <- MCTopology
  UIKinds <- MCBothUIs
  MaxCycles = 3
  MaxPending = 2
SPECIFICATION Spec
INVARIANTS
  TypeOK
  TuiViewConsistent
  PublishedConsistent
PROPERTIES
  ImplementsDataSource
  NoNotifyAfterStop
  StopTerminates
