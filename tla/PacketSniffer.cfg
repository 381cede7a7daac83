CONSTANTS
  ConfigFiles <- MCConfigFiles
  Capture <- MCFileCapture
  SliceRx <- MCSliceRx
  SliceTx <- MCSliceTx
  PdoRx <- MCPdoRx
  PdoTx <- MCPdoTx
SPECIFICATION Spec
INVARIANTS
  TypeOK
  SlicesInBounds
PROPERTIES
  ImplementsDataSource
  DeliveredInputsAdvance
  NoCallbackAfterStop
  StopTerminates
