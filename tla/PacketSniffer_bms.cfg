CONSTANTS
  ConfigFiles <- MCBmsConfigFiles
  Capture <- MCCapture
  SliceRx <- MCSliceRx
  SliceTx <- MCSliceTx
  PdoRx <- MCPdoRx
  PdoTx <- MCPdoTx
SPECIFICATION Spec
INVARIANTS
  NoNullSlaveDereference
