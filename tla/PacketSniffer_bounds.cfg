CONSTANTS
  ConfigFiles <- MCConfigFiles
  Capture <- MCChangedCapture
  SliceRx <- MCSliceRx
  SliceTx <- MCSliceTx
  PdoRx <- MCPdoRx
  PdoTx <- MCPdoTx
SPECIFICATION Spec
INVARIANTS
  SlicesInBounds
