CONSTANTS
  Interfaces <- MCInterfaces
  Files <- MCFiles
  SlaveCounts <- MCSlaveCounts
  MaxQueued = 2
  DriveMask <- MCDriveMask
  Words <- MCWords
  ShownWords <- MCShownWords
  CreatedTypes <- MCCreatedTypes
SPECIFICATION GuiSpec
INVARIANTS
  GuiTypeOK
  StartNeedsSource
  ControlsMatchPhase
  SignalsFitBoxes
  PublishFollowsCheckbox
  EveryTooltipDecodes
  LabelsShowPublished
PROPERTIES
  StopReturnsControl
