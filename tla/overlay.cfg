SPECIFICATION FairSpec
CONSTANTS
  Globals = TRUE
  LayerShell = TRUE
  Suggested <- AnySize
  SizesOf <- TwoOutputs
  MaxEffects = 3
INVARIANT OverlayInv
INVARIANT OverlayFollowsMode
INVARIANT NothingLeft
INVARIANT RowsFitBuffer
PROPERTY DrawnForFocusedOutput
PROPERTY LockHidesOverlay
CHECK_DEADLOCK FALSE
