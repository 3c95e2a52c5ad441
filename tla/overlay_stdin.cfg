SPECIFICATION Spec
CONSTANTS
  Globals = FALSE
  LayerShell = FALSE
  Suggested <- AnySize
  SizesOf <- OneOutput
  MaxEffects = 2
INVARIANT MissingGlobalsOnlyDisable
CHECK_DEADLOCK FALSE
