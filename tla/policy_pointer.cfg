SPECIFICATION Spec
CONSTANTS
  Windows = {1, 2}
  Outputs = {1}
  Seats = {1, 2}
  TagList <- TwoTags
  LayoutCycle <- OnlyFull
  InitialLayout = "Full"
  Layouts = {}
  OutputSpans <- OneSpan
  WorkSpans <- OnePanel
  Hints = {"none", "fixed"}
  FixedHints = {"fixed"}
  MaxLetters = 0
  Inputs = {"outputs", "areas", "windows", "hints", "fullscreen", "clicks", "pointer", "lock", "workspaces", "floating"}
INVARIANT OperationOnFocusedFloat
PROPERTY ClientsNeverSwitchWorkspaces
CHECK_DEADLOCK FALSE
