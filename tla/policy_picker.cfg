SPECIFICATION Spec
CONSTANTS
  Windows = {1, 2}
  Outputs = {1}
  Seats = {1}
  TagList <- TwoTags
  LayoutCycle <- TabbedAndColumns
  InitialLayout = "Tabbed"
  Layouts = {"Rows"}
  OutputSpans <- OneSpan
  WorkSpans <- OnePanel
  Hints = {"none"}
  FixedHints = {}
  MaxLetters = 2
  Inputs = {"outputs", "windows", "lock", "clicks", "focus", "workspaces", "navigation", "layouts", "splits", "picker", "commands", "fullscreen"}
INVARIANT FocusedIsVisible
INVARIANT OverlayOnlyWhilePicking
PROPERTY LockedTakesNoInput
CHECK_DEADLOCK FALSE
