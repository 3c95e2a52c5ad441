SPECIFICATION Spec
CONSTANTS
  Windows = {1, 2, 3}
  Outputs = {1}
  Seats = {1}
  TagList <- OneTag
  LayoutCycle <- TallAndFull
  InitialLayout = "Tall"
  Layouts = {}
  OutputSpans <- OneSpan
  WorkSpans <- OnePanel
  Hints = {"none"}
  FixedHints = {}
  MaxLetters = 3
  Inputs = {"outputs", "windows", "picker"}
PROPERTY PickSwapsWithFocused
CHECK_DEADLOCK FALSE
