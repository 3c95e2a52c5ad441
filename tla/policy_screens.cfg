SPECIFICATION Spec
CONSTANTS
  Windows = {1, 2, 3}
  Outputs = {1, 2, 3}
  Seats = {1}
  TagList <- TwoTags
  LayoutCycle <- OneLayout
  InitialLayout = "Tall"
  Layouts = {}
  OutputSpans <- OneSpan
  WorkSpans <- OnePanel
  Hints = {"none"}
  FixedHints = {}
  MaxLetters = 0
  Inputs = {"outputs", "windows", "parents", "workspaces"}
INVARIANT PolicyInv
INVARIANT EachWindowOnce
INVARIANT FamiliesAreTrees
INVARIANT ScreensFollowOutputs
PROPERTY HotplugKeepsScreens
PROPERTY ShiftMovesFamilyOnly
PROPERTY ClientsNeverSwitchWorkspaces
CHECK_DEADLOCK FALSE
