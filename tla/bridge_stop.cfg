SPECIFICATION FairSpec
CONSTANTS
  MaxId = 3
  Modes = {"normal", "picker"}
  MaxQueue = 1
  Kinds = {"keys", "failures", "parents"}
  MaxWindows = 3
  MaxSeats = 3
INVARIANT PolicyKnowsWindows
INVARIANT ParentsAnnouncedFirst
PROPERTY StopIsSent
CHECK_DEADLOCK FALSE
