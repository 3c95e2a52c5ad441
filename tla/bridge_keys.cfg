SPECIFICATION Spec
CONSTANTS
  MaxId = 3
  Modes = {"normal", "picker"}
  MaxQueue = 1
  Kinds = {"seats", "layers", "lock", "keys", "clicks"}
  MaxWindows = 1
  MaxSeats = 2
INVARIANT ArmedKeysFollowMode
INVARIANT LockReachesPolicy
PROPERTY OnlyLiveInput
CONSTRAINT FewRecords
CHECK_DEADLOCK FALSE
