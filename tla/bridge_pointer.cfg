SPECIFICATION Spec
CONSTANTS
  MaxId = 3
  Modes = {"normal", "picker"}
  MaxQueue = 2
  Kinds = {"seats", "layers", "outputs", "lock", "pointer"}
  MaxWindows = 2
  MaxSeats = 2
INVARIANT BridgeInv
INVARIANT PointerAgrees
INVARIANT OperationOnRecords
INVARIANT OnlyIdsRunOut
INVARIANT DisturbanceEndsOperation
CONSTRAINT FewRecords
CHECK_DEADLOCK FALSE
