SPECIFICATION SteeringFairSpec
CONSTANTS
  Receipts = {r1, r2}
  NoHolder = NoHolder
  MaxPending = 2
  MaxTotal = 2
  MaxHistory = 4
PROPERTIES
  GuidanceIsSettled
CHECK_DEADLOCK FALSE
