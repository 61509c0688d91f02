SPECIFICATION SteeringSpec
CONSTANTS
  Receipts = {r1, r2, r3}
  NoHolder = NoHolder
  MaxPending = 2
  MaxTotal = 3
  MaxHistory = 5
SYMMETRY ReceiptSymmetry
INVARIANT Safety
PROPERTIES
  ReceiptsAreFinal
CHECK_DEADLOCK FALSE
