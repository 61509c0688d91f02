SPECIFICATION DeliverySpec
CONSTANTS
  t1 = t1

INVARIANT EventStreamSafety
INVARIANT NotificationsSafety
INVARIANT DuplexSafety
INVARIANT FirstSendSafety
CHECK_DEADLOCK FALSE
