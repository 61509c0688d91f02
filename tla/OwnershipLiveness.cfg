CONSTANTS
  Turns = {"t1"}
  Lives = {}
  Reads = {}
  Resolves = {"q1"}
  Stops = {"s1"}
  MaxInc = 2
  MaxCrashes = 1
  MaxIdle = 1
SPECIFICATION FairSpec
CHECK_DEADLOCK FALSE
PROPERTY CommandAnswered
PROPERTY HandlersFinish
