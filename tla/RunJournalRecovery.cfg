SPECIFICATION Spec
CONSTANTS
  Commands = {c1, c2}
  Delegating = {}
  Terminals = {}
  Bindings = {FALSE}
  Calls = {k1}
  None = none
  Outcomes = {"Completed", "Failed"}
  MaxMessages = 4
INVARIANT RecoveryCanFinish
