SPECIFICATION SessionSpec
CONSTANTS
  a1 = a1
  a2 = a2
  Root = Root
  Nil = Nil
  s1 = s1
  s2 = s2
  s3 = s3

INVARIANT GoalTurnsSafety
INVARIANT GoalBudgetSafety
INVARIANT CompletionGateSafety
INVARIANT SubagentsSafety
INVARIANT BrowserCapacitySafety
PROPERTY AgentSteps
CHECK_DEADLOCK FALSE
