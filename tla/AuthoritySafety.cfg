SPECIFICATION Spec
CONSTANTS
  NoMove = NoMove
  t1 = t1
  t2 = t2
  d1 = d1
  d2 = d2
  c1 = c1
  i1 = i1
  i2 = i2
  p1 = p1
  p2 = p2
  r1 = r1
  r2 = r2
  r3 = r3
  e1 = e1
  e2 = e2

INVARIANT OwnershipSafety
INVARIANT OwnerMoveSafety
 
INVARIANT ConnectedSafety
INVARIANT TokenRefreshSafety
 
PROPERTY AuthoritySteps
CHECK_DEADLOCK FALSE
