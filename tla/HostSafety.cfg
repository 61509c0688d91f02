SPECIFICATION HostSpec
CONSTANTS
  u1 = u1
  u2 = u2
  r1 = r1
  r2 = r2
  NoRelease = NoRelease
  f1 = f1
  f2 = f2

 
INVARIANT InstallSafety
INVARIANT AdoptionSafety
PROPERTY BrowserSteps
CHECK_DEADLOCK FALSE
