SPECIFICATION Spec
CONSTANTS
  Commands = {c1, c2}
  Delegating = {c1}
  Terminals = {c1}
  Bindings = {TRUE, FALSE}
  Calls = {}
  None = none
  Outcomes = {"Completed"}
  MaxMessages = 3
INVARIANT TypeOK
INVARIANT EffectsAreAccounted
INVARIANT EffectsAreKnown
PROPERTY EvidenceIsImmutable
