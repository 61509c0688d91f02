SPECIFICATION LedgerSpec
CONSTANTS
  Ids = {c1}
  Principals = {p1}
  Owner = p1
  Payloads = {"config"}
  KindOf <- KindIsName
  Handlers = {h1, h2}
  Nobody = Nobody
  Null = Null
SYMMETRY HandlerSymmetry
INVARIANT PublishedWasAccepted
