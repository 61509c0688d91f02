SPECIFICATION LedgerSpec
CONSTANTS
  Ids = {c1}
  Principals = {p1, p2}
  Owner = p1
  Payloads = {"turn", "steer", "meta", "tool", "config"}
  KindOf <- KindIsName
  Handlers = {h1, h2}
  Nobody = Nobody
  Null = Null
SYMMETRY HandlerSymmetry
INVARIANT LedgerTypeOK
INVARIANT AnswersStayTrue
INVARIANT OneMeaning
INVARIANT AnswersGoToTheOwner
PROPERTY LedgerIsAppendOnly
PROPERTY KeepsItsPromise
