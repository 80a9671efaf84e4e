SPECIFICATION BffSpec
CONSTANTS
  None = None
  Ids = {0, 1}
  Data = {0, 1}
  Cases = {"c1", "c2"}
  Clients <- TwoClients
  Bindings = {"ts"}
  IntMax = 3
  MaxSeq = 4
CHECK_DEADLOCK FALSE
INVARIANTS AlwaysAnswers
