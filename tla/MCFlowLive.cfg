SPECIFICATION FairSpec
CONSTANTS
  s1 = s1
  s2 = s2
  x = x
  m1 = m1
  m2 = m2
  None = None
  StepIds = {s1, s2}
  VarNames = {x}
  Values = {0, 1}
  MsgIds = {m1, m2}
  Flows <- MixedFlows
  Replies <- FewReplies
  FreshIssue = {TRUE}
  MaxSignals = 2
  MaxAge = 2
CHECK_DEADLOCK FALSE
PROPERTIES CaseResolves ResolutionEndsPause
