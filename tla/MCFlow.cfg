SPECIFICATION Spec
CONSTANTS
  s1 = s1
  s2 = s2
  x = x
  m1 = m1
  m2 = m2
  None = None
  StepIds = {s1, s2}
  VarNames = {x}
  Values = {0, 1}
  MsgIds = {m1, m2}
  Flows <- AllFlows
  Replies <- ManyReplies
  FreshIssue = {TRUE}
  MaxSignals = 3
  MaxAge = 3
CHECK_DEADLOCK FALSE
INVARIANTS TypeOK NoMissedWakeup SlaAccounting ClockStopsBracketed FirstReplyWins RepliesAccounted RecordStitches
PROPERTIES AnswerBeatsTimeout HonoursContract
