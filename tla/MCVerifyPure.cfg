SPECIFICATION Spec
INVARIANT TranslatePure
CHECK_DEADLOCK FALSE
CONSTANTS
  Runs = {1, 2}
  MaxMoves = 3
  LongRun = "contract-gate"
  MaxMessages = 3
  Contents <- Content
  Checks <- CheckScope
  Throws <- ProducerThrows
  Results <- Produced
  Sound <- Upheld
  Unknown = Unknown
  NoPart = NoPart
  Torn = Torn
  Tasks <- MC_Tasks
  CanView <- MC_CanView
  CanModify <- MC_CanModify
  CrossTeam <- MC_CrossTeam
  ReviewCase = "c-100"
  Ids = {1, 2}
  Accepts <- MC_Accepts
  NoWindow = NoWindow
  Open = Open
  Dates <- MC_Dates
  Tokens = {"id", "x", "a", "b", "h", "_headers", "_query"}
  txt = txt
  s7 = s7
  n7 = n7
  Strings = {txt, s7}
  Numbers = {n7}
  AsNumber <- MC_AsNumber
  Undefined = Undefined
  NoPointer = NoPointer
  NoText = NoText
  Error = Error
