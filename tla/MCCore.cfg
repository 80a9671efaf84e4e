SPECIFICATION Spec
CONSTANTS
  None = None
  Nil = Nil
  Ids = {0, 1}
  Data = {0, 1}
  Cases = {"c1", "c2"}
  Clients <- TwoClients
  Bindings = {"ts", "kotlin"}
  IntMax = 3
  MaxSeq = 4
  Objects <- SomeObjects
  Relations <- SomeRelations
  TypeOf <- Types
  Model <- CaseModel
  Tuples <- SomeTuples
  Checks <- SomeChecks
  MaxLog = 2
CHECK_DEADLOCK FALSE
INVARIANTS
  BffTypeOK AuditTellsRows OutboxFollowsAudit PagesPartition VersionDetectsChange
  AuthzTypeOK ReasonsProve RecursionBounded
PROPERTIES DecisionsRight ReadWithoutLeak
