SPECIFICATION MCSpec
CONSTANTS
  Cases <- MCCases
  Copies = {1, 2}
  Processes = {p, q}
  Hosts = {a, b}
INVARIANTS
  TypesOK
  VerdictRight
  NothingBurnt
  FailuresReported
  AuditHealed
  WiredBeforeUse
  TwiceOnlyUnguarded
PROPERTIES
  SchemasArriveAndStay
  AcceptedThenHandedOver
  LoggingFollowsFile
CHECK_DEADLOCK FALSE
