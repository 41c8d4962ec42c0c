SPECIFICATION Spec
CONSTANTS
  c1 = c1
  c2 = c2
  c3 = c3
  k1 = k1
  k2 = k2
  p1 = p1
  p2 = p2
  e1 = e1
  e2 = e2
  Nothing = Nothing
  Old = Old
  Callers = {c1, c2, c3}
  Kids = {k1, k2}
  CacheTTL = 2
  UnknownWait = 1
  FetchTimeout = 1
  Pods = {p1, p2}
  Capacity = 1
  Limit = 1
  Window = 2
  MaxEntries = 1
  TokenTTL = 3
  MinTTL = 1
  MachineTTL = 2
  Etags = {e1, e2}
  Base = "base"
  Additional = {"editor"}
  Scenarios <- AllScenarios
CHECK_DEADLOCK FALSE
INVARIANTS
  WithdrawnKeysExpire
  WithdrawalWins
  TokensWithinLifetimes
  LegacyGrantsCurrent
  AdmissionControl
  DeleteAnswersTrue
  ReplayKeepsRoles
PROPERTIES
  CallsAnswer
