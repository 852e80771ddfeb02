SPECIFICATION Spec
CONSTANTS
  Routes = {r1, r2}
  Addrs = {a1}
  MaxRequests = 3
  Idle = Idle
  ListHead = ListHead
INVARIANTS
  ReportedIsTrue
PROPERTIES
  AnswerIsReported
CHECK_DEADLOCK FALSE
