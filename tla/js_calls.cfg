SPECIFICATION Spec
CONSTANTS
  h1 = h1
  r1 = r1
  r2 = r2
  e1 = e1
  e2 = e2
  g1 = g1
  s1 = s1
  None = None
  NoGrant = NoGrant
  ReqId = {h1, r1, r2}
  ExecId = {e1, e2}
  SessId = {s1}
  Target = {r1, r2}
  Grant = {g1}
  Scenarios <- Connections
  QueueDepth = 1
  MaxSeq = 4
INVARIANTS
  AnsweredOnce
  NothingLeftBehind
  CancelNeverCrossed
  CancelHonoured
  FailureWakesCalls
  RevocationBites
PROPERTIES
  EventsInOrder
