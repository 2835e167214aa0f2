SPECIFICATION FairSpec
CONSTANTS
  h1 = h1
  r1 = r1
  r2 = r2
  e1 = e1
  e2 = e2
  g1 = g1
  s1 = s1
  None = None
  NoGrant = NoGrant
  ReqId = {h1, r1}
  ExecId = {e1}
  SessId = {s1}
  Target = {r1}
  Grant = {g1}
  Scenarios <- SilentConnections
  QueueDepth = 1
  MaxSeq = 3
PROPERTIES
  DisconnectEnds
  RequestsAreAnswered
