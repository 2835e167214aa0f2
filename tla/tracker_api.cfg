SPECIFICATION Spec
CONSTANTS
  ReqId = {a, b}
  ExecId = {e1}
  SessId = {s1}
  None = None
  UsedMethods = {"initialize", "execution/start", "tool/invoke", "permission/request"}
  Limits = {1, 2}
INVARIANTS TombstonesAgree MarksAreScoped DisconnectedIsEmpty SingletonsAreSingle
