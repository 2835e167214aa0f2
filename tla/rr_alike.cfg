SPECIFICATION Spec
CONSTANTS
  MaxTask = 2
  Programs <- Alike
  Values = {"v", "w"}
  Secret = {}
  Oversized = {}
  Withheld = {}
  UserAsks = {}
  MaxEntries = 4
INVARIANT AcceptedReplayIsFaithful
CHECK_DEADLOCK FALSE
