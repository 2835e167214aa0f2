SPECIFICATION FairSpec
CONSTANTS
  MaxTask = 2
  Programs <- Distinct
  Values = {"v", "w", "s", "u"}
  Secret = {"s"}
  Oversized = {"u"}
  Withheld <- Refusable
  UserAsks = {"b", "y"}
  MaxEntries = 4
INVARIANTS JournalIsComplete ReplayIsFaithful LoneTaskReplays
PROPERTY ReplayEnds
CHECK_DEADLOCK FALSE
