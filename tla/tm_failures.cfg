SPECIFICATION FairSpec
CONSTANTS
  MaxTask = 2
  TaskLimit = 2
  CallDepth = 1
  EffectLimit = 1
  UsesEffects = TRUE
  CleanupLimit = 1
  Lexicals = {1}
  MaxNest = 1
  MaxArgs = 0
  MaxCapture = 1
  Yields = {FALSE}
  Faults = {"Trap", "Stopped", "ProgramFailed"}
  ProviderErrors = {"Trap", "Cancelled", "Timeout"}
  Interrupts = {"Cancelled", "Timeout"}
INVARIANTS OwnershipIsATree TypeOK FailureIsReported StopWins NothingOutlivesTheRun SlotsCoverPendingEffects ErrorsAreWitnessed
PROPERTIES NoNewWorkAfterTerminal ReadyTaskRuns InterruptEnds
