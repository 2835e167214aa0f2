SPECIFICATION Spec
CONSTANTS
  MaxTask = 2
  TaskLimit = 2
  CallDepth = 2
  EffectLimit = 0
  UsesEffects = FALSE
  CleanupLimit = 3
  Lexicals = {1}
  MaxNest = 1
  MaxArgs = 1
  MaxCapture = 0
  Yields = {TRUE, FALSE}
  Faults = {}
  ProviderErrors = {}
  Interrupts = {}
INVARIANT HeldTasksAreOwned
