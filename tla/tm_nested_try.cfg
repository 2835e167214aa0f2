SPECIFICATION Spec
CONSTANTS
  MaxTask = 1
  TaskLimit = 1
  CallDepth = 1
  EffectLimit = 0
  UsesEffects = FALSE
  CleanupLimit = 1
  Lexicals = {1, 2}
  MaxNest = 2
  MaxArgs = 0
  MaxCapture = 0
  Yields = {FALSE}
  Faults = {}
  ProviderErrors = {}
  Interrupts = {}
PROPERTY EarlyReturnProgresses
