SPECIFICATION Spec
CONSTANTS
  MaxTask = 1
  TaskLimit = 1
  CallDepth = 1
  EffectLimit = 1
  UsesEffects = TRUE
  CleanupLimit = 1
  Lexicals = {}
  MaxNest = 0
  MaxArgs = 0
  MaxCapture = 0
  Yields = {FALSE}
  Faults = {}
  ProviderErrors = {}
  Interrupts = {}
INVARIANT NeverStuck
