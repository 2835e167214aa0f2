SPECIFICATION FairSpec
CONSTANTS
  Effect = {1, 2, 3}
  Operations = {"AgentAsk", "SubAgentRun", "Tool", "Permission"}
  MaximumEffects = 2
  MaximumResponseAttempts = 2
  PromptAttempts = {1, 3}
INVARIANTS ProvidersAgree AuditedOnce AuditIsTrue
PROPERTIES KeepsContract UseIsAuthorised EveryCallSettles
CHECK_DEADLOCK FALSE
