CONSTANTS
  MaxSteers = 3
  PENDING_STEER_LIMIT = 2
  MaxEvents = 3
  MaxNoise = 2
  Providers = {"claude_code", "codex"}
  MaxTokens = 2
  MaxFailures = 1
  Threads = {t1, t2}
  MAX_ACTIVE_CONNECTIONS = 2
  POOL_LIMIT = 1
  MaxRequests = 2
  MaxFaults = 2
SPECIFICATION MCSpec
INVARIANTS AllAnswered
PROPERTIES LoginIsNeeded CodexComesBack SessionIsServed
CHECK_DEADLOCK FALSE
