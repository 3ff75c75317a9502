CONSTANTS
  Codex = {}
  Claude = {a1, a2}
  Hermes = {}
  Thread <- MCThread
  NoThread = none
  Runtime = {"claude_code"}
  RuntimeOf <- MCRuntimeOf
  NTasks = 2
  WORKER_COUNT_PER_RUNTIME = 2
  QUEUED_TASK_LIMIT = 2
  Worker = {w1, w2}
  Requester = {q1}
  CloseMayRaise = FALSE
  DbMayFail = FALSE
SPECIFICATION FairSpec
INVARIANTS RunningIsDriven
 
