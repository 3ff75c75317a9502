CONSTANTS
  Codex = {c1, c2}
  Claude = {}
  Hermes = {h1}
  Thread <- MCThread
  NoThread = none
  Runtime = {"codex", "hermes"}
  RuntimeOf <- MCRuntimeOf
  NTasks = 2
  WORKER_COUNT_PER_RUNTIME = 1
  QUEUED_TASK_LIMIT = 2
  Worker = {w1, w2}
  Requester = {q1}
  CloseMayRaise = TRUE
  DbMayFail = TRUE
SPECIFICATION Spec
INVARIANTS OneDriver
PROPERTIES SessionChain KeepsLifecycle
SYMMETRY MCSymmetry
