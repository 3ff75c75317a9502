CONSTANTS
  NRuns = 2
  NTasks = 2
  NGenerations = 2
  Schedule = {"daily"}
  Recurring = {"daily"}
  Requester = {q1}
  AgentCall = {a1}
  MAX_QUEUED_CHAT_TURNS = 2
  MAX_ACTIONS_PER_TURN = 1
  WORKER_COUNT_PER_RUNTIME = 2
  QUEUED_TASK_LIMIT = 2
SPECIFICATION Spec
INVARIANTS TasksAreTracked MessageArrives NoOverlap
PROPERTIES NoWriteAfterRevoke
SYMMETRY MCSymmetry
