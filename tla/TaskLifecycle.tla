--------------------------- MODULE TaskLifecycle ---------------------------
(***************************************************************************)
(* What the task queue promises, with no process, worker or lock in sight: *)
(* tasks are numbered in order of submission, wait in the queue of their   *)
(* thread, run one at a time per thread and at most WORKER_COUNT_PER_      *)
(* RUNTIME at a time per runtime, and end in a status that is final.  The  *)
(* legal moves are TRANSITIONS of admin_api/task_status.py.                *)
(***************************************************************************)
EXTENDS Integers, FiniteSets

CONSTANTS
  Thread, NoThread,         \* user threads; the thread of no task
  Runtime,                  \* agent runtimes (AGENT_RUNTIMES)
  RuntimeOf,                \* the runtime each thread's session is bound to
  NTasks,                   \* bound: how many tasks are ever submitted
  WORKER_COUNT_PER_RUNTIME, \* running tasks per runtime
  QUEUED_TASK_LIMIT         \* queued tasks

VARIABLES
  status,                   \* Task -> status, "absent" before submission
  threadOf                  \* Task -> the thread it was submitted to

Task == 1 .. NTasks
Terminal == {"completed", "failed", "cancelled"}
Status == {"absent", "queued", "running"} \cup Terminal

With(s) == {t \in Task : status[t] = s}
On(th) == {t \in Task : threadOf[t] = th}
RunningOn(r) == {t \in With("running") : RuntimeOf[threadOf[t]] = r}

Init ==
  /\ status = [t \in Task |-> "absent"]
  /\ threadOf = [t \in Task |-> NoThread]

(* The next number of the counter, and room in the queue.                  *)
Submit(t, th) ==
  /\ status[t] = "absent"
  /\ \A u \in Task : u < t => status[u] # "absent"
  /\ Cardinality(With("queued")) < QUEUED_TASK_LIMIT
  /\ status' = [status EXCEPT ![t] = "queued"]
  /\ threadOf' = [threadOf EXCEPT ![t] = th]

(* A thread is served in order, one task at a time, within the cap.        *)
Begin(t) ==
  /\ status[t] = "queued"
  /\ \A u \in On(threadOf[t]) : status[u] # "running" /\ (u < t => status[u] # "queued")
  /\ Cardinality(RunningOn(RuntimeOf[threadOf[t]])) < WORKER_COUNT_PER_RUNTIME
  /\ status' = [status EXCEPT ![t] = "running"]
  /\ UNCHANGED threadOf

Withdraw(t) ==
  /\ status[t] = "queued"
  /\ status' = [status EXCEPT ![t] = "cancelled"]
  /\ UNCHANGED threadOf

Finish(t, s) ==
  /\ status[t] = "running"
  /\ status' = [status EXCEPT ![t] = s]
  /\ UNCHANGED threadOf

(* A stopped runtime or a restart fails several running tasks at once.     *)
Abandon(S) ==
  /\ status' = [t \in Task |-> IF t \in S THEN "failed" ELSE status[t]]
  /\ UNCHANGED threadOf

Next ==
  \/ \E t \in Task, th \in Thread : Submit(t, th)
  \/ \E t \in Task : Begin(t) \/ Withdraw(t)
  \/ \E t \in Task, s \in Terminal : Finish(t, s)
  \/ \E S \in SUBSET With("running") : Abandon(S)

vars == <<status, threadOf>>

Spec == Init /\ [][Next]_vars
=============================================================================
