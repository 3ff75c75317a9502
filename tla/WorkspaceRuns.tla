--------------------------- MODULE WorkspaceRuns ---------------------------
(***************************************************************************)
(* The run queue of host/apps/workspace_kit/engine.py: one run worker that *)
(* reaps host tasks, fires due schedules and dispatches the oldest pending *)
(* run, against the operator's requests and the agent's own calls, each on *)
(* a handler thread of its own.                                            *)
(*                                                                         *)
(* Sessions run at READ COMMITTED: a transaction that locks what it reads  *)
(* is one step, one that reads without a lock is two, the read and the     *)
(* writes that commit.  A call to the host is a step of its own, holds no  *)
(* lock, and may be refused, lost, or answered to nobody.  The host keeps  *)
(* what TaskLifecycle promises; ws-<n> is named by n, its generation.      *)
(***************************************************************************)
EXTENDS Integers, FiniteSets

CONSTANTS
  NRuns, NTasks, NGenerations, \* bounds: runs, host tasks and threads ever made
  Schedule,                    \* schedule ids
  Recurring,                   \* those with every_minutes; the others are one-shots
  Requester,                   \* handler threads with a request of the operator
  AgentCall,                   \* handler threads with a call of the agent
  MAX_QUEUED_CHAT_TURNS, MAX_ACTIONS_PER_TURN,
  WORKER_COUNT_PER_RUNTIME, QUEUED_TASK_LIMIT \* the host's

ASSUME WorkspaceConstants ==
  /\ NRuns \in Nat /\ NTasks \in Nat /\ NGenerations \in Nat \ {0}
  /\ "chat" \notin Schedule
  /\ Recurring \subseteq Schedule
  /\ MAX_QUEUED_CHAT_TURNS \in Nat /\ MAX_ACTIONS_PER_TURN \in Nat

VARIABLES
  workspace,  \* active: agent_runtime is set; seq: thread_seq, 0 without a row
  runs,       \* runs table
  schedules,  \* schedules table
  task,       \* the host's tasks: status
  taskThread, \* the host's tasks: thread
  budget,     \* _AGENT_ACTIONS_BY_TASK
  worker,     \* run_worker_loop's place in a tick
  request,    \* each requester's place and what it read
  agent,      \* each agent call's place and what it read
  applied,    \* history: actions applied per task since its budget was started
  steered,    \* history: runs whose message the host recorded as a steer
  stray       \* history: host tasks given up without a run, for a known reason

Run == 1 .. NRuns
Task == 1 .. NTasks
None == 0
TaskOrNone == Task \cup {None}
Generation == 0 .. NGenerations
Kind == {"chat"} \cup Schedule

Host == INSTANCE TaskLifecycle
  WITH status <- task, threadOf <- taskThread, Thread <- Generation, NoThread <- None,
       Runtime <- {"agent"}, RuntimeOf <- [g \in Generation |-> "agent"],
       NTasks <- NTasks, WORKER_COUNT_PER_RUNTIME <- WORKER_COUNT_PER_RUNTIME,
       QUEUED_TASK_LIMIT <- QUEUED_TASK_LIMIT

TaskStatus == {"absent", "queued", "running", "completed", "failed", "cancelled"}
HOST_TASK_STATUSES_TERMINAL == {"completed", "failed", "cancelled"}
(* runs.host_status; "ended" is any terminal task, lost and oversized too. *)
HostStatus == {"none", "queued", "running", "ended", "steered", "discarded",
               "deactivated", "orphaned"}

NoRun == [status |-> "absent", kind |-> "chat", task |-> None, thread |-> None,
          host |-> "none"]
NoSchedule == [present |-> FALSE, enabled |-> FALSE, next |-> "none"]
Tick == [pc |-> "tick", run |-> None, task |-> None, thread |-> None, todo |-> {},
         due |-> {}, off |-> FALSE, seen |-> "absent"]
NoRequest == [pc |-> "idle", run |-> None, tasks |-> {}, seen |-> "absent",
              schedule |-> "chat", row |-> NoSchedule]
NoCall == [pc |-> "idle", task |-> None]

dbVars == <<workspace, runs, schedules>>
hostVars == <<task, taskThread>>
history == <<applied, steered, stray>>
vars == <<dbVars, hostVars, budget, worker, request, agent, history>>

Having(s) == {r \in Run : runs[r].status = s}
NotDone == Having("pending") \cup Having("active")
RunsOf(k) == {r \in NotDone : runs[r].kind = k}
Live == {t \in Task : task[t] \in {"queued", "running"}}

(* Wrong: nobody waits.                                                    *)
Unlocked == TRUE
(* Agent writes hold FOR SHARE on the workspace row; who updates it waits. *)
Unshared == \A c \in AgentCall : agent[c].pc # "apply"

(* The next id of runs: rows commit in the order of their ids.             *)
Fresh(r) == runs[r].status = "absent" /\ \A x \in Run : x < r => runs[x].status # "absent"
Insert(r, k) == runs' = [runs EXCEPT ![r] = [NoRun EXCEPT !.status = "pending", !.kind = k]]
Finish(r, how) == runs' = [runs EXCEPT ![r].status = "done", ![r].host = how]
Forget(t) == /\ budget' = [u \in Task |-> IF u = t THEN 0 ELSE budget[u]]
             /\ applied' = [u \in Task |-> IF u = t THEN 0 ELSE applied[u]]

Init ==
  /\ workspace = [active |-> FALSE, seq |-> 0]
  /\ runs = [r \in Run |-> NoRun]
  /\ schedules = [s \in Schedule |-> NoSchedule]
  /\ Host!Init
  /\ budget = [t \in Task |-> 0]
  /\ worker = Tick
  /\ request = [q \in Requester |-> NoRequest]
  /\ agent = [c \in AgentCall |-> NoCall]
  /\ applied = [t \in Task |-> 0]
  /\ steered = {}
  /\ stray = {}

-----------------------------------------------------------------------------
(* The worker: reap                                                        *)

AtWorker(pc) == worker.pc = pc
Goto(pc) == worker' = [worker EXCEPT !.pc = pc]
NextTick == worker' = Tick
ReapOn == worker' = [Tick EXCEPT !.pc = "reap", !.off = worker.off, !.todo = worker.todo]

ReapSnapshot ==
  /\ AtWorker("tick")
  /\ worker' = [Tick EXCEPT !.pc = "reap", !.off = ~workspace.active, !.todo = Having("active")]
  /\ UNCHANGED <<dbVars, hostVars, budget, request, agent, history>>

ReapNone ==
  /\ AtWorker("reap") /\ worker.todo = {}
  /\ worker' = [Tick EXCEPT !.pc = "fire"]
  /\ UNCHANGED <<dbVars, hostVars, budget, request, agent, history>>

(* GET /v1/tasks/<id>: an error other than a missing or an oversized task  *)
(* leaves the run for the next tick.                                       *)
ReapUnreachable(r) ==
  /\ AtWorker("reap") /\ r \in worker.todo
  /\ worker' = [worker EXCEPT !.todo = @ \ {r}]
  /\ UNCHANGED <<dbVars, hostVars, budget, request, agent, history>>

ReapGet(r) ==
  LET seen == task[runs[r].task] IN
  /\ AtWorker("reap") /\ r \in worker.todo
  /\ runs[r].task \in Task
  /\ worker' = [worker EXCEPT !.todo = @ \ {r}, !.run = r, !.task = runs[r].task, !.seen = seen,
                  !.pc = IF worker.off /\ seen \in {"queued", "running"}
                           THEN "reapstop" ELSE "reapwrite"]
  /\ UNCHANGED <<dbVars, hostVars, budget, request, agent, history>>

(* _request_host_task_stop after its GET: cancel what was queued, kill it  *)
(* when it has started meanwhile, kill what was running.                   *)
StopTask(t, seen) ==
  \/ seen = "queued" /\ Host!Withdraw(t)
  \/ seen \in {"queued", "running"} /\ Host!Finish(t, "cancelled")

ReapStop ==
  /\ AtWorker("reapstop")
  /\ \/ StopTask(worker.task, worker.seen) /\ Goto("reapwrite")
     \/ UNCHANGED hostVars /\ ReapOn
  /\ UNCHANGED <<dbVars, budget, request, agent, history>>

(* Wrong: a run ends with any status read.                                 *)
ReapWriteEarly ==
  /\ AtWorker("reapwrite")
  /\ Finish(worker.run, "ended") /\ Forget(worker.task)
  /\ ReapOn
  /\ UNCHANGED <<workspace, schedules, hostVars, request, agent, steered, stray>>

(* apply_run_result ends the run; a live task only has its status noted.   *)
ReapWrite ==
  /\ AtWorker("reapwrite")
  /\ IF worker.seen \in HOST_TASK_STATUSES_TERMINAL
       THEN Finish(worker.run, "ended") /\ Forget(worker.task)
       ELSE /\ runs' = [runs EXCEPT ![worker.run].host = worker.seen]
            /\ UNCHANGED <<budget, applied>>
  /\ ReapOn
  /\ UNCHANGED <<workspace, schedules, hostVars, request, agent, steered, stray>>

-----------------------------------------------------------------------------
(* The worker: fire                                                        *)

FireRead ==
  /\ AtWorker("fire")
  /\ IF workspace.active
       THEN worker' = [worker EXCEPT !.pc = "firing",
              !.due = {s \in Schedule : schedules[s].enabled /\ schedules[s].next = "due"}]
       ELSE Goto("pick")
  /\ UNCHANGED <<dbVars, hostVars, budget, request, agent, history>>

(* A one-shot disables itself; a recurring one moves to its next slot.     *)
Fired(s) == [schedules[s] EXCEPT !.next = IF s \in Recurring THEN "later" ELSE "none",
                                 !.enabled = s \in Recurring]
Update(s, row) ==
  schedules' = [x \in Schedule |-> IF x = s /\ schedules[s].present THEN row ELSE schedules[x]]

(* Wrong: a slot fires though the last run is not done.                    *)
FireOverlapping(s) ==
  /\ AtWorker("firing") /\ s \in worker.due
  /\ \E r \in Run : Fresh(r) /\ Insert(r, s)
  /\ Update(s, Fired(s))
  /\ worker' = [worker EXCEPT !.due = @ \ {s}]
  /\ UNCHANGED <<workspace, hostVars, budget, request, agent, history>>

(* The writes name only the schedule, so they undo what was committed to   *)
(* its row since it was read.  While its last run is not done a recurring  *)
(* schedule skips a slot and a one-shot stays due.                         *)
Fire(s) ==
  /\ AtWorker("firing") /\ s \in worker.due
  /\ \/ /\ RunsOf(s) = {}
        /\ \E r \in Run : Fresh(r) /\ Insert(r, s)
        /\ Update(s, Fired(s))
     \/ /\ RunsOf(s) # {} /\ s \in Recurring
        /\ Update(s, [schedules[s] EXCEPT !.next = "later"])
        /\ UNCHANGED runs
     \/ RunsOf(s) # {} /\ s \notin Recurring /\ UNCHANGED <<schedules, runs>>
  /\ worker' = [worker EXCEPT !.due = @ \ {s}]
  /\ UNCHANGED <<workspace, hostVars, budget, request, agent, history>>

FireDone ==
  /\ AtWorker("firing")
  /\ worker.due = {} \/ \A r \in Run : ~Fresh(r)
  /\ worker' = [worker EXCEPT !.pc = "pick", !.due = {}]
  /\ UNCHANGED <<dbVars, hostVars, budget, request, agent, history>>

-----------------------------------------------------------------------------
(* The worker: dispatch                                                    *)

Oldest(r) == r \in Having("pending") /\ \A x \in Having("pending") : r <= x

(* At most the oldest pending run, and only while none is active.          *)
Pick ==
  /\ AtWorker("pick")
  /\ \/ /\ Having("active") = {}
        /\ \E r \in Run : Oldest(r) /\ worker' = [Tick EXCEPT !.pc = "compose", !.run = r]
     \/ (Having("active") # {} \/ Having("pending") = {}) /\ NextTick
  /\ UNCHANGED <<dbVars, hostVars, budget, request, agent, history>>

Promptable == {"chat"} \cup {s \in Schedule : schedules[s].present}

(* The thread the turn goes to is read here.  A run whose schedule is gone *)
(* is orphaned; without agent settings the attempt fails.                  *)
Compose ==
  LET k == runs[worker.run].kind IN
  /\ AtWorker("compose")
  /\ \/ ~workspace.active /\ NextTick /\ UNCHANGED runs
     \/ /\ workspace.active
        /\ k \in Promptable
        /\ worker' = [worker EXCEPT !.pc = "create", !.thread = workspace.seq]
        /\ UNCHANGED runs
     \/ /\ workspace.active
        /\ k \notin Promptable
        /\ Finish(worker.run, "orphaned")
        /\ NextTick
  /\ UNCHANGED <<workspace, schedules, hostVars, budget, request, agent, history>>

(* POST /v1/tasks: created and answered, created with its answer lost, or  *)
(* refused (queue full, host unreachable).                                 *)
Create ==
  /\ AtWorker("create")
  /\ \/ \E t \in Task :
          /\ Host!Submit(t, worker.thread)
          /\ \/ /\ worker' = [worker EXCEPT !.pc = "claim", !.task = t]
                /\ UNCHANGED stray
             \/ NextTick /\ stray' = stray \cup {t}
     \/ NextTick /\ UNCHANGED <<hostVars, stray>>
  /\ UNCHANGED <<dbVars, budget, request, agent, applied, steered>>

Claimed(r) == runs' = [runs EXCEPT ![r].status = "active", ![r].task = worker.task,
                                   ![r].thread = worker.thread, ![r].host = "queued"]

(* The predicate keeps a concurrent discard authoritative.                 *)
Claim ==
  LET r == worker.run IN
  /\ AtWorker("claim")
  /\ IF runs[r].status = "pending"
       THEN Claimed(r) /\ NextTick
       ELSE UNCHANGED runs /\ Goto("unclaim")
  /\ UNCHANGED <<workspace, schedules, hostVars, budget, request, agent, history>>

(* _cancel_unclaimed_host_task: cancel, else kill, else nothing.           *)
CancelUnclaimed ==
  /\ AtWorker("unclaim")
  /\ \/ (Host!Withdraw(worker.task) \/ Host!Finish(worker.task, "cancelled")) /\ UNCHANGED stray
     \/ stray' = stray \cup {worker.task} /\ UNCHANGED hostVars
  /\ NextTick
  /\ UNCHANGED <<dbVars, budget, request, agent, applied, steered>>

-----------------------------------------------------------------------------
(* The operator's requests                                                 *)

AtRequest(q, pc) == request[q].pc = pc
Ask(q, pc) == request' = [request EXCEPT ![q] = [NoRequest EXCEPT !.pc = pc]]
Answer(q) == request' = [request EXCEPT ![q] = NoRequest]

(* What send_message and submit_artifact_interaction read: the workspace,   *)
(* activated by a first message unless a turn is still active, the chat    *)
(* queue, and the running turn that may take the message as a steer.       *)
SendRead(q) ==
  /\ AtRequest(q, "idle")
  /\ workspace.active \/ Having("active") = {}
  /\ Cardinality(RunsOf("chat")) < MAX_QUEUED_CHAT_TURNS
  /\ request' = [request EXCEPT ![q] = [NoRequest EXCEPT
       !.pc = IF workspace.active THEN "send" ELSE "sendfirst",
       !.tasks = IF RunsOf("chat") \cap Having("pending") = {}
                   THEN {runs[r].task : r \in {x \in Having("active") : runs[x].host = "running"}}
                   ELSE {}]]
  /\ UNCHANGED <<dbVars, hostVars, budget, worker, agent, history>>

(* _ensure_workspace: the row is created once, with what the app's seed    *)
(* schedules, and otherwise keeps its thread_seq.                          *)
EnsureWorkspace ==
  /\ Unshared
  /\ workspace' = [active |-> TRUE, seq |-> IF workspace.seq = 0 THEN 1 ELSE workspace.seq]
  /\ \/ workspace.seq = 0 /\ schedules' = [s \in Schedule |->
                               [present |-> TRUE, enabled |-> TRUE, next |-> "later"]]
     \/ UNCHANGED schedules

(* The message and its pending run are committed; then the steer.          *)
SendCommit(q) ==
  /\ AtRequest(q, "send") \/ AtRequest(q, "sendfirst")
  /\ IF AtRequest(q, "sendfirst")
       THEN EnsureWorkspace ELSE UNCHANGED <<workspace, schedules>>
  /\ \E r \in Run :
       /\ Fresh(r) /\ Insert(r, "chat")
       /\ request' = [request EXCEPT ![q] = IF request[q].tasks = {} THEN NoRequest
            ELSE [NoRequest EXCEPT !.pc = "steer", !.run = r, !.tasks = request[q].tasks]]
  /\ UNCHANGED <<hostVars, budget, worker, agent, applied, steered, stray>>

(* Wrong: a steer counts as accepted whatever the host answered.           *)
SteerAlways(q) ==
  /\ AtRequest(q, "steer")
  /\ request' = [request EXCEPT ![q].pc = "mark"]
  /\ steered' = steered \cup {request[q].run : t \in {u \in request[q].tasks : task[u] = "running"}}
  /\ UNCHANGED <<dbVars, hostVars, budget, worker, agent, applied, stray>>

(* POST /v1/tasks/<id>/steer: recorded only while the task runs; any error *)
(* leaves the run queued.                                                  *)
Steer(q) ==
  /\ AtRequest(q, "steer")
  /\ \/ /\ \E t \in request[q].tasks : task[t] = "running"
        /\ steered' = steered \cup {request[q].run}
        /\ request' = [request EXCEPT ![q].pc = "mark"] \/ Answer(q)
     \/ UNCHANGED steered /\ Answer(q)
  /\ UNCHANGED <<dbVars, hostVars, budget, worker, agent, applied, stray>>

(* Once the host has it the queued run is done, unless dispatch claimed it *)
(* first: then the message arrives twice.                                  *)
MarkSteered(q) ==
  LET r == request[q].run IN
  /\ AtRequest(q, "mark")
  /\ IF runs[r].status = "pending" THEN Finish(r, "steered") ELSE UNCHANGED runs
  /\ Answer(q)
  /\ UNCHANGED <<workspace, schedules, hostVars, budget, worker, agent, history>>

ActivateRead(q) ==
  /\ AtRequest(q, "idle")
  /\ ~workspace.active /\ Having("active") = {}
  /\ Ask(q, "activate")
  /\ UNCHANGED <<dbVars, hostVars, budget, worker, agent, history>>

ActivateCommit(q) ==
  /\ AtRequest(q, "activate")
  /\ EnsureWorkspace
  /\ Answer(q)
  /\ UNCHANGED <<runs, hostVars, budget, worker, agent, applied, steered, stray>>

Revoked == [active |-> FALSE, seq |-> workspace.seq + IF workspace.active THEN 1 ELSE 0]

(* The transaction that locks the workspace row; the stop requests follow. *)
Deactivate(q) ==
  /\ AtRequest(q, "idle")
  /\ workspace.seq \in 1 .. NGenerations - 1
  /\ Unshared
  /\ workspace' = Revoked
  /\ schedules' = [s \in Schedule |-> [schedules[s] EXCEPT !.enabled = FALSE]]
  /\ runs' = [r \in Run |-> IF runs[r].status = "pending"
                              THEN [runs[r] EXCEPT !.status = "done", !.host = "deactivated"]
                              ELSE runs[r]]
  /\ request' = [request EXCEPT ![q] = [NoRequest EXCEPT !.pc = "stop",
                                          !.tasks = {runs[r].task : r \in Having("active")}]]
  /\ UNCHANGED <<hostVars, budget, worker, agent, applied, steered, stray>>

(* stop_task: the operator stops one turn.                                 *)
StopOneTask(q, r) ==
  /\ AtRequest(q, "idle")
  /\ runs[r].status = "active"
  /\ request' = [request EXCEPT ![q] = [NoRequest EXCEPT !.pc = "stop", !.tasks = {runs[r].task}]]
  /\ UNCHANGED <<dbVars, hostVars, budget, worker, agent, history>>

(* _request_host_task_stop, best effort.                                   *)
StopGet(q) ==
  /\ AtRequest(q, "stop")
  /\ \/ \E t \in request[q].tasks \cap Live :
          request' = [request EXCEPT ![q].pc = "stopping", ![q].tasks = {t}, ![q].seen = task[t]]
     \/ Answer(q)
  /\ UNCHANGED <<dbVars, hostVars, budget, worker, agent, history>>

StopPost(q) ==
  /\ AtRequest(q, "stopping")
  /\ \/ \E t \in request[q].tasks : StopTask(t, request[q].seen)
     \/ UNCHANGED hostVars
  /\ Answer(q)
  /\ UNCHANGED <<dbVars, budget, worker, agent, history>>

(* update_agent_settings reads under no lock and writes agent_runtime back *)
(* whatever became of it.                                                  *)
SettingsRead(q) ==
  /\ AtRequest(q, "idle")
  /\ workspace.active /\ NotDone = {}
  /\ Ask(q, "settings")
  /\ UNCHANGED <<dbVars, hostVars, budget, worker, agent, history>>

SettingsCommit(q) ==
  /\ AtRequest(q, "settings")
  /\ workspace.seq < NGenerations
  /\ Unshared
  /\ workspace' = [active |-> TRUE, seq |-> workspace.seq + 1]
  /\ Answer(q)
  /\ UNCHANGED <<runs, schedules, hostVars, budget, worker, agent, history>>

(* set_schedule_enabled: the row is read first, and its next_run_at is     *)
(* written back; resuming checks the workspace under its lock.             *)
ToggleRead(q, s) ==
  /\ AtRequest(q, "idle")
  /\ schedules[s].present
  /\ schedules[s].enabled \/ s \in Recurring \/ schedules[s].next # "none"
  /\ request' = [request EXCEPT ![q] = [NoRequest EXCEPT !.schedule = s, !.row = schedules[s],
                   !.pc = IF schedules[s].enabled THEN "pause" ELSE "resume"]]
  /\ UNCHANGED <<dbVars, hostVars, budget, worker, agent, history>>

PauseCommit(q) ==
  LET s == request[q].schedule IN
  /\ AtRequest(q, "pause")
  /\ Update(s, [request[q].row EXCEPT !.enabled = FALSE])
  /\ Answer(q)
  /\ UNCHANGED <<workspace, runs, hostVars, budget, worker, agent, history>>

ResumeCommit(q) ==
  LET s == request[q].schedule IN
  /\ AtRequest(q, "resume")
  /\ Unshared
  /\ IF workspace.active
       THEN Update(s, [request[q].row EXCEPT !.enabled = TRUE,
                         !.next = IF s \in Recurring THEN "later" ELSE @])
       ELSE UNCHANGED schedules
  /\ Answer(q)
  /\ UNCHANGED <<workspace, runs, hostVars, budget, worker, agent, history>>

DeleteSchedule(q, s) ==
  /\ AtRequest(q, "idle")
  /\ schedules[s].present
  /\ schedules' = [schedules EXCEPT ![s] = NoSchedule]
  /\ UNCHANGED <<workspace, runs, hostVars, budget, worker, request, agent, history>>

(* discard_pending_run: only a run that is still pending.                  *)
Discard(q, r) ==
  /\ AtRequest(q, "idle")
  /\ runs[r].status = "pending"
  /\ Finish(r, "discarded")
  /\ UNCHANGED <<workspace, schedules, hostVars, budget, worker, request, agent, history>>

-----------------------------------------------------------------------------
(* The agent's calls                                                       *)

AtAgent(c, pc) == agent[c].pc = pc
Hang(c) == agent' = [agent EXCEPT ![c] = NoCall]
Current(r) == runs[r].status = "active" /\ runs[r].thread = workspace.seq

(* _active_task_for_agent_thread: the host names the thread the call comes *)
(* from, never the task, so the call acts for the active run's task.       *)
AgentRoute(c, t) ==
  /\ AtAgent(c, "idle")
  /\ task[t] = "running" /\ taskThread[t] = workspace.seq
  /\ \E r \in Run : Current(r) /\
       agent' = [agent EXCEPT ![c] = [NoCall EXCEPT !.pc = "budget", !.task = runs[r].task]]
  /\ UNCHANGED <<dbVars, hostVars, budget, worker, request, history>>

WithinBudget(u) == u < MAX_ACTIONS_PER_TURN

(* One lock, test and set.  That the first refusal is journalled and the   *)
(* others are not is left out.                                             *)
AgentBudget(c) ==
  LET t == agent[c].task IN
  /\ AtAgent(c, "budget")
  /\ \/ /\ WithinBudget(budget[t])
        /\ budget' = [budget EXCEPT ![t] = @ + 1]
        /\ agent' = [agent EXCEPT ![c].pc = "verify"]
     \/ ~WithinBudget(budget[t]) /\ UNCHANGED budget /\ Hang(c)
  /\ UNCHANGED <<dbVars, hostVars, worker, request, history>>

(* _verify_task_authority: checked again by the transaction that writes.   *)
Authorised(t) == \E r \in Run : runs[r].task = t /\ Current(r)

AgentVerify(c) ==
  /\ AtAgent(c, "verify")
  /\ \/ /\ Authorised(agent[c].task)
        /\ agent' = [agent EXCEPT ![c].pc = "apply"]
     \/ ~Authorised(agent[c].task) /\ Hang(c)
  /\ UNCHANGED <<dbVars, hostVars, budget, worker, request, history>>

(* _apply_action: what an action does to a schedule.                       *)
Changed(s) ==
  \/ ~schedules[s].present
       /\ schedules' = [schedules EXCEPT ![s] = [present |-> TRUE, enabled |-> TRUE, next |-> "later"]]
  \/ schedules[s].present /\ schedules' = [schedules EXCEPT ![s] = NoSchedule]
  \/ schedules[s].present /\ \E on \in BOOLEAN :
       \/ Update(s, [present |-> TRUE, enabled |-> on, next |-> "later"])
       \/ /\ on => s \in Recurring \/ schedules[s].next # "none"
          /\ Update(s, [schedules[s] EXCEPT !.enabled = on])

(* The action commits, or is rejected: by its own rules, or by Postgres    *)
(* when two sharers of the row both want to update it.                     *)
AgentApply(c) ==
  LET t == agent[c].task IN
  /\ AtAgent(c, "apply")
  /\ Hang(c)
  /\ \/ /\ applied' = [applied EXCEPT ![t] = @ + 1]
        /\ UNCHANGED schedules \/ \E s \in Schedule : Changed(s)
     \/ UNCHANGED <<applied, schedules>>
  /\ UNCHANGED <<workspace, runs, hostVars, budget, worker, request, steered, stray>>

-----------------------------------------------------------------------------
(* Time, the host and restarts of the app                                  *)

ScheduleDue(s) ==
  /\ schedules[s].next = "later"
  /\ schedules' = [schedules EXCEPT ![s].next = "due"]
  /\ UNCHANGED <<workspace, runs, hostVars, budget, worker, request, agent, history>>

(* The app treats every end of a task alike: one stands for all.           *)
HostStep ==
  /\ \/ \E t \in Task : Host!Begin(t) \/ Host!Withdraw(t)
     \/ \E t \in Task : Host!Finish(t, "cancelled")
  /\ UNCHANGED <<dbVars, budget, worker, request, agent, history>>

(* The process is replaced: what it held in memory and its calls are gone, *)
(* open transactions roll back.                                            *)
AppRestart ==
  /\ worker' = Tick
  /\ request' = [q \in Requester |-> NoRequest]
  /\ agent' = [c \in AgentCall |-> NoCall]
  /\ budget' = [t \in Task |-> 0] /\ applied' = [t \in Task |-> 0]
  /\ stray' = stray \cup IF AtWorker("claim") \/ AtWorker("unclaim") THEN {worker.task} ELSE {}
  /\ UNCHANGED <<dbVars, hostVars, steered>>

-----------------------------------------------------------------------------
WorkerStep ==
  \/ ReapSnapshot \/ ReapNone \/ ReapStop \/ ReapWrite
  \/ \E r \in Run : ReapUnreachable(r) \/ ReapGet(r)
  \/ FireRead \/ FireDone
  \/ \E s \in Schedule : Fire(s)
  \/ Pick \/ Compose \/ Create \/ Claim \/ CancelUnclaimed

RequestStep(q) ==
  \/ SendRead(q) \/ SendCommit(q) \/ Steer(q) \/ MarkSteered(q)
  \/ ActivateRead(q) \/ ActivateCommit(q) \/ Deactivate(q)
  \/ StopGet(q) \/ StopPost(q) \/ SettingsRead(q) \/ SettingsCommit(q)
  \/ PauseCommit(q) \/ ResumeCommit(q)
  \/ \E r \in Run : StopOneTask(q, r) \/ Discard(q, r)
  \/ \E s \in Schedule : ToggleRead(q, s) \/ DeleteSchedule(q, s)

AgentStep(c) ==
  \/ \E t \in Task : AgentRoute(c, t)
  \/ AgentBudget(c) \/ AgentVerify(c) \/ AgentApply(c)

Next ==
  \/ WorkerStep
  \/ \E q \in Requester : RequestStep(q)
  \/ \E c \in AgentCall : AgentStep(c)
  \/ \E s \in Schedule : ScheduleDue(s)
  \/ HostStep
  \/ AppRestart

Spec == Init /\ [][Next]_vars

-----------------------------------------------------------------------------
(* Properties                                                              *)

RunRow == [status : {"absent", "pending", "active", "done"}, kind : Kind, task : TaskOrNone,
           thread : Generation, host : HostStatus]
ScheduleRow == [present : BOOLEAN, enabled : BOOLEAN, next : {"none", "later", "due"}]
WorkerPC == {"tick", "reap", "reapstop", "reapwrite", "fire", "firing", "pick", "compose",
             "create", "claim", "unclaim"}
RequestPC == {"idle", "send", "sendfirst", "steer", "mark", "activate", "stop", "stopping",
              "settings", "pause", "resume"}

(* Every variable keeps its shape.                                         *)
TypeOK ==
  /\ workspace \in [active : BOOLEAN, seq : Generation]
  /\ runs \in [Run -> RunRow]
  /\ schedules \in [Schedule -> ScheduleRow]
  /\ task \in [Task -> TaskStatus] /\ taskThread \in [Task -> Generation]
  /\ budget \in [Task -> 0 .. MAX_ACTIONS_PER_TURN]
  /\ worker \in [pc : WorkerPC, run : Run \cup {None}, task : TaskOrNone, thread : Generation,
                  todo : SUBSET Run, due : SUBSET Schedule, off : BOOLEAN, seen : TaskStatus]
  /\ request \in [Requester -> [pc : RequestPC, run : Run \cup {None}, tasks : SUBSET TaskOrNone,
                                seen : TaskStatus, schedule : Kind, row : ScheduleRow]]
  /\ agent \in [AgentCall -> [pc : {"idle", "budget", "verify", "apply"}, task : TaskOrNone]]
  /\ applied \in [Task -> Nat]
  /\ steered \subseteq Run /\ stray \subseteq Task

(* A host task that may still run belongs to the active run, unless it was *)
(* given up for a reason: its creation was not answered, its cancellation  *)
(* failed, or the app restarted before it was claimed.                     *)
TasksAreTracked ==
  \A t \in Live :
    \/ \E r \in Having("active") : runs[r].task = t
    \/ worker.task = t /\ (AtWorker("claim") \/ AtWorker("unclaim"))
    \/ t \in stray

(* A message is done only when a turn was made of it, the running turn took *)
(* it as a steer, or the operator dropped it.                              *)
MessageArrives ==
  \A r \in Having("done") : runs[r].kind = "chat" =>
    runs[r].task # None \/ r \in steered \/ runs[r].host \in {"discarded", "deactivated"}

(* A schedule never has two runs waiting or running.                       *)
NoOverlap == \A s \in Schedule : Cardinality(RunsOf(s)) <= 1

(* No action of the agent commits once its thread was revoked, however far *)
(* the call had come by then.                                              *)
NoWriteAfterRevoke ==
  [][\A t \in Task : applied'[t] > applied[t] =>
       \E r \in Run : runs[r].task = t /\ runs[r].thread = workspace.seq]_vars

=============================================================================
