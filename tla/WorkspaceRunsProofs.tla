----------------------- MODULE WorkspaceRunsProofs -----------------------
(***************************************************************************)
(* The run queue for any number of runs, host tasks, schedules, requests   *)
(* and agent calls: no turn of the agent runs untracked, a schedule has    *)
(* one run at a time and the workspace one turn, no message is dropped by  *)
(* anybody but the operator, and no action of the agent commits after its  *)
(* thread was revoked.                                                     *)
(*                                                                         *)
(* What makes these inductive is what each party may still rely on of what *)
(* it read before: the worker alone activates and ends runs, so what it    *)
(* found active stays so until it writes (WorkerOK); a discard or a steer  *)
(* finishes pending runs only, so a request's run keeps its kind           *)
(* (RequestsOK); who revokes the workspace waits for the agent calls that  *)
(* are past their check (AgentsOK).                                        *)
(***************************************************************************)
EXTENDS WorkspaceRuns, FiniteSetTheorems, TLAPS

Reaping == worker.pc \in {"reapstop", "reapwrite"}
Dispatching == worker.pc \in {"compose", "create", "claim", "unclaim"}

WorkerOK ==
    /\ worker.todo \subseteq Having("active")
    /\ Reaping =>
          /\ worker.run \in Having("active") \ worker.todo
          /\ worker.task \in Task /\ runs[worker.run].task = worker.task
          /\ worker.seen # "absent"
          /\ worker.seen \in HOST_TASK_STATUSES_TERMINAL =>
                task[worker.task] \in HOST_TASK_STATUSES_TERMINAL
    /\ Dispatching =>
          /\ Having("active") = {}
          /\ worker.run \in Having("pending") \cup Having("done")
    /\ worker.pc \in {"claim", "unclaim"} =>
          worker.task \in Task /\ task[worker.task] # "absent"

RunsOK == \A r \in Having("active") : runs[r].task \in Task /\ task[runs[r].task] # "absent"

RequestsOK ==
    \A q \in Requester :
       /\ request[q].pc \in {"steer", "mark"} =>
             /\ request[q].run \in Run
             /\ runs[request[q].run].status # "absent"
             /\ runs[request[q].run].kind = "chat"
       /\ AtRequest(q, "mark") => request[q].run \in steered

AgentsOK ==
    \A c \in AgentCall : AtAgent(c, "apply") =>
       \E r \in Having("active") \cup Having("done") :
          runs[r].task = agent[c].task /\ runs[r].thread = workspace.seq

\* One turn at a time: no other run is dispatched while one is active.
OneTurn == \A r1, r2 \in Having("active") : r1 = r2

\* NoOverlap without the cardinality.
Apart == \A s \in Schedule : \A r1, r2 \in RunsOf(s) : r1 = r2

WorkspaceInv ==
    /\ TypeOK /\ WorkerOK /\ RunsOK /\ RequestsOK /\ AgentsOK
    /\ OneTurn /\ Apart /\ TasksAreTracked /\ MessageArrives

-----------------------------------------------------------------------------
(* Typing                                                                  *)

WorkerRecord ==
    [pc : WorkerPC, run : Run \cup {None}, task : TaskOrNone, thread : Generation,
     todo : SUBSET Run, due : SUBSET Schedule, off : BOOLEAN, seen : TaskStatus]
RequestRecord ==
    [pc : RequestPC, run : Run \cup {None}, tasks : SUBSET TaskOrNone, seen : TaskStatus,
     schedule : Kind, row : ScheduleRow]
CallRecord == [pc : {"idle", "budget", "verify", "apply"}, task : TaskOrNone]

LEMMA Parameters ==
    /\ NRuns \in Nat /\ NTasks \in Nat /\ NGenerations \in Nat \ {0}
    /\ "chat" \notin Schedule
    /\ MAX_ACTIONS_PER_TURN \in Nat
    /\ None \in Generation /\ 1 \in Generation /\ None \notin Run /\ None \notin Task
BY WorkspaceConstants DEF None, Generation, Run, Task

(* The records the parties start from.                                     *)
LEMMA Records ==
    /\ NoRun \in RunRow /\ NoSchedule \in ScheduleRow
    /\ Tick \in WorkerRecord /\ NoRequest \in RequestRecord /\ NoCall \in CallRecord
BY Parameters DEF NoRun, NoSchedule, Tick, NoRequest, NoCall, RunRow, ScheduleRow,
   WorkerRecord, RequestRecord, CallRecord, Kind, TaskOrNone, HostStatus, WorkerPC,
   RequestPC, TaskStatus

(* The worker's record through a step of its own.                          *)
LEMMA WorkerTyped ==
    ASSUME TypeOK, WorkerOK, RunsOK, WorkerStep
    PROVE  worker' \in WorkerRecord
<1>a. worker \in WorkerRecord /\ workspace.active \in BOOLEAN /\ workspace.seq \in Generation
    BY DEF TypeOK, WorkerRecord
<1>b. \A t \in Task : task[t] \in TaskStatus
    BY DEF TypeOK
<1> USE <1>a, Records DEF AtWorker, WorkerRecord, WorkerPC, TaskOrNone
<1>1. CASE ReapSnapshot
    BY <1>1 DEF ReapSnapshot, Having
<1>2. CASE ReapNone
    BY <1>2 DEF ReapNone
<1>3. CASE ReapStop
    <2>1. CASE Goto("reapwrite")
        BY <2>1 DEF Goto
    <2>2. CASE ReapOn
        BY <2>2 DEF ReapOn
    <2>. QED BY <1>3, <2>1, <2>2 DEF ReapStop
<1>4. CASE ReapWrite
    <2>1. ReapOn
        BY <1>4 DEF ReapWrite
    <2>. QED BY <2>1 DEF ReapOn
<1>5. CASE FireRead
    <2>. DEFINE due == {s \in Schedule : schedules[s].enabled /\ schedules[s].next = "due"}
    <2>1. due \in SUBSET Schedule
        OBVIOUS
    <2>2. CASE worker' = [worker EXCEPT !.pc = "firing", !.due = due]
        <3>. HIDE DEF due
        <3>. QED BY <2>1, <2>2
    <2>3. CASE worker' = [worker EXCEPT !.pc = "pick"]
        BY <2>3
    <2>. QED BY <1>5, <2>2, <2>3 DEF FireRead, Goto
<1>6. CASE FireDone
    BY <1>6 DEF FireDone
<1>7. CASE Pick
    <2>1. CASE \E r \in Run : worker' = [Tick EXCEPT !.pc = "compose", !.run = r]
        BY <2>1
    <2>2. CASE worker' = Tick
        BY <2>2
    <2>. QED BY <1>7, <2>1, <2>2 DEF Pick, NextTick
<1>8. CASE Compose
    BY <1>8 DEF Compose, NextTick
<1>9. CASE Create
    BY <1>9 DEF Create, NextTick
<1>10. CASE Claim
    BY <1>10 DEF Claim, NextTick, Goto
<1>11. CASE CancelUnclaimed
    BY <1>11 DEF CancelUnclaimed, NextTick
<1>12. ASSUME NEW r \in Run, ReapUnreachable(r) PROVE worker' \in WorkerRecord
    BY <1>12, <1>b DEF ReapUnreachable
<1>13. ASSUME NEW r \in Run, ReapGet(r) PROVE worker' \in WorkerRecord
    BY <1>13, <1>b DEF ReapGet
<1>14. ASSUME NEW s \in Schedule, Fire(s) PROVE worker' \in WorkerRecord
    BY <1>14 DEF Fire
<1>. QED BY <1>1, <1>2, <1>3, <1>4, <1>5, <1>6, <1>7, <1>8, <1>9, <1>10, <1>11, <1>12,
    <1>13, <1>14 DEF WorkerStep

-----------------------------------------------------------------------------
(* Who changes what.                                                       *)

(* Steps that change runs.                                                 *)
LEMMA RunsChange ==
    ASSUME [Next]_vars
    PROVE  \/ UNCHANGED runs
           \/ ReapWrite \/ Compose \/ Claim
           \/ \E s \in Schedule : Fire(s)
           \/ \E q \in Requester : SendCommit(q) \/ MarkSteered(q) \/ Deactivate(q)
           \/ \E q \in Requester, r \in Run : Discard(q, r)
<1>1. CASE WorkerStep
    BY <1>1 DEF WorkerStep, ReapSnapshot, ReapNone, ReapStop, ReapUnreachable, ReapGet,
        FireRead, FireDone, Pick, Create, CancelUnclaimed, dbVars,
        hostVars, history
<1>2. CASE \E q \in Requester : RequestStep(q)
    <2>1. CASE \E q \in Requester : SendRead(q) \/ SendCommit(q) \/ Steer(q) \/ MarkSteered(q)
                  \/ ActivateRead(q) \/ ActivateCommit(q) \/ Deactivate(q)
        BY <2>1 DEF SendRead, Steer, ActivateRead, ActivateCommit, dbVars, hostVars, history
    <2>2. CASE \E q \in Requester : StopGet(q) \/ StopPost(q) \/ SettingsRead(q) \/ SettingsCommit(q)
                  \/ PauseCommit(q) \/ ResumeCommit(q)
        BY <2>2 DEF StopGet, StopPost, SettingsRead, SettingsCommit, PauseCommit,
        ResumeCommit, dbVars, hostVars, history
    <2>3. CASE \E q \in Requester : (\E r \in Run : StopOneTask(q, r) \/ Discard(q, r))
                  \/ \E s \in Schedule : ToggleRead(q, s) \/ DeleteSchedule(q, s)
        BY <2>3 DEF StopOneTask, ToggleRead, DeleteSchedule, dbVars, hostVars, history
    <2>. QED BY <1>2, <2>1, <2>2, <2>3 DEF RequestStep
<1>3. CASE \E c \in AgentCall : AgentStep(c)
    BY <1>3 DEF AgentStep, AgentRoute, AgentBudget, AgentVerify, AgentApply, dbVars,
        hostVars, history
<1>4. CASE (\E s \in Schedule : ScheduleDue(s)) \/ HostStep \/ AppRestart \/ UNCHANGED vars
    BY <1>4 DEF ScheduleDue, HostStep, AppRestart, vars, dbVars, hostVars, history
<1>. QED BY <1>1, <1>2, <1>3, <1>4 DEF Next

(* Steps that change the host's tasks.                                     *)
LEMMA TaskChange ==
    ASSUME [Next]_vars
    PROVE  \/ UNCHANGED hostVars
           \/ ReapStop \/ Create \/ CancelUnclaimed \/ HostStep
           \/ \E q \in Requester : StopPost(q)
<1>1. CASE WorkerStep
    BY <1>1 DEF WorkerStep, ReapSnapshot, ReapNone, ReapWrite, ReapUnreachable, ReapGet,
        FireRead, FireDone, Fire, Pick, Compose, Claim, dbVars,
        hostVars, history
<1>2. CASE \E q \in Requester : RequestStep(q)
    <2>1. CASE \E q \in Requester : SendRead(q) \/ SendCommit(q) \/ Steer(q) \/ MarkSteered(q)
                  \/ ActivateRead(q) \/ ActivateCommit(q) \/ Deactivate(q)
        BY <2>1 DEF SendRead, SendCommit, Steer, MarkSteered, ActivateRead, ActivateCommit,
        Deactivate, dbVars, hostVars, history
    <2>2. CASE \E q \in Requester : StopGet(q) \/ StopPost(q) \/ SettingsRead(q) \/ SettingsCommit(q)
                  \/ PauseCommit(q) \/ ResumeCommit(q)
        BY <2>2 DEF StopGet, SettingsRead, SettingsCommit, PauseCommit, ResumeCommit,
        dbVars, hostVars, history
    <2>3. CASE \E q \in Requester : (\E r \in Run : StopOneTask(q, r) \/ Discard(q, r))
                  \/ \E s \in Schedule : ToggleRead(q, s) \/ DeleteSchedule(q, s)
        BY <2>3 DEF StopOneTask, Discard, ToggleRead, DeleteSchedule, dbVars, hostVars,
        history
    <2>. QED BY <1>2, <2>1, <2>2, <2>3 DEF RequestStep
<1>3. CASE \E c \in AgentCall : AgentStep(c)
    BY <1>3 DEF AgentStep, AgentRoute, AgentBudget, AgentVerify, AgentApply, dbVars,
        hostVars, history
<1>4. CASE (\E s \in Schedule : ScheduleDue(s)) \/ HostStep \/ AppRestart \/ UNCHANGED vars
    BY <1>4 DEF ScheduleDue, AppRestart, vars, dbVars, hostVars, history
<1>. QED BY <1>1, <1>2, <1>3, <1>4 DEF Next

(* Steps that change the workspace row.                                    *)
LEMMA WorkspaceChange ==
    ASSUME [Next]_vars
    PROVE  \/ UNCHANGED workspace
           \/ \E q \in Requester : SendCommit(q) \/ ActivateCommit(q) \/ Deactivate(q)
                                    \/ SettingsCommit(q)
<1>1. CASE WorkerStep
    BY <1>1 DEF WorkerStep, ReapSnapshot, ReapNone, ReapStop, ReapWrite, ReapUnreachable,
        ReapGet, FireRead, FireDone, Fire, Pick, Compose, Create,
        Claim, CancelUnclaimed, dbVars, hostVars, history
<1>2. CASE \E q \in Requester : RequestStep(q)
    <2>1. CASE \E q \in Requester : SendRead(q) \/ SendCommit(q) \/ Steer(q) \/ MarkSteered(q)
                  \/ ActivateRead(q) \/ ActivateCommit(q) \/ Deactivate(q)
        BY <2>1 DEF SendRead, Steer, MarkSteered, ActivateRead, dbVars, hostVars, history
    <2>2. CASE \E q \in Requester : StopGet(q) \/ StopPost(q) \/ SettingsRead(q) \/ SettingsCommit(q)
                  \/ PauseCommit(q) \/ ResumeCommit(q)
        BY <2>2 DEF StopGet, StopPost, SettingsRead, PauseCommit, ResumeCommit, dbVars,
        hostVars, history
    <2>3. CASE \E q \in Requester : (\E r \in Run : StopOneTask(q, r) \/ Discard(q, r))
                  \/ \E s \in Schedule : ToggleRead(q, s) \/ DeleteSchedule(q, s)
        BY <2>3 DEF StopOneTask, Discard, ToggleRead, DeleteSchedule, dbVars, hostVars,
        history
    <2>. QED BY <1>2, <2>1, <2>2, <2>3 DEF RequestStep
<1>3. CASE \E c \in AgentCall : AgentStep(c)
    BY <1>3 DEF AgentStep, AgentRoute, AgentBudget, AgentVerify, AgentApply, dbVars,
        hostVars, history
<1>4. CASE (\E s \in Schedule : ScheduleDue(s)) \/ HostStep \/ AppRestart \/ UNCHANGED vars
    BY <1>4 DEF ScheduleDue, HostStep, AppRestart, vars, dbVars, hostVars, history
<1>. QED BY <1>1, <1>2, <1>3, <1>4 DEF Next

(* Steps that change schedules.                                            *)
LEMMA ScheduleChange ==
    ASSUME [Next]_vars
    PROVE  \/ UNCHANGED schedules
           \/ \E s \in Schedule : Fire(s) \/ ScheduleDue(s)
           \/ \E q \in Requester : SendCommit(q) \/ ActivateCommit(q) \/ Deactivate(q)
                                    \/ PauseCommit(q) \/ ResumeCommit(q)
           \/ \E q \in Requester, s \in Schedule : DeleteSchedule(q, s)
           \/ \E c \in AgentCall : AgentApply(c)
<1>1. CASE WorkerStep
    BY <1>1 DEF WorkerStep, ReapSnapshot, ReapNone, ReapStop, ReapWrite, ReapUnreachable,
        ReapGet, FireRead, FireDone, Pick, Compose, Create, Claim,
        CancelUnclaimed, dbVars, hostVars, history
<1>2. CASE \E q \in Requester : RequestStep(q)
    <2>1. CASE \E q \in Requester : SendRead(q) \/ SendCommit(q) \/ Steer(q) \/ MarkSteered(q)
                  \/ ActivateRead(q) \/ ActivateCommit(q) \/ Deactivate(q)
        BY <2>1 DEF SendRead, Steer, MarkSteered, ActivateRead, dbVars, hostVars, history
    <2>2. CASE \E q \in Requester : StopGet(q) \/ StopPost(q) \/ SettingsRead(q) \/ SettingsCommit(q)
                  \/ PauseCommit(q) \/ ResumeCommit(q)
        BY <2>2 DEF StopGet, StopPost, SettingsRead, SettingsCommit, dbVars, hostVars,
        history
    <2>3. CASE \E q \in Requester : (\E r \in Run : StopOneTask(q, r) \/ Discard(q, r))
                  \/ \E s \in Schedule : ToggleRead(q, s) \/ DeleteSchedule(q, s)
        BY <2>3 DEF StopOneTask, Discard, ToggleRead, dbVars, hostVars, history
    <2>. QED BY <1>2, <2>1, <2>2, <2>3 DEF RequestStep
<1>3. CASE \E c \in AgentCall : AgentStep(c)
    BY <1>3 DEF AgentStep, AgentRoute, AgentBudget, AgentVerify, dbVars, hostVars, history
<1>4. CASE (\E s \in Schedule : ScheduleDue(s)) \/ HostStep \/ AppRestart \/ UNCHANGED vars
    BY <1>4 DEF HostStep, AppRestart, vars, dbVars, hostVars, history
<1>. QED BY <1>1, <1>2, <1>3, <1>4 DEF Next

(* Steps that change the budgets, or what was applied on them.             *)
LEMMA BudgetChange ==
    ASSUME [Next]_vars
    PROVE  \/ UNCHANGED <<budget, applied>>
           \/ ReapWrite \/ AppRestart
           \/ \E c \in AgentCall : AgentBudget(c) \/ AgentApply(c)
<1>1. CASE WorkerStep
    BY <1>1 DEF WorkerStep, ReapSnapshot, ReapNone, ReapStop, ReapUnreachable, ReapGet,
        FireRead, FireDone, Fire, Pick, Compose, Create, Claim,
        CancelUnclaimed, dbVars, hostVars, history
<1>2. CASE \E q \in Requester : RequestStep(q)
    <2>1. CASE \E q \in Requester : SendRead(q) \/ SendCommit(q) \/ Steer(q) \/ MarkSteered(q)
                  \/ ActivateRead(q) \/ ActivateCommit(q) \/ Deactivate(q)
        BY <2>1 DEF SendRead, SendCommit, Steer, MarkSteered, ActivateRead, ActivateCommit,
        Deactivate, dbVars, hostVars, history
    <2>2. CASE \E q \in Requester : StopGet(q) \/ StopPost(q) \/ SettingsRead(q) \/ SettingsCommit(q)
                  \/ PauseCommit(q) \/ ResumeCommit(q)
        BY <2>2 DEF StopGet, StopPost, SettingsRead, SettingsCommit, PauseCommit,
        ResumeCommit, dbVars, hostVars, history
    <2>3. CASE \E q \in Requester : (\E r \in Run : StopOneTask(q, r) \/ Discard(q, r))
                  \/ \E s \in Schedule : ToggleRead(q, s) \/ DeleteSchedule(q, s)
        BY <2>3 DEF StopOneTask, Discard, ToggleRead, DeleteSchedule, dbVars, hostVars,
        history
    <2>. QED BY <1>2, <2>1, <2>2, <2>3 DEF RequestStep
<1>3. CASE \E c \in AgentCall : AgentStep(c)
    BY <1>3 DEF AgentStep, AgentRoute, AgentVerify, dbVars, hostVars, history
<1>4. CASE (\E s \in Schedule : ScheduleDue(s)) \/ HostStep \/ AppRestart \/ UNCHANGED vars
    BY <1>4 DEF ScheduleDue, HostStep, vars, dbVars, hostVars, history
<1>. QED BY <1>1, <1>2, <1>3, <1>4 DEF Next

(* Steps that change the other histories.                                  *)
LEMMA HistoryChange ==
    ASSUME [Next]_vars
    PROVE  \/ UNCHANGED <<steered, stray>>
           \/ Create \/ CancelUnclaimed \/ AppRestart
           \/ \E q \in Requester : Steer(q)
<1>1. CASE WorkerStep
    BY <1>1 DEF WorkerStep, ReapSnapshot, ReapNone, ReapStop, ReapWrite, ReapUnreachable,
        ReapGet, FireRead, FireDone, Fire, Pick, Compose, Claim,
        dbVars, hostVars, history
<1>2. CASE \E q \in Requester : RequestStep(q)
    <2>1. CASE \E q \in Requester : SendRead(q) \/ SendCommit(q) \/ Steer(q) \/ MarkSteered(q)
                  \/ ActivateRead(q) \/ ActivateCommit(q) \/ Deactivate(q)
        BY <2>1 DEF SendRead, SendCommit, MarkSteered, ActivateRead, ActivateCommit,
        Deactivate, dbVars, hostVars, history
    <2>2. CASE \E q \in Requester : StopGet(q) \/ StopPost(q) \/ SettingsRead(q) \/ SettingsCommit(q)
                  \/ PauseCommit(q) \/ ResumeCommit(q)
        BY <2>2 DEF StopGet, StopPost, SettingsRead, SettingsCommit, PauseCommit,
        ResumeCommit, dbVars, hostVars, history
    <2>3. CASE \E q \in Requester : (\E r \in Run : StopOneTask(q, r) \/ Discard(q, r))
                  \/ \E s \in Schedule : ToggleRead(q, s) \/ DeleteSchedule(q, s)
        BY <2>3 DEF StopOneTask, Discard, ToggleRead, DeleteSchedule, dbVars, hostVars,
        history
    <2>. QED BY <1>2, <2>1, <2>2, <2>3 DEF RequestStep
<1>3. CASE \E c \in AgentCall : AgentStep(c)
    BY <1>3 DEF AgentStep, AgentRoute, AgentBudget, AgentVerify, AgentApply, dbVars,
        hostVars, history
<1>4. CASE (\E s \in Schedule : ScheduleDue(s)) \/ HostStep \/ AppRestart \/ UNCHANGED vars
    BY <1>4 DEF ScheduleDue, HostStep, vars, dbVars, hostVars, history
<1>. QED BY <1>1, <1>2, <1>3, <1>4 DEF Next

(* The worker's record changes in its own steps, and at a restart.         *)
LEMMA WorkerChange ==
    ASSUME [Next]_vars
    PROVE  UNCHANGED worker \/ AppRestart \/ WorkerStep
BY DEF Next, RequestStep, AgentStep, vars, dbVars, hostVars, history, ScheduleDue, HostStep,
   SendRead, SendCommit, Steer, MarkSteered, ActivateRead, ActivateCommit, Deactivate,
   StopOneTask, StopGet, StopPost, SettingsRead, SettingsCommit, ToggleRead,
   PauseCommit, ResumeCommit, DeleteSchedule, Discard,
   AgentRoute, AgentBudget, AgentVerify, AgentApply

(* So does a request's.                                                    *)
LEMMA RequestChange ==
    ASSUME [Next]_vars
    PROVE  UNCHANGED request \/ AppRestart \/ \E q \in Requester : RequestStep(q)
BY DEF Next, WorkerStep, AgentStep, vars, dbVars, hostVars, history, ScheduleDue, HostStep,
   ReapSnapshot, ReapNone, ReapUnreachable, ReapGet, ReapStop, ReapWrite, FireRead,
   Fire, FireDone, Pick, Compose, Create, Claim, CancelUnclaimed,
   AgentRoute, AgentBudget, AgentVerify, AgentApply

(* So does an agent call's.                                                *)
LEMMA AgentChange ==
    ASSUME [Next]_vars
    PROVE  UNCHANGED agent \/ AppRestart \/ \E c \in AgentCall : AgentStep(c)
BY DEF Next, WorkerStep, RequestStep, vars, dbVars, hostVars, history, ScheduleDue, HostStep,
   ReapSnapshot, ReapNone, ReapUnreachable, ReapGet, ReapStop, ReapWrite, FireRead,
   Fire, FireDone, Pick, Compose, Create, Claim, CancelUnclaimed,
   SendRead, SendCommit, Steer, MarkSteered, ActivateRead, ActivateCommit, Deactivate,
   StopOneTask, StopGet, StopPost, SettingsRead, SettingsCommit, ToggleRead,
   PauseCommit, ResumeCommit, DeleteSchedule, Discard

-----------------------------------------------------------------------------
(* Typing                                                                  *)

LEMMA RunsTyped ==
    ASSUME TypeOK, WorkerOK, RequestsOK, [Next]_vars
    PROVE  runs' \in [Run -> RunRow]
<1>a. runs \in [Run -> RunRow] /\ worker \in WorkerRecord /\ steered \subseteq Run
    BY DEF TypeOK, WorkerRecord
<1>b. ASSUME NEW r \in Run, NEW how \in HostStatus, Finish(r, how) PROVE runs' \in [Run -> RunRow]
    BY <1>a, <1>b DEF Finish, RunRow
<1>c. ASSUME NEW r \in Run, NEW k \in Kind, Insert(r, k) PROVE runs' \in [Run -> RunRow]
    BY <1>a, <1>c, Records DEF Insert, RunRow
<1>d. \A how \in {"ended", "orphaned", "steered", "discarded", "deactivated", "queued"} :
         how \in HostStatus
    BY DEF HostStatus
<1>e. "chat" \in Kind /\ Schedule \subseteq Kind
    BY DEF Kind
<1>1. CASE UNCHANGED runs
    BY <1>1, <1>a
<1>2. CASE ReapWrite
    <2>0. worker.run \in Run
        BY <1>2 DEF ReapWrite, AtWorker, WorkerOK, Reaping, Having
    <2>1. CASE worker.seen \in HOST_TASK_STATUSES_TERMINAL
        BY <1>2, <2>0, <2>1, <1>b, <1>d DEF ReapWrite
    <2>2. CASE worker.seen \notin HOST_TASK_STATUSES_TERMINAL
        <3>1. worker.seen \in HostStatus
            BY <1>2, <2>2, <1>a DEF ReapWrite, AtWorker, WorkerOK, Reaping, WorkerRecord,
                TaskStatus,
               HOST_TASK_STATUSES_TERMINAL, HostStatus
        <3>. QED BY <1>2, <2>2, <3>1, <1>a DEF ReapWrite, RunRow
    <2>. QED BY <2>1, <2>2
<1>3. CASE Compose
    <2>1. worker.run \in Run
        BY <1>3 DEF Compose, AtWorker, WorkerOK, Dispatching, Having
    <2>. QED BY <1>3, <2>1, <1>a, <1>b, <1>d DEF Compose
<1>4. CASE Claim
    <2>1. worker.task \in TaskOrNone /\ worker.thread \in Generation
        BY <1>a DEF WorkerRecord
    <2>. QED BY <1>4, <1>a, <1>d, <2>1 DEF Claim, Claimed, RunRow
<1>5. ASSUME NEW s \in Schedule, Fire(s) PROVE runs' \in [Run -> RunRow]
    BY <1>5, <1>a, <1>c, <1>e DEF Fire
<1>6. ASSUME NEW q \in Requester, SendCommit(q) PROVE runs' \in [Run -> RunRow]
    BY <1>6, <1>c, <1>e DEF SendCommit
<1>7. ASSUME NEW q \in Requester, MarkSteered(q) PROVE runs' \in [Run -> RunRow]
    BY <1>7, <1>a, <1>b, <1>d DEF MarkSteered, AtRequest, RequestsOK
<1>8. ASSUME NEW q \in Requester, Deactivate(q) PROVE runs' \in [Run -> RunRow]
    BY <1>8, <1>a, <1>d DEF Deactivate, RunRow
<1>9. ASSUME NEW q \in Requester, NEW r \in Run, Discard(q, r) PROVE runs' \in [Run -> RunRow]
    BY <1>9, <1>b, <1>d DEF Discard
<1>. QED BY <1>1, <1>2, <1>3, <1>4, <1>5, <1>6, <1>7, <1>8, <1>9, RunsChange

(* A task that was submitted stays submitted, one that has ended stays so. *)
LEMMA HostMoves ==
    ASSUME TypeOK, WorkerOK, [Next]_vars
    PROVE  /\ task' \in [Task -> TaskStatus] /\ taskThread' \in [Task -> Generation]
           /\ \A t \in Task :
                 /\ task[t] # "absent" => task'[t] # "absent"
                 /\ task[t] \in HOST_TASK_STATUSES_TERMINAL => task'[t] = task[t]
<1>a. task \in [Task -> TaskStatus] /\ taskThread \in [Task -> Generation]
    BY DEF TypeOK
<1>b. worker.thread \in Generation
    BY DEF TypeOK
<1>. DEFINE P == /\ task' \in [Task -> TaskStatus] /\ taskThread' \in [Task -> Generation]
                 /\ \A t \in Task :
                       /\ task[t] # "absent" => task'[t] # "absent"
                       /\ task[t] \in HOST_TASK_STATUSES_TERMINAL => task'[t] = task[t]
<1>. SUFFICES P
    OBVIOUS
<1>0. UNCHANGED hostVars => P
    BY <1>a DEF hostVars
<1>1. \A t \in Task, th \in Generation : Host!Submit(t, th) => P
    BY <1>a DEF Host!Submit, TaskStatus, HOST_TASK_STATUSES_TERMINAL
<1>2. \A t : Host!Begin(t) \/ Host!Withdraw(t) \/ Host!Finish(t, "cancelled") => P
    BY <1>a DEF Host!Begin, Host!Withdraw, Host!Finish, TaskStatus, HOST_TASK_STATUSES_TERMINAL
<1>. HIDE DEF P
<1>3. \A t, seen : StopTask(t, seen) => P
    BY <1>2 DEF StopTask
<1>4. CASE ReapStop
    BY <1>4, <1>0, <1>3 DEF ReapStop
<1>5. CASE Create
    BY <1>5, <1>0, <1>1, <1>b DEF Create
<1>6. CASE CancelUnclaimed
    BY <1>6, <1>0, <1>2 DEF CancelUnclaimed
<1>7. ASSUME NEW q \in Requester, StopPost(q) PROVE P
    BY <1>7, <1>0, <1>3 DEF StopPost
<1>8. CASE HostStep
    BY <1>8, <1>2 DEF HostStep
<1>. QED BY <1>0, <1>4, <1>5, <1>6, <1>7, <1>8, TaskChange

LEMMA WorkspaceTyped ==
    ASSUME TypeOK, [Next]_vars
    PROVE  workspace' \in [active : BOOLEAN, seq : Generation]
<1>a. workspace \in [active : BOOLEAN, seq : Generation]
    BY DEF TypeOK
<1>b. EnsureWorkspace => workspace' \in [active : BOOLEAN, seq : Generation]
    BY <1>a, Parameters DEF EnsureWorkspace
<1>1. CASE UNCHANGED workspace
    BY <1>1, <1>a
<1>2. ASSUME NEW q \in Requester, SendCommit(q)
      PROVE  workspace' \in [active : BOOLEAN, seq : Generation]
    BY <1>2, <1>a, <1>b DEF SendCommit
<1>3. ASSUME NEW q \in Requester, ActivateCommit(q)
      PROVE  workspace' \in [active : BOOLEAN, seq : Generation]
    BY <1>3, <1>b DEF ActivateCommit
<1>4. ASSUME NEW q \in Requester, Deactivate(q) \/ SettingsCommit(q)
      PROVE  workspace' \in [active : BOOLEAN, seq : Generation]
    <2>1. CASE Deactivate(q)
        <3>1. workspace.seq + (IF workspace.active THEN 1 ELSE 0) \in Generation
            <4>1. workspace.seq \in 1 .. NGenerations - 1
                BY <2>1, Zenon DEF Deactivate
            <4>. QED BY <4>1, Parameters DEF Generation
        <3>. QED BY <2>1, <3>1 DEF Deactivate, Revoked
    <2>2. CASE SettingsCommit(q)
        <3>1. workspace.seq + 1 \in Generation
            BY <1>a, <2>2, Parameters DEF SettingsCommit, Generation
        <3>. QED BY <2>2, <3>1 DEF SettingsCommit
    <2>. QED BY <1>4, <2>1, <2>2
<1>. QED BY <1>1, <1>2, <1>3, <1>4, WorkspaceChange

LEMMA SchedulesTyped ==
    ASSUME TypeOK, [Next]_vars
    PROVE  schedules' \in [Schedule -> ScheduleRow]
<1>a. schedules \in [Schedule -> ScheduleRow]
    BY DEF TypeOK
<1>b. \A s : \A row \in ScheduleRow : Update(s, row) => schedules' \in [Schedule -> ScheduleRow]
    BY <1>a DEF Update
<1>c. EnsureWorkspace => schedules' \in [Schedule -> ScheduleRow]
    <2>1. [present |-> TRUE, enabled |-> TRUE, next |-> "later"] \in ScheduleRow
        BY DEF ScheduleRow
    <2>. QED BY <1>a, <2>1 DEF EnsureWorkspace
<1>d. \A q \in Requester : request[q].row \in ScheduleRow
    BY DEF TypeOK
<1>1. CASE UNCHANGED schedules
    BY <1>1, <1>a
<1>2. ASSUME NEW s \in Schedule, Fire(s) PROVE schedules' \in [Schedule -> ScheduleRow]
    <2>1. Fired(s) \in ScheduleRow /\ [schedules[s] EXCEPT !.next = "later"] \in ScheduleRow
        <3>1. schedules[s] \in ScheduleRow
            BY <1>a
        <3>2. \A on \in BOOLEAN, next \in {"none", "later"} :
                 [schedules[s] EXCEPT !.next = next, !.enabled = on] \in ScheduleRow
            BY <3>1 DEF ScheduleRow
        <3>3. [schedules[s] EXCEPT !.next = "later"] \in ScheduleRow
            BY <3>1 DEF ScheduleRow
        <3>4. (s \in Recurring) \in BOOLEAN
            OBVIOUS
        <3>5. (IF s \in Recurring THEN "later" ELSE "none") \in {"none", "later"}
            OBVIOUS
        <3>6. Fired(s) \in ScheduleRow
            <4>1. CASE s \in Recurring
                <5>1. (s \in Recurring) = TRUE
                    BY <4>1, <3>4, Zenon
                <5>2. Fired(s) = [schedules[s] EXCEPT !.next = "later", !.enabled = TRUE]
                    BY <4>1, <5>1, Zenon DEF Fired
                <5>. QED BY <5>2, <3>2
            <4>2. CASE s \notin Recurring
                <5>1. (s \in Recurring) = FALSE
                    BY <4>2, <3>4, Zenon
                <5>2. Fired(s) = [schedules[s] EXCEPT !.next = "none", !.enabled = FALSE]
                    BY <4>2, <5>1, Zenon DEF Fired
                <5>. QED BY <5>2, <3>2
            <4>. QED BY <4>1, <4>2
        <3>. QED BY <3>3, <3>6
    <2>. QED BY <1>2, <2>1, <1>a, <1>b DEF Fire
<1>3. ASSUME NEW s \in Schedule, ScheduleDue(s) PROVE schedules' \in [Schedule -> ScheduleRow]
    BY <1>3, <1>a DEF ScheduleDue, ScheduleRow
<1>4. ASSUME NEW q \in Requester, SendCommit(q) \/ ActivateCommit(q)
      PROVE  schedules' \in [Schedule -> ScheduleRow]
    BY <1>4, <1>a, <1>c DEF SendCommit, ActivateCommit
<1>5. ASSUME NEW q \in Requester, Deactivate(q) PROVE schedules' \in [Schedule -> ScheduleRow]
    BY <1>5, <1>a DEF Deactivate, ScheduleRow
<1>6. ASSUME NEW q \in Requester, PauseCommit(q) PROVE schedules' \in [Schedule -> ScheduleRow]
    <2>1. [request[q].row EXCEPT !.enabled = FALSE] \in ScheduleRow
        BY <1>d DEF ScheduleRow
    <2>. QED BY <1>6, <2>1, <1>b DEF PauseCommit
<1>7. ASSUME NEW q \in Requester, ResumeCommit(q) PROVE schedules' \in [Schedule -> ScheduleRow]
    <2>. DEFINE row == [request[q].row EXCEPT !.enabled = TRUE,
                          !.next = IF request[q].schedule \in Recurring THEN "later" ELSE @]
    <2>1. row \in ScheduleRow
        BY <1>d DEF ScheduleRow
    <2>2. UNCHANGED schedules \/ Update(request[q].schedule, row)
        BY <1>7 DEF ResumeCommit
    <2>. HIDE DEF row
    <2>. QED BY <2>1, <2>2, <1>a, <1>b
<1>8. ASSUME NEW q \in Requester, NEW s \in Schedule, DeleteSchedule(q, s)
      PROVE  schedules' \in [Schedule -> ScheduleRow]
    BY <1>8, <1>a, Records DEF DeleteSchedule
<1>9. ASSUME NEW c \in AgentCall, AgentApply(c) PROVE schedules' \in [Schedule -> ScheduleRow]
    <2>1. ASSUME NEW s \in Schedule, Changed(s) PROVE schedules' \in [Schedule -> ScheduleRow]
        <3>1. \A on \in BOOLEAN :
                 /\ [present |-> TRUE, enabled |-> on, next |-> "later"] \in ScheduleRow
                 /\ [schedules[s] EXCEPT !.enabled = on] \in ScheduleRow
            BY <1>a DEF ScheduleRow
        <3>. QED BY <2>1, <3>1, <1>a, <1>b, Records DEF Changed
    <2>. QED BY <1>9, <2>1, <1>a DEF AgentApply
<1>. QED BY <1>1, <1>2, <1>3, <1>4, <1>5, <1>6, <1>7, <1>8, <1>9, ScheduleChange

LEMMA BudgetsTyped ==
    ASSUME TypeOK, [Next]_vars
    PROVE  budget' \in [Task -> 0 .. MAX_ACTIONS_PER_TURN] /\ applied' \in [Task -> Nat]
<1>a. budget \in [Task -> 0 .. MAX_ACTIONS_PER_TURN] /\ applied \in [Task -> Nat]
    BY DEF TypeOK
<1>1. CASE UNCHANGED <<budget, applied>>
    BY <1>1, <1>a
<1>2. CASE ReapWrite
    BY <1>2, <1>a, Parameters DEF ReapWrite, Forget
<1>3. CASE AppRestart
    BY <1>3, Parameters DEF AppRestart
<1>4. ASSUME NEW c \in AgentCall, AgentBudget(c) \/ AgentApply(c)
      PROVE  budget' \in [Task -> 0 .. MAX_ACTIONS_PER_TURN] /\ applied' \in [Task -> Nat]
    BY <1>4, <1>a, Parameters DEF AgentBudget, AgentApply, WithinBudget, history
<1>. QED BY <1>1, <1>2, <1>3, <1>4, BudgetChange

LEMMA HistoryTyped ==
    ASSUME TypeOK, WorkerOK, RequestsOK, [Next]_vars
    PROVE  steered' \subseteq Run /\ stray' \subseteq Task /\ steered \subseteq steered'
<1>a. steered \subseteq Run /\ stray \subseteq Task
    BY DEF TypeOK
<1>1. CASE UNCHANGED <<steered, stray>>
    BY <1>1, <1>a
<1>2. CASE Create
    BY <1>2, <1>a DEF Create
<1>3. CASE CancelUnclaimed
    BY <1>3, <1>a DEF CancelUnclaimed, AtWorker, WorkerOK
<1>4. CASE AppRestart
    BY <1>4, <1>a DEF AppRestart, AtWorker, WorkerOK
<1>5. ASSUME NEW q \in Requester, Steer(q)
      PROVE  steered' \subseteq Run /\ stray' \subseteq Task /\ steered \subseteq steered'
    BY <1>5, <1>a DEF Steer, AtRequest, RequestsOK
<1>. QED BY <1>1, <1>2, <1>3, <1>4, <1>5, HistoryChange

(* Request q's record becomes one of these; its other fields are those of  *)
(* NoRequest, except of a steer that was answered and of a stop.           *)
LEMMA RequestTyped ==
    ASSUME TypeOK, NEW q \in Requester, RequestStep(q)
    PROVE  request' \in [Requester -> RequestRecord]
<1>a. /\ request[q] \in RequestRecord /\ request \in [Requester -> RequestRecord]
      /\ runs \in [Run -> RunRow] /\ schedules \in [Schedule -> ScheduleRow]
      /\ task \in [Task -> TaskStatus]
    BY DEF TypeOK, RequestRecord
<1>b. \A record \in RequestRecord :
         request' = [request EXCEPT ![q] = record] => request' \in [Requester -> RequestRecord]
    BY <1>a
<1>c. \A pc \in RequestPC, tasks \in SUBSET TaskOrNone :
         [NoRequest EXCEPT !.pc = pc, !.tasks = tasks] \in RequestRecord
    BY Records DEF RequestRecord
<1>d. \A pc \in RequestPC : [NoRequest EXCEPT !.pc = pc] \in RequestRecord
    BY Records DEF RequestRecord
<1>e. \A S \in SUBSET Run : {runs[r].task : r \in S} \in SUBSET TaskOrNone
    BY <1>a DEF RunRow
<1>f. Answer(q) => request' \in [Requester -> RequestRecord]
    BY <1>b, Records DEF Answer
<1>g. \A pc \in RequestPC : Ask(q, pc) => request' \in [Requester -> RequestRecord]
    BY <1>b, <1>d DEF Ask
<1>1. CASE SendRead(q)
    <2>. DEFINE steerable == {x \in Having("active") : runs[x].host = "running"}
                pc == IF workspace.active THEN "send" ELSE "sendfirst"
                tasks == IF RunsOf("chat") \cap Having("pending") = {}
                           THEN {runs[r].task : r \in steerable} ELSE {}
    <2>1. steerable \in SUBSET Run
        BY DEF Having
    <2>2. tasks \in SUBSET TaskOrNone
        <3>. HIDE DEF steerable
        <3>. QED BY <2>1, <1>e
    <2>3. pc \in RequestPC
        BY DEF RequestPC
    <2>4. request' = [request EXCEPT ![q] = [NoRequest EXCEPT !.pc = pc, !.tasks = tasks]]
        BY <1>1 DEF SendRead
    <2>. HIDE DEF pc, tasks
    <2>. QED BY <2>2, <2>3, <2>4, <1>b, <1>c
<1>2. CASE SendCommit(q)
    <2>1. PICK r \in Run : request' = [request EXCEPT ![q] =
              IF request[q].tasks = {} THEN NoRequest
              ELSE [NoRequest EXCEPT !.pc = "steer", !.run = r, !.tasks = request[q].tasks]]
        BY <1>2 DEF SendCommit
    <2>2. [NoRequest EXCEPT !.pc = "steer", !.run = r, !.tasks = request[q].tasks] \in RequestRecord
        BY <1>a, Records DEF RequestRecord, RequestPC
    <2>. QED BY <2>1, <2>2, <1>b, Records
<1>3. CASE Steer(q)
    <2>1. [request[q] EXCEPT !.pc = "mark"] \in RequestRecord
        BY <1>a DEF RequestRecord, RequestPC
    <2>. QED BY <1>3, <2>1, <1>a, <1>f DEF Steer, RequestPC, RequestRecord
<1>4. CASE MarkSteered(q)
    BY <1>4, <1>f DEF MarkSteered
<1>5. CASE ActivateRead(q)
    BY <1>5, <1>g DEF ActivateRead, RequestPC
<1>6. CASE ActivateCommit(q)
    BY <1>6, <1>f DEF ActivateCommit
<1>7. CASE Deactivate(q)
    <2>1. Having("active") \in SUBSET Run /\ "stop" \in RequestPC
        BY DEF Having, RequestPC
    <2>. QED BY <1>7, <2>1, <1>b, <1>c, <1>e DEF Deactivate
<1>8. CASE StopGet(q)
    <2>1. ASSUME NEW t \in request[q].tasks \cap Live
          PROVE  [request[q] EXCEPT !.pc = "stopping", !.tasks = {t}, !.seen = task[t]]
                    \in RequestRecord
        BY <1>a DEF RequestRecord, RequestPC, Live, TaskOrNone
    <2>2. \A t \in request[q].tasks \cap Live :
             [request EXCEPT ![q].pc = "stopping", ![q].tasks = {t}, ![q].seen = task[t]]
             = [request EXCEPT ![q] =
                  [request[q] EXCEPT !.pc = "stopping", !.tasks = {t}, !.seen = task[t]]]
        BY <1>a
    <2>. QED BY <1>8, <2>1, <2>2, <1>b, <1>f DEF StopGet
<1>9. CASE StopPost(q)
    BY <1>9, <1>f DEF StopPost
<1>10. CASE SettingsRead(q)
    BY <1>10, <1>g DEF SettingsRead, RequestPC
<1>11. CASE SettingsCommit(q)
    BY <1>11, <1>f DEF SettingsCommit
<1>12. CASE PauseCommit(q)
    BY <1>12, <1>f DEF PauseCommit
<1>13. CASE ResumeCommit(q)
    BY <1>13, <1>f DEF ResumeCommit
<1>14. ASSUME NEW r \in Run, StopOneTask(q, r) PROVE request' \in [Requester -> RequestRecord]
    <2>1. {runs[r].task} \in SUBSET TaskOrNone /\ "stop" \in RequestPC
        BY <1>a DEF RunRow, RequestPC
    <2>. QED BY <1>14, <2>1, <1>b, <1>c DEF StopOneTask
<1>15. ASSUME NEW r \in Run, Discard(q, r) PROVE request' \in [Requester -> RequestRecord]
    BY <1>15, <1>a DEF Discard
<1>16. ASSUME NEW s \in Schedule, ToggleRead(q, s) PROVE request' \in [Requester -> RequestRecord]
    <2>. DEFINE pc == IF schedules[s].enabled THEN "pause" ELSE "resume"
    <2>1. pc \in RequestPC /\ s \in Kind
        BY DEF RequestPC, Kind
    <2>. HIDE DEF pc
    <2>2. [NoRequest EXCEPT !.schedule = s, !.row = schedules[s], !.pc = pc] \in RequestRecord
        BY <2>1, <1>a, Records DEF RequestRecord
    <2>. QED BY <1>16, <2>2, <1>b DEF ToggleRead, pc
<1>17. ASSUME NEW s \in Schedule, DeleteSchedule(q, s)
       PROVE  request' \in [Requester -> RequestRecord]
    BY <1>17, <1>a DEF DeleteSchedule
<1>. QED BY <1>1, <1>2, <1>3, <1>4, <1>5, <1>6, <1>7, <1>8, <1>9, <1>10, <1>11, <1>12,
    <1>13, <1>14, <1>15, <1>16, <1>17 DEF RequestStep

LEMMA AgentTyped ==
    ASSUME TypeOK, NEW c \in AgentCall, AgentStep(c)
    PROVE  agent' \in [AgentCall -> CallRecord]
<1>a. agent \in [AgentCall -> CallRecord] /\ runs \in [Run -> RunRow]
    BY DEF TypeOK, CallRecord
<1>1. ASSUME NEW t \in Task, AgentRoute(c, t) PROVE agent' \in [AgentCall -> CallRecord]
    <2>1. PICK r \in Run : agent' = [agent EXCEPT ![c] =
              [NoCall EXCEPT !.pc = "budget", !.task = runs[r].task]]
        BY <1>1 DEF AgentRoute
    <2>2. [NoCall EXCEPT !.pc = "budget", !.task = runs[r].task] \in CallRecord
        BY <1>a, Records DEF CallRecord, RunRow
    <2>. QED BY <2>1, <2>2, <1>a
<1>2. CASE AgentBudget(c) \/ AgentVerify(c) \/ AgentApply(c)
    BY <1>2, <1>a, Records DEF AgentBudget, AgentVerify, AgentApply, Hang, CallRecord
<1>. QED BY <1>1, <1>2 DEF AgentStep

LEMMA TypeStep ==
    ASSUME TypeOK, WorkerOK, RunsOK, RequestsOK, [Next]_vars
    PROVE  TypeOK'
<1>1. worker' \in WorkerRecord
    BY WorkerTyped, WorkerChange, Records DEF AppRestart, TypeOK, WorkerRecord
<1>2. request' \in [Requester -> RequestRecord]
    BY RequestTyped, RequestChange, Records DEF AppRestart, TypeOK, RequestRecord
<1>3. agent' \in [AgentCall -> CallRecord]
    BY AgentTyped, AgentChange, Records DEF AppRestart, TypeOK, CallRecord
<1>. QED BY <1>1, <1>2, <1>3, RunsTyped, HostMoves, WorkspaceTyped, SchedulesTyped,
    BudgetsTyped,
            HistoryTyped
     DEF TypeOK, WorkerRecord, RequestRecord, CallRecord

-----------------------------------------------------------------------------
(* How runs move                                                           *)

\* A run keeps its kind, and from its dispatch on its task and thread.
Keeps(r) ==
    /\ runs[r].status # "absent" =>
          runs'[r].status # "absent" /\ runs'[r].kind = runs[r].kind
    /\ runs[r].status \in {"active", "done"} =>
          /\ runs'[r].status \in {"active", "done"}
          /\ runs'[r].task = runs[r].task /\ runs'[r].thread = runs[r].thread

LEMMA RunsKeep ==
    ASSUME TypeOK, WorkerOK, RequestsOK, [Next]_vars
    PROVE  \A r \in Run : Keeps(r)
<1>a. runs \in [Run -> RunRow]
    BY DEF TypeOK
<1>b. ASSUME NEW x \in Run, NEW how, Finish(x, how), runs[x].status # "absent"
      PROVE  \A r \in Run : Keeps(r)
    BY <1>a, <1>b DEF Finish, Keeps, RunRow
<1>c. ASSUME NEW x \in Run, NEW k, Insert(x, k), Fresh(x) PROVE \A r \in Run : Keeps(r)
    BY <1>a, <1>c DEF Insert, Fresh, Keeps, RunRow
<1>d. UNCHANGED runs => \A r \in Run : Keeps(r)
    BY DEF Keeps
<1>1. CASE ReapWrite
    <2>1. worker.run \in Run /\ runs[worker.run].status # "absent"
        BY <1>1 DEF ReapWrite, AtWorker, WorkerOK, Reaping, Having
    <2>2. CASE Finish(worker.run, "ended")
        BY <2>1, <2>2, <1>b
    <2>3. CASE runs' = [runs EXCEPT ![worker.run].host = worker.seen]
        BY <2>1, <2>3, <1>a DEF Keeps, RunRow
    <2>. QED BY <1>1, <2>2, <2>3 DEF ReapWrite
<1>2. CASE Compose
    <2>1. worker.run \in Run /\ runs[worker.run].status # "absent"
        BY <1>2 DEF Compose, AtWorker, WorkerOK, Dispatching, Having
    <2>. QED BY <1>2, <2>1, <1>b, <1>d DEF Compose
<1>3. CASE Claim
    <2>1. worker.run \in Run
        BY <1>3 DEF Claim, AtWorker, WorkerOK, Dispatching, Having
    <2>2. CASE Claimed(worker.run) /\ runs[worker.run].status = "pending"
        BY <2>1, <2>2, <1>a DEF Claimed, Keeps, RunRow
    <2>. QED BY <1>3, <2>2, <1>d DEF Claim
<1>4. ASSUME NEW s \in Schedule, Fire(s) PROVE \A r \in Run : Keeps(r)
    BY <1>4, <1>c, <1>d DEF Fire
<1>5. ASSUME NEW q \in Requester, SendCommit(q) PROVE \A r \in Run : Keeps(r)
    BY <1>5, <1>c DEF SendCommit
<1>6. ASSUME NEW q \in Requester, MarkSteered(q) PROVE \A r \in Run : Keeps(r)
    BY <1>6, <1>b, <1>d DEF MarkSteered, AtRequest, RequestsOK
<1>7. ASSUME NEW q \in Requester, Deactivate(q) PROVE \A r \in Run : Keeps(r)
    BY <1>7, <1>a DEF Deactivate, Keeps, RunRow
<1>8. ASSUME NEW q \in Requester, NEW r \in Run, Discard(q, r) PROVE \A x \in Run : Keeps(x)
    BY <1>8, <1>b DEF Discard
<1>. QED BY <1>1, <1>2, <1>3, <1>4, <1>5, <1>6, <1>7, <1>8, <1>d, RunsChange

(* Only the worker activates and ends runs, one at a time.                 *)
LEMMA ActiveMoves ==
    ASSUME TypeOK, WorkerOK, [Next]_vars
    PROVE  \/ Having("active")' = Having("active")
           \/ /\ ReapWrite /\ worker.seen \in HOST_TASK_STATUSES_TERMINAL
              /\ Having("active")' = Having("active") \ {worker.run}
           \/ /\ Claim /\ Claimed(worker.run) /\ worker.run \in Having("pending")
              /\ Having("active")' = {worker.run}
<1>a. runs \in [Run -> RunRow]
    BY DEF TypeOK
<1>b. ASSUME NEW x \in Run, NEW how, Finish(x, how), runs[x].status # "active"
      PROVE  Having("active")' = Having("active")
    BY <1>a, <1>b DEF Finish, Having, RunRow
<1>c. ASSUME NEW x \in Run, NEW k, Insert(x, k), Fresh(x)
      PROVE  Having("active")' = Having("active")
    BY <1>a, <1>c DEF Insert, Fresh, Having, RunRow, NoRun
<1>d. UNCHANGED runs => Having("active")' = Having("active")
    BY DEF Having
<1>1. CASE ReapWrite
    <2>1. worker.run \in Run
        BY <1>1 DEF ReapWrite, AtWorker, WorkerOK, Reaping, Having
    <2>2. CASE Finish(worker.run, "ended") /\ worker.seen \in HOST_TASK_STATUSES_TERMINAL
        <3>1. Having("active")' = Having("active") \ {worker.run}
            BY <2>1, <2>2, <1>a DEF Finish, Having, RunRow
        <3>. QED BY <1>1, <2>2, <3>1
    <2>3. CASE runs' = [runs EXCEPT ![worker.run].host = worker.seen]
        <3>1. Having("active")' = Having("active")
            BY <2>1, <2>3, <1>a DEF Having, RunRow
        <3>. QED BY <3>1
    <2>. QED BY <1>1, <2>2, <2>3 DEF ReapWrite
<1>2. CASE Compose
    <2>1. worker.run \in Run /\ runs[worker.run].status # "active"
        BY <1>2 DEF Compose, AtWorker, WorkerOK, Dispatching, Having
    <2>. QED BY <1>2, <2>1, <1>b, <1>d DEF Compose
<1>3. CASE Claim
    <2>1. worker.run \in Run /\ Having("active") = {}
        BY <1>3 DEF Claim, AtWorker, WorkerOK, Dispatching, Having
    <2>2. CASE Claimed(worker.run) /\ runs[worker.run].status = "pending"
        <3>1. Having("active")' = {worker.run}
            BY <2>1, <2>2, <1>a DEF Claimed, Having, RunRow
        <3>. QED BY <1>3, <2>1, <2>2, <3>1 DEF Having
    <2>. QED BY <1>3, <2>2, <1>d DEF Claim
<1>4. ASSUME NEW s \in Schedule, Fire(s) PROVE Having("active")' = Having("active")
    BY <1>4, <1>c, <1>d DEF Fire
<1>5. ASSUME NEW q \in Requester, SendCommit(q) PROVE Having("active")' = Having("active")
    BY <1>5, <1>c DEF SendCommit
<1>6. ASSUME NEW q \in Requester, MarkSteered(q) PROVE Having("active")' = Having("active")
    <2>1. CASE UNCHANGED runs
        BY <2>1, <1>d
    <2>2. CASE Finish(request[q].run, "steered") /\ runs[request[q].run].status = "pending"
        BY <2>2, <1>a DEF Finish, Having, RunRow
    <2>. QED BY <1>6, <2>1, <2>2 DEF MarkSteered
<1>7. ASSUME NEW q \in Requester, Deactivate(q) PROVE Having("active")' = Having("active")
    BY <1>7, <1>a DEF Deactivate, Having, RunRow
<1>8. ASSUME NEW q \in Requester, NEW r \in Run, Discard(q, r)
      PROVE  Having("active")' = Having("active")
    BY <1>8, <1>b DEF Discard
<1>. QED BY <1>1, <1>2, <1>3, <1>4, <1>5, <1>6, <1>7, <1>8, <1>d, RunsChange

LEMMA RunsOKStep ==
    ASSUME TypeOK, WorkerOK, RunsOK, RequestsOK, OneTurn, [Next]_vars
    PROVE  RunsOK' /\ OneTurn'
<1>1. ASSUME NEW r \in Having("active")', r \in Having("active")
      PROVE  runs'[r].task \in Task /\ task'[runs'[r].task] # "absent"
    <2>1. r \in Run /\ runs[r].status = "active"
        BY <1>1 DEF Having
    <2>2. runs'[r].task = runs[r].task
        BY <2>1, RunsKeep DEF Keeps
    <2>. QED BY <1>1, <2>2, HostMoves DEF RunsOK
<1>2. ASSUME Claim, Claimed(worker.run), worker.run \in Having("pending")
      PROVE  runs'[worker.run].task \in Task /\ task'[runs'[worker.run].task] # "absent"
    <2>1. runs'[worker.run].task = worker.task
        BY <1>2 DEF Claimed, Having, TypeOK, RunRow
    <2>2. worker.task \in Task /\ task[worker.task] # "absent"
        BY <1>2 DEF Claim, AtWorker, WorkerOK
    <2>. QED BY <2>1, <2>2, HostMoves
<1>3. RunsOK'
    BY <1>1, <1>2, ActiveMoves DEF RunsOK
<1>4. OneTurn'
    BY ActiveMoves DEF OneTurn
<1>. QED BY <1>3, <1>4

-----------------------------------------------------------------------------
(* What the parties may rely on                                            *)

LEMMA WorkerOKStep ==
    ASSUME TypeOK, WorkerOK, RunsOK, RequestsOK, [Next]_vars
    PROVE  WorkerOK'
<1>a. runs \in [Run -> RunRow] /\ task \in [Task -> TaskStatus] /\ worker \in WorkerRecord
    BY DEF TypeOK, WorkerRecord
<1>b. ASSUME worker'.todo \subseteq Having("active")', ~Reaping', ~Dispatching'
      PROVE  WorkerOK'
    BY <1>b DEF WorkerOK, Reaping, Dispatching
<1>c. Tick.pc = "tick" /\ Tick.todo = {}
    BY DEF Tick
<1>d. NextTick => WorkerOK'
    BY <1>b, <1>c DEF NextTick, Reaping, Dispatching
<1>e. \A r \in Run : runs[r].status # "absent" =>
         r \in Having("pending")' \cup Having("active")' \cup Having("done")'
    BY RunsKeep, RunsTyped DEF Keeps, Having, RunRow
<1>1. CASE UNCHANGED worker
    <2>1. Having("active")' = Having("active")
        <3>1. ~ReapWrite
            BY <1>1, <1>a DEF ReapWrite, ReapOn, AtWorker, Tick, WorkerRecord
        <3>2. ~(Claim /\ Claimed(worker.run) /\ worker.run \in Having("pending"))
            BY <1>1 DEF Claim, Having, NextTick, AtWorker, Tick
        <3>. QED BY <3>1, <3>2, ActiveMoves
    <2>2. ASSUME Reaping
          PROVE  /\ runs'[worker.run].task = worker.task
                 /\ worker.seen \in HOST_TASK_STATUSES_TERMINAL =>
                       task'[worker.task] \in HOST_TASK_STATUSES_TERMINAL
        BY <2>2, RunsKeep, HostMoves DEF WorkerOK, Having, Keeps
    <2>3. ASSUME Dispatching
          PROVE  worker.run \in Having("pending")' \cup Having("done")'
        BY <2>1, <2>3, <1>e DEF WorkerOK, Having
    <2>4. worker.pc \in {"claim", "unclaim"} =>
             worker.task \in Task /\ task'[worker.task] # "absent"
        BY HostMoves DEF WorkerOK
    <2>. QED BY <1>1, <2>1, <2>2, <2>3, <2>4 DEF WorkerOK, Reaping, Dispatching
<1>2. CASE AppRestart
    BY <1>2, <1>b, <1>c DEF AppRestart, Reaping, Dispatching
<1>3. CASE ReapSnapshot
    BY <1>3, <1>b DEF ReapSnapshot, Tick, Reaping, Dispatching, Having, dbVars
<1>4. CASE ReapNone
    BY <1>4, <1>b DEF ReapNone, Tick, Reaping, Dispatching
<1>5. ASSUME NEW r \in Run, ReapUnreachable(r) PROVE WorkerOK'
    BY <1>5, <1>a, <1>b DEF ReapUnreachable, AtWorker, WorkerOK, Reaping, Dispatching,
        Having, dbVars,
       WorkerRecord
<1>6. ASSUME NEW r \in Run, ReapGet(r) PROVE WorkerOK'
    <2>1. /\ worker'.run = r /\ worker'.todo = worker.todo \ {r}
          /\ worker'.task = runs[r].task /\ worker'.seen = task[runs[r].task]
          /\ worker'.pc \in {"reapstop", "reapwrite"}
        BY <1>6, <1>a DEF ReapGet, WorkerRecord
    <2>2. r \in Having("active") /\ worker.todo \subseteq Having("active")
        BY <1>6 DEF ReapGet, WorkerOK
    <2>3. UNCHANGED <<runs, task>>
        BY <1>6 DEF ReapGet, dbVars, hostVars
    <2>4. runs[r].task \in Task /\ task[runs[r].task] # "absent"
        BY <2>2 DEF RunsOK
    <2>. QED BY <2>1, <2>2, <2>3, <2>4 DEF WorkerOK, Reaping, Dispatching, Having
<1>7. CASE ReapStop
    <2>1. UNCHANGED runs
        BY <1>7 DEF ReapStop, dbVars
    <2>2. CASE worker' = [worker EXCEPT !.pc = "reapwrite"]
        <3>1. /\ worker'.run = worker.run /\ worker'.todo = worker.todo /\ worker'.pc = "reapwrite"
              /\ worker'.task = worker.task /\ worker'.seen = worker.seen
            BY <2>2, <1>a DEF WorkerRecord
        <3>2. Reaping
            BY <1>7 DEF ReapStop, AtWorker, Reaping
        <3>. QED BY <2>1, <3>1, <3>2, HostMoves DEF WorkerOK, Reaping, Dispatching, Having
    <2>3. CASE ReapOn
        BY <2>1, <2>3, <1>b DEF ReapOn, Tick, WorkerOK, Reaping, Dispatching, Having
    <2>. QED BY <1>7, <2>2, <2>3 DEF ReapStop, Goto
<1>8. CASE ReapWrite
    <2>1. worker.run \notin worker.todo /\ worker.todo \subseteq Having("active")
        BY <1>8 DEF ReapWrite, AtWorker, WorkerOK, Reaping
    <2>2. ~Claim
        BY <1>8 DEF ReapWrite, Claim, AtWorker
    <2>3. worker'.todo = worker.todo /\ worker'.pc = "reap"
        BY <1>8 DEF ReapWrite, ReapOn, Tick
    <2>. QED BY <2>1, <2>2, <2>3, <1>b, ActiveMoves DEF Reaping, Dispatching
<1>9. CASE FireRead \/ FireDone
    <2>1. worker'.todo = worker.todo /\ worker'.pc \in {"firing", "pick"} /\ UNCHANGED runs
        BY <1>9, <1>a DEF FireRead, FireDone, Goto, WorkerRecord, dbVars
    <2>. QED BY <2>1, <1>b DEF WorkerOK, Reaping, Dispatching, Having
<1>10. ASSUME NEW s \in Schedule, Fire(s) PROVE WorkerOK'
    <2>1. worker'.todo = worker.todo /\ worker'.pc = "firing" /\ ~ReapWrite /\ ~Claim
        BY <1>10, <1>a DEF Fire, AtWorker, ReapWrite, Claim, WorkerRecord
    <2>. QED BY <2>1, <1>b, ActiveMoves DEF WorkerOK, Reaping, Dispatching
<1>11. CASE Pick
    <2>1. ASSUME Having("active") = {}, NEW r \in Run, Oldest(r),
                 worker' = [Tick EXCEPT !.pc = "compose", !.run = r]
          PROVE  WorkerOK'
        <3>1. worker'.pc = "compose" /\ worker'.run = r /\ worker'.todo = {}
            BY <2>1 DEF Tick
        <3>2. UNCHANGED runs
            BY <1>11 DEF Pick, dbVars
        <3>. QED BY <2>1, <3>1, <3>2 DEF Oldest, WorkerOK, Reaping, Dispatching, Having
    <2>. QED BY <1>11, <2>1, <1>d DEF Pick
<1>12. CASE Compose
    <2>1. CASE worker' = [worker EXCEPT !.pc = "create", !.thread = workspace.seq] /\ UNCHANGED runs
        <3>1. worker'.pc = "create" /\ worker'.run = worker.run /\ worker'.todo = worker.todo
            BY <2>1, <1>a DEF WorkerRecord
        <3>2. Dispatching
            BY <1>12 DEF Compose, AtWorker, Dispatching
        <3>. QED BY <2>1, <3>1, <3>2 DEF WorkerOK, Reaping, Dispatching, Having
    <2>. QED BY <1>12, <2>1, <1>d DEF Compose
<1>13. CASE Create
    <2>1. ASSUME NEW t \in Task, Host!Submit(t, worker.thread),
                 worker' = [worker EXCEPT !.pc = "claim", !.task = t]
          PROVE  WorkerOK'
        <3>1. /\ worker'.pc = "claim" /\ worker'.run = worker.run /\ worker'.todo = worker.todo
              /\ worker'.task = t
            BY <2>1, <1>a DEF WorkerRecord
        <3>2. Dispatching /\ UNCHANGED runs
            BY <1>13 DEF Create, AtWorker, Dispatching, dbVars
        <3>3. task'[t] # "absent"
            BY <2>1, <1>a DEF Host!Submit
        <3>. QED BY <3>1, <3>2, <3>3 DEF WorkerOK, Reaping, Dispatching, Having
    <2>. QED BY <1>13, <2>1, <1>d DEF Create
<1>14. CASE Claim
    <2>1. CASE worker' = [worker EXCEPT !.pc = "unclaim"] /\ UNCHANGED runs
        <3>1. /\ worker'.pc = "unclaim" /\ worker'.run = worker.run /\ worker'.todo = worker.todo
              /\ worker'.task = worker.task
            BY <2>1, <1>a DEF WorkerRecord
        <3>2. Dispatching /\ worker.pc = "claim"
            BY <1>14 DEF Claim, AtWorker, Dispatching
        <3>. QED BY <2>1, <3>1, <3>2, HostMoves DEF WorkerOK, Reaping, Dispatching, Having
    <2>. QED BY <1>14, <2>1, <1>d DEF Claim, Goto
<1>15. CASE CancelUnclaimed
    BY <1>15, <1>d DEF CancelUnclaimed
<1>. QED BY <1>1, <1>2, <1>3, <1>4, <1>5, <1>6, <1>7, <1>8, <1>9, <1>10, <1>11, <1>12,
    <1>13, <1>14, <1>15, WorkerChange
     DEF WorkerStep

LEMMA RequestsOKStep ==
    ASSUME TypeOK, WorkerOK, RequestsOK, [Next]_vars
    PROVE  RequestsOK'
<1>a. request \in [Requester -> RequestRecord] /\ runs \in [Run -> RunRow]
    BY DEF TypeOK, RequestRecord
<1>. DEFINE OK(p) == /\ p.pc \in {"steer", "mark"} =>
                           /\ p.run \in Run
                           /\ runs'[p.run].status # "absent" /\ runs'[p.run].kind = "chat"
                     /\ p.pc = "mark" => p.run \in steered'
<1>b. \A x \in Requester : OK(request[x])
    BY RunsKeep, HistoryTyped DEF RequestsOK, AtRequest, Keeps
<1>c. (\A x \in Requester : OK(request'[x])) => RequestsOK'
    BY DEF RequestsOK, AtRequest
<1>1. UNCHANGED request => RequestsOK'
    BY <1>b, <1>c
<1>2. CASE AppRestart
    BY <1>2, <1>c DEF AppRestart, NoRequest
<1>3. ASSUME NEW q \in Requester, RequestStep(q) PROVE RequestsOK'
    <2>. HIDE DEF OK
    <2>1. ASSUME NEW p, request' = [request EXCEPT ![q] = p], OK(p) PROVE RequestsOK'
        <3>1. \A x \in Requester : request'[x] = IF x = q THEN p ELSE request[x]
            BY <2>1, <1>a
        <3>. QED BY <2>1, <3>1, <1>b, <1>c
    <2>2. ASSUME NEW p, request' = [request EXCEPT ![q] = p], p.pc \notin {"steer", "mark"}
          PROVE  RequestsOK'
        BY <2>1, <2>2 DEF OK
    <2>3. Answer(q) => RequestsOK'
        BY <2>2 DEF Answer, NoRequest
    <2>4. \A pc \in RequestPC \ {"steer", "mark"} : Ask(q, pc) => RequestsOK'
        BY <2>2 DEF Ask, NoRequest
    <2>5. CASE SendRead(q)
        <3>1. PICK tasks : request' = [request EXCEPT ![q] = [NoRequest EXCEPT
                  !.pc = IF workspace.active THEN "send" ELSE "sendfirst", !.tasks = tasks]]
            BY <2>5, Zenon DEF SendRead
        <3>. DEFINE p == [NoRequest EXCEPT
                  !.pc = IF workspace.active THEN "send" ELSE "sendfirst", !.tasks = tasks]
        <3>2. p.pc \in {"send", "sendfirst"}
            BY DEF NoRequest
        <3>. HIDE DEF p
        <3>3. request' = [request EXCEPT ![q] = p]
            BY <3>1 DEF p
        <3>. QED BY <3>2, <3>3, <2>2
    <2>6. CASE SendCommit(q)
        <3>1. PICK r \in Run : /\ Fresh(r) /\ Insert(r, "chat")
                              /\ request' = [request EXCEPT ![q] = IF request[q].tasks = {}
                                    THEN NoRequest
                                    ELSE [NoRequest EXCEPT !.pc = "steer", !.run = r,
                                                           !.tasks = request[q].tasks]]
            BY <2>6 DEF SendCommit
        <3>2. runs'[r].status = "pending" /\ runs'[r].kind = "chat"
            BY <3>1, <1>a DEF Insert, NoRun
        <3>. DEFINE p == [NoRequest EXCEPT !.pc = "steer", !.run = r, !.tasks = request[q].tasks]
        <3>3. p.pc = "steer" /\ p.run = r
            BY DEF NoRequest
        <3>4. OK(p)
            BY <3>2, <3>3 DEF OK
        <3>5. CASE request' = [request EXCEPT ![q] = p]
            BY <3>4, <3>5, <2>1
        <3>. QED BY <3>1, <3>5, <2>3 DEF Answer
    <2>7. CASE Steer(q)
        <3>1. CASE /\ steered' = steered \cup {request[q].run}
                   /\ request' = [request EXCEPT ![q].pc = "mark"]
            <4>. DEFINE p == [request[q] EXCEPT !.pc = "mark"]
            <4>1. request' = [request EXCEPT ![q] = p] /\ p.run = request[q].run
                BY <3>1, <1>a DEF RequestRecord
            <4>2. OK(p)
                <5>1. request[q].pc = "steer"
                    BY <2>7, Zenon DEF Steer, AtRequest
                <5>2. OK(request[q])
                    BY <1>b
                <5>3. p.run \in steered'
                    BY <3>1, <4>1
                <5>. QED BY <4>1, <5>1, <5>2, <5>3 DEF OK
            <4>. HIDE DEF p
            <4>. QED BY <4>1, <4>2, <2>1
        <3>. QED BY <2>7, <3>1, <2>3 DEF Steer
    <2>8. CASE MarkSteered(q) \/ ActivateCommit(q) \/ StopPost(q) \/ SettingsCommit(q)
               \/ PauseCommit(q) \/ ResumeCommit(q)
        BY <2>3, <2>8 DEF MarkSteered, ActivateCommit, StopPost, SettingsCommit,
            PauseCommit, ResumeCommit
    <2>9. CASE ActivateRead(q) \/ SettingsRead(q)
        BY <2>4, <2>9 DEF ActivateRead, SettingsRead, RequestPC
    <2>10. CASE Deactivate(q)
        BY <2>2, <2>10 DEF Deactivate, NoRequest
    <2>11. CASE StopGet(q)
        <3>1. ASSUME NEW t, request' = [request EXCEPT ![q].pc = "stopping", ![q].tasks = {t},
                                                       ![q].seen = task[t]]
              PROVE  RequestsOK'
            <4>1. request' = [request EXCEPT ![q] =
                     [request[q] EXCEPT !.pc = "stopping", !.tasks = {t}, !.seen = task[t]]]
                BY <3>1, <1>a
            <4>. QED BY <4>1, <1>a, <2>2 DEF RequestRecord
        <3>. QED BY <2>3, <2>11, <3>1 DEF StopGet
    <2>12. ASSUME NEW r \in Run, StopOneTask(q, r) PROVE RequestsOK'
        BY <2>2, <2>12 DEF StopOneTask, NoRequest
    <2>13. ASSUME NEW s \in Schedule, ToggleRead(q, s) PROVE RequestsOK'
        <3>. DEFINE p == [NoRequest EXCEPT !.schedule = s, !.row = schedules[s],
                            !.pc = IF schedules[s].enabled THEN "pause" ELSE "resume"]
        <3>1. p.pc \in {"pause", "resume"}
            BY DEF NoRequest
        <3>2. request' = [request EXCEPT ![q] = p]
            BY <2>13, Zenon DEF ToggleRead
        <3>. HIDE DEF p
        <3>. QED BY <3>1, <3>2, <2>2
    <2>14. ASSUME NEW r \in Run, Discard(q, r) PROVE RequestsOK'
        BY <1>1, <2>14 DEF Discard
    <2>15. ASSUME NEW s \in Schedule, DeleteSchedule(q, s) PROVE RequestsOK'
        BY <1>1, <2>15 DEF DeleteSchedule
    <2>. QED BY <1>3, <2>5, <2>6, <2>7, <2>8, <2>9, <2>10, <2>11, <2>12, <2>13, <2>14, <2>15
        DEF RequestStep
<1>. QED BY <1>1, <1>2, <1>3, RequestChange

LEMMA AgentsOKStep ==
    ASSUME TypeOK, WorkerOK, RequestsOK, AgentsOK, [Next]_vars
    PROVE  AgentsOK'
<1>a. agent \in [AgentCall -> CallRecord] /\ runs' \in [Run -> RunRow]
    BY RunsTyped DEF TypeOK, CallRecord
<1>. DEFINE Vouched(t) == \E r \in Having("active")' \cup Having("done")' :
                             runs'[r].task = t /\ runs'[r].thread = workspace'.seq
<1>b. ASSUME UNCHANGED workspace, NEW r \in Having("active") \cup Having("done"),
             runs[r].thread = workspace.seq
      PROVE  Vouched(runs[r].task)
    BY <1>a, <1>b, RunsKeep DEF Keeps, Having, RunRow
<1>1. CASE AppRestart
    BY <1>1 DEF AppRestart, AgentsOK, AtAgent, NoCall
<1>2. CASE UNCHANGED agent
    <2>1. UNCHANGED workspace \/ Unshared
        BY WorkspaceChange DEF SendCommit, ActivateCommit, Deactivate, SettingsCommit,
            EnsureWorkspace
    <2>2. CASE UNCHANGED workspace
        BY <1>2, <2>2, <1>b DEF AgentsOK, AtAgent
    <2>3. CASE Unshared
        BY <1>2, <2>3 DEF AgentsOK, AtAgent, Unshared
    <2>. QED BY <2>1, <2>2, <2>3
<1>3. ASSUME NEW c \in AgentCall, AgentStep(c) PROVE AgentsOK'
    <2>1. UNCHANGED workspace
        BY <1>3 DEF AgentStep, AgentRoute, AgentBudget, AgentVerify, AgentApply, dbVars
    <2>2. ASSUME NEW d \in AgentCall, AtAgent(d, "apply")' PROVE Vouched(agent'[d].task)
        <3>1. CASE AtAgent(d, "apply") /\ agent'[d] = agent[d]
            BY <3>1, <2>1, <1>b DEF AgentsOK
        <3>2. CASE d = c /\ AgentVerify(c)
            <4>1. agent'[d].task = agent[c].task /\ Authorised(agent[c].task)
                BY <2>2, <3>2, <1>a DEF AgentVerify, AtAgent, Hang, NoCall, CallRecord
            <4>2. PICK r \in Run : runs[r].task = agent[c].task /\ Current(r)
                BY <4>1 DEF Authorised
            <4>. QED BY <4>1, <4>2, <2>1, <1>b DEF Current, Having
        <3>3. CASE d # c
            <4>1. PICK call : agent' = [agent EXCEPT ![c] = call]
                <5>1. ASSUME NEW t \in Task, AgentRoute(c, t)
                      PROVE  \E call : agent' = [agent EXCEPT ![c] = call]
                    BY <5>1, Zenon DEF AgentRoute
                <5>2. agent \in [AgentCall -> CallRecord]
                    BY <1>a
                <5>3. CASE AgentBudget(c) \/ AgentVerify(c) \/ AgentApply(c)
                    BY <5>2, <5>3 DEF AgentBudget, AgentVerify, AgentApply, Hang
                <5>. QED BY <1>3, <5>1, <5>3 DEF AgentStep
            <4>2. agent'[d] = agent[d]
                BY <4>1, <3>3, <1>a
            <4>. QED BY <4>2, <2>2, <3>1 DEF AtAgent
        <3>4. CASE d = c /\ ~AgentVerify(c)
            <4>1. ASSUME NEW t \in Task, AgentRoute(c, t) PROVE ~AtAgent(c, "apply")'
                BY <4>1, <1>a DEF AgentRoute, AtAgent, NoCall
            <4>2. CASE AgentBudget(c)
                BY <2>2, <3>4, <4>2, <1>a DEF AgentBudget, AtAgent, Hang, NoCall, CallRecord
            <4>3. CASE AgentApply(c)
                BY <2>2, <3>4, <4>3, <1>a DEF AgentApply, AtAgent, Hang, NoCall
            <4>. QED BY <1>3, <2>2, <3>4, <4>1, <4>2, <4>3 DEF AgentStep
        <3>. QED BY <3>2, <3>3, <3>4
    <2>. QED BY <2>2 DEF AgentsOK
<1>. QED BY <1>1, <1>2, <1>3, AgentChange

-----------------------------------------------------------------------------
(* The properties                                                          *)

(* A run waits or runs for a schedule that had none, or did before.        *)
LEMMA ApartStep ==
    ASSUME TypeOK, WorkerOK, RequestsOK, Apart, [Next]_vars
    PROVE  Apart'
<1>a. runs \in [Run -> RunRow]
    BY DEF TypeOK
<1>b. ASSUME \A r \in Run : r \in NotDone' => r \in NotDone /\ runs'[r].kind = runs[r].kind
      PROVE  Apart'
    BY <1>b DEF Apart, RunsOf, NotDone, Having
<1>c. ASSUME NEW x \in Run, NEW how, Finish(x, how) PROVE Apart'
    BY <1>a, <1>b, <1>c DEF Finish, NotDone, Having, RunRow
<1>d. ASSUME NEW x \in Run, NEW k, Insert(x, k)
      PROVE  /\ runs'[x].kind = k
             /\ \A r \in Run \ {x} : runs'[r] = runs[r]
             /\ \A r \in Run \ {x} : r \in NotDone' => r \in NotDone
    BY <1>a, <1>d DEF Insert, NoRun, NotDone, Having
<1>1. CASE UNCHANGED runs
    BY <1>1, <1>b DEF NotDone, Having
<1>2. CASE ReapWrite
    <2>1. worker.run \in Run
        BY <1>2 DEF ReapWrite, AtWorker, WorkerOK, Reaping, Having
    <2>2. CASE runs' = [runs EXCEPT ![worker.run].host = worker.seen]
        BY <2>1, <2>2, <1>a, <1>b DEF NotDone, Having, RunRow
    <2>. QED BY <1>2, <2>1, <2>2, <1>c DEF ReapWrite
<1>3. CASE Compose
    <2>1. worker.run \in Run
        BY <1>3 DEF Compose, AtWorker, WorkerOK, Dispatching, Having
    <2>. QED BY <1>1, <1>3, <2>1, <1>c DEF Compose
<1>4. CASE Claim
    <2>1. CASE Claimed(worker.run) /\ runs[worker.run].status = "pending"
        BY <2>1, <1>a, <1>b DEF Claimed, NotDone, Having, RunRow
    <2>. QED BY <1>1, <1>4, <2>1 DEF Claim
<1>5. ASSUME NEW s \in Schedule, Fire(s) PROVE Apart'
    <2>1. ASSUME RunsOf(s) = {}, NEW x \in Run, Fresh(x), Insert(x, s) PROVE Apart'
        <3>1. \A r \in Run : r \in NotDone' =>
                 IF r = x THEN runs'[r].kind = s
                          ELSE r \in NotDone /\ runs'[r].kind = runs[r].kind
            BY <2>1, <1>d
        <3>2. ASSUME NEW k \in Schedule, NEW r \in RunsOf(k)'
              PROVE  IF k = s THEN r = x ELSE r \in RunsOf(k)
            <4>1. r \in Run /\ r \in NotDone' /\ runs'[r].kind = k
                BY <3>2 DEF RunsOf, NotDone, Having
            <4>2. \A y \in NotDone : y \in Run /\ runs[y].kind # s
                BY <2>1 DEF RunsOf, NotDone, Having
            <4>. QED BY <3>1, <4>1, <4>2 DEF RunsOf
        <3>. QED BY <3>2 DEF Apart
    <2>. QED BY <1>1, <1>5, <2>1 DEF Fire
<1>6. ASSUME NEW q \in Requester, SendCommit(q) PROVE Apart'
    <2>1. PICK x \in Run : Fresh(x) /\ Insert(x, "chat")
        BY <1>6 DEF SendCommit
    <2>2. \A r \in Run : r \in NotDone' =>
             IF r = x THEN runs'[r].kind = "chat"
                      ELSE r \in NotDone /\ runs'[r].kind = runs[r].kind
        BY <2>1, <1>d
    <2>3. ASSUME NEW s \in Schedule, NEW r \in RunsOf(s)' PROVE r \in RunsOf(s)
        <3>1. r \in Run /\ r \in NotDone' /\ runs'[r].kind = s /\ s # "chat"
            BY <2>3, Parameters DEF RunsOf, NotDone, Having
        <3>. QED BY <2>2, <3>1 DEF RunsOf
    <2>. QED BY <2>3 DEF Apart
<1>7. ASSUME NEW q \in Requester, MarkSteered(q) PROVE Apart'
    BY <1>1, <1>7, <1>c DEF MarkSteered, AtRequest, RequestsOK
<1>8. ASSUME NEW q \in Requester, Deactivate(q) PROVE Apart'
    BY <1>8, <1>a, <1>b DEF Deactivate, NotDone, Having, RunRow
<1>9. ASSUME NEW q \in Requester, NEW r \in Run, Discard(q, r) PROVE Apart'
    BY <1>9, <1>c DEF Discard
<1>. QED BY <1>1, <1>2, <1>3, <1>4, <1>5, <1>6, <1>7, <1>8, <1>9, RunsChange

LEMMA MessageStep ==
    ASSUME TypeOK, WorkerOK, RunsOK, RequestsOK, MessageArrives, [Next]_vars
    PROVE  MessageArrives'
<1>a. runs \in [Run -> RunRow] /\ steered \subseteq steered'
    BY HistoryTyped DEF TypeOK
<1>. DEFINE Known(r) == runs'[r].status = "done" /\ runs'[r].kind = "chat" =>
              runs'[r].task # None \/ r \in steered' \/ runs'[r].host \in {"discarded", "deactivated"}
<1>b. ASSUME NEW r \in Run, runs'[r] = runs[r] PROVE Known(r)
    BY <1>a, <1>b DEF MessageArrives, Having
<1>c. (\A r \in Run : Known(r)) => MessageArrives'
    BY DEF MessageArrives, Having
<1>d. ASSUME NEW x \in Run, NEW how, Finish(x, how),
             \/ how \in {"discarded", "deactivated"} \/ x \in steered'
             \/ runs[x].task # None \/ runs[x].kind # "chat"
      PROVE  MessageArrives'
    BY <1>a, <1>b, <1>c, <1>d DEF Finish, RunRow
<1>e. UNCHANGED runs => MessageArrives'
    BY <1>b, <1>c
<1>f. ASSUME NEW x \in Run, NEW k, Insert(x, k) PROVE MessageArrives'
    BY <1>a, <1>b, <1>c, <1>f DEF Insert, NoRun
<1>1. CASE ReapWrite
    <2>1. worker.run \in Run /\ runs[worker.run].status = "active" /\ runs[worker.run].task # None
        BY <1>1, Parameters DEF ReapWrite, AtWorker, WorkerOK, Reaping, Having
    <2>2. CASE runs' = [runs EXCEPT ![worker.run].host = worker.seen]
        BY <2>1, <2>2, <1>a, <1>b, <1>c DEF RunRow
    <2>. QED BY <1>1, <2>1, <2>2, <1>d DEF ReapWrite
<1>2. CASE Compose
    <2>1. worker.run \in Run
        BY <1>2 DEF Compose, AtWorker, WorkerOK, Dispatching, Having
    <2>. QED BY <1>2, <2>1, <1>d, <1>e DEF Compose, Promptable
<1>3. CASE Claim
    <2>1. worker.run \in Run
        BY <1>3 DEF Claim, AtWorker, WorkerOK, Dispatching, Having
    <2>2. CASE Claimed(worker.run)
        BY <2>1, <2>2, <1>a, <1>b, <1>c DEF Claimed, RunRow
    <2>. QED BY <1>3, <2>2, <1>e DEF Claim
<1>4. ASSUME NEW s \in Schedule, Fire(s) PROVE MessageArrives'
    BY <1>4, <1>e, <1>f DEF Fire
<1>5. ASSUME NEW q \in Requester, SendCommit(q) PROVE MessageArrives'
    BY <1>5, <1>f DEF SendCommit
<1>6. ASSUME NEW q \in Requester, MarkSteered(q) PROVE MessageArrives'
    <2>1. request[q].run \in Run /\ request[q].run \in steered
        BY <1>6 DEF MarkSteered, AtRequest, RequestsOK
    <2>. QED BY <1>6, <2>1, <1>a, <1>d, <1>e DEF MarkSteered
<1>7. ASSUME NEW q \in Requester, Deactivate(q) PROVE MessageArrives'
    BY <1>7, <1>a, <1>b, <1>c DEF Deactivate, RunRow
<1>8. ASSUME NEW q \in Requester, NEW r \in Run, Discard(q, r) PROVE MessageArrives'
    BY <1>8, <1>d DEF Discard
<1>. QED BY <1>1, <1>2, <1>3, <1>4, <1>5, <1>6, <1>7, <1>8, <1>e, RunsChange

(* A task is followed by its active run, by the worker that is about to    *)
(* claim or to cancel it, or is known to be astray.                        *)
LEMMA TrackedStep ==
    ASSUME TypeOK, WorkerOK, RunsOK, RequestsOK, TasksAreTracked, [Next]_vars
    PROVE  TasksAreTracked'
<1>a. task \in [Task -> TaskStatus] /\ runs \in [Run -> RunRow] /\ worker \in WorkerRecord
    BY DEF TypeOK, WorkerRecord
<1>. DEFINE ByRun(t) == \E r \in Having("active")' : runs'[r].task = t
            ByWorker(t) == worker'.task = t /\ worker'.pc \in {"claim", "unclaim"}
            Followed(t) == ByRun(t) \/ ByWorker(t) \/ t \in stray'
<1>b. (\A t \in Live' : Followed(t)) => TasksAreTracked'
    BY DEF TasksAreTracked, AtWorker
<1>c. stray \subseteq stray'
    BY HistoryChange DEF Create, CancelUnclaimed, AppRestart, Steer
<1>1. ASSUME NEW t \in Live', t \notin Live PROVE Followed(t)
    <2>1. t \in Task /\ task[t] = "absent" /\ task'[t] # "absent"
        BY <1>1, HostMoves, <1>a DEF Live, TaskStatus, HOST_TASK_STATUSES_TERMINAL
    <2>2. ASSUME NEW u, Host!Begin(u) \/ Host!Withdraw(u) \/ Host!Finish(u, "cancelled")
          PROVE  FALSE
        BY <1>a, <2>1, <2>2 DEF Host!Begin, Host!Withdraw, Host!Finish
    <2>3. \A u, seen : ~StopTask(u, seen)
        BY <2>2 DEF StopTask
    <2>4. ~UNCHANGED hostVars
        BY <2>1 DEF hostVars
    <2>5. Create
        <3>1. ~ReapStop /\ ~CancelUnclaimed /\ ~HostStep
            BY <2>2, <2>3, <2>4 DEF ReapStop, CancelUnclaimed, HostStep
        <3>2. \A q \in Requester : ~StopPost(q)
            BY <2>3, <2>4 DEF StopPost
        <3>. QED BY <2>4, <3>1, <3>2, TaskChange
    <2>6. PICK u \in Task : /\ Host!Submit(u, worker.thread)
                           /\ \/ worker' = [worker EXCEPT !.pc = "claim", !.task = u]
                              \/ stray' = stray \cup {u}
        BY <2>4, <2>5 DEF Create
    <2>7. u = t
        BY <1>a, <2>1, <2>6 DEF Host!Submit
    <2>8. CASE worker' = [worker EXCEPT !.pc = "claim", !.task = u]
        BY <1>a, <2>7, <2>8 DEF WorkerRecord
    <2>. QED BY <2>6, <2>7, <2>8
<1>2. ASSUME NEW t \in Live', NEW r \in Having("active"), runs[r].task = t PROVE Followed(t)
    <2>1. r \in Run /\ runs'[r].task = t
        BY <1>2, RunsKeep DEF Having, Keeps
    <2>2. r \in Having("active")'
        <3>1. CASE ReapWrite /\ worker.seen \in HOST_TASK_STATUSES_TERMINAL /\ r = worker.run
            <4>1. t = worker.task /\ t \in Task /\ task[t] \in HOST_TASK_STATUSES_TERMINAL
                BY <1>2, <3>1 DEF ReapWrite, AtWorker, WorkerOK, Reaping
            <4>. QED BY <1>2, <4>1, HostMoves DEF Live, HOST_TASK_STATUSES_TERMINAL
        <3>2. ~Claim
            BY <1>2 DEF Claim, AtWorker, WorkerOK, Dispatching
        <3>. QED BY <1>2, <3>1, <3>2, ActiveMoves
    <2>. QED BY <2>1, <2>2
<1>3. ASSUME NEW t \in Live', worker.task = t, worker.pc \in {"claim", "unclaim"} PROVE Followed(t)
    <2>1. CASE UNCHANGED worker
        BY <1>3, <2>1
    <2>2. CASE AppRestart
        BY <1>3, <2>2 DEF AppRestart, AtWorker
    <2>3. CASE WorkerStep
        <3>1. Claim \/ CancelUnclaimed
            BY <1>3, <2>3 DEF WorkerStep, AtWorker, ReapSnapshot, ReapNone, ReapUnreachable,
                ReapGet,
               ReapStop, ReapWrite, FireRead, Fire, FireDone, Pick, Compose, Create
        <3>2. CASE Claim
            <4>1. CASE Claimed(worker.run)
                <5>1. worker.run \in Run
                    BY <3>2 DEF Claim, AtWorker, WorkerOK, Dispatching, Having
                <5>2. runs'[worker.run].status = "active" /\ runs'[worker.run].task = t
                    BY <1>3, <4>1, <5>1, <1>a DEF Claimed, RunRow
                <5>. QED BY <5>1, <5>2 DEF Having
            <4>2. CASE worker' = [worker EXCEPT !.pc = "unclaim"]
                BY <1>3, <4>2, <1>a DEF WorkerRecord
            <4>. QED BY <3>2, <4>1, <4>2 DEF Claim, Goto
        <3>3. CASE CancelUnclaimed
            <4>1. CASE Host!Withdraw(t) \/ Host!Finish(t, "cancelled")
                <5>1. t \in Task /\ task'[t] = "cancelled"
                    BY <1>3, <4>1, <1>a DEF Host!Withdraw, Host!Finish, Live
                <5>. QED BY <1>3, <5>1 DEF Live
            <4>. QED BY <1>3, <3>3, <4>1 DEF CancelUnclaimed
        <3>. QED BY <3>1, <3>2, <3>3
    <2>. QED BY <2>1, <2>2, <2>3, WorkerChange
<1>. QED BY <1>1, <1>2, <1>3, <1>b, <1>c DEF TasksAreTracked, AtWorker

-----------------------------------------------------------------------------

LEMMA WorkspaceInit == Init => WorkspaceInv
<1>. SUFFICES ASSUME Init PROVE WorkspaceInv
    OBVIOUS
<1>1. TypeOK
    BY Parameters, Records DEF Init, Host!Init, Host!Task, Task, TypeOK, WorkerRecord,
       RequestRecord, CallRecord, TaskStatus, Generation
<1>2. \A s \in {"pending", "active", "done"} : Having(s) = {}
    BY DEF Init, Having, NoRun
<1>3. Live = {}
    BY DEF Init, Host!Init, Host!Task, Task, Live
<1>4. WorkerOK
    BY DEF Init, Tick, WorkerOK, Reaping, Dispatching
<1>5. RequestsOK /\ AgentsOK
    BY DEF Init, RequestsOK, AgentsOK, AtRequest, AtAgent, NoRequest, NoCall
<1>6. RunsOK /\ OneTurn /\ Apart /\ MessageArrives
    BY <1>2 DEF RunsOK, OneTurn, Apart, MessageArrives, RunsOf, NotDone
<1>. QED BY <1>1, <1>3, <1>4, <1>5, <1>6 DEF WorkspaceInv, TasksAreTracked

LEMMA WorkspaceStep == WorkspaceInv /\ [Next]_vars => WorkspaceInv'
BY TypeStep, WorkerOKStep, RunsOKStep, RequestsOKStep, AgentsOKStep, ApartStep, MessageStep,
   TrackedStep DEF WorkspaceInv

LEMMA WorkspaceInvariant == Spec => []WorkspaceInv
BY WorkspaceInit, WorkspaceStep, PTL DEF Spec

(* Every variable of the run queue keeps its shape: the budgets within the *)
(* limit, what each party remembers within the rows it read.               *)
THEOREM WorkspaceTypeCorrect == Spec => []TypeOK
<1>1. WorkspaceInv => TypeOK
    BY DEF WorkspaceInv
<1>. QED BY <1>1, WorkspaceInvariant, PTL

(* The workspace has one turn at a time, although the worker looks for an  *)
(* active run long before it claims the next.                              *)
THEOREM OneTurnAtATime == Spec => []OneTurn
<1>1. WorkspaceInv => OneTurn
    BY DEF WorkspaceInv
<1>. QED BY <1>1, WorkspaceInvariant, PTL

(* A live host task belongs to the active run, or to the worker that just  *)
(* created it, or was given up for a known reason.                         *)
THEOREM TasksTracked == Spec => []TasksAreTracked
<1>1. WorkspaceInv => TasksAreTracked
    BY DEF WorkspaceInv
<1>. QED BY <1>1, WorkspaceInvariant, PTL

(* A message ends in a turn, in a steer the host took, or because the      *)
(* operator dropped it.                                                    *)
THEOREM MessagesArrive == Spec => []MessageArrives
<1>1. WorkspaceInv => MessageArrives
    BY DEF WorkspaceInv
<1>. QED BY <1>1, WorkspaceInvariant, PTL

(* A schedule never has two runs waiting or running.                       *)
THEOREM RunsApart == Spec => []NoOverlap
<1>1. Apart => NoOverlap
    <2>. SUFFICES ASSUME Apart, NEW s \in Schedule PROVE Cardinality(RunsOf(s)) <= 1
        BY DEF NoOverlap
    <2>1. CASE RunsOf(s) = {}
        BY <2>1, FS_EmptySet
    <2>2. ASSUME NEW r \in RunsOf(s) PROVE Cardinality(RunsOf(s)) <= 1
        <3>1. RunsOf(s) = {r}
            BY <2>2 DEF Apart
        <3>. QED BY <3>1, FS_Singleton
    <2>. QED BY <2>1, <2>2
<1>2. WorkspaceInv => Apart
    BY DEF WorkspaceInv
<1>. QED BY <1>1, <1>2, WorkspaceInvariant, PTL

(* No action of the agent commits once its thread was revoked: whoever     *)
(* revokes it waits for the calls that hold the row, and the next check    *)
(* sees the new thread.                                                    *)
THEOREM NothingAfterRevoke == Spec => NoWriteAfterRevoke
<1>. DEFINE Owned == \A t \in Task : applied'[t] > applied[t] =>
                        \E r \in Run : runs[r].task = t /\ runs[r].thread = workspace.seq
<1>1. WorkspaceInv /\ [Next]_vars => [Owned]_vars
    <2>. SUFFICES ASSUME WorkspaceInv, [Next]_vars PROVE Owned
        OBVIOUS
    <2>1. applied \in [Task -> Nat] /\ AgentsOK
        BY DEF WorkspaceInv, TypeOK
    <2>2. \A t \in Task : ~(applied[t] > applied[t]) /\ ~(0 > applied[t])
        BY <2>1
    <2>3. CASE UNCHANGED <<budget, applied>>
        BY <2>2, <2>3
    <2>4. CASE ReapWrite
        BY <2>2, <2>4 DEF ReapWrite, Forget
    <2>5. CASE AppRestart
        BY <2>2, <2>5 DEF AppRestart
    <2>6. ASSUME NEW c \in AgentCall, AgentBudget(c) PROVE Owned
        BY <2>2, <2>6 DEF AgentBudget, history
    <2>7. ASSUME NEW c \in AgentCall, AgentApply(c) PROVE Owned
        <3>1. \E r \in Run : runs[r].task = agent[c].task /\ runs[r].thread = workspace.seq
            BY <2>1, <2>7 DEF AgentApply, AgentsOK, Having
        <3>2. \A t \in Task : t # agent[c].task => applied'[t] = applied[t]
            BY <2>1, <2>7 DEF AgentApply
        <3>. QED BY <2>2, <3>1, <3>2
    <2>. QED BY <2>3, <2>4, <2>5, <2>6, <2>7, BudgetChange
<1>. QED BY <1>1, WorkspaceInvariant, PTL DEF Spec, NoWriteAfterRevoke
=============================================================================
