-------------------------- MODULE TaskOrchestrator --------------------------
(***************************************************************************)
(* The worker pool of host/runtime/admin_api/orchestrator.py: workers that *)
(* claim queued tasks, register a runtime process in _LIVE, spawn it, run  *)
(* the turn and close the process, against the operator's kills, runtime   *)
(* deactivations, resets and restarts, which arrive between any two steps. *)
(*                                                                         *)
(* A step is one mutation, one _LIVE_LOCK section, or one process call: no *)
(* lock is held from one step to the next.  A turn's server object belongs *)
(* to one task and a task is claimed once, so a task names its server too. *)
(* A thread is bound to one runtime, so _LIVE is keyed by thread.          *)
(***************************************************************************)
EXTENDS Integers, FiniteSets

CONSTANTS
  Thread, NoThread, Runtime, RuntimeOf, NTasks, WORKER_COUNT_PER_RUNTIME, QUEUED_TASK_LIMIT,
  Worker,       \* worker threads
  Requester,    \* request handlers and pollers that kill tasks or stop runtimes
  CloseMayRaise,  \* server.close() may raise, which leaves the thread fenced
  DbMayFail       \* the mutation that ends a task may raise

ASSUME OrchestratorConstants ==
  /\ NoThread \notin Thread
  /\ Runtime \subseteq {"codex", "claude_code", "hermes"}
  /\ RuntimeOf \in [Thread -> Runtime]
  /\ IsFiniteSet(Thread) /\ IsFiniteSet(Worker)
  /\ NTasks \in Nat
  /\ WORKER_COUNT_PER_RUNTIME \in Nat
  /\ QUEUED_TASK_LIMIT \in Nat
  /\ CloseMayRaise \in BOOLEAN
  /\ DbMayFail \in BOOLEAN

VARIABLES
  status,    \* tasks table: Task -> status
  threadOf,  \* tasks table: Task -> thread
  session,   \* thread_sessions: the task whose turn left the provider session
  resumed,   \* the session each claimed task was handed
  usable,    \* runtimes with an enabled provider and a cached status of active
  live,      \* _LIVE: thread -> _Turn
  scope,     \* systemd: the task whose process holds the thread's scope unit
  closed,    \* Hermes servers on which close() has run (no other keeps a record)
  worker,    \* each worker's place in run_next_task and its task
  request,   \* each requester's place and the turns it has yet to close
  wake       \* WORKER_WAKE, the one Event that all workers wait for

Task == 1 .. NTasks
NoTask == 0
TaskOrNone == Task \cup {NoTask}
Terminal == {"completed", "failed", "cancelled"}
Status == {"absent", "queued", "running"} \cup Terminal

NoTurn == [task |-> NoTask, closing |-> FALSE]
Idle == [pc |-> "idle", task |-> NoTask]
NoRequest == [pc |-> "idle", runtime |-> "codex", turns |-> {}, task |-> NoTask]

(* "reject" fails a task before it has a server, "fail" after.             *)
WorkerPC == {"idle", "check", "reject", "register", "start", "verify", "turn",
             "running", "done", "fail", "close", "closing", "closed"}
RequestPC == {"idle", "stop", "snapshot", "close", "closing", "closed"}

queueVars == <<status, threadOf, session, resumed>>
procVars == <<live, scope, closed>>
vars == <<queueVars, usable, procVars, worker, request, wake>>

With(s) == {t \in Task : status[t] = s}
RuntimeOfTask(t) == RuntimeOf[threadOf[t]]
RunningOn(r) == {t \in With("running") : RuntimeOfTask(t) = r}

(* The turn that is running on a thread, and its claim-to-close window.    *)
Entry(t) == live[threadOf[t]]
LiveThreads == {th \in Thread : live[th] # NoTurn}
LiveOn(r) == {th \in LiveThreads : RuntimeOf[th] = r}
RunningThreads == {threadOf[t] : t \in With("running")}
WORKER_COUNT == WORKER_COUNT_PER_RUNTIME * Cardinality(Runtime)

Init ==
  /\ status = [t \in Task |-> "absent"]
  /\ threadOf = [t \in Task |-> NoThread]
  /\ session = [th \in Thread |-> NoTask]
  /\ resumed = [t \in Task |-> NoTask]
  /\ usable = {}
  /\ live = [th \in Thread |-> NoTurn]
  /\ scope = [th \in Thread |-> NoTask]
  /\ closed = {}
  /\ worker = [w \in Worker |-> Idle]
  /\ request = [q \in Requester |-> NoRequest]
  /\ wake = FALSE

(* WORKER_WAKE.set().                                                      *)
Set == wake' = TRUE

-----------------------------------------------------------------------------
(* The task API: create, cancel.  Updates and steers leave the status.     *)

(* create_task: the next number of the counter, and room in the queue.     *)
CreateTask(t, th) ==
  /\ status[t] = "absent"
  /\ \A u \in Task : u < t => status[u] # "absent"
  /\ Cardinality(With("queued")) < QUEUED_TASK_LIMIT
  /\ status' = [status EXCEPT ![t] = "queued"]
  /\ threadOf' = [threadOf EXCEPT ![t] = th]
  /\ Set
  /\ UNCHANGED <<session, resumed, usable, procVars, worker, request>>

CancelTask(t) ==
  /\ status[t] = "queued"
  /\ status' = [status EXCEPT ![t] = "cancelled"]
  /\ UNCHANGED <<threadOf, session, resumed, usable, procVars, worker, request, wake>>

-----------------------------------------------------------------------------
(* The worker                                                              *)

Goto(w, pc) == worker' = [worker EXCEPT ![w].pc = pc]
Rest(w) == worker' = [worker EXCEPT ![w] = Idle]
At(w, pc) == worker[w].pc = pc

Unavailable == RunningThreads \cup LiveThreads

BelowCaps(r) ==
  /\ Cardinality(RunningOn(r)) < WORKER_COUNT_PER_RUNTIME
  /\ Cardinality(LiveOn(r)) < WORKER_COUNT_PER_RUNTIME

Claimable(t) ==
  /\ status[t] = "queued"
  /\ BelowCaps(RuntimeOfTask(t))
  /\ threadOf[t] \notin Unavailable


(* WORKER_WAKE.wait(timeout=5): the event is set, or the time is over.     *)
WaitReturns == TRUE

(* wait(), clear() and a look into the queue.  What is set after the clear *)
(* and before the look is lost here as well, more than the code can lose.  *)
Looks(w) ==
  /\ At(w, "idle")
  /\ WaitReturns
  /\ wake' = FALSE

(* Wrong: any claimable task is taken, at any load.                        *)
ClaimAnyOrder(w, t) ==
  /\ Looks(w)
  /\ Claimable(t)
  /\ status' = [status EXCEPT ![t] = "running"]
  /\ resumed' = [resumed EXCEPT ![t] = session[threadOf[t]]]
  /\ worker' = [worker EXCEPT ![w] = [pc |-> "check", task |-> t]]
  /\ UNCHANGED <<threadOf, session, usable, procVars, request>>

(* Wrong: the claimed task is not marked running.                          *)
ClaimUnmarked(w, t) ==
  /\ Looks(w)
  /\ Claimable(t)
  /\ resumed' = [resumed EXCEPT ![t] = session[threadOf[t]]]
  /\ worker' = [worker EXCEPT ![w] = [pc |-> "check", task |-> t]]
  /\ UNCHANGED <<status, threadOf, session, usable, procVars, request>>

RoomForOne ==
  /\ Cardinality(With("running")) < WORKER_COUNT
  /\ Cardinality(LiveThreads) < WORKER_COUNT

(* _claim_next_task, under both locks: the first claimable queued task.    *)
Claim(w, t) ==
  /\ Looks(w)
  /\ RoomForOne
  /\ Claimable(t)
  /\ \A u \in Task : u < t => ~Claimable(u)
  /\ status' = [status EXCEPT ![t] = "running"]
  /\ resumed' = [resumed EXCEPT ![t] = session[threadOf[t]]]
  /\ worker' = [worker EXCEPT ![w] = [pc |-> "check", task |-> t]]
  /\ UNCHANGED <<threadOf, session, usable, procVars, request>>

(* There is nothing to claim, or the claim's mutation raises, which        *)
(* worker_loop survives: back to the wait.                                 *)
FindsNothing(w) ==
  /\ Looks(w)
  /\ DbMayFail \/ ~RoomForOne \/ ~\E t \in Task : Claimable(t)
  /\ UNCHANGED <<queueVars, usable, procVars, worker, request>>

(* The policy and the cached status; Claude's status is refreshed first,   *)
(* which may find it no longer active.                                     *)
Check(w) ==
  LET r == RuntimeOfTask(worker[w].task) IN
  /\ At(w, "check")
  /\ \/ r \in usable /\ Goto(w, "register") /\ UNCHANGED usable
     \/ r \notin usable /\ Goto(w, "reject") /\ UNCHANGED usable
     \/ r = "claude_code" /\ r \in usable /\ Goto(w, "reject") /\ usable' = usable \ {r}
  /\ UNCHANGED <<queueVars, procVars, request, wake>>

(* _LIVE[key] = _Turn(...): whatever entry the thread had is overwritten.  *)
Register(w) ==
  LET t == worker[w].task IN
  /\ At(w, "register")
  /\ live' = [live EXCEPT ![threadOf[t]] = [task |-> t, closing |-> FALSE]]
  /\ Goto(w, "start")
  /\ UNCHANGED <<queueVars, usable, scope, closed, request, wake>>

(* The launcher's systemd-run gives the process the thread's unit name,    *)
(* and fails while another process holds it.                               *)
Spawn(t) ==
  /\ scope[threadOf[t]] = NoTask
  /\ scope' = [scope EXCEPT ![threadOf[t]] = t]

(* server.start(): spawns the Codex app-server; a no-op for the others.    *)
Start(w) ==
  LET t == worker[w].task IN
  /\ At(w, "start")
  /\ \/ RuntimeOfTask(t) = "codex" /\ Spawn(t) /\ (Goto(w, "verify") \/ Goto(w, "fail"))
     \/ RuntimeOfTask(t) = "codex" /\ UNCHANGED scope /\ Goto(w, "fail")
     \/ RuntimeOfTask(t) # "codex" /\ UNCHANGED scope /\ Goto(w, "verify")
  /\ UNCHANGED <<queueVars, usable, live, closed, request, wake>>

(* The post-start re-check that abandons a task killed while booting.      *)
Verify(w) ==
  /\ At(w, "verify")
  /\ Goto(w, IF status[worker[w].task] = "running" THEN "turn" ELSE "close")
  /\ UNCHANGED <<queueVars, usable, procVars, request, wake>>

(* run_turn up to the point where the runtime works on the message: Claude *)
(* and Hermes spawn here, and Hermes refuses when close() has already run. *)
BeginTurn(w) ==
  LET t == worker[w].task
      refused == RuntimeOfTask(t) = "hermes" /\ t \in closed IN
  /\ At(w, "turn")
  /\ \/ RuntimeOfTask(t) = "codex" /\ UNCHANGED scope /\ Goto(w, "running")
     \/ RuntimeOfTask(t) # "codex" /\ ~refused /\ Spawn(t) /\ Goto(w, "running")
     \/ /\ RuntimeOfTask(t) # "codex"
        /\ refused \/ scope[threadOf[t]] # NoTask
        /\ UNCHANGED scope
        /\ Goto(w, "fail")
  /\ UNCHANGED <<queueVars, usable, live, closed, request, wake>>

FreeScope(t) == scope' = [scope EXCEPT ![threadOf[t]] = NoTask]
FreeOwnScope(t) == scope' = IF scope[threadOf[t]] = t
                              THEN [scope EXCEPT ![threadOf[t]] = NoTask] ELSE scope

(* The turn's final message was read: Claude's run() closes its process,   *)
(* Hermes's has exited, Codex's app-server stays up until the close.       *)
EndTurn(w) ==
  LET t == worker[w].task IN
  /\ At(w, "running")
  /\ ~(RuntimeOfTask(t) = "hermes" /\ t \in closed)
  /\ CASE RuntimeOfTask(t) = "codex"       -> UNCHANGED scope
       [] RuntimeOfTask(t) = "claude_code" -> FreeScope(t)
       [] OTHER                            -> FreeOwnScope(t)
  /\ Goto(w, "done")
  /\ UNCHANGED <<queueVars, usable, live, closed, request, wake>>

(* The provider reports an error, or the process is found dead.            *)
TurnError(w) ==
  LET t == worker[w].task IN
  /\ At(w, "running")
  /\ UNCHANGED scope \/ FreeOwnScope(t)
  /\ Goto(w, "fail")
  /\ UNCHANGED <<queueVars, usable, live, closed, request, wake>>

(* Wrong: the task is completed whatever became of it meanwhile.           *)
FinishCompletedBlindly(w) ==
  LET t == worker[w].task IN
  /\ At(w, "done")
  /\ status' = [status EXCEPT ![t] = "completed"]
  /\ session' = [session EXCEPT ![threadOf[t]] = t]
  /\ Goto(w, "close")
  /\ UNCHANGED <<threadOf, resumed, usable, procVars, request, wake>>

(* _finish_task(COMPLETED): nothing once the task was killed or failed.    *)
FinishCompleted(w) ==
  LET t == worker[w].task IN
  /\ At(w, "done")
  /\ \/ /\ status[t] = "running"
        /\ status' = [status EXCEPT ![t] = "completed"]
        /\ session' = [session EXCEPT ![threadOf[t]] = t]
        /\ Goto(w, "close")
     \/ status[t] # "running" /\ Goto(w, "close") /\ UNCHANGED <<status, session>>
     \/ DbMayFail /\ Goto(w, "fail") /\ UNCHANGED <<status, session>>
  /\ UNCHANGED <<threadOf, resumed, usable, procVars, request, wake>>

(* _finish_task(FAILED), from the except clause; the finally clause closes *)
(* the process if there is one.                                            *)
FinishFailed(w) ==
  LET t == worker[w].task IN
  /\ At(w, "fail") \/ At(w, "reject")
  /\ \/ status[t] = "running" /\ status' = [status EXCEPT ![t] = "failed"]
     \/ status[t] # "running" /\ UNCHANGED status
     \/ DbMayFail /\ UNCHANGED status
  /\ \/ At(w, "fail") /\ Goto(w, "close") /\ UNCHANGED wake
     \/ At(w, "reject") /\ Rest(w) /\ Set
  /\ UNCHANGED <<threadOf, session, resumed, usable, procVars, request>>

-----------------------------------------------------------------------------
(* _close_turn, shared by the worker's finally, kills and runtime stops    *)

Closable(t) == Entry(t) = [task |-> t, closing |-> FALSE]
OwnClose(t) == live' = [live EXCEPT ![threadOf[t]] = [task |-> t, closing |-> TRUE]]

(* close() ends the process and stops the thread's scope by name; when it  *)
(* raises, the entry is kept and the thread stays fenced for good.         *)
CloseServer(t) ==
  /\ closed' = closed \cup {u \in {t} : RuntimeOfTask(u) = "hermes"}
  /\ FreeScope(t)
CloseRaises(t) ==
  /\ CloseMayRaise
  /\ closed' = closed \cup {u \in {t} : RuntimeOfTask(u) = "hermes"}
  /\ UNCHANGED scope \/ FreeOwnScope(t)

Unregister(t) ==
  live' = IF Entry(t).task = t THEN [live EXCEPT ![threadOf[t]] = NoTurn] ELSE live

WorkerClose(w) ==
  LET t == worker[w].task IN
  /\ At(w, "close")
  /\ \/ Closable(t) /\ OwnClose(t) /\ Goto(w, "closing") /\ UNCHANGED wake
     \/ ~Closable(t) /\ UNCHANGED live /\ Rest(w) /\ Set
  /\ UNCHANGED <<queueVars, usable, scope, closed, request>>

WorkerClosing(w) ==
  LET t == worker[w].task IN
  /\ At(w, "closing")
  /\ \/ CloseServer(t) /\ Goto(w, "closed") /\ UNCHANGED wake
     \/ CloseRaises(t) /\ Rest(w) /\ Set
  /\ UNCHANGED <<queueVars, usable, live, request>>

WorkerClosed(w) ==
  /\ At(w, "closed")
  /\ Unregister(worker[w].task)
  /\ Rest(w)
  /\ Set
  /\ UNCHANGED <<queueVars, usable, scope, closed, request>>

-----------------------------------------------------------------------------
(* Requesters: kill_task, and _stop_runtime_processes for a deactivation,  *)
(* an account reset or a disconnect                                        *)

AtRequest(q, pc) == request[q].pc = pc
GotoRequest(q, pc) == request' = [request EXCEPT ![q].pc = pc]

KillTask(q, t) ==
  /\ AtRequest(q, "idle")
  /\ status[t] = "running"
  /\ status' = [status EXCEPT ![t] = "cancelled"]
  /\ request' = [request EXCEPT ![q] = [NoRequest EXCEPT !.pc = "close", !.turns = {t}]]
  /\ UNCHANGED <<threadOf, session, resumed, usable, procVars, worker, wake>>

(* A status refresh commits what its probe found; while the provider is    *)
(* disabled it deactivates instead.                                        *)
Refresh(r) ==
  /\ usable' \in {usable \cup {r}, usable \ {r}}
  /\ UNCHANGED <<queueVars, procVars, worker, request, wake>>

(* A policy that disables the provider, a refresh that finds it disabled,  *)
(* an account reset, a disconnect.                                         *)
Deactivate(q, r) ==
  /\ AtRequest(q, "idle")
  /\ usable' = usable \ {r}
  /\ request' = [request EXCEPT ![q] = [NoRequest EXCEPT !.pc = "stop", !.runtime = r]]
  /\ UNCHANGED <<queueVars, procVars, worker, wake>>

FailRunning(S) == status' = [t \in Task |-> IF t \in S THEN "failed" ELSE status[t]]

StopRuntime(q) ==
  /\ AtRequest(q, "stop")
  /\ FailRunning(RunningOn(request[q].runtime))
  /\ GotoRequest(q, "snapshot")
  /\ UNCHANGED <<threadOf, session, resumed, usable, procVars, worker, wake>>

SnapshotTurns(q) ==
  /\ AtRequest(q, "snapshot")
  /\ LET turns == {live[th].task : th \in LiveOn(request[q].runtime)} IN
       request' = [request EXCEPT ![q] = [NoRequest EXCEPT !.pc = "close", !.turns = turns]]
  /\ UNCHANGED <<queueVars, usable, procVars, worker, wake>>

RequestClose(q) ==
  /\ AtRequest(q, "close")
  /\ \/ \E t \in request[q].turns :
          \/ /\ Closable(t)
             /\ OwnClose(t)
             /\ request' = [request EXCEPT ![q].pc = "closing", ![q].task = t,
                                           ![q].turns = @ \ {t}]
             /\ UNCHANGED wake
          \/ /\ ~Closable(t)
             /\ request' = [request EXCEPT ![q].turns = @ \ {t}]
             /\ UNCHANGED <<live, wake>>
     \/ /\ request[q].turns = {}
        /\ request' = [request EXCEPT ![q] = NoRequest]
        /\ Set
        /\ UNCHANGED live
  /\ UNCHANGED <<queueVars, usable, scope, closed, worker>>

RequestClosing(q) ==
  LET t == request[q].task IN
  /\ AtRequest(q, "closing")
  /\ \/ CloseServer(t) /\ GotoRequest(q, "closed")
     \/ CloseRaises(t) /\ GotoRequest(q, "close")
  /\ UNCHANGED <<queueVars, usable, live, worker, wake>>

RequestClosed(q) ==
  /\ AtRequest(q, "closed")
  /\ Unregister(request[q].task)
  /\ GotoRequest(q, "close")
  /\ Set
  /\ UNCHANGED <<queueVars, usable, scope, closed, worker>>

-----------------------------------------------------------------------------
(* Wrong: what was running is left running.                                *)
RestartKeepsRunning ==
  /\ usable' = {}
  /\ live' = [th \in Thread |-> NoTurn]
  /\ scope' = [th \in Thread |-> NoTask]
  /\ closed' = {}
  /\ worker' = [w \in Worker |-> Idle]
  /\ request' = [q \in Requester |-> NoRequest]
  /\ wake' = FALSE
  /\ UNCHANGED queueVars

(* The service dies and starts again: memory is lost, BindsTo stops every  *)
(* scope, and initialize_state fails what was running.                     *)
Restart ==
  /\ FailRunning(With("running"))
  /\ usable' = {}
  /\ live' = [th \in Thread |-> NoTurn]
  /\ scope' = [th \in Thread |-> NoTask]
  /\ closed' = {}
  /\ worker' = [w \in Worker |-> Idle]
  /\ request' = [q \in Requester |-> NoRequest]
  /\ wake' = FALSE
  /\ UNCHANGED <<threadOf, session, resumed>>

WorkerStep(w) ==
  \/ Check(w) \/ Register(w) \/ Start(w) \/ Verify(w) \/ BeginTurn(w)
  \/ EndTurn(w) \/ TurnError(w) \/ FinishCompleted(w) \/ FinishFailed(w)
  \/ WorkerClose(w) \/ WorkerClosing(w) \/ WorkerClosed(w)

RequestStep(q) ==
  \/ StopRuntime(q) \/ SnapshotTurns(q)
  \/ RequestClose(q) \/ RequestClosing(q) \/ RequestClosed(q)

Next ==
  \/ \E t \in Task, th \in Thread : CreateTask(t, th)
  \/ \E t \in Task : CancelTask(t)
  \/ \E w \in Worker : FindsNothing(w)
  \/ \E w \in Worker, t \in Task : Claim(w, t)
  \/ \E w \in Worker : WorkerStep(w)
  \/ \E q \in Requester, t \in Task : KillTask(q, t)
  \/ \E r \in Runtime : Refresh(r)
  \/ \E q \in Requester, r \in Runtime : Deactivate(q, r)
  \/ \E q \in Requester : RequestStep(q)
  \/ Restart

Spec == Init /\ [][Next]_vars

(* worker_loop: wait, clear, look in the queue.                            *)
LoopStep(w) == FindsNothing(w) \/ \E t \in Task : Claim(w, t)

(* A turn whose process still holds the thread's scope may take for ever:  *)
(* it ends when the provider answers or the process is stopped.            *)
OwnStep(w) ==
  /\ At(w, "running") => scope[threadOf[worker[w].task]] # worker[w].task
  /\ WorkerStep(w)

(* Every worker thread keeps running, except while its provider works on a *)
(* turn; every request that was begun is carried through.                  *)
Fairness ==
  /\ \A w \in Worker : WF_vars(LoopStep(w) \/ OwnStep(w))
  /\ \A q \in Requester : WF_vars(RequestStep(q))

FairSpec == Spec /\ Fairness

-----------------------------------------------------------------------------
(* Properties                                                              *)

TurnRecord == [task : Task, closing : BOOLEAN]
WorkerRecord == [pc : WorkerPC, task : TaskOrNone]
RequestRecord == [pc : RequestPC, runtime : Runtime \cup {"codex"},
                  turns : SUBSET Task, task : TaskOrNone]

(* Every variable holds a value of its type; a submitted task has a thread *)
(* and whoever drives or closes a turn has a submitted task.               *)
TypeOK ==
  /\ status \in [Task -> Status]
  /\ threadOf \in [Task -> Thread \cup {NoThread}]
  /\ session \in [Thread -> TaskOrNone]
  /\ resumed \in [Task -> TaskOrNone]
  /\ usable \subseteq Runtime
  /\ live \in [Thread -> TurnRecord \cup {NoTurn}]
  /\ scope \in [Thread -> TaskOrNone]
  /\ closed \subseteq Task
  /\ worker \in [Worker -> WorkerRecord]
  /\ request \in [Requester -> RequestRecord]
  /\ wake \in BOOLEAN
  /\ \A t \in Task : status[t] # "absent" => threadOf[t] \in Thread
  /\ \A w \in Worker : worker[w].pc # "idle" =>
       worker[w].task \in Task /\ status[worker[w].task] # "absent"
  /\ \A q \in Requester :
       request[q].pc \in {"closing", "closed"} => request[q].task \in Task

(* Tasks on the same user thread are serialized: never two of them RUNNING *)
(* (module docstring, orchestrator.py:5-11).                               *)
OneRunningPerThread ==
  \A t, u \in With("running") : threadOf[t] = threadOf[u] => t = u

(* The per-runtime pool is never exceeded (WORKER_COUNT_PER_RUNTIME).      *)
RuntimeCap ==
  \A r \in Runtime : Cardinality(RunningOn(r)) <= WORKER_COUNT_PER_RUNTIME

(* A RUNNING task has exactly one worker that will still end it, and no    *)
(* two workers ever drive the same task: run_next_task promises never to   *)
(* "leave the task RUNNING forever with no worker attached".               *)
Driving(w, t) == worker[w].task = t /\ worker[w].pc \notin {"idle", "close", "closing", "closed"}
RunningIsDriven == \A t \in With("running") : \E w \in Worker : Driving(w, t)
OneDriver ==
  \A v, w \in Worker : worker[v].task = worker[w].task /\ worker[v].pc # "idle"
                         /\ worker[w].pc # "idle" => v = w

(* Conversation continuity: a turn that completes was started from the     *)
(* very session the thread still has, so no turn's session is ever         *)
(* overwritten by a turn that had not seen it.                             *)
SessionChain ==
  [][\A t \in Task : status[t] # "completed" /\ status'[t] = "completed" =>
       /\ session[threadOf[t]] = resumed[t]
       /\ session'[threadOf[t]] = t]_vars

(* The queue keeps the promises of TaskLifecycle: order, serialization,    *)
(* caps, and final statuses.                                               *)
Lifecycle == INSTANCE TaskLifecycle
  WITH status <- status, threadOf <- threadOf, Thread <- Thread, NoThread <- NoThread,
       Runtime <- Runtime, RuntimeOf <- RuntimeOf, NTasks <- NTasks,
       WORKER_COUNT_PER_RUNTIME <- WORKER_COUNT_PER_RUNTIME,
       QUEUED_TASK_LIMIT <- QUEUED_TASK_LIMIT
KeepsLifecycle == Lifecycle!Spec


=============================================================================
