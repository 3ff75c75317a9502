----------------------- MODULE TaskOrchestratorProofs -----------------------
(***************************************************************************)
(* Theorems about TaskOrchestrator, for every number of threads, tasks and *)
(* workers and every cap.  The queue's properties rest on one inductive    *)
(* invariant, QueueInv; its steps are proved action by action.             *)
(***************************************************************************)
EXTENDS TaskOrchestrator, FiniteSetTheorems, TLAPS

(* The steps that leave the tasks table and the sessions alone.            *)
QuietStep ==
  \/ \E w \in Worker :
       \/ FindsNothing(w)
       \/ Check(w) \/ Register(w) \/ Start(w) \/ Verify(w) \/ BeginTurn(w) \/ EndTurn(w)
       \/ TurnError(w) \/ WorkerClose(w) \/ WorkerClosing(w) \/ WorkerClosed(w)
  \/ \E r \in Runtime : Refresh(r)
  \/ \E q \in Requester, r \in Runtime : Deactivate(q, r)
  \/ \E q \in Requester :
       SnapshotTurns(q) \/ RequestClose(q) \/ RequestClosing(q) \/ RequestClosed(q)

LEMMA QuietStepKeepsQueue == QuietStep => UNCHANGED queueVars
  BY DEF QuietStep, FindsNothing, Check, Register, Start, Verify, BeginTurn, EndTurn, TurnError, WorkerClose,
     WorkerClosing, WorkerClosed, Refresh, Deactivate, SnapshotTurns, RequestClose,
     RequestClosing, RequestClosed, queueVars

-----------------------------------------------------------------------------
(* Type correctness                                                        *)

LEMMA InitTypeOK == Init => TypeOK
<1>1. Idle \in WorkerRecord /\ Idle.pc = "idle"
  BY DEF Idle, WorkerRecord, WorkerPC, TaskOrNone, NoTask
<1>2. NoRequest \in RequestRecord /\ NoRequest.pc = "idle"
  BY DEF NoRequest, RequestRecord, RequestPC, TaskOrNone, NoTask
<1>3. NoTask \in TaskOrNone /\ "absent" \in Status BY DEF TaskOrNone, Status
<1>4. Init => wake \in BOOLEAN BY DEF Init
<1> QED BY <1>1, <1>2, <1>3, <1>4 DEF Init, TypeOK

(* The part of TypeOK that a worker's program counter can disturb.         *)
WorkersTyped ==
  /\ worker \in [Worker -> WorkerRecord]
  /\ \A w \in Worker : worker[w].pc # "idle" =>
       worker[w].task \in Task /\ status[worker[w].task] # "absent"

Submitted == \A t \in Task : status[t] # "absent" => status'[t] # "absent"

LEMMA GotoTyped ==
  ASSUME WorkersTyped, Submitted, NEW w \in Worker, worker[w].pc # "idle",
         NEW pc \in WorkerPC, Goto(w, pc)
  PROVE  WorkersTyped'
  BY DEF WorkersTyped, Submitted, Goto, WorkerRecord

LEMMA RestTyped ==
  ASSUME WorkersTyped, Submitted, NEW w \in Worker, Rest(w)
  PROVE  WorkersTyped'
<1>1. Idle \in WorkerRecord BY DEF Idle, WorkerRecord, WorkerPC, TaskOrNone, NoTask
<1> QED BY <1>1 DEF WorkersTyped, Submitted, Rest, Idle

LEMMA SameWorkersTyped ==
  ASSUME WorkersTyped, Submitted, UNCHANGED worker PROVE WorkersTyped'
  BY DEF WorkersTyped, Submitted

(* A worker's own step goes from one pc to the next, or ends its round.    *)
LEMMA WorkerMoves ==
  ASSUME NEW w \in Worker, WorkerStep(w)
  PROVE  /\ worker[w].pc # "idle"
         /\ (\E pc \in WorkerPC \ {"idle"} : Goto(w, pc)) \/ Rest(w)
<1>1. worker[w].pc # "idle"
  BY DEF WorkerStep, Check, Register, Start, Verify, BeginTurn, EndTurn, TurnError,
     FinishCompleted, FinishFailed, WorkerClose, WorkerClosing, WorkerClosed, At
<1>2. {"reject", "register", "start", "verify", "turn", "running", "done", "fail", "close",
       "closing", "closed"} \subseteq WorkerPC \ {"idle"}
  BY DEF WorkerPC
<1>3. CASE Check(w) BY <1>1, <1>2, <1>3, Zenon DEF Check
<1>4. CASE Register(w) BY <1>1, <1>2, <1>4, Zenon DEF Register
<1>5. CASE Start(w) BY <1>1, <1>2, <1>5, Zenon DEF Start
<1>6. CASE Verify(w) BY <1>1, <1>2, <1>6, Zenon DEF Verify
<1>7. CASE BeginTurn(w) BY <1>1, <1>2, <1>7, Zenon DEF BeginTurn
<1>8. CASE EndTurn(w) BY <1>1, <1>2, <1>8, Zenon DEF EndTurn
<1>9. CASE TurnError(w) BY <1>1, <1>2, <1>9, Zenon DEF TurnError
<1>10. CASE FinishCompleted(w) BY <1>1, <1>2, <1>10, Zenon DEF FinishCompleted
<1>11. CASE FinishFailed(w) BY <1>1, <1>2, <1>11, Zenon DEF FinishFailed
<1>12. CASE WorkerClose(w) BY <1>1, <1>2, <1>12, Zenon DEF WorkerClose
<1>13. CASE WorkerClosing(w) BY <1>1, <1>2, <1>13, Zenon DEF WorkerClosing
<1>14. CASE WorkerClosed(w) BY <1>1, <1>2, <1>14, Zenon DEF WorkerClosed
<1> QED BY <1>3, <1>4, <1>5, <1>6, <1>7, <1>8, <1>9, <1>10, <1>11, <1>12, <1>13, <1>14
        DEF WorkerStep

LEMMA WorkerStepWorkersTyped ==
  ASSUME TypeOK, Submitted, NEW w \in Worker, WorkerStep(w) PROVE WorkersTyped'
<1>1. WorkersTyped BY DEF TypeOK, WorkersTyped
<1> QED BY <1>1, WorkerMoves, GotoTyped, RestTyped

QueueTyped ==
  /\ status \in [Task -> Status]
  /\ threadOf \in [Task -> Thread \cup {NoThread}]
  /\ session \in [Thread -> TaskOrNone]
  /\ resumed \in [Task -> TaskOrNone]
  /\ \A t \in Task : status[t] # "absent" => threadOf[t] \in Thread
ProcTyped ==
  /\ usable \subseteq Runtime
  /\ live \in [Thread -> TurnRecord \cup {NoTurn}]
  /\ scope \in [Thread -> TaskOrNone]
  /\ closed \subseteq Task
RequestTyped ==
  /\ request \in [Requester -> RequestRecord]
  /\ \A q \in Requester :
       request[q].pc \in {"closing", "closed"} => request[q].task \in Task

PoolTyped == QueueTyped /\ ProcTyped /\ WorkersTyped /\ RequestTyped
WakeTyped == wake \in BOOLEAN

LEMMA TypeOKParts ==
  /\ TypeOK => QueueTyped /\ ProcTyped /\ WorkersTyped /\ RequestTyped /\ WakeTyped
  /\ QueueTyped' /\ ProcTyped' /\ WorkersTyped' /\ RequestTyped' => PoolTyped'
  /\ PoolTyped' /\ WakeTyped' => TypeOK'
  BY Zenon DEF TypeOK, PoolTyped, QueueTyped, ProcTyped, WorkersTyped, RequestTyped, WakeTyped

LEMMA WakeTypedStep ==
  ASSUME TypeOK, [Next]_vars PROVE WakeTyped'
<1>1. wake \in BOOLEAN BY DEF TypeOK
<1>2. wake' \in {TRUE, FALSE, wake}
  BY Zenon DEF Next, vars, Set, Looks, CreateTask, CancelTask, Claim, FindsNothing, KillTask,
     Refresh, Deactivate, Restart, WorkerStep, Check, Register, Start, Verify, BeginTurn,
     EndTurn, TurnError, FinishCompleted, FinishFailed, WorkerClose, WorkerClosing,
     WorkerClosed, RequestStep, StopRuntime, SnapshotTurns, RequestClose, RequestClosing,
     RequestClosed
<1> QED BY <1>1, <1>2 DEF WakeTyped

LEMMA QuietSubmitted == UNCHANGED queueVars => Submitted
  BY DEF queueVars, Submitted

LEMMA WorkerStepPoolTyped ==
  ASSUME TypeOK, NEW w \in Worker, WorkerStep(w) PROVE PoolTyped'
<1> DEFINE t == worker[w].task
<1>1. QueueTyped /\ ProcTyped /\ RequestTyped BY TypeOKParts
<1>2. t \in Task /\ threadOf[t] \in Thread
  BY <1>1, Zenon DEF WorkerStep, Check, Register, Start, Verify, BeginTurn, EndTurn, TurnError,
     FinishCompleted, FinishFailed, WorkerClose, WorkerClosing, WorkerClosed, At, TypeOK
<1> HIDE DEF t
<1>3. ASSUME UNCHANGED queueVars PROVE QueueTyped' /\ Submitted
  BY <1>1, <1>3 DEF QueueTyped, queueVars, Submitted
<1>4. ASSUME UNCHANGED procVars, UNCHANGED usable PROVE ProcTyped'
  BY <1>1, <1>4 DEF ProcTyped, procVars
<1>5. ASSUME UNCHANGED live, UNCHANGED usable,
             UNCHANGED closed \/ closed' = closed \cup {u \in {t} : RuntimeOfTask(u) = "hermes"},
             UNCHANGED scope \/ Spawn(t) \/ FreeScope(t) \/ FreeOwnScope(t)
      PROVE  ProcTyped'
  BY <1>1, <1>2, <1>5 DEF ProcTyped, Spawn, FreeScope, FreeOwnScope, TaskOrNone, NoTask
<1>6. ASSUME UNCHANGED <<usable, scope, closed>>,
             \E e \in TurnRecord \cup {NoTurn} : live' = [live EXCEPT ![threadOf[t]] = e]
      PROVE  ProcTyped'
  BY <1>1, <1>2, <1>6 DEF ProcTyped
<1>7. ASSUME UNCHANGED <<threadOf, resumed>>,
             \/ UNCHANGED status
             \/ \E s \in Terminal : status' = [status EXCEPT ![t] = s],
             UNCHANGED session \/ session' = [session EXCEPT ![threadOf[t]] = t]
      PROVE  QueueTyped' /\ Submitted
  BY <1>1, <1>2, <1>7 DEF QueueTyped, Submitted, Status, Terminal, TaskOrNone
<1>8. RequestTyped'
  <2>1. UNCHANGED request
    BY DEF WorkerStep, Check, Register, Start, Verify, BeginTurn, EndTurn, TurnError,
       FinishCompleted, FinishFailed, WorkerClose, WorkerClosing, WorkerClosed
  <2> QED BY <1>1, <2>1 DEF RequestTyped
<1>9. QueueTyped' /\ Submitted
  <2>1. CASE FinishCompleted(w) BY <1>3, <1>7, <2>1 DEF FinishCompleted, queueVars, Terminal, t
  <2>2. CASE FinishFailed(w) BY <1>3, <1>7, <2>2 DEF FinishFailed, queueVars, Terminal, t
  <2>3. CASE UNCHANGED queueVars BY <1>3, <2>3
  <2> QED BY <2>1, <2>2, <2>3, Zenon DEF WorkerStep, Check, Register, Start, Verify, BeginTurn,
             EndTurn, TurnError, WorkerClose, WorkerClosing, WorkerClosed
<1>10. ProcTyped'
  <2>1. CASE Check(w) BY <1>1, <2>1 DEF Check, ProcTyped, procVars
  <2>2. CASE Register(w)
    <3>1. [task |-> t, closing |-> FALSE] \in TurnRecord BY <1>2 DEF TurnRecord
    <3> QED BY <1>6, <2>2, <3>1 DEF Register, t
  <2>3. CASE Start(w) BY <1>5, <2>3 DEF Start, t
  <2>4. CASE Verify(w) BY <1>4, <2>4 DEF Verify
  <2>5. CASE BeginTurn(w) BY <1>5, <2>5 DEF BeginTurn, t
  <2>6. CASE EndTurn(w) BY <1>5, <2>6 DEF EndTurn, t
  <2>7. CASE TurnError(w) BY <1>5, <2>7 DEF TurnError, t
  <2>8. CASE FinishCompleted(w) BY <1>4, <2>8 DEF FinishCompleted
  <2>9. CASE FinishFailed(w) BY <1>4, <2>9 DEF FinishFailed
  <2>10. CASE WorkerClose(w)
    <3>1. CASE UNCHANGED live BY <1>4, <2>10, <3>1 DEF WorkerClose, procVars
    <3>2. CASE OwnClose(t)
      <4>1. [task |-> t, closing |-> TRUE] \in TurnRecord BY <1>2 DEF TurnRecord
      <4> QED BY <1>6, <2>10, <3>2, <4>1 DEF WorkerClose, OwnClose
    <3> QED BY <2>10, <3>1, <3>2 DEF WorkerClose, t
  <2>11. CASE WorkerClosing(w)
    BY <1>5, <2>11 DEF WorkerClosing, CloseServer, CloseRaises, t
  <2>12. CASE WorkerClosed(w)
    <3>1. CASE UNCHANGED live BY <1>4, <2>12, <3>1 DEF WorkerClosed, procVars
    <3> QED BY <1>6, <2>12, <3>1 DEF WorkerClosed, Unregister, t
  <2> QED BY <2>1, <2>2, <2>3, <2>4, <2>5, <2>6, <2>7, <2>8, <2>9, <2>10, <2>11, <2>12
          DEF WorkerStep
<1> QED BY <1>8, <1>9, <1>10, TypeOKParts, WorkerStepWorkersTyped

LEMMA RequestStepPoolTyped ==
  ASSUME TypeOK, NEW q \in Requester, RequestStep(q) PROVE PoolTyped'
<1> DEFINE t == request[q].task
<1>1. QueueTyped /\ ProcTyped /\ WorkersTyped /\ RequestTyped BY TypeOKParts
<1>2. request[q] \in RequestRecord /\ request \in [Requester -> RequestRecord]
  BY <1>1 DEF RequestTyped
<1>3. QueueTyped' /\ Submitted
  <2>1. CASE StopRuntime(q)
    BY <1>1, <2>1 DEF StopRuntime, FailRunning, RunningOn, With, QueueTyped, Submitted,
       Status, Terminal
  <2>2. CASE UNCHANGED queueVars BY <1>1, <2>2 DEF QueueTyped, queueVars, Submitted
  <2> QED BY <2>1, <2>2, Zenon DEF RequestStep, SnapshotTurns, RequestClose, RequestClosing,
             RequestClosed
<1>4. WorkersTyped'
  <2>1. UNCHANGED worker
    BY DEF RequestStep, StopRuntime, SnapshotTurns, RequestClose, RequestClosing, RequestClosed
  <2> QED BY <1>1, <1>3, <2>1, SameWorkersTyped
<1>5. ProcTyped'
  <2>1. CASE StopRuntime(q) BY <1>1, <2>1 DEF StopRuntime, ProcTyped, procVars
  <2>2. CASE SnapshotTurns(q) BY <1>1, <2>2 DEF SnapshotTurns, ProcTyped, procVars
  <2>3. CASE RequestClose(q)
    <3>1. CASE UNCHANGED live BY <1>1, <2>3, <3>1 DEF RequestClose, ProcTyped
    <3>2. ASSUME NEW u \in request[q].turns, OwnClose(u) PROVE ProcTyped'
      <4>1. u \in Task BY <1>2 DEF RequestRecord
      <4>2. [task |-> u, closing |-> TRUE] \in TurnRecord BY <4>1 DEF TurnRecord
      <4> QED BY <1>1, <2>3, <3>2, <4>2 DEF RequestClose, OwnClose, ProcTyped
    <3> QED BY <2>3, <3>1, <3>2, Zenon DEF RequestClose
  <2>4. CASE RequestClosing(q)
    BY <1>1, <2>4 DEF RequestClosing, CloseServer, CloseRaises, FreeScope, FreeOwnScope,
       ProcTyped, RequestTyped, AtRequest, TaskOrNone, NoTask
  <2>5. CASE RequestClosed(q)
    BY <1>1, <2>5 DEF RequestClosed, Unregister, ProcTyped
  <2> QED BY <2>1, <2>2, <2>3, <2>4, <2>5 DEF RequestStep
<1>6. RequestTyped'
  <2>1. ASSUME NEW pc \in RequestPC, GotoRequest(q, pc),
               pc \in {"closing", "closed"} => t \in Task
        PROVE  RequestTyped'
    BY <1>1, <2>1 DEF RequestTyped, RequestRecord, GotoRequest, t
  <2>2. ASSUME NEW r \in RequestRecord, request' = [request EXCEPT ![q] = r],
               r.pc \in {"closing", "closed"} => r.task \in Task
        PROVE  RequestTyped'
    BY <1>1, <2>2 DEF RequestTyped
  <2>3. {"snapshot", "close", "closed"} \subseteq RequestPC BY DEF RequestPC
  <2>4. CASE StopRuntime(q) BY <2>1, <2>3, <2>4 DEF StopRuntime
  <2>5. CASE SnapshotTurns(q)
    <3> DEFINE turns == {live[th].task : th \in LiveOn(request[q].runtime)}
    <3>1. turns \subseteq Task
      BY <1>1 DEF ProcTyped, TurnRecord, LiveOn, LiveThreads
    <3>2. [NoRequest EXCEPT !.pc = "close", !.turns = turns] \in RequestRecord
      BY <3>1 DEF NoRequest, RequestRecord, RequestPC, TaskOrNone
    <3>3. [NoRequest EXCEPT !.pc = "close", !.turns = turns].pc = "close" BY DEF NoRequest
    <3> QED BY <2>2, <2>5, <3>2, <3>3 DEF SnapshotTurns
  <2>6. CASE RequestClose(q)
    <3>1. ASSUME NEW u \in request[q].turns,
                 request' = [request EXCEPT ![q].pc = "closing", ![q].task = u,
                                            ![q].turns = @ \ {u}]
          PROVE  RequestTyped'
      BY <1>1, <1>2, <3>1 DEF RequestTyped, RequestRecord, RequestPC, TaskOrNone
    <3>2. ASSUME NEW u \in request[q].turns, AtRequest(q, "close"),
                 request' = [request EXCEPT ![q].turns = @ \ {u}]
          PROVE  RequestTyped'
      BY <1>1, <1>2, <3>2 DEF RequestTyped, RequestRecord, AtRequest
    <3>3. NoRequest \in RequestRecord /\ NoRequest.pc = "idle"
      BY DEF NoRequest, RequestRecord, RequestPC, TaskOrNone
    <3> QED BY <2>2, <2>6, <3>1, <3>2, <3>3 DEF RequestClose
  <2>7. CASE RequestClosing(q)
    BY <1>1, <2>1, <2>3, <2>7 DEF RequestClosing, RequestTyped, AtRequest, t
  <2>8. CASE RequestClosed(q) BY <2>1, <2>3, <2>8 DEF RequestClosed
  <2> QED BY <2>4, <2>5, <2>6, <2>7, <2>8 DEF RequestStep
<1> QED BY <1>3, <1>4, <1>5, <1>6, TypeOKParts

(* The steps taken from outside: the task API, claims, kills, the restart. *)
LEMMA NextPoolTyped == TypeOK /\ [Next]_vars => PoolTyped'
<1> SUFFICES ASSUME TypeOK, [Next]_vars PROVE PoolTyped'
  OBVIOUS
<1>1. QueueTyped /\ ProcTyped /\ WorkersTyped /\ RequestTyped BY TypeOKParts
<1>2. ASSUME QueueTyped', Submitted, UNCHANGED <<procVars, usable>>, UNCHANGED request,
             UNCHANGED worker
      PROVE  PoolTyped'
  BY <1>1, <1>2, TypeOKParts, SameWorkersTyped DEF ProcTyped, RequestTyped, procVars
<1>3. ASSUME NEW t \in Task, NEW th \in Thread, CreateTask(t, th) PROVE PoolTyped'
  <2>1. QueueTyped' /\ Submitted
    BY <1>1, <1>3 DEF CreateTask, QueueTyped, Submitted, Status
  <2> QED BY <1>2, <1>3, <2>1 DEF CreateTask
<1>4. ASSUME NEW t \in Task, CancelTask(t) PROVE PoolTyped'
  <2>1. QueueTyped' /\ Submitted
    BY <1>1, <1>4 DEF CancelTask, QueueTyped, Submitted, Status, Terminal
  <2> QED BY <1>2, <1>4, <2>1 DEF CancelTask
<1>5. ASSUME NEW w \in Worker, NEW t \in Task, Claim(w, t) PROVE PoolTyped'
  <2>1. threadOf[t] \in Thread BY <1>1, <1>5 DEF Claim, Claimable, QueueTyped
  <2>2. QueueTyped' /\ Submitted
    BY <1>1, <1>5, <2>1 DEF Claim, QueueTyped, Submitted, Status
  <2>3. ProcTyped' /\ RequestTyped'
    BY <1>1, <1>5 DEF Claim, ProcTyped, RequestTyped, procVars
  <2>4. WorkersTyped'
    <3>1. [pc |-> "check", task |-> t] \in WorkerRecord
      BY DEF WorkerRecord, WorkerPC, TaskOrNone
    <3>2. status'[t] # "absent" BY <1>1, <1>5 DEF Claim, QueueTyped
    <3> QED BY <1>1, <1>5, <2>2, <3>1, <3>2 DEF Claim, WorkersTyped, Submitted
  <2> QED BY <2>2, <2>3, <2>4, TypeOKParts
<1>6. ASSUME NEW q \in Requester, NEW t \in Task, KillTask(q, t) PROVE PoolTyped'
  <2>1. QueueTyped' /\ Submitted
    BY <1>1, <1>6 DEF KillTask, QueueTyped, Submitted, Status, Terminal
  <2>2. ProcTyped' /\ WorkersTyped'
    BY <1>1, <1>6, <2>1, SameWorkersTyped DEF KillTask, ProcTyped, procVars
  <2>3. RequestTyped'
    <3>1. [NoRequest EXCEPT !.pc = "close", !.turns = {t}] \in RequestRecord
      BY DEF NoRequest, RequestRecord, RequestPC, TaskOrNone
    <3>2. [NoRequest EXCEPT !.pc = "close", !.turns = {t}].pc = "close" BY DEF NoRequest
    <3> QED BY <1>1, <1>6, <3>1, <3>2 DEF KillTask, RequestTyped
  <2> QED BY <2>1, <2>2, <2>3, TypeOKParts
<1>7. ASSUME NEW r \in Runtime, Refresh(r) PROVE PoolTyped'
  <2>1. QueueTyped' /\ WorkersTyped' /\ RequestTyped'
    BY <1>1, <1>7, QuietSubmitted, SameWorkersTyped
    DEF Refresh, QueueTyped, RequestTyped, queueVars
  <2>2. ProcTyped' BY <1>1, <1>7 DEF Refresh, ProcTyped, procVars
  <2> QED BY <2>1, <2>2, TypeOKParts
<1>8. ASSUME NEW q \in Requester, NEW r \in Runtime, Deactivate(q, r) PROVE PoolTyped'
  <2>1. QueueTyped' /\ WorkersTyped'
    BY <1>1, <1>8, QuietSubmitted, SameWorkersTyped DEF Deactivate, QueueTyped, queueVars
  <2>2. ProcTyped' BY <1>1, <1>8 DEF Deactivate, ProcTyped, procVars
  <2>3. RequestTyped'
    <3>1. [NoRequest EXCEPT !.pc = "stop", !.runtime = r] \in RequestRecord
      BY DEF NoRequest, RequestRecord, RequestPC, TaskOrNone
    <3>2. [NoRequest EXCEPT !.pc = "stop", !.runtime = r].pc = "stop" BY DEF NoRequest
    <3> QED BY <1>1, <1>8, <3>1, <3>2 DEF Deactivate, RequestTyped
  <2> QED BY <2>1, <2>2, <2>3, TypeOKParts
<1>9. CASE Restart
  <2>1. QueueTyped'
    BY <1>1, <1>9 DEF Restart, FailRunning, With, QueueTyped, Status, Terminal
  <2>2. ProcTyped' BY <1>9 DEF Restart, ProcTyped, TaskOrNone
  <2>3. WorkersTyped'
    BY <1>9 DEF Restart, WorkersTyped, WorkerRecord, WorkerPC, Idle, TaskOrNone
  <2>4. RequestTyped'
    BY <1>9 DEF Restart, RequestTyped, RequestRecord, RequestPC, NoRequest, TaskOrNone
  <2> QED BY <2>1, <2>2, <2>3, <2>4, TypeOKParts
<1>10. CASE UNCHANGED vars
  <2>1. QueueTyped' /\ Submitted BY <1>1, <1>10 DEF vars, queueVars, QueueTyped, Submitted
  <2> QED BY <1>2, <1>10, <2>1 DEF vars
<1>11. ASSUME NEW w \in Worker, FindsNothing(w) PROVE PoolTyped'
  <2>1. QueueTyped' /\ Submitted
    BY <1>1, <1>11 DEF FindsNothing, queueVars, QueueTyped, Submitted
  <2> QED BY <1>2, <1>11, <2>1 DEF FindsNothing
<1> QED BY <1>3, <1>4, <1>5, <1>6, <1>7, <1>8, <1>9, <1>10, <1>11, WorkerStepPoolTyped,
        RequestStepPoolTyped DEF Next

LEMMA NextTypeOK == TypeOK /\ [Next]_vars => TypeOK'
  BY NextPoolTyped, WakeTypedStep, TypeOKParts

(* Type correctness of the worker pool.                                    *)
THEOREM TypeCorrect == Spec => []TypeOK
  BY InitTypeOK, NextTypeOK, PTL DEF Spec

-----------------------------------------------------------------------------
(* What a step can do to the tasks table: five moves, and no other.        *)

Completes ==
  \E t \in Task :
    /\ status[t] = "running"
    /\ status' = [status EXCEPT ![t] = "completed"]
    /\ session' = [session EXCEPT ![threadOf[t]] = t]
    /\ UNCHANGED <<threadOf, resumed>>
Ends ==
  /\ UNCHANGED <<threadOf, session, resumed>>
  /\ \/ \E t \in Task : Lifecycle!Withdraw(t)
     \/ \E t \in Task, s \in {"failed", "cancelled"} : Lifecycle!Finish(t, s)
     \/ \E S \in SUBSET With("running") : FailRunning(S)
Creates == \E t \in Task, th \in Thread : CreateTask(t, th)
Claims == \E w \in Worker, t \in Task : Claim(w, t)

LEMMA WorkerQueueMoves ==
  ASSUME TypeOK, NEW w \in Worker, WorkerStep(w)
  PROVE  UNCHANGED queueVars \/ Completes \/ Ends
<1> DEFINE t == worker[w].task
<1>1. CASE FinishCompleted(w)
  <2>1. t \in Task BY <1>1 DEF FinishCompleted, At, TypeOK
  <2>2. CASE UNCHANGED <<status, session>> BY <1>1, <2>2 DEF FinishCompleted, queueVars
  <2> QED BY <1>1, <2>1, <2>2 DEF FinishCompleted, Completes
<1>2. CASE FinishFailed(w)
  <2>1. t \in Task BY <1>2 DEF FinishFailed, At, TypeOK
  <2>2. CASE UNCHANGED status BY <1>2, <2>2 DEF FinishFailed, queueVars
  <2>3. CASE status[t] = "running" /\ status' = [status EXCEPT ![t] = "failed"]
    <3>1. Lifecycle!Finish(t, "failed")
      BY <1>2, <2>3 DEF FinishFailed, Lifecycle!Finish
    <3> QED BY <1>2, <2>1, <3>1 DEF FinishFailed, Ends, Terminal
  <2> QED BY <1>2, <2>2, <2>3 DEF FinishFailed
<1>3. CASE ~FinishCompleted(w) /\ ~FinishFailed(w)
  BY <1>3, QuietStepKeepsQueue DEF WorkerStep, QuietStep
<1> QED BY <1>1, <1>2, <1>3

LEMMA RequestQueueMoves ==
  ASSUME NEW q \in Requester, RequestStep(q) PROVE UNCHANGED queueVars \/ Ends
<1>1. CASE StopRuntime(q)
  <2>1. RunningOn(request[q].runtime) \in SUBSET With("running") BY DEF RunningOn
  <2> QED BY <1>1, <2>1 DEF StopRuntime, Ends
<1> QED BY <1>1, QuietStepKeepsQueue DEF RequestStep, QuietStep

LEMMA QueueMoves ==
  ASSUME TypeOK, [Next]_vars
  PROVE  UNCHANGED queueVars \/ Creates \/ Claims \/ Completes \/ Ends
<1>1. CASE Creates BY <1>1
<1>2. CASE Claims BY <1>2
<1>3. ASSUME NEW t \in Task, CancelTask(t) PROVE Ends
  BY <1>3 DEF CancelTask, Ends, Lifecycle!Withdraw
<1>5. ASSUME NEW q \in Requester, NEW t \in Task, KillTask(q, t) PROVE Ends
  BY <1>5 DEF KillTask, Ends, Lifecycle!Finish, Terminal
<1>7. CASE Restart
  <2>1. With("running") \in SUBSET With("running") OBVIOUS
  <2> QED BY <1>7, <2>1 DEF Restart, Ends
<1>8. CASE QuietStep BY <1>8, QuietStepKeepsQueue
<1>9. CASE UNCHANGED vars BY <1>9 DEF vars, queueVars
<1> QED BY <1>1, <1>2, <1>3, <1>5, <1>7, <1>8, <1>9, WorkerQueueMoves,
        RequestQueueMoves DEF Next, Creates, Claims, QuietStep

(* No task becomes RUNNING but by a claim, and ended tasks stay ended.     *)
LEMMA EndsOnly ==
  ASSUME TypeOK, Completes \/ Ends
  PROVE  /\ UNCHANGED <<threadOf, resumed>>
         /\ \A t \in Task : \/ status'[t] = status[t]
                            \/ status[t] \in {"queued", "running"} /\ status'[t] \in Terminal
<1>1. status \in [Task -> Status] BY DEF TypeOK
<1>2. CASE Completes BY <1>1, <1>2 DEF Completes, Terminal
<1>3. CASE Ends
  BY <1>1, <1>3 DEF Ends, Lifecycle!Withdraw, Lifecycle!Finish, FailRunning, With, Terminal
<1> QED BY <1>2, <1>3

-----------------------------------------------------------------------------
(* The inductive invariant of the queue.  SessionChain needs the second    *)
(* conjunct, which in turn needs threads to be serialized: a completing    *)
(* task replaces the session that only it had been handed.                 *)
RunningHasSession == \A t \in With("running") : resumed[t] = session[threadOf[t]]
QueueInv == OneRunningPerThread /\ RunningHasSession /\ RuntimeCap

LEMMA TasksFinite == IsFiniteSet(Task) /\ \A S \in SUBSET Task : IsFiniteSet(S)
<1>1. IsFiniteSet(Task)
  <2>1. 1 \in Int /\ NTasks \in Int BY OrchestratorConstants
  <2> QED BY <2>1, FS_Interval DEF Task
<1> QED BY <1>1, FS_Subset

LEMMA InitQueueInv == Init => QueueInv
<1>1. ASSUME Init PROVE With("running") = {} BY <1>1 DEF Init, With
<1>2. ASSUME Init PROVE RuntimeCap
  BY <1>1, <1>2, FS_EmptySet, OrchestratorConstants DEF RuntimeCap, RunningOn
<1> QED BY <1>1, <1>2 DEF QueueInv, OneRunningPerThread, RunningHasSession

LEMMA OneRunningStep ==
  ASSUME TypeOK, OneRunningPerThread, [Next]_vars PROVE OneRunningPerThread'
<1>1. CASE UNCHANGED queueVars BY <1>1 DEF queueVars, OneRunningPerThread, With
<1>2. CASE Creates BY <1>2 DEF Creates, CreateTask, OneRunningPerThread, With, TypeOK
<1>3. CASE Claims
  BY <1>3 DEF Claims, Claim, Claimable, Unavailable, RunningThreads, OneRunningPerThread, With,
     TypeOK
<1>4. CASE Completes \/ Ends
  BY <1>4, EndsOnly DEF OneRunningPerThread, With, Terminal
<1> QED BY <1>1, <1>2, <1>3, <1>4, QueueMoves

LEMMA RunningHasSessionStep ==
  ASSUME TypeOK, OneRunningPerThread, RunningHasSession, [Next]_vars
  PROVE  RunningHasSession'
<1>1. CASE UNCHANGED queueVars BY <1>1 DEF queueVars, RunningHasSession, With
<1>2. CASE Creates BY <1>2 DEF Creates, CreateTask, RunningHasSession, With, TypeOK
<1>3. CASE Claims BY <1>3 DEF Claims, Claim, RunningHasSession, With, TypeOK
<1>4. CASE Completes
  <2>1. PICK t \in Task :
          /\ status[t] = "running" /\ status' = [status EXCEPT ![t] = "completed"]
          /\ session' = [session EXCEPT ![threadOf[t]] = t]
          /\ UNCHANGED <<threadOf, resumed>>
    BY <1>4 DEF Completes
  <2>2. threadOf[t] \in Thread /\ status \in [Task -> Status] /\ session \in [Thread -> TaskOrNone]
    BY <2>1 DEF TypeOK
  <2>3. ASSUME NEW u \in Task, status'[u] = "running"
        PROVE  resumed'[u] = session'[threadOf'[u]]
    <3>1. status[u] = "running" /\ u # t BY <2>1, <2>2, <2>3
    <3>2. threadOf[u] \in Thread BY <3>1 DEF TypeOK
    <3>3. threadOf[u] # threadOf[t] BY <2>1, <3>1 DEF OneRunningPerThread, With
    <3>4. session'[threadOf[u]] = session[threadOf[u]] BY <2>1, <2>2, <3>2, <3>3
    <3> QED BY <2>1, <3>1, <3>4 DEF RunningHasSession, With
  <2> QED BY <2>3 DEF RunningHasSession, With
<1>5. CASE Ends
  BY <1>5, EndsOnly DEF Ends, RunningHasSession, With, Terminal
<1> QED BY <1>1, <1>2, <1>3, <1>4, <1>5, QueueMoves

LEMMA RuntimeCapStep ==
  ASSUME TypeOK, RuntimeCap, [Next]_vars PROVE RuntimeCap'
<1>1. \A r \in Runtime : RunningOn(r)' \subseteq Task BY DEF RunningOn, With
<1>2. ASSUME NEW r \in Runtime, RunningOn(r)' \subseteq RunningOn(r)
      PROVE  Cardinality(RunningOn(r)') <= WORKER_COUNT_PER_RUNTIME
  <2>1. RunningOn(r) \in SUBSET Task BY DEF RunningOn, With
  <2>2. IsFiniteSet(RunningOn(r)) BY <2>1, TasksFinite
  <2>3. /\ Cardinality(RunningOn(r)') <= Cardinality(RunningOn(r))
        /\ Cardinality(RunningOn(r)) \in Nat /\ Cardinality(RunningOn(r)') \in Nat
    BY <1>2, <2>2, FS_Subset, FS_CardinalityType
  <2> QED BY <2>3, OrchestratorConstants DEF RuntimeCap
<1>3. ASSUME UNCHANGED queueVars \/ Creates \/ Completes \/ Ends, NEW r \in Runtime
      PROVE  RunningOn(r)' \subseteq RunningOn(r)
  <2>1. CASE UNCHANGED queueVars
    BY <2>1 DEF queueVars, RunningOn, With, RuntimeOfTask
  <2>2. CASE Creates
    BY <2>2 DEF Creates, CreateTask, RunningOn, With, RuntimeOfTask, TypeOK
  <2>3. CASE Completes \/ Ends
    BY <2>3, EndsOnly DEF RunningOn, With, RuntimeOfTask, Terminal
  <2> QED BY <1>3, <2>1, <2>2, <2>3
<1>4. ASSUME NEW w \in Worker, NEW t \in Task, Claim(w, t), NEW r \in Runtime
      PROVE  Cardinality(RunningOn(r)') <= WORKER_COUNT_PER_RUNTIME
  <2>1. CASE r # RuntimeOfTask(t)
    <3>1. RunningOn(r)' \subseteq RunningOn(r)
      BY <1>4, <2>1 DEF Claim, RunningOn, With, RuntimeOfTask, TypeOK
    <3> QED BY <1>2, <3>1
  <2>2. CASE r = RuntimeOfTask(t)
    <3>1. RunningOn(r) \in SUBSET Task BY DEF RunningOn, With
    <3>2. t \notin RunningOn(r) BY <1>4 DEF Claim, Claimable, RunningOn, With
    <3>3. RunningOn(r)' = RunningOn(r) \cup {t}
      BY <1>4, <2>2 DEF Claim, RunningOn, With, RuntimeOfTask, TypeOK
    <3>4. Cardinality(RunningOn(r)') = Cardinality(RunningOn(r)) + 1
      BY <3>1, <3>2, <3>3, TasksFinite, FS_AddElement
    <3>5. Cardinality(RunningOn(r)) < WORKER_COUNT_PER_RUNTIME
      BY <1>4, <2>2 DEF Claim, Claimable, BelowCaps
    <3>6. Cardinality(RunningOn(r)) \in Nat BY <3>1, TasksFinite, FS_CardinalityType
    <3> QED BY <3>4, <3>5, <3>6, OrchestratorConstants
  <2> QED BY <2>1, <2>2
<1>5. CASE Claims BY <1>4, <1>5 DEF Claims, RuntimeCap
<1>6. CASE ~Claims BY <1>2, <1>3, <1>6, QueueMoves DEF RuntimeCap
<1> QED BY <1>5, <1>6

LEMMA QueueInvStep == TypeOK /\ QueueInv /\ [Next]_vars => QueueInv'
  BY OneRunningStep, RunningHasSessionStep, RuntimeCapStep DEF QueueInv

LEMMA QueueInvariant == Spec => []QueueInv
  BY InitQueueInv, QueueInvStep, TypeCorrect, PTL DEF Spec

(* Tasks on the same user thread are serialized.                           *)
THEOREM ThreadsSerialized == Spec => []OneRunningPerThread
  BY QueueInvariant, PTL DEF QueueInv

(* No runtime ever runs more than WORKER_COUNT_PER_RUNTIME tasks.          *)
THEOREM RuntimesCapped == Spec => []RuntimeCap
  BY QueueInvariant, PTL DEF QueueInv

LEMMA SessionChainStep ==
  TypeOK /\ QueueInv /\ [Next]_vars =>
    \A t \in Task : status[t] # "completed" /\ status'[t] = "completed" =>
      /\ session[threadOf[t]] = resumed[t]
      /\ session'[threadOf[t]] = t
<1> SUFFICES ASSUME TypeOK, QueueInv, [Next]_vars, NEW t \in Task,
                    status[t] # "completed", status'[t] = "completed"
             PROVE  session[threadOf[t]] = resumed[t] /\ session'[threadOf[t]] = t
  OBVIOUS
<1>1. Completes \/ Ends
  <2>1. ~UNCHANGED queueVars BY DEF queueVars
  <2>2. ~Creates BY DEF Creates, CreateTask, TypeOK
  <2>3. ~Claims BY DEF Claims, Claim, TypeOK
  <2> QED BY <2>1, <2>2, <2>3, QueueMoves
<1>2. ~Ends
  BY DEF Ends, Lifecycle!Withdraw, Lifecycle!Finish, FailRunning, With, TypeOK
<1>3. status[t] = "running" /\ session' = [session EXCEPT ![threadOf[t]] = t]
  BY <1>1, <1>2 DEF Completes, TypeOK
<1>4. threadOf[t] \in Thread BY <1>3 DEF TypeOK
<1>5. session[threadOf[t]] = resumed[t]
  BY <1>3 DEF QueueInv, RunningHasSession, With
<1> QED BY <1>3, <1>4, <1>5 DEF TypeOK

(* A turn that completes was started from the session it replaces.         *)
THEOREM SessionsChain == Spec => SessionChain
<1>1. TypeOK /\ QueueInv /\ [Next]_vars =>
        [\A t \in Task : status[t] # "completed" /\ status'[t] = "completed" =>
           /\ session[threadOf[t]] = resumed[t]
           /\ session'[threadOf[t]] = t]_vars
  BY SessionChainStep
<1> QED BY <1>1, QueueInvariant, TypeCorrect, PTL DEF Spec, SessionChain

-----------------------------------------------------------------------------
(* Who drives a task                                                       *)

(* The inductive form: a worker's task was claimed, so it can never be     *)
(* claimed again.                                                          *)
ClaimedForGood == \A w \in Worker : worker[w].pc # "idle" => status[worker[w].task] # "queued"
DriverInv == ClaimedForGood /\ OneDriver /\ (~DbMayFail => RunningIsDriven)

LEMMA InitDriverInv == Init => DriverInv
  BY DEF Init, DriverInv, ClaimedForGood, OneDriver, RunningIsDriven, With, Idle, NoTask, Task

(* A worker lets go of its task only when the task has ended.              *)
LEMMA DrivingKept ==
  ASSUME TypeOK, ~DbMayFail, NEW w \in Worker, WorkerStep(w), NEW u \in Task,
         Driving(w, u), status'[u] = "running"
  PROVE  Driving(w, u)'
<1>1. /\ worker \in [Worker -> WorkerRecord] /\ status \in [Task -> Status]
      /\ worker[w].task = u /\ worker[w].pc \notin {"idle", "close", "closing", "closed"}
  BY DEF TypeOK, Driving
<1>2. ASSUME NEW pc \in {"reject", "register", "start", "verify", "turn", "running", "done",
                         "fail"}, Goto(w, pc)
      PROVE  Driving(w, u)'
  BY <1>1, <1>2 DEF Goto, Driving, WorkerRecord
<1>3. CASE Check(w) BY <1>2, <1>3, Zenon DEF Check
<1>4. CASE Register(w) BY <1>2, <1>4, Zenon DEF Register
<1>5. CASE Start(w) BY <1>2, <1>5, Zenon DEF Start
<1>6. CASE Verify(w) BY <1>1, <1>2, <1>6 DEF Verify, queueVars
<1>7. CASE BeginTurn(w) BY <1>2, <1>7, Zenon DEF BeginTurn
<1>8. CASE EndTurn(w) BY <1>2, <1>8, Zenon DEF EndTurn
<1>9. CASE TurnError(w) BY <1>2, <1>9, Zenon DEF TurnError
<1>10. CASE FinishCompleted(w) BY <1>1, <1>10 DEF FinishCompleted
<1>11. CASE FinishFailed(w) BY <1>1, <1>11 DEF FinishFailed
<1>12. CASE WorkerClose(w) \/ WorkerClosing(w) \/ WorkerClosed(w)
  BY <1>1, <1>12 DEF WorkerClose, WorkerClosing, WorkerClosed, At
<1> QED BY <1>3, <1>4, <1>5, <1>6, <1>7, <1>8, <1>9, <1>10, <1>11, <1>12 DEF WorkerStep

(* Other workers stand still while one of them steps.                      *)
LEMMA OthersStandStill ==
  ASSUME TypeOK, NEW w \in Worker, WorkerStep(w)
  PROVE  /\ worker' \in [Worker -> WorkerRecord]
         /\ \A v \in Worker : v # w => worker'[v] = worker[v]
         /\ worker'[w].pc # "idle" => worker'[w].task = worker[w].task
<1>1. worker \in [Worker -> WorkerRecord] BY DEF TypeOK
<1>2. CASE Rest(w)
  BY <1>1, <1>2 DEF Rest, Idle, WorkerRecord, WorkerPC, TaskOrNone, NoTask
<1>3. ASSUME NEW pc \in WorkerPC, Goto(w, pc)
      PROVE  /\ worker' \in [Worker -> WorkerRecord]
             /\ \A v \in Worker : v # w => worker'[v] = worker[v]
             /\ worker'[w].task = worker[w].task
  BY <1>1, <1>3 DEF Goto, WorkerRecord
<1> QED BY <1>2, <1>3, WorkerMoves

(* The steps that are nobody's round: no worker moves, none begins to run. *)
LEMMA StillWorkersStep ==
  ASSUME TypeOK, DriverInv, UNCHANGED worker,
         \A t \in Task : status'[t] = "running" => status[t] = "running",
         \A t \in Task : status[t] \notin {"absent", "queued"} => status'[t] # "queued"
  PROVE  DriverInv'
<1>1. ClaimedForGood' BY DEF DriverInv, ClaimedForGood, TypeOK
<1>2. OneDriver' BY DEF DriverInv, OneDriver
<1>3. ~DbMayFail => RunningIsDriven' BY DEF DriverInv, RunningIsDriven, Driving, With
<1> QED BY <1>1, <1>2, <1>3 DEF DriverInv

LEMMA ClaimDriverInv ==
  ASSUME TypeOK, DriverInv, NEW w \in Worker, NEW t \in Task, Claim(w, t) PROVE DriverInv'
<1>1. /\ worker[w].pc = "idle" /\ status[t] = "queued"
      /\ worker' = [worker EXCEPT ![w] = [pc |-> "check", task |-> t]]
      /\ status' = [status EXCEPT ![t] = "running"]
  BY DEF Claim, Looks, Claimable, At
<1>2. /\ worker'[w] = [pc |-> "check", task |-> t]
      /\ \A v \in Worker : v # w => worker'[v] = worker[v]
      /\ status'[t] = "running" /\ \A u \in Task : u # t => status'[u] = status[u]
  BY <1>1 DEF TypeOK
<1>3. \A v \in Worker : v # w /\ worker[v].pc # "idle" => worker[v].task \in Task \ {t}
  BY <1>1 DEF DriverInv, ClaimedForGood, TypeOK
<1>4. ClaimedForGood' BY <1>2, <1>3 DEF DriverInv, ClaimedForGood
<1>5. OneDriver' BY <1>2, <1>3 DEF DriverInv, OneDriver
<1>6. ASSUME ~DbMayFail, NEW u \in Task, status'[u] = "running"
      PROVE  \E v \in Worker : Driving(v, u)'
  <2>1. CASE u = t BY <1>2, <2>1 DEF Driving
  <2>2. CASE u # t
    <3>1. PICK v \in Worker : Driving(v, u)
      BY <1>2, <1>6, <2>2 DEF DriverInv, RunningIsDriven, With
    <3>2. v # w BY <1>1, <3>1 DEF Driving
    <3> QED BY <1>2, <3>1, <3>2 DEF Driving
  <2> QED BY <2>1, <2>2
<1> QED BY <1>4, <1>5, <1>6 DEF DriverInv, RunningIsDriven, With

LEMMA WorkerStepDriverInv ==
  ASSUME TypeOK, DriverInv, NEW w \in Worker, WorkerStep(w) PROVE DriverInv'
<1>1. \A t \in Task : \/ status'[t] = status[t]
                      \/ status[t] \in {"queued", "running"} /\ status'[t] \in Terminal
  BY WorkerQueueMoves, EndsOnly DEF queueVars
<1>2. \A v \in Worker : worker'[v].pc # "idle" =>
        /\ worker[v].pc # "idle" /\ worker'[v].task = worker[v].task
        /\ worker[v].task \in Task
  BY OthersStandStill, WorkerMoves DEF TypeOK
<1>3. ClaimedForGood' BY <1>1, <1>2 DEF DriverInv, ClaimedForGood, Terminal
<1>4. OneDriver' BY <1>2 DEF DriverInv, OneDriver
<1>5. ASSUME ~DbMayFail, NEW u \in Task, status'[u] = "running"
      PROVE  \E v \in Worker : Driving(v, u)'
  <2>1. status[u] = "running" BY <1>1, <1>5 DEF Terminal
  <2>2. PICK v \in Worker : Driving(v, u)
    BY <1>5, <2>1 DEF DriverInv, RunningIsDriven, With
  <2>3. CASE v = w BY <1>5, <2>2, <2>3, DrivingKept
  <2>4. CASE v # w BY <2>2, <2>4, OthersStandStill DEF Driving
  <2> QED BY <2>3, <2>4
<1> QED BY <1>3, <1>4, <1>5 DEF DriverInv, RunningIsDriven, With

LEMMA DriverInvStep == TypeOK /\ DriverInv /\ [Next]_vars => DriverInv'
<1> SUFFICES ASSUME TypeOK, DriverInv, [Next]_vars PROVE DriverInv'
  OBVIOUS
<1>1. status \in [Task -> Status] BY DEF TypeOK
<1>2. ASSUME UNCHANGED worker, UNCHANGED queueVars \/ Ends PROVE DriverInv'
  BY <1>1, <1>2, StillWorkersStep, EndsOnly DEF queueVars, Terminal
<1>3. ASSUME NEW t \in Task, NEW th \in Thread, CreateTask(t, th) PROVE DriverInv'
  <2>1. UNCHANGED worker BY <1>3 DEF CreateTask
  <2>2. \A u \in Task : /\ status'[u] = "running" => status[u] = "running"
                        /\ status[u] \notin {"absent", "queued"} => status'[u] # "queued"
    BY <1>1, <1>3 DEF CreateTask
  <2>3. \A w \in Worker : worker[w].pc # "idle" => status[worker[w].task] # "absent"
    BY DEF TypeOK
  <2> QED BY <2>1, <2>2, <2>3, StillWorkersStep
<1>4. ASSUME NEW w \in Worker, NEW t \in Task, Claim(w, t) PROVE DriverInv'
  BY <1>4, ClaimDriverInv
<1>5. ASSUME NEW w \in Worker, WorkerStep(w) PROVE DriverInv'
  BY <1>5, WorkerStepDriverInv
<1>6. ASSUME NEW t \in Task, CancelTask(t) PROVE DriverInv'
  BY <1>2, <1>6 DEF CancelTask, Ends, Lifecycle!Withdraw
<1>7. ASSUME NEW q \in Requester, NEW t \in Task, KillTask(q, t) PROVE DriverInv'
  BY <1>2, <1>7 DEF KillTask, Ends, Lifecycle!Finish
<1>8. ASSUME NEW q \in Requester, RequestStep(q) PROVE DriverInv'
  <2>1. UNCHANGED worker
    BY <1>8 DEF RequestStep, StopRuntime, SnapshotTurns, RequestClose, RequestClosing,
       RequestClosed
  <2> QED BY <1>2, <1>8, <2>1, RequestQueueMoves
<1>9. ASSUME NEW q \in Requester, NEW r \in Runtime, Deactivate(q, r) PROVE DriverInv'
  BY <1>2, <1>9 DEF Deactivate
<1>10. ASSUME NEW r \in Runtime, Refresh(r) PROVE DriverInv' BY <1>2, <1>10 DEF Refresh
<1>11. CASE Restart
  <2>1. \A w \in Worker : worker'[w].pc = "idle" BY <1>11 DEF Restart, Idle
  <2>2. With("running")' = {} BY <1>1, <1>11 DEF Restart, FailRunning, With
  <2> QED BY <2>1, <2>2 DEF DriverInv, ClaimedForGood, OneDriver, RunningIsDriven
<1>12. CASE UNCHANGED vars BY <1>2, <1>12 DEF vars
<1>13. ASSUME NEW w \in Worker, FindsNothing(w) PROVE DriverInv'
  BY <1>2, <1>13 DEF FindsNothing
<1> QED BY <1>3, <1>4, <1>5, <1>6, <1>7, <1>8, <1>9, <1>10, <1>11, <1>12, <1>13 DEF Next

LEMMA DriverInvariant == Spec => []DriverInv
  BY InitDriverInv, DriverInvStep, TypeCorrect, PTL DEF Spec

(* No two workers ever drive the same task.                                *)
THEOREM DriversUnique == Spec => []OneDriver
  BY DriverInvariant, PTL DEF DriverInv

(* While the mutation that ends a task does not fail, no task is left      *)
(* RUNNING with no worker attached.                                        *)
THEOREM RunningDriven == Spec => [](~DbMayFail => RunningIsDriven)
  BY DriverInvariant, PTL DEF DriverInv

-----------------------------------------------------------------------------
(* The worker pool implements the task lifecycle.                          *)

LEMMA SameCardinality == ASSUME NEW S PROVE Lifecycle!Cardinality(S) = Cardinality(S)
  BY Zenon DEF Lifecycle!Cardinality, Cardinality

LEMMA ClaimBegins ==
  ASSUME TypeOK, NEW w \in Worker, NEW t \in Task, Claim(w, t) PROVE Lifecycle!Begin(t)
<1>1. /\ Claimable(t) /\ \A u \in Task : u < t => ~Claimable(u)
      /\ status' = [status EXCEPT ![t] = "running"] /\ UNCHANGED threadOf
  BY DEF Claim
<1>2. \A u \in Lifecycle!On(threadOf[t]) : status[u] # "running"
  BY <1>1 DEF Lifecycle!On, Lifecycle!Task, Claimable, Unavailable, RunningThreads, With, Task
<1>3. \A u \in Lifecycle!On(threadOf[t]) : u < t => status[u] # "queued"
  BY <1>1 DEF Lifecycle!On, Lifecycle!Task, Claimable, RuntimeOfTask, Task
<1>4. Cardinality(Lifecycle!RunningOn(RuntimeOf[threadOf[t]])) < WORKER_COUNT_PER_RUNTIME
  <2>1. Lifecycle!RunningOn(RuntimeOf[threadOf[t]]) = RunningOn(RuntimeOfTask(t))
    BY DEF RunningOn, RuntimeOfTask, With, Task, Lifecycle!RunningOn, Lifecycle!With,
       Lifecycle!Task
  <2> QED BY <1>1, <2>1, Zenon DEF Claimable, BelowCaps
<1> QED BY <1>1, <1>2, <1>3, <1>4, SameCardinality DEF Claimable, Lifecycle!Begin

LEMMA StepsKeepLifecycle == TypeOK /\ [Next]_vars => [Lifecycle!Next]_(Lifecycle!vars)
<1> SUFFICES ASSUME TypeOK, [Next]_vars PROVE [Lifecycle!Next]_(Lifecycle!vars)
  OBVIOUS
<1>1. Lifecycle!Task = Task /\ Lifecycle!Terminal = Terminal /\ Lifecycle!With("running") = With("running")
  BY DEF Lifecycle!Task, Task, Lifecycle!Terminal, Terminal, Lifecycle!With, With
<1>2. CASE UNCHANGED queueVars BY <1>2 DEF queueVars, Lifecycle!vars
<1>3. CASE Creates
  <2>1. PICK t \in Task, th \in Thread : CreateTask(t, th) BY <1>3 DEF Creates
  <2>2. Lifecycle!With("queued") = With("queued")
    BY DEF With, Task, Lifecycle!With, Lifecycle!Task
  <2>3. Lifecycle!Submit(t, th) BY <1>1, <2>1, <2>2, SameCardinality DEF CreateTask, Lifecycle!Submit
  <2> QED BY <1>1, <2>3 DEF Lifecycle!Next
<1>4. CASE Claims BY <1>1, <1>4, ClaimBegins DEF Claims, Lifecycle!Next
<1>5. CASE Completes
  <2>1. PICK t \in Task : Lifecycle!Finish(t, "completed")
    BY <1>5 DEF Completes, Lifecycle!Finish
  <2> QED BY <1>1, <2>1 DEF Lifecycle!Next, Terminal
<1>6. CASE Ends
  <2>1. ASSUME NEW t \in Task, Lifecycle!Withdraw(t) PROVE Lifecycle!Next
    BY <1>1, <2>1 DEF Lifecycle!Next
  <2>2. ASSUME NEW t \in Task, NEW s \in {"failed", "cancelled"}, Lifecycle!Finish(t, s)
        PROVE  Lifecycle!Next
    BY <1>1, <2>2 DEF Lifecycle!Next, Terminal
  <2>3. ASSUME NEW S \in SUBSET With("running"), FailRunning(S) PROVE Lifecycle!Next
    <3>1. Lifecycle!Abandon(S)
      BY <1>1, <1>6, <2>3 DEF Ends, FailRunning, Lifecycle!Abandon
    <3> QED BY <1>1, <3>1 DEF Lifecycle!Next
  <2> QED BY <1>6, <2>1, <2>2, <2>3 DEF Ends
<1> QED BY <1>2, <1>3, <1>4, <1>5, <1>6, QueueMoves

(* The worker pool implements TaskLifecycle.                               *)
THEOREM ImplementsLifecycle == Spec => KeepsLifecycle
<1>1. Init => Lifecycle!Init BY DEF Init, Lifecycle!Init, Lifecycle!Task, Task
<1> QED BY <1>1, StepsKeepLifecycle, TypeCorrect, PTL DEF Spec, KeepsLifecycle, Lifecycle!Spec
=============================================================================
