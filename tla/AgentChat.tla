------------------------------- MODULE AgentChat -------------------------------
(***************************************************************************)
(* An app's tasks: the Agent Chat backend (host/apps/agent_chat) keeps a   *)
(* table of threads and a table of the host tasks it has recorded; the     *)
(* host keeps the tasks themselves and reaches them through the app        *)
(* backend socket (admin_api/app_backend_api.py). The two are separate     *)
(* databases and a call between them may be refused or lost, before or     *)
(* after the host has acted on it.                                         *)
(*                                                                         *)
(* A request sends one message: to the thread it names, whether the app    *)
(* has a row for it or not, or to a new one whose name the app generates.  *)
(* A host thread is an app and its thread. A name that the generator could *)
(* not have made is left out: it meets no generated one.                   *)
(***************************************************************************)
EXTENDS Naturals, FiniteSets, FiniteSetsExt

CONSTANTS
    Requests,          \* create_app_task calls, each served by a thread of its own
    Configs,           \* (agent_runtime, model, effort)
    MaxThreads,        \* bound on the generated names: thread-1 .. thread-N
    QUEUED_TASK_LIMIT,
    CallsMayFail,      \* an admin API call may be lost, before or after it acts
    WritesMayFail      \* a transaction of the app may raise, before or after it commits

\* A task is named by the request that made it; the other app has one of its own.
Other == [other |-> TRUE]

ASSUME ChatAssumption ==
    /\ IsFiniteSet(Requests) /\ Other \notin Requests
    /\ MaxThreads \in Nat /\ QUEUED_TASK_LIMIT \in Nat
    /\ CallsMayFail \in BOOLEAN /\ WritesMayFail \in BOOLEAN

Threads == 1 .. MaxThreads
NoThread == 0
NoConfig == [none |-> TRUE]
Nowhere == <<"none", 0>>
Apps == {"agent_chat", "other"}
Tasks == Requests \cup {Other}
Active == {"queued", "running"}
\* Completed, failed or cancelled: nothing here tells them apart.
Ended == {"ended"}

VARIABLES
    threads,    \* app table threads: thread -> archive state, "none" without a row
    recorded,   \* app table thread_tasks: task -> thread, NoThread without a row
    tasks,      \* host table tasks: task -> its host thread and status
    sessions,   \* host table thread_sessions: host thread -> configuration
    request     \* per request: where it stands, what it asks for, what it was told

vars == <<threads, recorded, tasks, sessions, request>>
appTables == <<threads, recorded>>
hostTables == <<tasks, sessions>>

Places == {"idle", "names", "reserve", "create", "record", "cancel", "kill", "done", "failed"}

TypeOK ==
    /\ threads \in [Threads -> {"none", "open", "archived"}]
    /\ recorded \in [Tasks -> Threads \cup {NoThread}]
    /\ tasks \in [Tasks -> [at : (Apps \X Threads) \cup {Nowhere}, status : {"none"} \cup Active \cup Ended]]
    /\ sessions \in [Apps \X Threads -> Configs \cup {NoConfig}]
    /\ request \in [Requests -> [at : Places, kind : {"new", "more"}, thread : Threads \cup {NoThread},
                                 config : Configs \cup {NoConfig}, lost : BOOLEAN]]

Init ==
    /\ threads = [t \in Threads |-> "none"]
    /\ recorded = [t \in Tasks |-> NoThread]
    /\ tasks = [t \in Tasks |-> [at |-> Nowhere, status |-> "none"]]
    /\ sessions = [h \in Apps \X Threads |-> NoConfig]
    /\ request = [r \in Requests |-> [at |-> "idle", kind |-> "new", thread |-> NoThread,
                                      config |-> NoConfig, lost |-> FALSE]]

At(r, place) == request[r].at = place
Goes(r, place) == request' = [request EXCEPT ![r].at = place]

-----------------------------------------------------------------------------
(* create_app_task, up to the host call.                                   *)

\* A body without thread_id: the pages send the configuration with it, since the host
\* requires one for a new thread.
StartNew(r) ==
    /\ At(r, "idle")
    /\ \E c \in Configs :
          request' = [request EXCEPT ![r].at = "names", ![r].kind = "new", ![r].config = c]
    /\ UNCHANGED <<appTables, hostTables>>

\* A body with thread_id: any name, and a configuration or none.
StartMore(r) ==
    /\ At(r, "idle")
    /\ \E t \in Threads, c \in Configs \cup {NoConfig} :
          request' = [request EXCEPT ![r].at = "create", ![r].kind = "more", ![r].thread = t,
                                     ![r].config = c]
    /\ UNCHANGED <<appTables, hostTables>>

\* Every thread ever recorded is counted, archived ones and empty ones included.
Named == {t \in Threads : threads[t] # "none"}

NextName == (IF Named = {} THEN 0 ELSE Max(Named)) + 1

\* _reserve_generated_thread_id reads the names ...
ReadNames(r) ==
    /\ At(r, "names")
    /\ NextName \in Threads
    /\ request' = [request EXCEPT ![r].at = "reserve", ![r].thread = NextName]
    /\ UNCHANGED <<appTables, hostTables>>

\* Wrong: the row is there, whoever inserted it.
ReservedByAnyone(t) == TRUE

\* The row's primary key tells who inserted it.
Reserved(t) == threads[t] = "none"

\* ... and inserts the next one, or starts over when another request was first.
Reserve(r) ==
    /\ At(r, "reserve")
    /\ LET t == request[r].thread
       IN  IF Reserved(t)
             THEN /\ threads' = [threads EXCEPT ![t] = "open"]
                  /\ Goes(r, "create")
             ELSE /\ UNCHANGED threads
                  /\ Goes(r, "names")
    /\ UNCHANGED <<recorded, hostTables>>

\* The app's database is down.
ReserveFails(r) ==
    /\ WritesMayFail
    /\ request[r].at \in {"names", "reserve"}
    /\ Goes(r, "failed")
    /\ UNCHANGED <<appTables, hostTables>>

-----------------------------------------------------------------------------
(* The host's side of POST /v1/tasks.                                      *)

\* _internal_thread_id: the app's prefix and its name.
InternalThread(app, t) == <<app, t>>

QueueFull == Cardinality({k \in Tasks : tasks[k].status = "queued"}) >= QUEUED_TASK_LIMIT

\* A stored configuration is kept and must be matched; without one it is required.
Resolves(h, config) ==
    IF sessions[h] = NoConfig THEN config # NoConfig ELSE config \in {NoConfig, sessions[h]}

\* One mutation: the session row and the queued task.
HostCreates(k, h, config) ==
    /\ Resolves(h, config) /\ ~QueueFull
    /\ tasks' = [tasks EXCEPT ![k] = [at |-> h, status |-> "queued"]]
    /\ sessions' = [sessions EXCEPT ![h] = IF @ = NoConfig THEN config ELSE @]

Create(r) ==
    /\ At(r, "create")
    /\ HostCreates(r, InternalThread("agent_chat", request[r].thread), request[r].config)
    /\ \/ Goes(r, "record")
       \/ /\ CallsMayFail
          /\ request' = [request EXCEPT ![r].at = "failed", ![r].lost = TRUE]
    /\ UNCHANGED appTables

\* The host refuses, or has never heard of it.
CreateFails(r) ==
    /\ At(r, "create")
    /\ LET h == InternalThread("agent_chat", request[r].thread)
       IN  CallsMayFail \/ QueueFull \/ ~Resolves(h, request[r].config)
    /\ Goes(r, "failed")
    /\ UNCHANGED <<appTables, hostTables>>

\* Another app creates a task on a thread of the same name.
OtherCreates ==
    /\ tasks[Other].status = "none"
    /\ \E t \in Threads, c \in Configs : HostCreates(Other, InternalThread("other", t), c)
    /\ UNCHANGED <<appTables, request>>

-----------------------------------------------------------------------------
(* The task is recorded, or revoked.                                       *)

Recorded(r) ==
    /\ threads' = [threads EXCEPT ![request[r].thread] = "open"]
    /\ recorded' = [recorded EXCEPT ![r] = request[r].thread]

\* _record_app_task: a message to an archived thread opens it again.
Record(r) ==
    /\ At(r, "record")
    /\ Recorded(r)
    /\ Goes(r, "done")
    /\ UNCHANGED hostTables

\* _cancel_orphaned_host_task begins.
Orphans == "cancel"

RecordFails(r) ==
    /\ At(r, "record")
    /\ WritesMayFail
    /\ Recorded(r) \/ UNCHANGED appTables
    /\ Goes(r, Orphans)
    /\ UNCHANGED hostTables

\* Taken when the task has the status the route asks for, refused otherwise.
HostEnds(k, from) ==
    tasks' = [tasks EXCEPT ![k].status = IF @ = from THEN "ended" ELSE @]

\* Wrong: a task is killed first and cancelled after that.
FirstKill == "running"

\* POST .../cancel, which takes a queued task.
FirstEnd == "queued"

\* POST .../kill, for a task that a worker has claimed meanwhile.
SecondEnd == IF FirstEnd = "queued" THEN "running" ELSE "queued"

Cancel(r) ==
    /\ At(r, "cancel")
    /\ HostEnds(r, FirstEnd)
    /\ Goes(r, IF tasks[r].status = FirstEnd THEN "failed" ELSE "kill")
    /\ UNCHANGED <<appTables, sessions>>

KillOrphan(r) ==
    /\ At(r, "kill")
    /\ HostEnds(r, SecondEnd)
    /\ Goes(r, "failed")
    /\ UNCHANGED <<appTables, sessions>>

\* The call, or its answer, is lost; the next one is made all the same.
EndLost(r) ==
    /\ CallsMayFail
    /\ request[r].at \in {"cancel", "kill"}
    /\ UNCHANGED tasks \/ HostEnds(r, IF At(r, "cancel") THEN FirstEnd ELSE SecondEnd)
    /\ request' = [request EXCEPT ![r].at = IF At(r, "cancel") THEN "kill" ELSE "failed",
                                  ![r].lost = TRUE]
    /\ UNCHANGED <<appTables, sessions>>

-----------------------------------------------------------------------------
(* Everything else.                                                        *)

\* archive_app_thread: any thread with a row, and without a word to the host.
Archive(t) ==
    /\ threads[t] # "none"
    /\ threads' = [threads EXCEPT ![t] = "archived"]
    /\ UNCHANGED <<recorded, hostTables, request>>

\* The operator cancels or kills a task the app has recorded: _require_app_task, and
\* on the host's side the prefix of the task's thread.
OperatorEnds(k, from) ==
    /\ recorded[k] # NoThread
    /\ tasks[k].at[1] = "agent_chat"
    /\ tasks[k].status = from
    /\ HostEnds(k, from)
    /\ UNCHANGED <<appTables, sessions, request>>

\* A host worker claims a task, alone on its thread, and ends it.
Claim(k) ==
    /\ tasks[k].status = "queued"
    /\ \A j \in Tasks : tasks[j].at = tasks[k].at => tasks[j].status # "running"
    /\ tasks' = [tasks EXCEPT ![k].status = "running"]
    /\ UNCHANGED <<appTables, sessions, request>>

Ends(k) ==
    /\ tasks[k].status = "running"
    /\ tasks' = [tasks EXCEPT ![k].status = "ended"]
    /\ UNCHANGED <<appTables, sessions, request>>

Names(r) == ReadNames(r) \/ Reserve(r)

Next ==
    \/ \E r \in Requests :
          \/ StartNew(r) \/ StartMore(r) \/ Names(r) \/ ReserveFails(r)
          \/ Create(r) \/ CreateFails(r)
          \/ Record(r) \/ RecordFails(r)
          \/ Cancel(r) \/ KillOrphan(r) \/ EndLost(r)
    \/ OtherCreates
    \/ \E t \in Threads : Archive(t)
    \/ \E k \in Tasks : OperatorEnds(k, "queued") \/ OperatorEnds(k, "running") \/ Claim(k) \/ Ends(k)

Spec == Init /\ [][Next]_vars

-----------------------------------------------------------------------------
(* Properties.                                                             *)

NewChats == {r \in Requests : request[r].kind = "new" /\ tasks[r].status # "none"}

\* A new chat is a thread of its own: however many are begun at once, no two share
\* a host thread and its provider session, and none shares one with another app's
\* thread of the same name. A message that names its thread goes where it says, into
\* a new chat too, before or after the generator has come to that name.
ChatsApart ==
    \A r \in NewChats : \A k \in Tasks \ {r} :
        /\ k \in NewChats \cup {Other} => tasks[k].at # tasks[r].at
        /\ tasks[r].at = <<"agent_chat", request[r].thread>>

\* A request that fails after the host has created its task leaves no task the
\* operator cannot see: it was recorded, or has ended, unless an answer of the host
\* was lost. A worker may claim the task between the two calls that revoke it.
NoOrphanRuns ==
    \A r \in Requests :
        At(r, "failed") /\ ~request[r].lost /\ tasks[r].status \in Active
            => recorded[r] # NoThread

=============================================================================
