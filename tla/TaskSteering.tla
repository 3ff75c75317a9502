----------------------------- MODULE TaskSteering -----------------------------
(***************************************************************************)
(* One running task and the messages the operator steers it with: the      *)
(* queue of undelivered steers in task_steers, the worker's turn loop in   *)
(* each runtime adapter (codex_app_server.py, claude_code.py,              *)
(* hermes_agent.py), and the agent process at the other end of its pipe.   *)
(*                                                                         *)
(* A message is numbered in the order it was accepted; 0 is the task's     *)
(* input. Claude's CLI says neither which messages a result answers nor    *)
(* how many turns it will run, so the worker counts results and waits for  *)
(* the stream to settle; Codex refuses a steer that finds no active turn.  *)
(***************************************************************************)
EXTENDS Naturals, Sequences, SequencesExt

CONSTANTS
    MaxSteers,            \* bound on the steers the operator sends
    PENDING_STEER_LIMIT,  \* undelivered steers a task may have
    MaxEvents,            \* bound on the events waiting in the stream
    MaxNoise              \* bound on the notifications that belong to no turn

ASSUME SteeringAssumption ==
    /\ MaxSteers \in Nat
    /\ PENDING_STEER_LIMIT \in Nat
    /\ MaxEvents \in Nat \ {0}
    /\ MaxNoise \in Nat

Input == 0
Steers == 1 .. MaxSteers
Messages == {Input} \cup Steers
Runtimes == {"codex", "claude_code", "hermes"}

VARIABLES
    runtime,   \* the task's runtime
    status,    \* the task's status
    accepted,  \* how many steers the API has accepted
    pending,   \* task_steers: the undelivered ones, oldest first
    worker,    \* the turn loop: its place, the steers it read, and its counts
    agent,     \* the process: alive, its turn, what that took, what it has not read
    stream,    \* the events the process wrote and the worker has not read
    noise,     \* notifications sent so far
    sent,      \* history: the messages handed over, in order
    answered   \* history: the messages of the results the worker has read

steeringVars == <<runtime, status, accepted, pending, worker, agent, stream, noise, sent, answered>>

Places == {"start", "check", "send", "pop", "wait", "settle", "return", "raise", "over"}
Deadlines == {"off", "set", "passed"}
EventKinds == {"turn", "noise", "result", "error"}

SteeringTypeOK ==
    /\ runtime \in Runtimes
    /\ status \in {"running", "completed", "failed", "cancelled"}
    /\ accepted \in 0 .. MaxSteers
    /\ pending \in Seq(Steers)
    /\ worker \in [at : Places, batch : Seq(Steers), outstanding : Nat, deadline : Deadlines]
    /\ agent \in [alive : BOOLEAN, turn : {"none", "starting", "active"},
                  took : SUBSET Messages, inbox : Seq(Messages)]
    /\ stream \in Seq([kind : EventKinds, answers : SUBSET Messages])
    /\ noise \in 0 .. MaxNoise
    /\ sent \in Seq(Messages)
    /\ answered \subseteq Messages

SteeringInit ==
    /\ runtime \in Runtimes
    /\ status = "running"
    /\ accepted = 0
    /\ pending = <<>>
    /\ worker = [at |-> "start", batch |-> <<>>, outstanding |-> 0, deadline |-> "off"]
    /\ agent = [alive |-> TRUE, turn |-> "none", took |-> {}, inbox |-> <<>>]
    /\ stream = <<>>
    /\ noise = 0
    /\ sent = <<>>
    /\ answered = {}

AtPlace(place) == worker.at = place

task == <<runtime, status, accepted, pending>>
history == <<sent, answered>>

-----------------------------------------------------------------------------
(* The operator: service.steer_task and kill_task.                         *)

\* One mutation; a Hermes task and a task with a full queue are refused.
Steer ==
    /\ status = "running"
    /\ runtime # "hermes"
    /\ Len(pending) < PENDING_STEER_LIMIT
    /\ accepted < MaxSteers
    /\ accepted' = accepted + 1
    /\ pending' = Append(pending, accepted + 1)
    /\ UNCHANGED <<runtime, status, worker, agent, stream, noise, history>>

\* The status is written first, the process closed after it.
Kill ==
    /\ status = "running"
    /\ status' = "cancelled"
    /\ UNCHANGED <<runtime, accepted, pending, worker, agent, stream, noise, history>>

Stopped == [agent EXCEPT !.alive = FALSE, !.turn = "none"]

CloseKilled ==
    /\ status = "cancelled"
    /\ agent.alive
    /\ agent' = Stopped
    /\ UNCHANGED <<task, worker, stream, noise, history>>

-----------------------------------------------------------------------------
(* The turn starts.                                                        *)

StartsTurn(place, begun) ==
    /\ AtPlace("start")
    /\ agent.alive
    /\ agent' = begun
    /\ worker' = [worker EXCEPT !.at = place, !.outstanding = 1]
    /\ sent' = <<Input>>
    /\ UNCHANGED <<task, stream, noise, answered>>

\* The input is the first message in the CLI's pipe.
StartClaude ==
    /\ runtime = "claude_code"
    /\ StartsTurn("check", [agent EXCEPT !.inbox = <<Input>>])

\* The provider's thread is resumed or, failing that, a new one started; turn/start
\* returns before the turn is active.
StartCodex ==
    /\ runtime = "codex"
    /\ StartsTurn("check", [agent EXCEPT !.turn = "starting", !.took = {Input}])

\* One process and one turn; the worker waits for it to exit.
StartHermes ==
    /\ runtime = "hermes"
    /\ StartsTurn("wait", [agent EXCEPT !.turn = "active", !.took = {Input}])

\* steer_messages(): the undelivered steers, read anew on every pass.
Check ==
    /\ AtPlace("check")
    /\ worker' = [worker EXCEPT !.at = IF pending = <<>> THEN "wait" ELSE "send",
                                !.batch = pending]
    /\ UNCHANGED <<task, agent, stream, noise, history>>

\* The CLI acts on every steer, so more events are coming either way.
OnSend(deadline) == "off"

\* _send_user_message: the steer is in the pipe.
SendClaude ==
    /\ AtPlace("send") /\ runtime = "claude_code"
    /\ agent.alive
    /\ agent' = [agent EXCEPT !.inbox = Append(@, Head(worker.batch))]
    /\ sent' = Append(sent, Head(worker.batch))
    /\ worker' = [worker EXCEPT !.at = "pop", !.outstanding = @ + 1,
                                !.deadline = OnSend(worker.deadline)]
    /\ UNCHANGED <<task, stream, noise, answered>>

\* turn/steer answered: the running turn takes the message.
SendCodex ==
    /\ AtPlace("send") /\ runtime = "codex"
    /\ agent.turn = "active"
    /\ agent' = [agent EXCEPT !.took = @ \cup {Head(worker.batch)}]
    /\ sent' = Append(sent, Head(worker.batch))
    /\ worker' = [worker EXCEPT !.at = "pop"]
    /\ UNCHANGED <<task, stream, noise, answered>>

\* "no active turn": the rest waits for the next pass.
OnRefusal(batch) == <<>>

\* The turn is not active yet, or already over.
Refused ==
    /\ AtPlace("send") /\ runtime = "codex"
    /\ agent.alive /\ agent.turn # "active"
    /\ LET rest == OnRefusal(worker.batch)
       IN  worker' = [worker EXCEPT !.at = IF rest = <<>> THEN "wait" ELSE "send",
                                    !.batch = rest]
    /\ UNCHANGED <<task, agent, stream, noise, history>>

\* pop_task_steer: the oldest goes, if it is the one that was delivered.
PopTaskSteer(queue, message) ==
    IF queue # <<>> /\ Head(queue) = message THEN Tail(queue) ELSE queue

\* steer_delivered, and on to the next steer of the batch.
Pop ==
    /\ AtPlace("pop")
    /\ pending' = PopTaskSteer(pending, Head(worker.batch))
    /\ worker' = [worker EXCEPT !.at = IF Len(worker.batch) = 1 THEN "wait" ELSE "send",
                                !.batch = Tail(@)]
    /\ UNCHANGED <<runtime, status, accepted, agent, stream, noise, history>>

-----------------------------------------------------------------------------
(* The worker reads the stream.                                            *)

\* Wrong: the first result is the last.
LeftOverNone(outstanding) == 0

\* A result is counted for one of the messages sent.
LeftOver(outstanding) == IF outstanding = 0 THEN 0 ELSE outstanding - 1

\* While some are left over, merged or with a turn still to come, the worker waits
\* for the stream to settle.
Arms == "set"

\* A turn announced or at work stops the clock, anything else but a result pushes it
\* back; the last result ends the loop.
OnClaudeEvent(event) ==
    LET left == LeftOver(worker.outstanding)
    IN  CASE event.kind = "turn" -> [worker EXCEPT !.at = "check", !.deadline = "off"]
          [] event.kind = "noise" ->
                [worker EXCEPT !.at = "check", !.deadline = IF @ = "off" THEN "off" ELSE "set"]
          [] event.kind = "error" -> [worker EXCEPT !.at = "raise"]
          [] event.kind = "result" /\ left = 0 ->
                [worker EXCEPT !.at = "return", !.outstanding = 0]
          [] event.kind = "result" /\ left > 0 ->
                [worker EXCEPT !.at = "check", !.outstanding = left, !.deadline = Arms]

\* turn/completed, with or without an error.
OnCodexEvent(event) ==
    [worker EXCEPT !.at = IF event.kind = "result" THEN "return" ELSE "raise"]

\* The process has exited: with an answer and a session, or not.
OnHermesExit(event) ==
    [worker EXCEPT !.at = IF event.kind = "result" THEN "return" ELSE "raise"]

Read ==
    /\ AtPlace("wait")
    /\ stream # <<>>
    /\ worker' = CASE runtime = "claude_code" -> OnClaudeEvent(Head(stream))
                   [] runtime = "codex" -> OnCodexEvent(Head(stream))
                   [] runtime = "hermes" -> OnHermesExit(Head(stream))
    /\ answered' = answered \cup Head(stream).answers
    /\ stream' = Tail(stream)
    /\ UNCHANGED <<task, agent, noise, sent>>

\* Nothing within a second: a look at the deadline, and at the process.
ReadNothing ==
    /\ AtPlace("wait")
    /\ runtime = "hermes" => ~agent.alive
    /\ stream = <<>>
    /\ worker' = [worker EXCEPT !.at = CASE worker.deadline = "passed" -> "settle"
                                         [] worker.deadline # "passed" /\ agent.alive -> "check"
                                         [] OTHER -> "raise"]
    /\ UNCHANGED <<task, agent, stream, noise, history>>

\* The deadline has passed: the turn is over unless the operator has steered on.
Settle ==
    /\ AtPlace("settle")
    /\ worker' = [worker EXCEPT !.at = CASE pending = <<>> -> "return"
                                         [] pending # <<>> /\ agent.alive -> "check"
                                         [] OTHER -> "raise"]
    /\ UNCHANGED <<task, agent, stream, noise, history>>

\* STEER_SETTLE_TIMEOUT_SECONDS, ten of them, run out. Assumed of the CLI, as the
\* comment on the constant does: it takes less to start a turn for a message it was sent.
DeadlinePasses ==
    /\ worker.deadline = "set"
    /\ agent.inbox = <<>>
    /\ worker' = [worker EXCEPT !.deadline = "passed"]
    /\ UNCHANGED <<task, agent, stream, noise, history>>

\* Nothing can be written to a process that has died.
WriteFails ==
    /\ worker.at \in {"start", "send"}
    /\ ~agent.alive
    /\ worker' = [worker EXCEPT !.at = "raise"]
    /\ UNCHANGED <<task, agent, stream, noise, history>>

\* A call was answered with an error or not at all, or the database is down.
Raise ==
    /\ worker.at \in {"start", "check", "send", "pop", "wait", "settle"}
    /\ worker' = [worker EXCEPT !.at = "raise"]
    /\ UNCHANGED <<task, agent, stream, noise, history>>

\* _finish_task, then the process is closed; a task that was killed stays killed.
Finish(place, outcome) ==
    /\ AtPlace(place)
    /\ status' = IF status = "running" THEN outcome ELSE status
    /\ worker' = [worker EXCEPT !.at = "over"]
    /\ agent' = Stopped
    /\ UNCHANGED <<runtime, accepted, pending, stream, noise, history>>

-----------------------------------------------------------------------------
(* The agent process, as the adapters describe it.                         *)

Emits(kind, answers) == stream' = Append(stream, [kind |-> kind, answers |-> answers])

\* Claude's CLI between turns: the next message starts one, which says so.
TurnBegins ==
    /\ agent.alive /\ runtime = "claude_code"
    /\ agent.turn = "none" /\ agent.inbox # <<>>
    /\ Len(stream) < MaxEvents
    /\ agent' = [agent EXCEPT !.turn = "active", !.took = {Head(agent.inbox)}, !.inbox = Tail(@)]
    /\ Emits("turn", {})
    /\ UNCHANGED <<task, worker, noise, history>>

\* Claude's CLI in a turn: a message is merged into it.
TurnMerges ==
    /\ agent.alive /\ runtime = "claude_code"
    /\ agent.turn = "active" /\ agent.inbox # <<>>
    /\ agent' = [agent EXCEPT !.took = @ \cup {Head(agent.inbox)}, !.inbox = Tail(@)]
    /\ UNCHANGED <<task, worker, stream, noise, history>>

\* Codex's turn becomes active some time after turn/start has returned.
TurnActivates ==
    /\ agent.alive /\ agent.turn = "starting"
    /\ agent' = [agent EXCEPT !.turn = "active"]
    /\ UNCHANGED <<task, worker, stream, noise, history>>

\* The turn's one result covers every message it took.
TurnEnds ==
    /\ agent.alive /\ agent.turn = "active"
    /\ Len(stream) < MaxEvents
    /\ \/ Emits("result", agent.took)
       \/ Emits("error", {})
    /\ agent' = [agent EXCEPT !.turn = "none", !.took = {}]
    /\ UNCHANGED <<task, worker, noise, history>>

\* A notification that belongs to no turn.
Notifies ==
    /\ agent.alive /\ runtime = "claude_code"
    /\ noise < MaxNoise
    /\ Len(stream) < MaxEvents
    /\ noise' = noise + 1
    /\ Emits("noise", {})
    /\ UNCHANGED <<task, worker, agent, history>>

Dies ==
    /\ agent.alive
    /\ agent' = Stopped
    /\ UNCHANGED <<task, worker, stream, noise, history>>

Works ==
    \/ StartClaude \/ StartCodex \/ StartHermes
    \/ Check \/ SendClaude \/ SendCodex \/ Refused \/ Pop
    \/ Read \/ ReadNothing \/ Settle \/ WriteFails
    \/ Finish("return", "completed") \/ Finish("raise", "failed")

Over == AtPlace("over") /\ status # "running" /\ UNCHANGED steeringVars

SteeringNext ==
    \/ Steer \/ Kill \/ CloseKilled
    \/ Works \/ DeadlinePasses \/ Raise
    \/ TurnBegins \/ TurnMerges \/ TurnActivates \/ TurnEnds \/ Notifies \/ Dies
    \/ Over

\* The worker goes on, time passes, and the agent gets to its messages and ends the
\* turns it starts; no operator, no failure and no notification is owed.
SteeringFairness ==
    /\ WF_steeringVars(Works) /\ WF_steeringVars(DeadlinePasses)
    /\ WF_steeringVars(TurnBegins) /\ WF_steeringVars(TurnMerges) /\ WF_steeringVars(TurnActivates)
    /\ WF_steeringVars(TurnEnds)

SteeringSpec == SteeringInit /\ [][SteeringNext]_steeringVars /\ SteeringFairness

-----------------------------------------------------------------------------
(* Properties.                                                             *)

\* A task completes only when the result of every message handed over has been
\* read: a steer whose own turn is still to come is not cut off, whether the CLI
\* merged the others or not.
AllAnswered ==
    status = "completed" => \A i \in DOMAIN sent : sent[i] \in answered

=============================================================================
