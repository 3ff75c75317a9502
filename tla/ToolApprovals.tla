--------------------------- MODULE ToolApprovals ---------------------------
(***************************************************************************)
(* Approval-gated tool actions: tools/tools_host.py, tools/api.py and the  *)
(* tool_approvals table of core/state.py.  The agent's call proposes, the  *)
(* operator decides on another thread, and the approved payload is run     *)
(* once against the provider.  The admin service's maintenance pass writes *)
(* the same table from another process; the tools service may die between  *)
(* any two steps.  The gated action is Instagram's post_reel: the one      *)
(* whose payload names a staged asset of AssetStore.                       *)
(***************************************************************************)
EXTENDS AssetStore

CONSTANTS
  NApprovals,             \* bound: approvals ever queued
  Caller,                 \* handler threads with a call of the agent
  Operator,               \* handler threads with a decision
  PENDING_APPROVAL_LIMIT, APPROVAL_HISTORY_LIMIT, MAX_CONCURRENT_CALLS

ASSUME ApprovalConstants ==
  /\ NApprovals \in Nat
  /\ PENDING_APPROVAL_LIMIT \in Nat /\ APPROVAL_HISTORY_LIMIT \in Nat
  /\ MAX_CONCURRENT_CALLS \in Nat

VARIABLES
  approval,  \* tool_approvals: status and the asset the payload names
  enabled,   \* the operator enabled the tool
  up,        \* the tools service: "serving", "down", or "starting"
  call,      \* each agent call's place and its asset
  decision,  \* each decision's place, its approval and its result so far
  published, \* history: how often each approval was run at the provider
  unaudited  \* history: approved rows whose outcome could not be written

Approval == 1 .. NApprovals
NoCall == [pc |-> "idle", asset |-> {}]
NoDecision == [pc |-> "idle", approval |-> 0, result |-> "none"]
NoApproval == [status |-> "absent", asset |-> {}]

tableVars == <<approval, enabled, up>>
history == <<published, unaudited>>
vars == <<assetVars, tableVars, call, decision, history>>

Having(s) == {n \in Approval : approval[n].status = s}
Decided == {n \in Approval : approval[n].status \notin {"absent", "pending", "pruned"}}
Fresh(n) == approval[n].status = "absent" /\ \A m \in Approval : m < n => approval[m].status # "absent"
Serving == up = "serving"

Init ==
  /\ AssetInit
  /\ approval = [n \in Approval |-> NoApproval]
  /\ enabled = TRUE
  /\ up = "serving"
  /\ call = [c \in Caller |-> NoCall]
  /\ decision = [o \in Operator |-> NoDecision]
  /\ published = [n \in Approval |-> 0]
  /\ unaudited = {}

-----------------------------------------------------------------------------
(* The agent's calls                                                       *)

EndCall(c) == call' = [call EXCEPT ![c] = NoCall]

(* execute_action, up to the proposal: a slot is free, the tool is enabled *)
(* and the asset is there.  Without it the call fails.                     *)
Propose(c, a) ==
  /\ Serving /\ call[c].pc = "idle"
  /\ Cardinality({x \in Caller : call[x].pc # "idle"}) < MAX_CONCURRENT_CALLS
  /\ enabled
  /\ Describe
  /\ call' = IF Described(a) THEN [call EXCEPT ![c] = [pc |-> "request", asset |-> {a}]] ELSE call
  /\ UNCHANGED <<tableVars, decision, history>>

(* HostApprovals.request; the count and the insert share the mutation lock. *)
Request(c) ==
  /\ call[c].pc = "request"
  /\ \/ /\ Cardinality(Having("pending")) < PENDING_APPROVAL_LIMIT
        /\ \E n \in Approval : Fresh(n) /\
             approval' = [approval EXCEPT ![n] = [status |-> "pending", asset |-> call[c].asset]]
     \/ UNCHANGED approval
  /\ EndCall(c)
  /\ UNCHANGED <<assetVars, enabled, up, decision, history>>

-----------------------------------------------------------------------------
(* The operator's decisions                                                *)

AtDecision(o, pc) == decision[o].pc = pc
Decides(o, pc) == decision' = [decision EXCEPT ![o].pc = pc]
Results(o, r, pc) == decision' = [decision EXCEPT ![o].pc = pc, ![o].result = r]
EndDecision(o) == decision' = [decision EXCEPT ![o] = NoDecision]

Matches(n, from) == approval[n].status = from

(* transition_tool_approval: one conditional UPDATE.                       *)
Transition(n, from, to) ==
  approval' = IF Matches(n, from) THEN [approval EXCEPT ![n].status = to] ELSE approval

(* decide_approval reads the record; it need not be pending any more when  *)
(* the decision is written.                                                *)
DecideRead(o, n) ==
  /\ Serving /\ AtDecision(o, "idle")
  /\ approval[n].status \notin {"absent", "pruned"}
  /\ decision' = [decision EXCEPT ![o] = [pc |-> "decide", approval |-> n, result |-> "none"]]
  /\ UNCHANGED <<assetVars, tableVars, call, history>>

Deny(o) ==
  /\ AtDecision(o, "decide")
  /\ Transition(decision[o].approval, "pending", "denied")
  /\ EndDecision(o)
  /\ UNCHANGED <<assetVars, enabled, up, call, history>>

Approve(o) ==
  LET n == decision[o].approval IN
  /\ AtDecision(o, "decide")
  /\ Transition(n, "pending", "approved")
  /\ IF Matches(n, "pending") THEN Decides(o, "enabled") ELSE EndDecision(o)
  /\ UNCHANGED <<assetVars, enabled, up, call, history>>

(* _execute_approved: whatever fails becomes a failed result.              *)
CheckEnabled(o) ==
  /\ AtDecision(o, "enabled")
  /\ IF enabled THEN Decides(o, "describe") ELSE Results(o, "failed", "audit")
  /\ UNCHANGED <<assetVars, tableVars, call, history>>

(* execute_approved of the package: the staged source must still be there  *)
(* when it is compared with the payload, and again when it is opened.      *)
DescribeSource(o) ==
  /\ AtDecision(o, "describe")
  /\ Describe
  /\ IF \A a \in approval[decision[o].approval].asset : Described(a)
       THEN Decides(o, "open") ELSE Results(o, "failed", "audit")
  /\ UNCHANGED <<tableVars, call, history>>

OpenSource(o) ==
  /\ AtDecision(o, "open")
  /\ Describe
  /\ IF \A a \in approval[decision[o].approval].asset : Described(a)
       THEN Decides(o, "publish") ELSE Results(o, "failed", "audit")
  /\ UNCHANGED <<tableVars, call, history>>

(* The provider publishes or not, and its answer may be lost.              *)
Publish(o) ==
  LET n == decision[o].approval IN
  /\ AtDecision(o, "publish")
  /\ \/ /\ published' = [published EXCEPT ![n] = @ + 1]
        /\ Decides(o, "delete") \/ Results(o, "failed", "audit")
     \/ UNCHANGED published /\ Results(o, "failed", "audit")
  /\ UNCHANGED <<assetVars, tableVars, call, unaudited>>

DeleteSource(o) ==
  /\ AtDecision(o, "delete")
  /\ Delete(approval[decision[o].approval].asset)
  /\ Results(o, "executed", "audit")
  /\ UNCHANGED <<tableVars, call, history>>

(* The audit's own transaction may fail, and with it the request: the row  *)
(* stays approved.                                                         *)
Audit(o) ==
  /\ AtDecision(o, "audit")
  /\ \/ Decides(o, "settle") /\ UNCHANGED unaudited
     \/ EndDecision(o) /\ unaudited' = unaudited \cup ({decision[o].approval} \cap Having("approved"))
  /\ UNCHANGED <<assetVars, tableVars, call, published>>

Settle(o) ==
  LET n == decision[o].approval IN
  /\ AtDecision(o, "settle")
  /\ \/ Transition(n, "approved", decision[o].result) /\ UNCHANGED unaudited
     \/ UNCHANGED approval /\ unaudited' = unaudited \cup ({n} \cap Having("approved"))
  /\ EndDecision(o)
  /\ UNCHANGED <<assetVars, enabled, up, call, published>>

DecisionStep(o) ==
  \/ \E n \in Approval : DecideRead(o, n)
  \/ Deny(o) \/ Approve(o) \/ CheckEnabled(o) \/ DescribeSource(o) \/ OpenSource(o)
  \/ Publish(o) \/ DeleteSource(o) \/ Audit(o) \/ Settle(o)

-----------------------------------------------------------------------------
(* The admin service, in another process                                   *)

Toggle ==
  /\ enabled' = ~enabled
  /\ UNCHANGED <<assetVars, approval, up, call, decision, history>>

(* Wrong: what has been decided expires as well.                           *)
ExpireDecidedToo(n) ==
  /\ approval[n].status \in {"pending", "approved"}
  /\ approval' = [approval EXCEPT ![n].status = "expired"]
  /\ UNCHANGED <<assetVars, enabled, up, call, decision, history>>

(* maintain_approvals: what has been pending for APPROVAL_PENDING_TTL.     *)
Expire(n) ==
  /\ Transition(n, "pending", "expired")
  /\ UNCHANGED <<assetVars, enabled, up, call, decision, history>>

Outnumbered(n) == \E m \in Approval : approval[m].status \notin {"absent", "pruned"}
                                      /\ n <= m - APPROVAL_HISTORY_LIMIT
(* An approved row may go too, while its action is running.                *)
Prunable == {n \in Decided : Outnumbered(n)}

Prune ==
  /\ approval' = [n \in Approval |-> IF n \in Prunable THEN [approval[n] EXCEPT !.status = "pruned"]
                                                       ELSE approval[n]]
  /\ unaudited' = unaudited \ Prunable
  /\ UNCHANGED <<assetVars, enabled, up, call, decision, published>>

-----------------------------------------------------------------------------
(* The tools service stops and starts                                      *)

Crash ==
  /\ Serving
  /\ up' = "down"
  /\ AssetCrash
  /\ call' = [c \in Caller |-> NoCall]
  /\ decision' = [o \in Operator |-> NoDecision]
  /\ UNCHANGED <<approval, enabled, history>>

(* Wrong: what was approved stays so.                                      *)
RecoverNothing ==
  /\ up = "down"
  /\ up' = "starting"
  /\ UNCHANGED <<assetVars, approval, enabled, call, decision, history>>

(* recover_interrupted_approvals, before anything is served.               *)
Recover ==
  /\ up = "down"
  /\ up' = "starting"
  /\ approval' = [n \in Approval |-> IF approval[n].status = "approved"
                                       THEN [approval[n] EXCEPT !.status = "failed"]
                                       ELSE approval[n]]
  /\ unaudited' = {}
  /\ UNCHANGED <<assetVars, enabled, call, decision, published>>

Serve ==
  /\ up = "starting"
  /\ up' = "serving"
  /\ CleanStart
  /\ UNCHANGED <<approval, enabled, call, decision, history>>

-----------------------------------------------------------------------------
Next ==
  \/ \E c \in Caller : Request(c) \/ \E a \in Asset : Propose(c, a)
  \/ \E o \in Operator : DecisionStep(o)
  \/ /\ Serving
     /\ Sweep \/ (\E u \in Uploader : UploadStep(u)) \/ (\E a \in Asset : AssetExpires(a))
     /\ UNCHANGED <<tableVars, call, decision, history>>
  \/ Toggle \/ Prune \/ \E n \in Approval : Expire(n)
  \/ Crash \/ Recover \/ Serve

Spec == Init /\ [][Next]_vars

-----------------------------------------------------------------------------
(* Properties                                                              *)

Status == {"absent", "pending", "approved", "denied", "expired", "executed", "failed", "pruned"}

(* Every variable keeps its shape.                                         *)
TypeOK ==
  /\ AssetTypeOK
  /\ approval \in [Approval -> [status : Status, asset : SUBSET Asset]]
  /\ enabled \in BOOLEAN
  /\ up \in {"serving", "down", "starting"}
  /\ call \in [Caller -> [pc : {"idle", "request"}, asset : SUBSET Asset]]
  /\ decision \in [Operator -> [pc : {"idle", "decide", "enabled", "describe", "open", "publish",
                                     "delete", "audit", "settle"},
                               approval : Approval \cup {0},
                               result : {"none", "failed", "executed"}]]
  /\ published \in [Approval -> Nat]
  /\ unaudited \subseteq Approval

(* The service keeps its promise: decided once, run at most once and only  *)
(* if approved, its outcome written once and truly, whatever threads,      *)
(* clicks, expiry, pruning and restarts interleave.                        *)
Lifecycle == INSTANCE ApprovalLifecycle
  WITH Item <- Approval,
       phase <- [n \in Approval |-> approval[n].status],
       ran <- published
KeepsLifecycle == Lifecycle!Spec

(* The source an open approval needs is taken away only by its time, by a  *)
(* restart, or because it was published: a failed attempt leaves it.       *)
SourceKept ==
  [][\A a \in Asset : record[a] = "ready" /\ record'[a] # "ready" =>
       a \in expired \/ up' = "down" \/ \E n \in Approval : a \in approval[n].asset /\ published[n] > 0]_vars

(* While the service serves, index and directory agree: what is offered to *)
(* the tools has all its bytes on disk, and a file is one the index knows  *)
(* or one an upload is still writing and will remove.                      *)
IndexMatchesFiles ==
  Serving => /\ ReadyIsWhole
             /\ \A a \in Asset : file[a] # "none" =>
                  a \in Recorded \/ \E u \in Uploader : upload[u].asset = {a}

(* An approved row is never stranded: some thread is still running its     *)
(* action and will record how it ended, or the next start of the service   *)
(* will; only an outcome the database refused to take waits for that start. *)
ApprovedIsDriven ==
  \A n \in Having("approved") :
    \/ n \in unaudited \/ up = "down"
    \/ \E o \in Operator : decision[o].approval = n /\ ~AtDecision(o, "decide")
=============================================================================
