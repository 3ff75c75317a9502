------------------------ MODULE ToolApprovalsProofs ------------------------
(***************************************************************************)
(* Proofs about AssetStore, ToolApprovals, ApprovedChange and              *)
(* ToolConnections: any number of uploaders, callers and operators, any    *)
(* limits, any approvals, any objects, accounts and grants.                *)
(***************************************************************************)
EXTENDS ToolApprovals, ApprovedChange, ToolConnections, TLAPS

-----------------------------------------------------------------------------
(* The asset store                                                         *)

Holds(u, a) == upload[u].asset = {a}

(* An asset has one uploader at most; until it is finalized its record is  *)
(* a reservation or gone, and while it is one, the file is as far as the   *)
(* uploader is.                                                            *)
UploadsOK ==
  /\ \A u \in Uploader : upload[u].pc = "idle" => upload[u].asset = {}
  /\ \A u, v \in Uploader, a \in Asset : Holds(u, a) /\ Holds(v, a) => u = v
  /\ \A u \in Uploader, a \in Asset : Holds(u, a) =>
       /\ record[a] \in {"reserved", "gone"}
       /\ upload[u].pc = "write" /\ record[a] = "reserved" => file[a] = "partial"
       /\ upload[u].pc = "finalize" /\ record[a] = "reserved" => file[a] = "whole"
       /\ upload[u].pc = "abort" => file[a] = "none"

AssetInv == AssetTypeOK /\ UploadsOK /\ ReadyIsWhole

(* Every file is one the index knows or an upload will remove.             *)
FilesKnown ==
  \A a \in Asset : file[a] # "none" => a \in Recorded \/ \E u \in Uploader : Holds(u, a)

(* Dropping assets from the index with their files, as every cleanup and   *)
(* deletion does, leaves neither a file without a record nor a ready       *)
(* record without its file.                                                *)
LEMMA DroppingKeeps ==
  ASSUME AssetInv, NEW A, record' = RecordLess(A), file' = FileLess(A),
         expired' \subseteq expired, UNCHANGED upload
  PROVE  AssetInv' /\ (FilesKnown => FilesKnown')
<1>. USE DEF RecordLess, FileLess, Recorded, AssetInv, AssetTypeOK
<1>1. AssetTypeOK'
  OBVIOUS
<1>2. UploadsOK'
  BY DEF UploadsOK, Holds
<1>3. ReadyIsWhole'
  BY DEF ReadyIsWhole
<1>4. FilesKnown => FilesKnown'
  BY DEF FilesKnown, Holds
<1>. QED BY <1>1, <1>2, <1>3, <1>4

LEMMA CleanupKeeps ==
  ASSUME AssetInv, Cleanup, UNCHANGED upload
  PROVE  AssetInv' /\ (FilesKnown => FilesKnown')
BY DroppingKeeps DEF Cleanup

LEMMA ReserveKeeps ==
  ASSUME AssetInv, NEW u \in Uploader, NEW a \in Asset, Reserve(u, a)
  PROVE  AssetInv' /\ (FilesKnown => FilesKnown')
<1>. USE DEF Reserve, RecordLess, FileLess, Recorded, AssetInv, AssetTypeOK
<1>1. AssetTypeOK'
  OBVIOUS
<1>2. \A v \in Uploader : ~Holds(v, a)
  BY DEF UploadsOK, Holds
<1>3. Holds(u, a)' /\ \A v \in Uploader, b \in Asset :
        Holds(v, b)' => (v = u /\ b = a) \/ (v # u /\ Holds(v, b))
  BY DEF Holds
<1>4. UploadsOK'
  <2>1. \A v \in Uploader : upload'[v].pc = "idle" => upload'[v].asset = {}
    BY DEF UploadsOK
  <2>2. \A v, w \in Uploader, b \in Asset : Holds(v, b)' /\ Holds(w, b)' => v = w
    BY <1>2, <1>3 DEF UploadsOK
  <2>3. ASSUME NEW v \in Uploader, NEW b \in Asset, Holds(v, b)'
        PROVE  /\ record'[b] \in {"reserved", "gone"}
               /\ upload'[v].pc = "write" /\ record'[b] = "reserved" => file'[b] = "partial"
               /\ upload'[v].pc = "finalize" /\ record'[b] = "reserved" => file'[b] = "whole"
               /\ upload'[v].pc = "abort" => file'[b] = "none"
    <3>1. CASE v = u /\ b = a
      BY <3>1
    <3>2. CASE v # u /\ Holds(v, b)
      BY <3>2, <1>2 DEF UploadsOK
    <3>. QED BY <2>3, <1>3, <3>1, <3>2
  <2>. QED BY <2>1, <2>2, <2>3 DEF UploadsOK, Holds
<1>5. ReadyIsWhole'
  BY DEF ReadyIsWhole
<1>6. FilesKnown => FilesKnown'
  BY <1>3 DEF FilesKnown, Holds, UploadsOK
<1>. QED BY <1>1, <1>4, <1>5, <1>6

(* An uploader's own steps on the asset it holds.                          *)
LEMMA WritingKeeps ==
  ASSUME AssetInv, NEW u \in Uploader, NEW a \in Asset,
         OpenFile(u, a) \/ WriteDone(u, a) \/ WriteFails(u, a)
  PROVE  AssetInv' /\ (FilesKnown => FilesKnown')
<1>. USE DEF OpenFile, WriteDone, WriteFails, AtUpload, Uploads, AssetInv, AssetTypeOK
<1>1. AssetTypeOK'
  OBVIOUS
<1>2. Holds(u, a) /\ \A v \in Uploader, b \in Asset : Holds(v, b)' <=> Holds(v, b)
  BY DEF Holds
<1>3. UNCHANGED <<record, expired>> /\ \A b \in Asset : b # a => file'[b] = file[b]
  OBVIOUS
<1>4. UploadsOK'
  <2>1. \A v \in Uploader : upload'[v].pc = "idle" => upload'[v].asset = {}
    BY DEF UploadsOK
  <2>2. \A v, w \in Uploader, b \in Asset : Holds(v, b)' /\ Holds(w, b)' => v = w
    BY <1>2 DEF UploadsOK
  <2>3. ASSUME NEW v \in Uploader, NEW b \in Asset, Holds(v, b)'
        PROVE  /\ record'[b] \in {"reserved", "gone"}
               /\ upload'[v].pc = "write" /\ record'[b] = "reserved" => file'[b] = "partial"
               /\ upload'[v].pc = "finalize" /\ record'[b] = "reserved" => file'[b] = "whole"
               /\ upload'[v].pc = "abort" => file'[b] = "none"
    <3>1. CASE v = u
      <4>1. b = a
        BY <3>1, <2>3, <1>2 DEF Holds
      <4>. QED BY <3>1, <4>1, <1>2 DEF UploadsOK
    <3>2. CASE v # u
      <4>1. Holds(v, b) /\ b # a
        BY <3>2, <2>3, <1>2 DEF UploadsOK
      <4>. QED BY <3>2, <4>1, <1>3 DEF UploadsOK
    <3>. QED BY <3>1, <3>2
  <2>. QED BY <2>1, <2>2, <2>3 DEF UploadsOK, Holds
<1>5. ReadyIsWhole'
  BY <1>2, <1>3 DEF ReadyIsWhole, UploadsOK
<1>6. ASSUME FilesKnown, NEW b \in Asset, file'[b] # "none"
      PROVE  b \in Recorded' \/ \E v \in Uploader : Holds(v, b)'
  BY <1>2, <1>3, <1>6 DEF FilesKnown, Recorded
<1>. QED BY <1>1, <1>4, <1>5, <1>6 DEF FilesKnown

LEMMA EndingKeeps ==
  ASSUME AssetInv, NEW u \in Uploader, NEW a \in Asset, Abort(u, a) \/ Finalize(u, a)
  PROVE  AssetInv' /\ (FilesKnown => FilesKnown')
<1>. USE DEF Abort, Finalize, AtUpload, EndUpload, NoUpload, RecordLess, Recorded,
             AssetInv, AssetTypeOK
<1>1. AssetTypeOK'
  OBVIOUS
<1>2. Holds(u, a) /\ \A v \in Uploader, b \in Asset : Holds(v, b)' => v # u /\ Holds(v, b)
  <2>1. upload[u].asset = {a} /\ upload' = [upload EXCEPT ![u] = [pc |-> "idle", asset |-> {}]]
    OBVIOUS
  <2>2. upload'[u].asset = {} /\ \A v \in Uploader : v # u => upload'[v] = upload[v]
    BY <2>1
  <2>. QED BY <2>1, <2>2 DEF Holds
<1>3. \A b \in Asset : b # a => record'[b] = record[b] /\ file'[b] = file[b]
  OBVIOUS
<1>4. UploadsOK'
  <2>1. \A v \in Uploader : upload'[v].pc = "idle" => upload'[v].asset = {}
    BY DEF UploadsOK
  <2>2. \A v, w \in Uploader, b \in Asset : Holds(v, b)' /\ Holds(w, b)' => v = w
    BY <1>2 DEF UploadsOK
  <2>3. ASSUME NEW v \in Uploader, NEW b \in Asset, Holds(v, b)'
        PROVE  /\ record'[b] \in {"reserved", "gone"}
               /\ upload'[v].pc = "write" /\ record'[b] = "reserved" => file'[b] = "partial"
               /\ upload'[v].pc = "finalize" /\ record'[b] = "reserved" => file'[b] = "whole"
               /\ upload'[v].pc = "abort" => file'[b] = "none"
    <3>1. v # u /\ Holds(v, b) /\ b # a
      BY <2>3, <1>2 DEF UploadsOK
    <3>. QED BY <3>1, <1>3 DEF UploadsOK
  <2>. QED BY <2>1, <2>2, <2>3 DEF UploadsOK, Holds
<1>5. ReadyIsWhole'
  BY <1>2, <1>3 DEF ReadyIsWhole, UploadsOK
<1>6. ASSUME FilesKnown, NEW b \in Asset, file'[b] # "none"
      PROVE  b \in Recorded' \/ \E v \in Uploader : Holds(v, b)'
  <2>1. CASE b = a
    BY <2>1, <1>2, <1>6 DEF UploadsOK
  <2>2. CASE b # a
    <3>1. b \in Recorded' \/ \E v \in Uploader : Holds(v, b)
      BY <2>2, <1>3, <1>6 DEF FilesKnown
    <3>2. \A v \in Uploader : Holds(v, b) => Holds(v, b)'
      BY <2>2, <1>2 DEF Holds
    <3>. QED BY <3>1, <3>2
  <2>. QED BY <2>1, <2>2
<1>. QED BY <1>1, <1>4, <1>5, <1>6 DEF FilesKnown

LEMMA UploadKeeps ==
  ASSUME AssetInv, NEW u \in Uploader, UploadStep(u)
  PROVE  AssetInv' /\ (FilesKnown => FilesKnown')
BY CleanupKeeps, ReserveKeeps, WritingKeeps, EndingKeeps DEF UploadStep, ReserveRefused

LEMMA UnchangedAssets ==
  ASSUME AssetInv, UNCHANGED <<record, file, upload>>, expired' \subseteq Asset
  PROVE  AssetInv' /\ (FilesKnown => FilesKnown')
<1>1. AssetTypeOK' /\ ReadyIsWhole'
  BY DEF AssetInv, AssetTypeOK, ReadyIsWhole
<1>2. UploadsOK'
  BY DEF AssetInv, UploadsOK, Holds
<1>3. FilesKnown => FilesKnown'
  BY DEF FilesKnown, Holds, Recorded
<1>. QED BY <1>1, <1>2, <1>3 DEF AssetInv

-----------------------------------------------------------------------------
(* Types                                                                   *)

LEMMA TypeInit == Init => TypeOK
BY DEF Init, TypeOK, AssetInit, AssetTypeOK, NoUpload, NoCall, NoDecision, NoApproval, Status

(* What the approvals' own steps leave in the asset store: nothing changed, *)
(* or assets dropped from the index with their files.                      *)
AssetsRest == UNCHANGED assetVars \/ (Cleanup /\ UNCHANGED upload)
              \/ \E A \in SUBSET Asset : Delete(A)

LEMMA RestKeeps ==
  ASSUME AssetInv, AssetsRest
  PROVE  AssetInv' /\ (FilesKnown => FilesKnown')
<1>1. CASE UNCHANGED assetVars
  BY <1>1, UnchangedAssets DEF assetVars, AssetInv, AssetTypeOK
<1>2. CASE Cleanup /\ UNCHANGED upload
  BY <1>2, CleanupKeeps
<1>3. ASSUME NEW A \in SUBSET Asset, Delete(A) PROVE AssetInv' /\ (FilesKnown => FilesKnown')
  BY <1>3, DroppingKeeps DEF Delete, Remove
<1>. QED BY <1>1, <1>2, <1>3 DEF AssetsRest

(* The agent's calls, the operator's decisions, the admin service's passes *)
(* and the restarts: each keeps the shape of what the approvals keep.      *)
DecisionType ==
  [Operator -> [pc : {"idle", "decide", "enabled", "describe", "open", "publish",
                      "delete", "audit", "settle"},
                approval : Approval \cup {0},
                result : {"none", "failed", "executed"}]]

ApprovalTypeOK ==
  /\ approval \in [Approval -> [status : Status, asset : SUBSET Asset]]
  /\ enabled \in BOOLEAN
  /\ up \in {"serving", "down", "starting"}
  /\ call \in [Caller -> [pc : {"idle", "request"}, asset : SUBSET Asset]]
  /\ decision \in DecisionType
  /\ published \in [Approval -> Nat]
  /\ unaudited \subseteq Approval

(* transition_tool_approval changes one row, and only from where it is     *)
(* expected to be.                                                         *)
LEMMA TransitionType ==
  ASSUME approval \in [Approval -> [status : Status, asset : SUBSET Asset]],
         NEW n \in Approval, NEW from, NEW to \in Status, Transition(n, from, to)
  PROVE  approval' \in [Approval -> [status : Status, asset : SUBSET Asset]]
BY DEF Transition

(* A decision goes on to another place, with or without a result, or ends. *)
LEMMA DecisionGoes ==
  ASSUME decision \in DecisionType, NEW o \in Operator,
         \/ \E pc \in {"enabled", "describe", "open", "publish", "delete", "settle"} : Decides(o, pc)
         \/ \E r \in {"failed", "executed"} : Results(o, r, "audit")
         \/ EndDecision(o)
  PROVE  decision' \in DecisionType
<1>1. ASSUME NEW pc \in {"enabled", "describe", "open", "publish", "delete", "settle"}, Decides(o, pc)
      PROVE  decision' \in DecisionType
  BY <1>1 DEF Decides, DecisionType
<1>2. ASSUME NEW r \in {"failed", "executed"}, Results(o, r, "audit") PROVE decision' \in DecisionType
  BY <1>2 DEF Results, DecisionType
<1>3. CASE EndDecision(o)
  BY <1>3 DEF EndDecision, NoDecision, DecisionType
<1>. QED BY <1>1, <1>2, <1>3

LEMMA CallTypes ==
  ASSUME ApprovalTypeOK, NEW c \in Caller, Request(c) \/ \E a \in Asset : Propose(c, a)
  PROVE  ApprovalTypeOK' /\ AssetsRest
<1>. USE DEF ApprovalTypeOK, DecisionType, Status, NoCall, EndCall
<1>1. CASE Request(c)
  <2>1. UNCHANGED approval \/ \E n \in Approval :
          approval' = [approval EXCEPT ![n] = [status |-> "pending", asset |-> call[c].asset]]
    BY <1>1 DEF Request
  <2>2. approval' \in [Approval -> [status : Status, asset : SUBSET Asset]]
    BY <2>1
  <2>3. call' = [call EXCEPT ![c] = NoCall] /\ UNCHANGED <<assetVars, enabled, up, decision, history>>
    BY <1>1 DEF Request
  <2>4. AssetsRest
    BY <2>3 DEF AssetsRest
  <2>. QED BY <2>2, <2>3, <2>4 DEF history
<1>2. ASSUME NEW a \in Asset, Propose(c, a) PROVE ApprovalTypeOK' /\ AssetsRest
  BY <1>2 DEF Propose, tableVars, history, Describe, AssetsRest
<1>. QED BY <1>1, <1>2

LEMMA DecisionTypes ==
  ASSUME ApprovalTypeOK, NEW o \in Operator, DecisionStep(o),
         decision[o].pc # "idle" => decision[o].approval \in Approval,
         decision[o].pc = "settle" => decision[o].result # "none"
  PROVE  ApprovalTypeOK' /\ AssetsRest
<1>. USE DEF ApprovalTypeOK, AtDecision, tableVars, history
<1>1. ASSUME NEW n \in Approval, DecideRead(o, n) PROVE ApprovalTypeOK' /\ AssetsRest
  BY <1>1 DEF DecideRead, AssetsRest, DecisionType
<1>2. CASE Deny(o)
  <2>1. decision[o].approval \in Approval /\ "denied" \in Status
    BY <1>2 DEF Deny, Status
  <2>2. approval' \in [Approval -> [status : Status, asset : SUBSET Asset]]
    BY <1>2, <2>1, TransitionType DEF Deny
  <2>3. decision' \in DecisionType /\ UNCHANGED <<assetVars, enabled, up, call, history>>
    BY <1>2, DecisionGoes DEF Deny
  <2>4. AssetsRest
    BY <2>3 DEF AssetsRest
  <2>. QED BY <2>2, <2>3, <2>4
<1>3. CASE Approve(o)
  <2>1. decision[o].approval \in Approval /\ "approved" \in Status
    BY <1>3 DEF Approve, Status
  <2>2. approval' \in [Approval -> [status : Status, asset : SUBSET Asset]]
    BY <1>3, <2>1, TransitionType DEF Approve
  <2>3. decision' \in DecisionType /\ UNCHANGED <<assetVars, enabled, up, call, history>>
    BY <1>3, DecisionGoes DEF Approve
  <2>4. AssetsRest
    BY <2>3 DEF AssetsRest
  <2>. QED BY <2>2, <2>3, <2>4
<1>4. CASE CheckEnabled(o)
  BY <1>4, DecisionGoes DEF CheckEnabled, AssetsRest
<1>5. CASE DescribeSource(o)
  <2>1. decision' \in DecisionType /\ UNCHANGED <<tableVars, call, history>>
    BY <1>5, DecisionGoes DEF DescribeSource
  <2>2. AssetsRest
    BY <1>5 DEF DescribeSource, Describe, AssetsRest
  <2>. QED BY <2>1, <2>2
<1>6. CASE OpenSource(o)
  <2>1. decision' \in DecisionType /\ UNCHANGED <<tableVars, call, history>>
    BY <1>6, DecisionGoes DEF OpenSource
  <2>2. AssetsRest
    BY <1>6 DEF OpenSource, Describe, AssetsRest
  <2>. QED BY <2>1, <2>2
<1>7. CASE Publish(o)
  <2>1. decision' \in DecisionType /\ UNCHANGED <<assetVars, tableVars, call, unaudited>>
    BY <1>7, DecisionGoes DEF Publish
  <2>2. published' \in [Approval -> Nat]
    BY <1>7 DEF Publish
  <2>. QED BY <2>1, <2>2 DEF AssetsRest
<1>8. CASE DeleteSource(o)
  <2>1. decision' \in DecisionType /\ UNCHANGED <<tableVars, call, history>>
    BY <1>8, DecisionGoes DEF DeleteSource
  <2>2. decision[o].approval \in Approval
    BY <1>8 DEF DeleteSource
  <2>3. AssetsRest
    BY <1>8, <2>2 DEF DeleteSource, AssetsRest
  <2>. QED BY <2>1, <2>3
<1>9. CASE Audit(o)
  <2>1. decision' \in DecisionType /\ UNCHANGED <<assetVars, tableVars, call, published>>
    BY <1>9, DecisionGoes DEF Audit
  <2>2. unaudited' \subseteq Approval
    BY <1>9 DEF Audit
  <2>. QED BY <2>1, <2>2 DEF AssetsRest
<1>10. CASE Settle(o)
  <2>1. decision[o].approval \in Approval /\ UNCHANGED <<assetVars, enabled, up, call, published>>
    BY <1>10 DEF Settle
  <2>2. approval' \in [Approval -> [status : Status, asset : SUBSET Asset]]
    <3>1. decision[o].result \in Status
      BY <1>10 DEF Settle, Status, DecisionType
    <3>2. UNCHANGED approval \/ Transition(decision[o].approval, "approved", decision[o].result)
      BY <1>10 DEF Settle
    <3>. QED BY <2>1, <3>1, <3>2, TransitionType
  <2>3. unaudited' \subseteq Approval
    BY <1>10 DEF Settle
  <2>4. decision' \in DecisionType
    BY <1>10, DecisionGoes DEF Settle
  <2>. QED BY <2>1, <2>2, <2>3, <2>4 DEF AssetsRest
<1>. QED BY <1>1, <1>2, <1>3, <1>4, <1>5, <1>6, <1>7, <1>8, <1>9, <1>10 DEF DecisionStep

LEMMA ServiceTypes ==
  ASSUME ApprovalTypeOK,
         Toggle \/ Prune \/ (\E n \in Approval : Expire(n)) \/ Crash \/ Recover \/ Serve
  PROVE  ApprovalTypeOK'
<1>. USE DEF ApprovalTypeOK, DecisionType
<1>1. CASE Toggle
  BY <1>1 DEF Toggle, history
<1>2. CASE Prune
  BY <1>2 DEF Prune, Status
<1>3. ASSUME NEW n \in Approval, Expire(n) PROVE ApprovalTypeOK'
  BY <1>3 DEF Expire, Transition, Matches, Status, history
<1>4. CASE Crash
  BY <1>4 DEF Crash, NoCall, NoDecision, DecisionType, history
<1>5. CASE Recover
  BY <1>5 DEF Recover, Status
<1>6. CASE Serve
  BY <1>6 DEF Serve, history
<1>. QED BY <1>1, <1>2, <1>3, <1>4, <1>5, <1>6

-----------------------------------------------------------------------------
(* The approvals                                                           *)

StatusOf(o) == approval[decision[o].approval].status
RunsOf(o) == published[decision[o].approval]
Drives(o) == decision[o].pc \notin {"idle", "decide"}

(* A thread that has approved is alone with its approval until it ends;    *)
(* its row is approved unless it was pruned, and its action has run if it  *)
(* was published and not before.                                           *)
DecisionsOK ==
  /\ \A o \in Operator : decision[o].pc # "idle" =>
       /\ decision[o].approval \in Approval
       /\ StatusOf(o) # "absent"
       /\ Drives(o) => StatusOf(o) \in {"approved", "pruned"}
       /\ decision[o].pc \in {"enabled", "describe", "open", "publish"} => RunsOf(o) = 0
       /\ decision[o].pc = "delete" => RunsOf(o) = 1
       /\ decision[o].pc \in {"audit", "settle"} =>
            decision[o].result = "failed" \/ (decision[o].result = "executed" /\ RunsOf(o) = 1)
  /\ \A o, q \in Operator :
       Drives(o) /\ Drives(q) /\ decision[o].approval = decision[q].approval => o = q

(* Nothing runs before it is approved.                                     *)
Untried == \A n \in Approval : approval[n].status \in {"absent", "pending"} => published[n] = 0

(* An approved row has the thread that runs it, or waits for the next start. *)
Driven ==
  \A n \in Having("approved") :
    n \in unaudited \/ up = "down" \/ \E o \in Operator : Drives(o) /\ decision[o].approval = n

(* Nothing is under way while the service is not serving, and before it    *)
(* serves again no row is approved.                                        *)
StoppedOK ==
  /\ ~Serving => /\ Recorded = {}
                 /\ \A c \in Caller : call[c] = NoCall
                 /\ \A o \in Operator : decision[o] = NoDecision
  /\ up = "starting" => Having("approved") = {}

ApprovalInv ==
  /\ AssetInv /\ ApprovalTypeOK
  /\ Serving => FilesKnown
  /\ StoppedOK /\ DecisionsOK /\ Untried /\ Driven

LEMMA ApprovalInit == Init => ApprovalInv
<1>. SUFFICES ASSUME Init PROVE ApprovalInv
  OBVIOUS
<1>1. AssetTypeOK /\ ApprovalTypeOK
  BY TypeInit DEF TypeOK, ApprovalTypeOK, DecisionType
<1>2. UploadsOK /\ ReadyIsWhole /\ FilesKnown
  BY DEF Init, AssetInit, UploadsOK, ReadyIsWhole, FilesKnown, Holds, NoUpload
<1>3. StoppedOK /\ DecisionsOK /\ Untried /\ Driven
  BY DEF Init, StoppedOK, DecisionsOK, Untried, Driven, Drives, NoDecision, NoApproval,
         Having, Serving
<1>. QED BY <1>1, <1>2, <1>3 DEF ApprovalInv, AssetInv

(* Rows that only come, are refused or are pruned leave the decisions as   *)
(* they are.                                                               *)
LEMMA RowsMoveApart ==
  ASSUME ApprovalInv, UNCHANGED <<decision, published, up>>, unaudited' \subseteq Approval,
         approval' \in [Approval -> [status : Status, asset : SUBSET Asset]],
         \A n \in Approval : \/ approval'[n] = approval[n]
                             \/ approval[n].status = "absent" /\ approval'[n].status = "pending"
                             \/ approval[n].status = "pending" /\ approval'[n].status = "expired"
                             \/ approval[n].status # "absent" /\ approval[n].status # "pending"
                                /\ approval'[n].status = "pruned",
         \A n \in unaudited \ unaudited' : approval'[n].status = "pruned"
  PROVE  DecisionsOK' /\ Untried' /\ Driven'
<1>1. DecisionsOK'
  <2>1. ASSUME NEW o \in Operator, decision'[o].pc # "idle"
        PROVE  /\ decision'[o].approval \in Approval
               /\ StatusOf(o)' # "absent"
               /\ Drives(o)' => StatusOf(o)' \in {"approved", "pruned"}
    BY <2>1 DEF ApprovalInv, ApprovalTypeOK, DecisionType, DecisionsOK, StatusOf, Drives
  <2>. QED BY <2>1 DEF ApprovalInv, DecisionsOK, Drives, RunsOf
<1>2. Untried'
  BY DEF ApprovalInv, Untried
<1>3. Driven'
  BY DEF ApprovalInv, Driven, Having, Drives
<1>. QED BY <1>1, <1>2, <1>3

(* The decision is taken up, or ends with a denial.                        *)
LEMMA BeginsApart ==
  ASSUME ApprovalInv, NEW o \in Operator, (\E n \in Approval : DecideRead(o, n)) \/ Deny(o)
  PROVE  DecisionsOK' /\ Untried' /\ Driven'
<1>. USE DEF ApprovalInv, ApprovalTypeOK, DecisionType, AtDecision, NoDecision, history, tableVars
<1>1. UNCHANGED <<published, unaudited, up>> /\ ~Drives(o) /\ ~Drives(o)'
      /\ \A q \in Operator : q # o => decision'[q] = decision[q]
  BY DEF DecideRead, Deny, Drives, EndDecision
<1>2. /\ \A n \in Approval : \/ approval'[n] = approval[n]
                             \/ approval[n].status = "pending" /\ approval'[n].status = "denied"
      /\ decision'[o].pc # "idle" => decision'[o].approval \in Approval /\ StatusOf(o)' # "absent"
  <2>1. ASSUME NEW n \in Approval, DecideRead(o, n)
        PROVE  approval' = approval /\ decision'[o].approval = n /\ approval[n].status # "absent"
    BY <2>1 DEF DecideRead
  <2>2. CASE Deny(o)
    <3>1. decision'[o].pc = "idle" /\ decision[o].approval \in Approval
      BY <2>2 DEF Deny, EndDecision, DecisionsOK
    <3>. QED BY <2>2, <3>1 DEF Deny, Transition, Matches
  <2>. QED BY <2>1, <2>2 DEF StatusOf
<1>3. DecisionsOK'
  <2>1. ASSUME NEW q \in Operator, q # o, decision'[q].pc # "idle"
        PROVE  /\ decision'[q].approval \in Approval
               /\ StatusOf(q)' # "absent"
               /\ Drives(q)' => StatusOf(q)' \in {"approved", "pruned"}
    BY <2>1, <1>1, <1>2 DEF DecisionsOK, StatusOf, Drives
  <2>2. \A q, r \in Operator :
          Drives(q)' /\ Drives(r)' /\ decision'[q].approval = decision'[r].approval => q = r
    BY <1>1 DEF DecisionsOK, Drives
  <2>. QED BY <1>1, <1>2, <2>1, <2>2 DEF DecisionsOK, Drives, RunsOf
<1>4. Untried'
  BY <1>1, <1>2 DEF Untried
<1>5. Driven'
  <2>1. ASSUME NEW n \in Having("approved")' PROVE n \in Having("approved")
    BY <1>2 DEF Having
  <2>2. \A q \in Operator : Drives(q) => Drives(q)' /\ decision'[q] = decision[q]
    BY <1>1 DEF Drives
  <2>. QED BY <1>1, <2>1, <2>2 DEF Driven
<1>. QED BY <1>3, <1>4, <1>5

LEMMA ApproveApart ==
  ASSUME ApprovalInv, NEW o \in Operator, Approve(o)
  PROVE  DecisionsOK' /\ Untried' /\ Driven'
<1>. DEFINE n == decision[o].approval
<1>. USE DEF ApprovalInv, ApprovalTypeOK, DecisionType, AtDecision, NoDecision, history, tableVars
<1>1. n \in Approval /\ UNCHANGED <<published, unaudited, up>>
      /\ \A q \in Operator : q # o => decision'[q] = decision[q]
  BY DEF Approve, EndDecision, Decides, DecisionsOK
<1>2. CASE approval[n].status = "pending"
  <2>1. /\ approval' = [approval EXCEPT ![n].status = "approved"]
        /\ decision' = [decision EXCEPT ![o].pc = "enabled"]
    BY <1>2 DEF Approve, Transition, Matches, Decides
  <2>2. Drives(o)' /\ decision'[o].approval = n /\ decision'[o].pc = "enabled"
    BY <2>1 DEF Drives
  <2>3. \A q \in Operator : Drives(q) => decision[q].approval # n
    BY <1>2 DEF DecisionsOK, Drives, StatusOf
  <2>4. DecisionsOK'
    <3>1. ASSUME NEW q \in Operator, q # o, decision'[q].pc # "idle"
          PROVE  /\ decision'[q].approval \in Approval
                 /\ StatusOf(q)' # "absent"
                 /\ Drives(q)' => StatusOf(q)' \in {"approved", "pruned"}
      BY <3>1, <1>1, <2>1 DEF DecisionsOK, StatusOf, Drives
    <3>2. StatusOf(o)' = "approved" /\ RunsOf(o)' = 0
      BY <1>1, <1>2, <2>1, <2>2 DEF StatusOf, RunsOf, Untried
    <3>3. \A q, r \in Operator :
            Drives(q)' /\ Drives(r)' /\ decision'[q].approval = decision'[r].approval => q = r
      BY <1>1, <2>2, <2>3 DEF DecisionsOK, Drives
    <3>. QED BY <1>1, <2>2, <3>1, <3>2, <3>3 DEF DecisionsOK, Drives, RunsOf
  <2>5. Untried'
    BY <1>1, <2>1 DEF Untried
  <2>6. Driven'
    <3>1. ASSUME NEW m \in Having("approved")', m # n PROVE m \in Having("approved")
      BY <3>1, <1>1, <2>1 DEF Having
    <3>2. \A q \in Operator : Drives(q) => q # o /\ Drives(q)' /\ decision'[q] = decision[q]
      BY <1>1 DEF Drives, Approve
    <3>. QED BY <1>1, <2>2, <3>1, <3>2 DEF Driven
  <2>. QED BY <2>4, <2>5, <2>6
<1>3. CASE approval[n].status # "pending"
  <2>1. UNCHANGED approval /\ decision' = [decision EXCEPT ![o] = NoDecision]
    BY <1>3 DEF Approve, Transition, Matches, EndDecision
  <2>2. decision'[o].pc = "idle" /\ ~Drives(o)' /\ ~Drives(o)
    BY <2>1 DEF Drives, Approve
  <2>3. DecisionsOK'
    BY <1>1, <2>1, <2>2 DEF DecisionsOK, StatusOf, Drives, RunsOf
  <2>4. Untried'
    BY <1>1, <2>1 DEF Untried
  <2>5. Driven'
    BY <1>1, <2>1, <2>2 DEF Driven, Having, Drives, Approve
  <2>. QED BY <2>3, <2>4, <2>5
<1>. QED BY <1>2, <1>3

(* A step on the way from the approval to the outcome: the row stays, and  *)
(* the action is run at most here.                                         *)
LEMMA DrivesOn ==
  ASSUME ApprovalInv, NEW o \in Operator,
         CheckEnabled(o) \/ DescribeSource(o) \/ OpenSource(o) \/ Publish(o) \/ DeleteSource(o)
  PROVE  DecisionsOK' /\ Untried' /\ Driven'
<1>. DEFINE n == decision[o].approval
<1>. USE DEF ApprovalInv, ApprovalTypeOK, DecisionType, AtDecision, Decides, Results, history, tableVars
<1>1. /\ UNCHANGED <<approval, unaudited, up>> /\ Drives(o) /\ Drives(o)' /\ n \in Approval
      /\ decision'[o].approval = n
      /\ \A q \in Operator : q # o => decision'[q] = decision[q]
  BY DEF CheckEnabled, DescribeSource, OpenSource, Publish, DeleteSource, Drives, DecisionsOK
<1>2. \A m \in Approval : m # n => published'[m] = published[m]
  BY <1>1 DEF CheckEnabled, DescribeSource, OpenSource, Publish, DeleteSource
<1>3. /\ decision'[o].pc \in {"enabled", "describe", "open", "publish"} => published'[n] = 0
      /\ decision'[o].pc = "delete" => published'[n] = 1
      /\ decision'[o].pc \in {"audit", "settle"} =>
           decision'[o].result = "failed" \/ (decision'[o].result = "executed" /\ published'[n] = 1)
  <2>1. CASE CheckEnabled(o)
    BY <1>1, <2>1 DEF CheckEnabled, DecisionsOK, RunsOf
  <2>2. CASE DescribeSource(o) \/ OpenSource(o)
    BY <1>1, <2>2 DEF DescribeSource, OpenSource, DecisionsOK, RunsOf
  <2>3. CASE Publish(o)
    <3>1. published[n] = 0
      BY <1>1, <2>3 DEF Publish, DecisionsOK, RunsOf
    <3>. QED BY <1>1, <2>3, <3>1 DEF Publish
  <2>4. CASE DeleteSource(o)
    BY <1>1, <2>4 DEF DeleteSource, DecisionsOK, RunsOf
  <2>. QED BY <2>1, <2>2, <2>3, <2>4
<1>4. DecisionsOK'
  <2>1. StatusOf(o)' \in {"approved", "pruned"}
    BY <1>1 DEF DecisionsOK, StatusOf, Drives
  <2>2. ASSUME NEW q \in Operator, q # o, decision'[q].pc # "idle"
        PROVE  /\ StatusOf(q)' = StatusOf(q)
               /\ Drives(q)' <=> Drives(q)
               /\ Drives(q) => RunsOf(q)' = RunsOf(q)
    BY <1>1, <1>2, <2>2 DEF DecisionsOK, StatusOf, RunsOf, Drives
  <2>3. \A q, r \in Operator :
          Drives(q)' /\ Drives(r)' /\ decision'[q].approval = decision'[r].approval => q = r
    BY <1>1 DEF DecisionsOK, Drives
  <2>. QED BY <1>1, <1>3, <2>1, <2>2, <2>3 DEF DecisionsOK, Drives, RunsOf
<1>5. Untried'
  <2>1. approval[n].status \notin {"absent", "pending"}
    BY <1>1 DEF DecisionsOK, StatusOf, Drives
  <2>. QED BY <1>1, <1>2, <2>1 DEF Untried
<1>6. Driven'
  <2>1. \A q \in Operator : Drives(q) => Drives(q)' /\ decision'[q].approval = decision[q].approval
    BY <1>1 DEF Drives
  <2>. QED BY <1>1, <2>1 DEF Driven, Having
<1>. QED BY <1>4, <1>5, <1>6

(* The outcome is written, or the database refuses it: the thread is done. *)
LEMMA EndsApart ==
  ASSUME ApprovalInv, NEW o \in Operator, Audit(o) \/ Settle(o)
  PROVE  DecisionsOK' /\ Untried' /\ Driven'
<1>. DEFINE n == decision[o].approval
<1>. USE DEF ApprovalInv, ApprovalTypeOK, DecisionType, AtDecision, NoDecision, EndDecision
<1>1. /\ UNCHANGED <<published, up>> /\ Drives(o) /\ n \in Approval
      /\ decision[o].result \in {"failed", "executed"}
      /\ \A q \in Operator : q # o => decision'[q] = decision[q]
  <2>1. decision[o].pc \in {"audit", "settle"}
    BY DEF Audit, Settle
  <2>2. Drives(o) /\ n \in Approval /\ decision[o].result \in {"failed", "executed"}
    BY <2>1 DEF Drives, DecisionsOK
  <2>3. UNCHANGED <<published, up>> /\ \A q \in Operator : q # o => decision'[q] = decision[q]
    <3>1. CASE Audit(o)
      BY <3>1 DEF Audit, Decides, tableVars
    <3>2. CASE Settle(o)
      BY <3>2 DEF Settle
    <3>. QED BY <3>1, <3>2
  <2>. QED BY <2>2, <2>3
<1>2. \/ /\ Audit(o) /\ decision' = [decision EXCEPT ![o].pc = "settle"]
         /\ UNCHANGED <<approval, unaudited>>
      \/ /\ decision' = [decision EXCEPT ![o] = NoDecision] /\ UNCHANGED approval
         /\ unaudited' = unaudited \cup ({n} \cap Having("approved"))
      \/ /\ decision' = [decision EXCEPT ![o] = NoDecision] /\ UNCHANGED unaudited
         /\ approval' = IF approval[n].status = "approved"
                          THEN [approval EXCEPT ![n].status = decision[o].result] ELSE approval
  <2>1. CASE Audit(o)
    BY <2>1 DEF Audit, Decides, tableVars
  <2>2. CASE Settle(o)
    BY <2>2 DEF Settle, Transition, Matches
  <2>. QED BY <2>1, <2>2
<1>3. \A q \in Operator : q # o /\ Drives(q) => decision[q].approval # n
  BY <1>1 DEF DecisionsOK
<1>4. \A m \in Approval : m # n => approval'[m] = approval[m]
  BY <1>2
<1>5. approval'[n].status = approval[n].status
      \/ (approval[n].status = "approved" /\ approval'[n].status \in {"failed", "executed"})
  BY <1>1, <1>2
<1>6. DecisionsOK'
  <2>1. decision'[o].pc # "idle" =>
          /\ decision'[o].approval = n /\ decision'[o].pc = "settle"
          /\ decision[o].pc = "audit" /\ decision'[o].result = decision[o].result
          /\ StatusOf(o)' = StatusOf(o)
    BY <1>2 DEF Audit, StatusOf
  <2>2. ASSUME NEW q \in Operator, q # o, decision'[q].pc # "idle"
        PROVE  /\ StatusOf(q)' # "absent"
               /\ Drives(q)' => StatusOf(q)' \in {"approved", "pruned"}
    BY <1>1, <1>3, <1>4, <1>5, <2>2 DEF DecisionsOK, StatusOf, Drives
  <2>3. \A q, r \in Operator :
          Drives(q)' /\ Drives(r)' /\ decision'[q].approval = decision'[r].approval => q = r
    BY <1>1, <1>3, <2>1 DEF DecisionsOK, Drives
  <2>. QED BY <1>1, <2>1, <2>2, <2>3 DEF DecisionsOK, Drives, RunsOf
<1>7. Untried'
  BY <1>1, <1>4, <1>5 DEF Untried
<1>8. Driven'
  <2>1. ASSUME NEW m \in Having("approved")', m # n
        PROVE  m \in unaudited' \/ up' = "down"
               \/ \E q \in Operator : Drives(q)' /\ decision'[q].approval = m
    <3>1. m \in Having("approved") /\ (m \in unaudited => m \in unaudited')
      BY <1>2, <1>4, <2>1 DEF Having
    <3>2. \A q \in Operator : decision[q].approval = m => q # o
      BY <2>1
    <3>. QED BY <1>1, <3>1, <3>2 DEF Driven, Drives
  <2>2. ASSUME n \in Having("approved")'
        PROVE  n \in unaudited' \/ (Drives(o)' /\ decision'[o].approval = n)
    BY <1>1, <1>2, <2>2 DEF Having, Drives
  <2>. QED BY <2>1, <2>2 DEF Driven
<1>. QED BY <1>6, <1>7, <1>8

(* The calls and the admin service's passes.                               *)
LEMMA OthersApart ==
  ASSUME ApprovalInv,
         \/ \E c \in Caller : Request(c) \/ \E a \in Asset : Propose(c, a)
         \/ Toggle \/ Prune \/ \E n \in Approval : Expire(n)
  PROVE  DecisionsOK' /\ Untried' /\ Driven'
<1>. USE DEF ApprovalInv, history, tableVars
<1>1. ApprovalTypeOK'
  BY CallTypes, ServiceTypes
<1>2. /\ UNCHANGED <<decision, published, up>>
      /\ \A n \in Approval : \/ approval'[n] = approval[n]
                             \/ approval[n].status = "absent" /\ approval'[n].status = "pending"
                             \/ approval[n].status = "pending" /\ approval'[n].status = "expired"
                             \/ approval[n].status # "absent" /\ approval[n].status # "pending"
                                /\ approval'[n].status = "pruned"
      /\ \A n \in unaudited \ unaudited' : approval'[n].status = "pruned"
  <2>1. ASSUME NEW c \in Caller, Request(c) PROVE <1>2!1 /\ <1>2!2 /\ <1>2!3
    <3>1. UNCHANGED approval \/ \E n \in Approval : Fresh(n) /\
            approval' = [approval EXCEPT ![n] = [status |-> "pending", asset |-> call[c].asset]]
      BY <2>1 DEF Request
    <3>. QED BY <2>1, <3>1 DEF Request, Fresh, ApprovalTypeOK, DecisionType
  <2>2. ASSUME NEW c \in Caller, NEW a \in Asset, Propose(c, a) PROVE <1>2!1 /\ <1>2!2 /\ <1>2!3
    BY <2>2 DEF Propose
  <2>3. CASE Toggle
    BY <2>3 DEF Toggle
  <2>4. CASE Prune
    BY <2>4 DEF Prune, Prunable, Decided, ApprovalTypeOK, DecisionType
  <2>5. ASSUME NEW n \in Approval, Expire(n) PROVE <1>2!1 /\ <1>2!2 /\ <1>2!3
    BY <2>5 DEF Expire, Transition, Matches, ApprovalTypeOK, DecisionType
  <2>. QED BY <2>1, <2>2, <2>3, <2>4, <2>5
<1>. QED BY <1>1, <1>2, RowsMoveApart DEF ApprovalTypeOK, DecisionType

(* The service dies, and with it whatever it was doing; the next one fails *)
(* what was left approved before it serves.                                *)
LEMMA RestartApart ==
  ASSUME ApprovalInv, Crash \/ Recover \/ Serve
  PROVE  StoppedOK' /\ DecisionsOK' /\ Untried' /\ Driven'
<1>. USE DEF ApprovalInv, ApprovalTypeOK, DecisionType, history, Serving
<1>1. CASE Crash
  <2>1. UNCHANGED <<approval, published>> /\ up' = "down"
        /\ call' = [c \in Caller |-> NoCall] /\ decision' = [o \in Operator |-> NoDecision]
        /\ record' = RecordLess(Asset)
    BY <1>1 DEF Crash, AssetCrash
  <2>2. Recorded' = {}
    BY <2>1 DEF RecordLess, Recorded, AssetInv, AssetTypeOK
  <2>3. \A o \in Operator : decision'[o].pc = "idle"
    BY <2>1 DEF NoDecision
  <2>. QED BY <2>1, <2>2, <2>3
           DEF StoppedOK, DecisionsOK, Drives, Untried, Driven
<1>2. CASE Recover
  <2>1. /\ UNCHANGED <<call, decision, published>> /\ up = "down" /\ up' = "starting"
        /\ Recorded' = Recorded
        /\ \A n \in Approval : approval'[n].status =
              IF approval[n].status = "approved" THEN "failed" ELSE approval[n].status
    BY <1>2 DEF Recover, assetVars, Recorded
  <2>2. Having("approved")' = {}
    BY <2>1 DEF Having
  <2>3. \A o \in Operator : decision'[o].pc = "idle"
    BY <2>1 DEF NoDecision, StoppedOK
  <2>. QED BY <2>1, <2>2, <2>3
           DEF StoppedOK, DecisionsOK, Drives, Untried, Driven
<1>3. CASE Serve
  <2>1. UNCHANGED <<approval, decision, published, unaudited>> /\ up = "starting" /\ up' = "serving"
    BY <1>3 DEF Serve
  <2>2. Having("approved")' = {}
    BY <2>1 DEF Having, StoppedOK
  <2>3. \A o \in Operator : decision'[o].pc = "idle"
    BY <2>1 DEF NoDecision, StoppedOK
  <2>. QED BY <2>1, <2>2, <2>3
           DEF StoppedOK, DecisionsOK, Drives, Untried, Driven
<1>. QED BY <1>1, <1>2, <1>3

LEMMA ApprovalStep == ApprovalInv /\ [Next]_vars => ApprovalInv'
<1>. SUFFICES ASSUME ApprovalInv, [Next]_vars PROVE ApprovalInv'
  OBVIOUS
<1>1. ASSUME NEW o \in Operator, DecisionStep(o) PROVE ApprovalInv'
  <2>1. decision[o].pc # "idle" => decision[o].approval \in Approval
    BY DEF ApprovalInv, DecisionsOK
  <2>2. decision[o].pc = "settle" => decision[o].result # "none"
    BY DEF ApprovalInv, DecisionsOK
  <2>3. ApprovalTypeOK' /\ AssetInv' /\ (FilesKnown => FilesKnown')
    BY <1>1, <2>1, <2>2, DecisionTypes, RestKeeps DEF ApprovalInv
  <2>4. DecisionsOK' /\ Untried' /\ Driven'
    BY <1>1, BeginsApart, ApproveApart, DrivesOn, EndsApart DEF DecisionStep
  <2>5. Serving /\ UNCHANGED up
    BY <1>1 DEF ApprovalInv, StoppedOK, NoDecision, DecisionStep, DecideRead, Deny, Approve, CheckEnabled,
           DescribeSource, OpenSource, Publish, DeleteSource, Audit, Settle, AtDecision, tableVars
  <2>. QED BY <2>3, <2>4, <2>5 DEF ApprovalInv, StoppedOK, Serving
<1>2. ASSUME NEW c \in Caller, Request(c) \/ \E a \in Asset : Propose(c, a) PROVE ApprovalInv'
  <2>1. ApprovalTypeOK' /\ AssetInv' /\ (FilesKnown => FilesKnown')
    BY <1>2, CallTypes, RestKeeps DEF ApprovalInv
  <2>2. DecisionsOK' /\ Untried' /\ Driven'
    BY <1>2, OthersApart
  <2>3. Serving /\ UNCHANGED up
    <3>1. CASE Request(c)
      BY <3>1 DEF ApprovalInv, StoppedOK, NoCall, Request
    <3>2. ASSUME NEW a \in Asset, Propose(c, a) PROVE Serving /\ UNCHANGED up
      BY <3>2 DEF Propose, tableVars
    <3>. QED BY <1>2, <3>1, <3>2
  <2>. QED BY <2>1, <2>2, <2>3 DEF ApprovalInv, StoppedOK, Serving
<1>3. ASSUME Serving, UNCHANGED <<tableVars, call, decision, history>>,
             Sweep \/ (\E u \in Uploader : UploadStep(u)) \/ (\E a \in Asset : AssetExpires(a))
      PROVE  ApprovalInv'
  <2>1. AssetInv' /\ (FilesKnown => FilesKnown')
    <3>1. CASE Sweep
      BY <3>1, CleanupKeeps DEF Sweep, ApprovalInv
    <3>2. ASSUME NEW u \in Uploader, UploadStep(u) PROVE AssetInv' /\ (FilesKnown => FilesKnown')
      BY <3>2, UploadKeeps DEF ApprovalInv
    <3>3. ASSUME NEW a \in Asset, AssetExpires(a) PROVE AssetInv' /\ (FilesKnown => FilesKnown')
      BY <3>3, UnchangedAssets DEF AssetExpires, ApprovalInv, AssetInv, AssetTypeOK
    <3>. QED BY <1>3, <3>1, <3>2, <3>3
  <2>2. ApprovalTypeOK' /\ StoppedOK' /\ DecisionsOK' /\ Untried' /\ Driven'
    BY <1>3 DEF ApprovalInv, ApprovalTypeOK, DecisionType, StoppedOK, DecisionsOK, Untried, Driven, Drives, StatusOf,
           RunsOf, Having, Serving, tableVars, history
  <2>. QED BY <1>3, <2>1, <2>2 DEF ApprovalInv, Serving, tableVars
<1>4. CASE Toggle \/ Prune \/ \E n \in Approval : Expire(n)
  <2>1. ApprovalTypeOK' /\ DecisionsOK' /\ Untried' /\ Driven'
    BY <1>4, ServiceTypes, OthersApart DEF ApprovalInv
  <2>2. UNCHANGED <<assetVars, up, call, decision>> /\ Having("approved")' \subseteq Having("approved")
    BY <1>4 DEF Toggle, Prune, Expire, Transition, Matches, Having, ApprovalInv, ApprovalTypeOK, DecisionType
  <2>3. AssetInv' /\ (FilesKnown => FilesKnown') /\ Recorded' = Recorded
    BY <2>2, RestKeeps DEF ApprovalInv, AssetsRest, assetVars, Recorded
  <2>. QED BY <2>1, <2>2, <2>3 DEF ApprovalInv, StoppedOK, Serving
<1>5. CASE Crash \/ Recover \/ Serve
  <2>1. ApprovalTypeOK' /\ StoppedOK' /\ DecisionsOK' /\ Untried' /\ Driven'
    BY <1>5, ServiceTypes, RestartApart DEF ApprovalInv
  <2>2. AssetInv'
    <3>1. CASE Crash
      BY <3>1 DEF Crash, AssetCrash, ApprovalInv, AssetInv, AssetTypeOK, NoUpload, UploadsOK, Holds,
             ReadyIsWhole, RecordLess, Recorded
    <3>2. CASE Recover
      BY <3>2, RestKeeps DEF Recover, AssetsRest, ApprovalInv
    <3>3. CASE Serve
      <4>1. Recorded = {} /\ UNCHANGED <<record, expired, upload>> /\ file' = [a \in Asset |-> "none"]
        BY <3>3 DEF Serve, CleanStart, ApprovalInv, StoppedOK, Serving
      <4>. QED BY <4>1 DEF ApprovalInv, AssetInv, AssetTypeOK, UploadsOK, Holds, ReadyIsWhole, Recorded
    <3>. QED BY <1>5, <3>1, <3>2, <3>3
  <2>3. Serving' => FilesKnown'
    BY <1>5 DEF Crash, Recover, Serve, CleanStart, FilesKnown, Serving
  <2>. QED BY <2>1, <2>2, <2>3 DEF ApprovalInv
<1>6. CASE UNCHANGED vars
  <2>1. AssetInv' /\ (FilesKnown => FilesKnown') /\ Recorded' = Recorded
    BY <1>6, RestKeeps DEF ApprovalInv, AssetsRest, vars, assetVars, Recorded
  <2>2. ApprovalTypeOK' /\ StoppedOK' /\ DecisionsOK' /\ Untried' /\ Driven'
    BY <1>6, <2>1 DEF ApprovalInv, ApprovalTypeOK, DecisionType, StoppedOK, DecisionsOK, Untried, Driven, Drives, StatusOf,
           RunsOf, Having, Serving, tableVars, history, vars
  <2>. QED BY <1>6, <2>1, <2>2 DEF ApprovalInv, Serving, tableVars, vars
<1>. QED BY <1>1, <1>2, <1>3, <1>4, <1>5, <1>6 DEF Next

LEMMA ApprovalInvariant == Spec => []ApprovalInv
BY ApprovalInit, ApprovalStep, PTL DEF Spec

(* Every reachable state is well typed.                                    *)
THEOREM ApprovalsTypeCorrect == Spec => []TypeOK
<1>1. ApprovalInv => TypeOK
  BY DEF ApprovalInv, ApprovalTypeOK, DecisionType, AssetInv, TypeOK
<1>. QED BY <1>1, ApprovalInvariant, PTL

(* While the service serves, what the tools are offered has all its bytes, *)
(* and every file has its record or its upload.                            *)
THEOREM IndexMatches == Spec => []IndexMatchesFiles
<1>1. ApprovalInv => IndexMatchesFiles
  BY DEF ApprovalInv, AssetInv, IndexMatchesFiles, FilesKnown, Holds
<1>. QED BY <1>1, ApprovalInvariant, PTL

(* No approved row is ever stranded.                                       *)
THEOREM ApprovedDriven == Spec => []ApprovedIsDriven
<1>1. ApprovalInv => ApprovedIsDriven
  BY DEF ApprovalInv, Driven, Drives, ApprovedIsDriven, AtDecision
<1>. QED BY <1>1, ApprovalInvariant, PTL

(* The source an open approval needs is taken away only by its time, by a  *)
(* restart, or because it was published; a failed attempt leaves it.       *)
THEOREM SourcesKept == Spec => SourceKept
<1>1. ASSUME ApprovalInv, [Next]_vars, NEW a \in Asset, record[a] = "ready", record'[a] # "ready"
      PROVE  a \in expired \/ up' = "down" \/ \E n \in Approval : a \in approval[n].asset /\ published[n] > 0
  <2>. USE DEF ApprovalInv, AssetInv, AssetTypeOK, RecordLess, Recorded
  <2>1. CASE Cleanup \/ UNCHANGED record \/ Crash
    BY <1>1, <2>1 DEF Cleanup, Crash
  <2>2. ASSUME NEW u \in Uploader, UploadStep(u) PROVE a \in expired
    <3>1. ASSUME NEW b \in Asset, Reserve(u, b) PROVE a \in expired
      BY <1>1, <3>1 DEF Reserve
    <3>2. ASSUME NEW b \in Asset, Abort(u, b) \/ Finalize(u, b) PROVE FALSE
      <4>1. record[b] \in {"reserved", "gone"}
        <5>1. Holds(u, b)
          BY <3>2 DEF Abort, Finalize, AtUpload, Holds
        <5>. QED BY <1>1, <5>1 DEF UploadsOK
      <4>. QED BY <1>1, <3>2, <4>1 DEF Abort, Finalize
    <3>3. ASSUME NEW b \in Asset, OpenFile(u, b) \/ WriteDone(u, b) \/ WriteFails(u, b) PROVE FALSE
      BY <1>1, <3>3 DEF OpenFile, WriteDone, WriteFails
    <3>. QED BY <1>1, <2>1, <2>2, <3>1, <3>2, <3>3 DEF UploadStep, ReserveRefused, Cleanup
  <2>3. ASSUME NEW o \in Operator, DecisionStep(o)
        PROVE  a \in expired \/ \E n \in Approval : a \in approval[n].asset /\ published[n] > 0
    <3>1. CASE DeleteSource(o)
      <4>1. decision[o].approval \in Approval /\ published[decision[o].approval] = 1
        <5>1. decision[o].pc = "delete"
          BY <3>1 DEF DeleteSource, AtDecision
        <5>. QED BY <1>1, <5>1 DEF DecisionsOK, RunsOf
      <4>2. a \in approval[decision[o].approval].asset
        BY <1>1, <3>1 DEF DeleteSource, Delete, Remove
      <4>. QED BY <4>1, <4>2
    <3>2. CASE ~DeleteSource(o)
      <4>1. Cleanup \/ UNCHANGED record
        BY <2>3, <3>2 DEF DecisionStep, DecideRead, Deny, Approve, CheckEnabled, DescribeSource, OpenSource,
               Publish, Audit, Settle, Describe, assetVars
      <4>. QED BY <1>1, <4>1 DEF Cleanup
    <3>. QED BY <3>1, <3>2
  <2>4. ASSUME NEW c \in Caller, Request(c) \/ \E b \in Asset : Propose(c, b)
        PROVE  Cleanup \/ UNCHANGED record
    BY <2>4 DEF Request, Propose, Describe, assetVars
  <2>5. CASE Toggle \/ Prune \/ (\E n \in Approval : Expire(n)) \/ Recover \/ Serve \/ Sweep
             \/ (\E b \in Asset : AssetExpires(b)) \/ UNCHANGED vars
    <3>1. Cleanup \/ UNCHANGED record
      BY <2>5 DEF Toggle, Prune, Expire, Recover, Serve, Sweep, AssetExpires, CleanStart, assetVars, vars
    <3>. QED BY <2>1, <3>1
  <2>. QED BY <1>1, <2>1, <2>2, <2>3, <2>4, <2>5 DEF Next
<1>2. ASSUME ApprovalInv, [Next]_vars
      PROVE  \A a \in Asset : record[a] = "ready" /\ record'[a] # "ready" =>
               a \in expired \/ up' = "down" \/ \E n \in Approval : a \in approval[n].asset /\ published[n] > 0
  BY <1>1, <1>2
<1>. QED BY <1>2, ApprovalInvariant, PTL DEF Spec, SourceKept

-----------------------------------------------------------------------------
(* The promise of ApprovalLifecycle                                        *)

Phase == [n \in Approval |-> approval[n].status]

(* A step that moves the rows of one set to one status, and nothing else,  *)
(* is a move of the lifecycle.                                             *)
LEMMA MovesPhase ==
  ASSUME ApprovalTypeOK, ApprovalTypeOK', NEW N, NEW p,
         \A n \in Approval : approval'[n].status = IF n \in N THEN p ELSE approval[n].status
  PROVE  Lifecycle!Moves(N, p)
BY DEF Lifecycle!Moves

LEMMA PhaseRests ==
  ASSUME \A n \in Approval : approval'[n].status = approval[n].status, UNCHANGED published
  PROVE  UNCHANGED Lifecycle!vars
BY DEF Lifecycle!vars

LEMMA DecisionRefines ==
  ASSUME ApprovalInv, ApprovalInv', NEW o \in Operator, DecisionStep(o)
  PROVE  Lifecycle!Next \/ UNCHANGED Lifecycle!vars
<1>. DEFINE m == decision[o].approval
<1>. USE DEF AtDecision, history, tableVars
<1>0. ApprovalTypeOK /\ ApprovalTypeOK' /\ DecisionsOK
  BY DEF ApprovalInv
<1>1. CASE (\E n \in Approval : DecideRead(o, n)) \/ CheckEnabled(o) \/ DescribeSource(o)
           \/ OpenSource(o) \/ DeleteSource(o) \/ Audit(o)
  <2>1. UNCHANGED <<approval, published>>
    BY <1>1 DEF DecideRead, CheckEnabled, DescribeSource, OpenSource, DeleteSource, Audit
  <2>. QED BY <2>1, PhaseRests
<1>2. CASE Deny(o)
  <2>1. m \in Approval /\ UNCHANGED published
    BY <1>0, <1>2 DEF Deny, DecisionsOK
  <2>2. CASE approval[m].status = "pending"
    <3>0. approval' = [approval EXCEPT ![m].status = "denied"]
      BY <1>2, <2>2 DEF Deny, Transition, Matches
    <3>1. Lifecycle!Moves({m}, "denied")
      <4>1. \A n \in Approval : approval'[n].status = IF n \in {m} THEN "denied" ELSE approval[n].status
        BY <1>0, <2>1, <3>0 DEF ApprovalTypeOK, DecisionType
      <4>. QED BY <1>0, <4>1, MovesPhase
    <3>. QED BY <2>1, <2>2, <3>1 DEF Lifecycle!Next, Lifecycle!Refuse
  <2>3. CASE approval[m].status # "pending"
    BY <1>2, <2>1, <2>3, PhaseRests DEF Deny, Transition, Matches
  <2>. QED BY <2>2, <2>3
<1>3. CASE Approve(o)
  <2>1. m \in Approval /\ UNCHANGED published
    BY <1>0, <1>3 DEF Approve, DecisionsOK
  <2>2. CASE approval[m].status = "pending"
    <3>0. approval' = [approval EXCEPT ![m].status = "approved"]
      BY <1>3, <2>2 DEF Approve, Transition, Matches
    <3>1. Lifecycle!Moves({m}, "approved")
      <4>1. \A n \in Approval : approval'[n].status = IF n \in {m} THEN "approved" ELSE approval[n].status
        BY <1>0, <2>1, <3>0 DEF ApprovalTypeOK, DecisionType
      <4>. QED BY <1>0, <4>1, MovesPhase
    <3>. QED BY <2>1, <2>2, <3>1 DEF Lifecycle!Next, Lifecycle!Approve
  <2>3. CASE approval[m].status # "pending"
    BY <1>3, <2>1, <2>3, PhaseRests DEF Approve, Transition, Matches
  <2>. QED BY <2>2, <2>3
<1>4. CASE Publish(o)
  <2>1. m \in Approval /\ UNCHANGED approval
        /\ approval[m].status \in {"approved", "pruned"} /\ published[m] = 0
    BY <1>0, <1>4 DEF Publish, DecisionsOK, Drives, StatusOf, RunsOf
  <2>2. CASE UNCHANGED published
    BY <2>1, <2>2, PhaseRests
  <2>3. CASE published' = [published EXCEPT ![m] = @ + 1]
    <3>1. published' = [published EXCEPT ![m] = 1]
      BY <1>0, <2>1, <2>3 DEF ApprovalTypeOK, DecisionType
    <3>2. Lifecycle!Run(m)
      BY <2>1, <3>1 DEF Lifecycle!Run
    <3>. QED BY <2>1, <3>2 DEF Lifecycle!Next
  <2>. QED BY <1>4, <2>2, <2>3 DEF Publish
<1>5. CASE Settle(o)
  <2>1. m \in Approval /\ UNCHANGED published
        /\ (decision[o].result = "failed" \/ (decision[o].result = "executed" /\ published[m] = 1))
    BY <1>0, <1>5 DEF Settle, DecisionsOK, RunsOf
  <2>2. CASE UNCHANGED approval
    BY <2>1, <2>2, PhaseRests
  <2>3. CASE approval[m].status = "approved"
             /\ approval' = [approval EXCEPT ![m].status = decision[o].result]
    <3>1. \A n \in Approval : approval'[n].status =
            IF n \in {m} THEN decision[o].result ELSE approval[n].status
      BY <1>0, <2>1, <2>3 DEF ApprovalTypeOK, DecisionType
    <3>2. CASE decision[o].result = "failed"
      <4>1. Lifecycle!Moves({m}, "failed")
        BY <1>0, <3>1, <3>2, MovesPhase
      <4>2. Lifecycle!Fail({m}) /\ {m} \in SUBSET Approval
        BY <2>1, <2>3, <4>1 DEF Lifecycle!Fail
      <4>. QED BY <4>2 DEF Lifecycle!Next, Lifecycle!Fail
    <3>3. CASE decision[o].result = "executed" /\ published[m] = 1
      <4>1. Lifecycle!Moves({m}, "executed")
        BY <1>0, <3>1, <3>3, MovesPhase
      <4>2. Lifecycle!Succeed(m) /\ m \in Approval
        BY <2>1, <2>3, <3>3, <4>1 DEF Lifecycle!Succeed
      <4>. QED BY <4>2 DEF Lifecycle!Next, Lifecycle!Succeed
    <3>. QED BY <2>1, <3>2, <3>3
  <2>. QED BY <1>5, <2>2, <2>3 DEF Settle, Transition, Matches
<1>. QED BY <1>1, <1>2, <1>3, <1>4, <1>5 DEF DecisionStep

LEMMA ServiceRefines ==
  ASSUME ApprovalInv, ApprovalInv',
         \/ \E c \in Caller : Request(c) \/ \E a \in Asset : Propose(c, a)
         \/ Prune \/ (\E n \in Approval : Expire(n)) \/ Recover
  PROVE  Lifecycle!Next \/ UNCHANGED Lifecycle!vars
<1>. USE DEF history, tableVars
<1>0. ApprovalTypeOK /\ ApprovalTypeOK'
  BY DEF ApprovalInv
<1>1. ASSUME NEW c \in Caller, Request(c) PROVE Lifecycle!Next \/ UNCHANGED Lifecycle!vars
  <2>1. UNCHANGED published
    BY <1>1 DEF Request
  <2>2. CASE UNCHANGED approval
    BY <2>1, <2>2, PhaseRests
  <2>3. ASSUME NEW n \in Approval, Fresh(n),
               approval' = [approval EXCEPT ![n] = [status |-> "pending", asset |-> call[c].asset]]
        PROVE  Lifecycle!Next
    <3>1. approval[n].status = "absent" /\ Lifecycle!Moves({n}, "pending")
      BY <1>0, <2>3, MovesPhase DEF Fresh, ApprovalTypeOK, DecisionType
    <3>. QED BY <2>1, <3>1 DEF Lifecycle!Next, Lifecycle!Ask
  <2>. QED BY <1>1, <2>2, <2>3 DEF Request
<1>2. ASSUME NEW c \in Caller, NEW a \in Asset, Propose(c, a) PROVE UNCHANGED Lifecycle!vars
  BY <1>2, PhaseRests DEF Propose
<1>3. CASE Prune
  <2>1. Lifecycle!Moves(Prunable, "pruned") /\ UNCHANGED published
    BY <1>0, <1>3, MovesPhase DEF Prune, Prunable, Decided, ApprovalTypeOK, DecisionType
  <2>2. \A n \in Prunable : Phase[n] \in Lifecycle!Final \cup {"approved"}
    BY <1>0 DEF Phase, Prunable, Decided, ApprovalTypeOK, DecisionType, Status, Lifecycle!Final
  <2>3. Lifecycle!Forget(Prunable) /\ Prunable \in SUBSET Approval
    BY <2>1, <2>2 DEF Lifecycle!Forget, Phase, Prunable, Decided
  <2>. QED BY <2>3 DEF Lifecycle!Next, Lifecycle!Forget
<1>4. ASSUME NEW n \in Approval, Expire(n) PROVE Lifecycle!Next \/ UNCHANGED Lifecycle!vars
  <2>1. CASE approval[n].status = "pending"
    <3>1. Lifecycle!Moves({n}, "expired") /\ UNCHANGED published
      BY <1>0, <1>4, <2>1, MovesPhase DEF Expire, Transition, Matches, ApprovalTypeOK, DecisionType
    <3>. QED BY <2>1, <3>1 DEF Lifecycle!Next, Lifecycle!Refuse
  <2>2. CASE approval[n].status # "pending"
    BY <1>4, <2>2, PhaseRests DEF Expire, Transition, Matches
  <2>. QED BY <2>1, <2>2
<1>5. CASE Recover
  <2>1. Lifecycle!Moves(Having("approved"), "failed") /\ UNCHANGED published
    BY <1>0, <1>5, MovesPhase DEF Recover, Having, ApprovalTypeOK, DecisionType
  <2>2. Lifecycle!Fail(Having("approved")) /\ Having("approved") \in SUBSET Approval
    BY <2>1 DEF Lifecycle!Fail, Having
  <2>. QED BY <2>2 DEF Lifecycle!Next, Lifecycle!Fail
<1>. QED BY <1>1, <1>2, <1>3, <1>4, <1>5

(* Whatever threads, clicks, expiry, pruning and restarts interleave, the  *)
(* service decides each approval once, runs it at most once and only if    *)
(* approved, and writes its outcome once and truly.                        *)
THEOREM ImplementsApprovals == Spec => KeepsLifecycle
<1>1. Init => Lifecycle!Init
  BY DEF Init, Lifecycle!Init, NoApproval
<1>2. ASSUME ApprovalInv, ApprovalInv', [Next]_vars
      PROVE  Lifecycle!Next \/ UNCHANGED Lifecycle!vars
  <2>1. CASE Toggle \/ Crash \/ Serve \/ UNCHANGED vars
             \/ UNCHANGED <<tableVars, call, decision, history>>
    <3>1. UNCHANGED <<approval, published>>
      BY <2>1 DEF Toggle, Crash, Serve, vars, tableVars, history
    <3>. QED BY <3>1, PhaseRests
  <2>. QED BY <1>2, <2>1, DecisionRefines, ServiceRefines DEF Next
<1>3. ASSUME ApprovalInv, ApprovalInv', [Next]_vars PROVE [Lifecycle!Next]_Lifecycle!vars
  BY <1>2, <1>3
<1>. QED BY <1>1, <1>3, ApprovalInvariant, PTL DEF Spec, KeepsLifecycle, Lifecycle!Spec

-----------------------------------------------------------------------------
(* Approved changes at a provider                                          *)

ChangeSpec == ChangeInit /\ [][ChangeNext]_changeVars

LookType == [look : Int, there : BOOLEAN]
ChangeType ==
  [pc : {"absent", "pending", "token", "identity", "verify", "write", "ended"},
   request : Requests \cup {NoChange.request}, shown : LookType,
   account : SUBSET Account, token : SUBSET Account]

ChangeTypeOK ==
  /\ object \in [Object -> LookType]
  /\ connected \in Account
  /\ change \in [Change -> ChangeType]
  /\ seen \in [Change -> SUBSET LookType]
  /\ done \in [Change -> SUBSET Account]

Asked(n) == change[n].request
Aimed(n) == Targeted(Asked(n))
TargetOf(n) == Asked(n).target
Deciding(n) == change[n].pc \in {"token", "identity", "verify", "write"}

(* What was shown of a target: the tools look up what their kind is; a     *)
(* post's look never changes; only an event or a message's label may be    *)
(* shown as gone, and what is gone stays as it was.                        *)
ShownOK ==
  /\ \A x \in Object : KindOf[x] = "post" => object[x].look = 0
  /\ \A n \in Change : change[n].pc # "absent" /\ Aimed(n) =>
       /\ TargetOf(n) \in Object
       /\ Asked(n).tool = "post_tweet" => KindOf[TargetOf(n)] = "post" /\ change[n].shown.look = 0
       /\ Asked(n).tool \in {"draft_action", "label_action", "event_change"} =>
            KindOf[TargetOf(n)] # "post"
       /\ change[n].shown.there \/ Asked(n).tool \in {"event_change", "message_action"}
       /\ ~change[n].shown.there => object[TargetOf(n)] = change[n].shown

(* Of a change being carried out: how its target looks was seen, and past  *)
(* each check what the check compared is known.                            *)
CheckedOK ==
  \A n \in Change :
    /\ Deciding(n) /\ Aimed(n) => object[TargetOf(n)] \in seen[n]
    /\ change[n].pc \in {"verify", "write"} => change[n].token = change[n].account
    /\ change[n].pc = "write" /\ Aimed(n) => change[n].shown \in seen[n]
    /\ done[n] # {} => change[n].pc = "ended"

ChangeInv == ChangeTypeOK /\ ShownOK /\ CheckedOK /\ ActsOnWhatWasShown

(* Rule 8: a target that still matches looks exactly as it was shown.      *)
LEMMA MatchIsSame ==
  ASSUME ChangeTypeOK, ShownOK, NEW n \in Change, change[n].pc # "absent", Aimed(n),
         StillMatches(Asked(n), change[n].shown)
  PROVE  object[TargetOf(n)] = change[n].shown
<1>. DEFINE o == object[TargetOf(n)]
            s == change[n].shown
            r == Asked(n)
<1>1. o \in LookType /\ s \in LookType
  BY DEF ChangeTypeOK, ChangeType, ShownOK
<1>2. (o.look = s.look /\ o.there = s.there) => o = s
  BY <1>1 DEF LookType
<1>3. CASE ~s.there
  BY <1>3 DEF ShownOK
<1>4. CASE s.there
  <2>1. CASE r.tool = "post_tweet"
    <3>1. o.look = 0 /\ s.look = 0
      BY <2>1 DEF ShownOK
    <3>2. o.there
      BY <2>1 DEF StillMatches, PostMatches, Targeted, Aimed, TargetOf
    <3>. QED BY <1>1, <1>2, <1>4, <3>1, <3>2 DEF LookType
  <2>2. CASE r.tool # "post_tweet"
    <3>1. o.there = s.there /\ o.look = s.look
      BY <1>1, <1>4, <2>2 DEF StillMatches, DraftMatches, LabelMatches, NamesMatch, EventMatches, Targeted,
             Aimed, TargetOf, LookType
    <3>. QED BY <1>2, <3>1
  <2>. QED BY <2>1, <2>2
<1>. QED BY <1>3, <1>4

LEMMA ChangeInvInit == ChangeInit => ChangeInv
<1>. SUFFICES ASSUME ChangeInit PROVE ChangeInv
  OBVIOUS
<1>1. ChangeTypeOK
  BY DEF ChangeInit, ChangeTypeOK, ChangeType, LookType, NoChange, Unseen
<1>. QED BY <1>1 DEF ChangeInit, ChangeInv, ShownOK, CheckedOK, ActsOnWhatWasShown, NoChange, Deciding

(* The tools look up only what their kind is, and they require it to be    *)
(* there where ShownOK says so.                                            *)
LEMMA AskedShape ==
  ASSUME ChangeTypeOK, NEW r \in Requests, NEW a \in Account, Targeted(r),
         GmailProposes(r, a) \/ CalendarProposes(r, a) \/ XProposes(r, a) \/ LinkedInProposes(r)
  PROVE  /\ r.target \in Object
         /\ r.tool = "post_tweet" => KindOf[r.target] = "post"
         /\ r.tool \in {"draft_action", "label_action", "event_change"} => KindOf[r.target] # "post"
         /\ object[r.target].there \/ r.tool \in {"event_change", "message_action"}
<1>1. r.target \in Object
  BY ChangeConstants DEF Targeted
<1>2. CASE GmailProposes(r, a)
  BY <1>1, <1>2 DEF GmailProposes, SendShape, DraftShape, LabelShape, MessageShape, Aims, Found, Targeted
<1>3. CASE CalendarProposes(r, a)
  BY <1>1, <1>3 DEF CalendarProposes, EventShape, Aims, Found, Targeted
<1>4. CASE XProposes(r, a)
  BY <1>1, <1>4 DEF XProposes, PostShape, Aims, Found, Targeted
<1>5. CASE LinkedInProposes(r)
  BY <1>5 DEF LinkedInProposes, LinkedInShape
<1>. QED BY <1>2, <1>3, <1>4, <1>5

LEMMA AskKeeps ==
  ASSUME ChangeInv, NEW n \in Change, NEW r \in Requests, AskChange(n, r)
  PROVE  ChangeInv'
<1>. USE DEF ChangeInv, ChangeTypeOK
<1>1. /\ change' = [change EXCEPT ![n] = Proposed(n, r)] /\ change[n].pc = "absent"
      /\ UNCHANGED <<object, connected, edits, seen, done>>
  BY DEF AskChange, Place
<1>2. Proposed(n, r) \in ChangeType
  <2>1. Look(r) \in LookType
    BY ChangeConstants DEF Look, Targeted, Unseen, LookType
  <2>. QED BY <2>1 DEF Proposed, ChangeType
<1>3. ChangeTypeOK'
  BY <1>1, <1>2
<1>4. \A m \in Change : m # n => change'[m] = change[m]
  BY <1>1
<1>5. change'[n] = Proposed(n, r)
  BY <1>1
<1>6. ShownOK'
  <2>1. ASSUME Targeted(r)
        PROVE  /\ r.target \in Object
               /\ r.tool = "post_tweet" => KindOf[r.target] = "post" /\ Look(r).look = 0
               /\ r.tool \in {"draft_action", "label_action", "event_change"} => KindOf[r.target] # "post"
               /\ Look(r).there \/ r.tool \in {"event_change", "message_action"}
               /\ object[r.target] = Look(r)
    BY <2>1, AskedShape DEF AskChange, ShownOK, Look
  <2>. QED BY <1>1, <1>4, <1>5, <2>1 DEF ShownOK, Aimed, Asked, TargetOf, Proposed
<1>7. done[n] = {}
  BY <1>1 DEF CheckedOK
<1>8. CheckedOK'
  BY <1>1, <1>4, <1>5, <1>7 DEF CheckedOK, Deciding, Aimed, Asked, TargetOf, Proposed
<1>9. ActsOnWhatWasShown'
  BY <1>1, <1>4, <1>7 DEF ActsOnWhatWasShown
<1>. QED BY <1>3, <1>6, <1>8, <1>9

(* A change moves on; nothing happens to the objects.                      *)
LEMMA MovesOnKeeps ==
  ASSUME ChangeInv, NEW n \in Change,
         DecideChange(n) \/ TakeToken(n) \/ CheckAccount(n) \/ CheckTarget(n)
  PROVE  ChangeInv'
<1>. USE DEF ChangeInv, ChangeTypeOK, Place, Goes
<1>1. /\ UNCHANGED <<object, connected, edits, done>> /\ change[n].pc \notin {"absent", "ended"}
      /\ change'[n].pc # "absent"
      /\ change'[n].request = change[n].request /\ change'[n].shown = change[n].shown
      /\ change'[n].account = change[n].account
      /\ \A m \in Change : m # n => change'[m] = change[m] /\ seen'[m] = seen[m]
  BY DEF DecideChange, TakeToken, CheckAccount, CheckTarget, ChangeType
<1>2. done[n] = {}
  BY <1>1 DEF CheckedOK
<1>3. ShownOK'
  BY <1>1 DEF ShownOK, Aimed, Asked, TargetOf
<1>4. /\ Aimed(n) /\ Deciding(n)' => object[TargetOf(n)] \in seen'[n]
      /\ change'[n].pc \in {"verify", "write"} => change'[n].token = change'[n].account
      /\ change'[n].pc = "write" /\ Aimed(n) => change[n].shown \in seen'[n]
      /\ ChangeTypeOK'
  <2>1. CASE DecideChange(n)
    <3>1. Aimed(n) => Look(change[n].request) = object[TargetOf(n)]
      BY DEF Look, Aimed, Asked, TargetOf
    <3>2. Look(change[n].request) \in LookType
      BY <1>1, <3>1 DEF ShownOK, Look, Aimed, Asked, TargetOf, Unseen, LookType
    <3>3. PICK pc \in {"token", "ended"} :
            /\ change' = [change EXCEPT ![n].pc = pc]
            /\ \/ seen' = [seen EXCEPT ![n] = {Look(change[n].request)}]
               \/ pc = "ended" /\ UNCHANGED seen
      BY <2>1 DEF DecideChange
    <3>4. [change[n] EXCEPT !.pc = pc] \in ChangeType
      BY DEF ChangeType
    <3>5. change' \in [Change -> ChangeType]
      BY <3>3, <3>4
    <3>6. seen' \in [Change -> SUBSET LookType]
      BY <3>2, <3>3
    <3>7. ChangeTypeOK'
      BY <1>1, <3>5, <3>6
    <3>8. change'[n].pc = pc
      BY <3>3
    <3>9. Aimed(n) /\ Deciding(n)' => object[TargetOf(n)] \in seen'[n]
      BY <3>1, <3>3, <3>8 DEF Deciding
    <3>. QED BY <3>7, <3>8, <3>9
  <2>2. CASE TakeToken(n)
    <3>1. /\ change' = [change EXCEPT ![n].pc = "identity", ![n].token = {connected}]
          /\ change[n].pc = "token" /\ UNCHANGED <<object, connected, seen, done>>
      BY <2>2 DEF TakeToken
    <3>0. [change[n] EXCEPT !.pc = "identity", !.token = {connected}] \in ChangeType
      BY DEF ChangeType
    <3>2. ChangeTypeOK'
      BY <3>0, <3>1
    <3>3. change'[n].pc = "identity"
      BY <3>1
    <3>4. object[TargetOf(n)] \in seen'[n] \/ ~Aimed(n)
      BY <3>1 DEF Deciding, CheckedOK
    <3>. QED BY <3>2, <3>3, <3>4
  <2>3. CASE CheckAccount(n)
    BY <2>3 DEF CheckAccount, SameAccount, ChangeType, Deciding, CheckedOK
  <2>4. CASE CheckTarget(n)
    <3>1. Aimed(n) /\ StillMatches(Asked(n), change[n].shown) => object[TargetOf(n)] = change[n].shown
      BY <1>1, MatchIsSame
    <3>. QED BY <2>4, <3>1 DEF CheckTarget, ChangeType, Deciding, CheckedOK, Asked
  <2>. QED BY <2>1, <2>2, <2>3, <2>4
<1>5. CheckedOK'
  BY <1>1, <1>2, <1>4 DEF CheckedOK, Deciding, Aimed, Asked, TargetOf
<1>6. ActsOnWhatWasShown'
  BY <1>1, <1>2 DEF ActsOnWhatWasShown
<1>. QED BY <1>3, <1>4, <1>5, <1>6

(* An object changes, or is gone, in one step with what the changes under  *)
(* decision see of it.                                                     *)
ObjectMoves(x, o) ==
  /\ x \in Object /\ object[x].there
  /\ o \in LookType /\ (KindOf[x] = "post" => o.look = 0)
  /\ object' = [object EXCEPT ![x] = o]
  /\ Witnessed(object')

LEMMA WitnessedSees ==
  ASSUME ChangeInv, object' \in [Object -> LookType], Witnessed(object')
  PROVE  /\ seen' \in [Change -> SUBSET LookType]
         /\ \A n \in Change : seen[n] \subseteq seen'[n]
         /\ \A n \in Change : Deciding(n) /\ Aimed(n) => object'[TargetOf(n)] \in seen'[n]
<1>1. \A n \in Change : seen'[n] = IF Deciding(n) /\ Aimed(n) THEN seen[n] \cup {object'[TargetOf(n)]}
                                                           ELSE seen[n]
  BY DEF Witnessed, Deciding, Aimed, TargetOf, Asked, Place
<1>2. \A n \in Change : Deciding(n) /\ Aimed(n) => TargetOf(n) \in Object
  BY DEF ChangeInv, ShownOK, Deciding
<1>3. seen' \in [Change -> SUBSET LookType]
  <2>1. \A n \in Change : seen'[n] \in SUBSET LookType
    BY <1>1, <1>2 DEF ChangeInv, ChangeTypeOK
  <2>2. seen' = [n \in Change |-> seen'[n]]
    BY DEF Witnessed
  <2>. QED BY <2>1, <2>2
<1>. QED BY <1>1, <1>3

LEMMA ObjectShown ==
  ASSUME ChangeInv, NEW x, NEW o, ObjectMoves(x, o),
         \A n \in Change : change'[n].request = change[n].request /\ change'[n].shown = change[n].shown
                           /\ (change'[n].pc # "absent" => change[n].pc # "absent")
  PROVE  ShownOK'
<1>1. \A y \in Object : KindOf[y] = "post" => object'[y].look = 0
  BY DEF ObjectMoves, ChangeInv, ChangeTypeOK, ShownOK
<1>2. ASSUME NEW n \in Change, change[n].pc # "absent", Aimed(n), ~change[n].shown.there
      PROVE  object'[TargetOf(n)] = change[n].shown
  <2>1. object[TargetOf(n)] = change[n].shown /\ TargetOf(n) # x
    BY <1>2 DEF ObjectMoves, ChangeInv, ShownOK
  <2>. QED BY <2>1 DEF ObjectMoves, ChangeInv, ChangeTypeOK
<1>. QED BY <1>1, <1>2 DEF ChangeInv, ShownOK, Aimed, Asked, TargetOf

LEMMA ElsewhereKeeps ==
  ASSUME ChangeInv, NEW x \in Object, EditElsewhere(x) \/ RemoveElsewhere(x)
  PROVE  ChangeInv'
<1>. USE DEF ChangeInv, ChangeTypeOK
<1>1. UNCHANGED <<connected, change, done>>
  BY DEF EditElsewhere, RemoveElsewhere
<1>2. PICK look \in LookType : ObjectMoves(x, look)
  <2>1. CASE EditElsewhere(x)
    <3>1. Relabelled(object[x]) \in LookType /\ Revised(object[x]) \in LookType
      BY DEF Relabelled, Revised, LookType
    <3>. QED BY <2>1, <3>1 DEF EditElsewhere, ObjectMoves
  <2>2. CASE RemoveElsewhere(x)
    <3>1. Gone(object[x]) \in LookType /\ Gone(object[x]).look = object[x].look
      BY DEF Gone, LookType
    <3>. QED BY <2>2, <3>1 DEF RemoveElsewhere, ObjectMoves, ShownOK
  <2>. QED BY <2>1, <2>2
<1>3. ShownOK'
  BY <1>1, <1>2, ObjectShown
<1>4. object' \in [Object -> LookType] /\ Witnessed(object')
  BY <1>2 DEF ObjectMoves
<1>5. /\ ChangeTypeOK'
      /\ \A n \in Change : seen[n] \subseteq seen'[n]
      /\ \A n \in Change : Deciding(n) /\ Aimed(n) => object'[TargetOf(n)] \in seen'[n]
  BY <1>1, <1>4, WitnessedSees
<1>6. CheckedOK'
  BY <1>1, <1>5 DEF CheckedOK, Deciding, Aimed, Asked, TargetOf
<1>7. ActsOnWhatWasShown'
  BY <1>1, <1>5 DEF ActsOnWhatWasShown
<1>. QED BY <1>3, <1>5, <1>6, <1>7

LEMMA LookTypes ==
  ASSUME NEW o \in LookType
  PROVE  Revised(o) \in LookType /\ Relabelled(o) \in LookType /\ Gone(o) \in LookType
<1>1. Revised(o) \in LookType
  BY DEF Revised, LookType
<1>2. Relabelled(o) \in LookType
  BY DEF Relabelled, LookType
<1>3. Gone(o) \in LookType
  BY DEF Gone, LookType
<1>. QED BY <1>1, <1>2, <1>3

LEMMA WriteKeeps ==
  ASSUME ChangeInv, NEW n \in Change, ChangeWrite(n)
  PROVE  ChangeInv'
<1>. USE DEF ChangeInv, ChangeTypeOK
<1>1. /\ change[n].pc = "write" /\ change' = [change EXCEPT ![n].pc = "ended"]
      /\ UNCHANGED connected
  BY DEF ChangeWrite, Place, Goes
<1>2. /\ change' \in [Change -> ChangeType] /\ change'[n].pc = "ended"
      /\ \A m \in Change : m # n => change'[m] = change[m]
      /\ \A m \in Change : change'[m].request = change[m].request /\ change'[m].shown = change[m].shown
                           /\ change'[m].account = change[m].account
                           /\ (change'[m].pc # "absent" => change[m].pc # "absent")
  BY <1>1 DEF ChangeType
<1>3. CASE UNCHANGED <<object, seen, done>>
  <2>1. ShownOK'
    BY <1>2, <1>3 DEF ShownOK, Aimed, Asked, TargetOf
  <2>2. CheckedOK'
    BY <1>2, <1>3 DEF CheckedOK, Deciding, Aimed, Asked, TargetOf
  <2>3. ActsOnWhatWasShown'
    BY <1>2, <1>3 DEF ActsOnWhatWasShown
  <2>. QED BY <1>1, <1>2, <1>3, <2>1, <2>2, <2>3
<1>4. CASE /\ Aimed(n) => object[TargetOf(n)].there
           /\ object' = IF Aimed(n) THEN [object EXCEPT ![TargetOf(n)] = Effect(Asked(n), @)] ELSE object
           /\ Witnessed(object')
           /\ done' = [done EXCEPT ![n] = change[n].token]
  <2>1. ShownOK' /\ object' \in [Object -> LookType]
    <3>1. CASE Aimed(n)
      <4>1. TargetOf(n) \in Object /\ object[TargetOf(n)] \in LookType
        BY <1>1, <3>1 DEF ShownOK
      <4>2. KindOf[TargetOf(n)] = "post" =>
              Asked(n).tool \notin {"draft_action", "label_action", "event_change"}
        BY <1>1, <3>1 DEF ShownOK
      <4>3. Effect(Asked(n), object[TargetOf(n)]) \in LookType
        <5>. DEFINE o == object[TargetOf(n)]
        <5>1. Revised(o) \in LookType /\ Relabelled(o) \in LookType /\ Gone(o) \in LookType
          BY <4>1, LookTypes
        <5>2. DraftWrite(Asked(n), o) \in LookType /\ LabelWrite(Asked(n), o) \in LookType
              /\ EventWrite(Asked(n), o) \in LookType
          BY <5>1 DEF DraftWrite, LabelWrite, EventWrite
        <5>. QED BY <4>1, <5>2 DEF Effect
      <4>4. KindOf[TargetOf(n)] = "post" => Effect(Asked(n), object[TargetOf(n)]).look = 0
        BY <4>1, <4>2 DEF Effect, ShownOK
      <4>5. ObjectMoves(TargetOf(n), Effect(Asked(n), object[TargetOf(n)]))
        BY <1>4, <3>1, <4>1, <4>3, <4>4 DEF ObjectMoves
      <4>. QED BY <1>2, <4>5, ObjectShown DEF ObjectMoves
    <3>2. CASE ~Aimed(n)
      BY <1>2, <1>4, <3>2 DEF ShownOK, Aimed, Asked, TargetOf
    <3>. QED BY <3>1, <3>2
  <2>2. /\ seen' \in [Change -> SUBSET LookType]
        /\ \A m \in Change : seen[m] \subseteq seen'[m]
        /\ \A m \in Change : Deciding(m) /\ Aimed(m) => object'[TargetOf(m)] \in seen'[m]
    BY <1>4, <2>1, WitnessedSees
  <2>3. /\ done' \in [Change -> SUBSET Account] /\ done'[n] = change[n].account
        /\ \A m \in Change : m # n => done'[m] = done[m]
    BY <1>1, <1>4 DEF CheckedOK, ChangeType
  <2>4. CheckedOK'
    BY <1>2, <2>2, <2>3 DEF CheckedOK, Deciding, Aimed, Asked, TargetOf
  <2>5. Aimed(n) => change[n].shown \in seen'[n]
    BY <1>1, <2>2 DEF CheckedOK
  <2>6. ActsOnWhatWasShown'
    BY <1>2, <2>2, <2>3, <2>5 DEF ActsOnWhatWasShown, Aimed, Asked
  <2>. QED BY <1>1, <1>2, <2>1, <2>2, <2>3, <2>4, <2>6
<1>5. \/ UNCHANGED <<object, seen, done>>
      \/ /\ Aimed(n) => object[TargetOf(n)].there
         /\ object' = IF Aimed(n) THEN [object EXCEPT ![TargetOf(n)] = Effect(Asked(n), @)] ELSE object
         /\ Witnessed(object')
         /\ done' = [done EXCEPT ![n] = change[n].token]
  BY DEF ChangeWrite, Aimed, Asked, TargetOf
<1>. QED BY <1>3, <1>4, <1>5

LEMMA ChangeStep == ChangeInv /\ [ChangeNext]_changeVars => ChangeInv'
<1>. SUFFICES ASSUME ChangeInv, [ChangeNext]_changeVars PROVE ChangeInv'
  OBVIOUS
<1>1. ASSUME NEW a \in Account, ConnectOther(a) PROVE ChangeInv'
  BY <1>1 DEF ConnectOther, ChangeInv, ChangeTypeOK, ShownOK, CheckedOK, ActsOnWhatWasShown, Deciding,
         Aimed, Asked, TargetOf
<1>2. CASE UNCHANGED changeVars
  BY <1>2 DEF changeVars, ChangeInv, ChangeTypeOK, ShownOK, CheckedOK, ActsOnWhatWasShown, Deciding,
         Aimed, Asked, TargetOf
<1>. QED BY <1>1, <1>2, AskKeeps, MovesOnKeeps, WriteKeeps, ElsewhereKeeps DEF ChangeNext

(* Whatever was carried out was carried out in the account the operator    *)
(* was shown and on a target that looked as shown since the decision.      *)
THEOREM ActsOnTheShown == ChangeSpec => []ActsOnWhatWasShown
<1>1. ChangeInv => ActsOnWhatWasShown
  BY DEF ChangeInv
<1>. QED BY <1>1, ChangeInvInit, ChangeStep, PTL DEF ChangeSpec

-----------------------------------------------------------------------------
(* ToolConnections.                                                        *)

CallRecord == [
    at : {"idle", "load", "refresh", "compare", "save", "compare_clear", "clear",
          "identify", "lookup", "touch", "decide", "act"},
    kind : {"read", "propose", "approved"},
    loaded : Credentials \cup {None},
    got : Credentials \cup {None},
    token : Grants \cup {None},
    who : Accounts \cup {None},
    approved : Accounts \cup {None}]

\* X and Google connections have a refresh token.
Sound(credential) == credential # None /\ tool \in {"x", "google"} => credential.refresh # None

\* What a call knows at each place: whom the provider named is the owner of the
\* token in its hand, and who acts was named and reviewed.
Fits(r) ==
    /\ r \in CallRecord
    /\ Sound(r.loaded) /\ Sound(r.got)
    /\ r.at \in {"refresh", "compare", "compare_clear", "lookup", "touch"} => r.loaded # None
    /\ r.at \in {"compare", "save"} => r.got # None
    /\ r.at \in {"identify", "lookup", "touch", "decide", "act"} => r.token # None
    /\ r.at \in {"touch", "decide", "act"} => r.who # None /\ owner[r.token] = r.who
    /\ r.at = "act" => r.approved = r.who

CallsFit == toolCall \in [Calls -> CallRecord] /\ \A c \in Calls : Fits(toolCall[c])

OperatorFits ==
    /\ Sound(operator.existing)
    /\ operator.at \in {"exchanged", "store"} => operator.grant # None /\ owner[operator.grant] # None
    /\ operator.at = "exchanged" /\ tool = "x" => operator.refresh # None
    /\ operator.at = "store" /\ tool \in {"x", "google"} => operator.refresh # None
    /\ operator.at = "revoke" => operator.existing # None /\ tool \in {"x", "google"}

ConnectionsInv == ConnectionsTypeOK /\ CallsFit /\ Sound(row) /\ OperatorFits

LEMMA NoneApart == None \notin Credentials
<1>. SUFFICES ASSUME NEW k \in Credentials PROVE k # None
  OBVIOUS
<1>. QED BY DEF Credentials, None

\* A step of one call that changes no owner leaves every call fitting, if that
\* call does.
LEMMA CallMoves ==
  ASSUME CallsFit, NEW c \in Calls, tool' = tool, owner' = owner, NEW r, Fits(r),
         toolCall' = [toolCall EXCEPT ![c] = r]
  PROVE  CallsFit'
<1>1. toolCall' \in [Calls -> CallRecord]
  BY DEF CallsFit, Fits
<1>2. ASSUME NEW d \in Calls PROVE Fits(toolCall[d])'
  <2>1. toolCall'[d] = (IF d = c THEN r ELSE toolCall[d])
    BY DEF CallsFit
  <2>2. Fits(toolCall'[d])
    BY <2>1 DEF CallsFit
  <2>. QED BY <2>2 DEF Fits, Sound
<1>3. CallRecord' = CallRecord
  BY DEF CallRecord
<1>. QED BY <1>1, <1>2, <1>3 DEF CallsFit

\* What a call becomes when it ends, uses a token it has, or goes on to a place
\* that asks nothing more of it.
LEMMA IdleFits == Fits(Idle)
BY DEF Fits, Idle, CallRecord, Sound

LEMMA UsesFit ==
  ASSUME CallsFit, NEW c \in Calls, NEW credential \in Credentials, tool' = tool, owner' = owner,
         Uses(c, credential)
  PROVE  CallsFit'
<1>. DEFINE r == [toolCall[c] EXCEPT !.token = credential.grant, !.got = None, !.loaded = None,
                                     !.at = "identify"]
<1>1. CASE toolCall[c].kind = "read"
  BY <1>1, IdleFits, CallMoves DEF Uses, Ends
<1>2. CASE toolCall[c].kind # "read"
  <2>1. toolCall[c] \in CallRecord
    BY DEF CallsFit
  <2>2. Fits(r)
    BY <2>1, NoneAssumption DEF Fits, CallRecord, Sound, Credentials
  <2>3. toolCall' = [toolCall EXCEPT ![c] = r]
    BY <1>2 DEF Uses
  <2>. HIDE DEF r
  <2>. QED BY <2>2, <2>3, CallMoves
<1>. QED BY <1>1, <1>2

\* Places that ask of a call no more than what it knows already.
Further(c, place) ==
    \/ place = "clear"
    \/ place = "compare_clear" /\ toolCall[c].loaded # None
    \/ place = "save" /\ toolCall[c].got # None
    \/ place = "act" /\ toolCall[c].at = "decide" /\ toolCall[c].approved = toolCall[c].who

LEMMA GoesFits ==
  ASSUME CallsFit, NEW c \in Calls, NEW place, Further(c, place), tool' = tool, owner' = owner,
         CallGoes(c, place)
  PROVE  CallsFit'
<1>1. Fits(toolCall[c])
  BY DEF CallsFit
<1>. DEFINE r == [toolCall[c] EXCEPT !.at = place]
<1>2. Fits(r)
  BY <1>1 DEF Fits, CallRecord, Further, Sound
<1>3. toolCall' = [toolCall EXCEPT ![c] = r]
  BY DEF CallGoes
<1>. HIDE DEF r
<1>. QED BY <1>2, <1>3, CallMoves

\* A refreshed credential is one: its count stays within the bound.
LEMMA RefreshedType ==
  ASSUME ConnectionsTypeOK, NEW k \in Credentials, issued[k.grant] < MaxRefreshes
  PROVE  Refreshed(k) \in Credentials /\ Refreshed(k).refresh = k.refresh
         /\ issued[k.grant] + 1 \in Versions
<1>1. k.grant \in Grants /\ issued[k.grant] \in Versions
  BY DEF ConnectionsTypeOK, Credentials
<1>2. issued[k.grant] + 1 \in Versions
  BY <1>1, RefreshesAssumption DEF Versions
<1>. QED BY <1>2 DEF Refreshed, Credentials

LEMMA StepFits ==
  ASSUME ConnectionsInv, NEW c \in Calls, Step(c)
  PROVE  CallsFit' /\ Sound(row)' /\ row' \in Credentials \cup {None}
<1>0. /\ CallsFit /\ Sound(row) /\ Fits(toolCall[c]) /\ row \in Credentials \cup {None}
      /\ tool' = tool /\ owner' = owner
      /\ toolCall[c] \in CallRecord /\ toolCall[c].loaded \in Credentials \cup {None}
      /\ toolCall[c].got \in Credentials \cup {None}
      /\ ConnectionsTypeOK
  BY DEF ConnectionsInv, ConnectionsTypeOK, CallsFit, CallRecord, Step, Start, Load, RefreshAnswered,
         RefreshLost, RefreshRefused, Compare, Save, CompareClear, Clear, Identify, Lookup, LookupFails,
         Touch, ProposeCall, ExecuteApproved, Act, provider
<1>r. ASSUME row' = row \/ row' = None \/ row' = toolCall[c].got \/ row' = toolCall[c].loaded
      PROVE  Sound(row)' /\ row' \in Credentials \cup {None}
  BY <1>0, <1>r DEF Sound, Fits
<1>e. ASSUME Ends(c) PROVE CallsFit'
  BY <1>0, <1>e, IdleFits, CallMoves DEF Ends
<1>1. CASE \E kind \in {"read", "propose", "approved"} : Start(c, kind)
  <2>. PICK kind \in {"read", "propose", "approved"} : Start(c, kind)
    BY <1>1
  <2>. DEFINE r == [toolCall[c] EXCEPT !.at = "load", !.kind = kind,
                                       !.approved = IF kind = "approved" THEN reviewed ELSE None]
  <2>0. reviewed \in Accounts \cup {None} /\ None \in Accounts \cup {None}
    BY <1>0 DEF ConnectionsTypeOK
  <2>. DEFINE approved == IF kind = "approved" THEN reviewed ELSE None
  <2>2. toolCall' = [toolCall EXCEPT ![c] = r] /\ row' = row
    BY DEF Start
  <2>3. approved \in Accounts \cup {None}
    BY <2>0
  <2>4. r = [toolCall[c] EXCEPT !.at = "load", !.kind = kind, !.approved = approved]
    OBVIOUS
  <2>. HIDE DEF r, approved
  <2>1. Fits(r)
    BY <1>0, <2>3, <2>4 DEF Fits, CallRecord, Sound
  <2>. QED BY <1>0, <1>r, <2>1, <2>2, CallMoves
<1>2. CASE Load(c)
  <2>0. row' = row
    BY <1>2 DEF Load
  <2>1. CASE row = None
    BY <1>2, <1>e, <1>r, <2>0, <2>1 DEF Load
  <2>2. CASE row # None /\ Plan(row) = "use"
    BY <1>0, <1>2, <1>r, <2>0, <2>2, UsesFit DEF Load
  <2>3. CASE row # None /\ Plan(row) # "use"
    <3>. DEFINE r == [toolCall[c] EXCEPT !.loaded = row, !.at = Plan(row)]
    <3>1. Plan(row) \in {"refresh", "clear", "compare_clear"}
      <4>1. XPlan(row) \in {"use", "refresh"}
        BY DEF XPlan
      <4>2. GooglePlan(row) \in {"use", "refresh", "clear"}
        BY DEF GooglePlan
      <4>3. InstagramPlan(row) \in {"use", "refresh", "compare_clear"}
        BY DEF InstagramPlan
      <4>4. LinkedInPlan(row) \in {"use", "compare_clear"}
        BY DEF LinkedInPlan
      <4>. QED BY <2>3, <4>1, <4>2, <4>3, <4>4 DEF Plan
    <3>2. Fits(r)
      BY <1>0, <2>3, <3>1 DEF Fits, CallRecord, Sound
    <3>3. toolCall' = [toolCall EXCEPT ![c] = r]
      BY <1>2, <2>3 DEF Load
    <3>. HIDE DEF r
    <3>. QED BY <1>0, <1>r, <2>0, <3>2, <3>3, CallMoves
  <2>. QED BY <2>1, <2>2, <2>3
<1>3. CASE RefreshAnswered(c)
  <2>1. toolCall[c].loaded \in Credentials /\ issued[toolCall[c].loaded.grant] < MaxRefreshes
    BY <1>0, <1>3 DEF RefreshAnswered, Fits
  <2>. DEFINE k == Refreshed(toolCall[c].loaded)
              r == [toolCall[c] EXCEPT !.got = k, !.at = IF tool = "google" THEN "save" ELSE "compare"]
  <2>2. k \in Credentials /\ k.refresh = toolCall[c].loaded.refresh /\ k # None
    BY <1>0, <2>1, RefreshedType, NoneApart
  <2>3. toolCall' = [toolCall EXCEPT ![c] = r] /\ row' = row
    BY <1>3 DEF RefreshAnswered
  <2>. HIDE DEF k
  <2>4. Fits(r)
    BY <1>0, <2>1, <2>2, <1>3 DEF Fits, CallRecord, Sound, RefreshAnswered
  <2>. HIDE DEF r
  <2>. QED BY <1>0, <1>r, <2>3, <2>4, CallMoves
<1>4. CASE RefreshLost(c)
  <2>1. toolCall[c].loaded \in Credentials
    BY <1>0, <1>4 DEF RefreshLost, Fits
  <2>. QED BY <1>0, <1>4, <1>e, <1>r, <2>1, UsesFit DEF RefreshLost
<1>5. CASE RefreshRefused(c)
  <2>1. toolCall[c].loaded \in Credentials /\ toolCall[c].loaded # None /\ row' = row
    BY <1>0, <1>5 DEF RefreshRefused, Fits
  <2>2. CASE tool = "x"
    BY <1>0, <1>5, <1>r, <2>1, <2>2, GoesFits DEF RefreshRefused, Further
  <2>3. CASE tool = "google"
    BY <1>0, <1>5, <1>r, <2>1, <2>3, GoesFits DEF RefreshRefused, Further
  <2>4. CASE tool \notin {"x", "google"}
    <3>1. Uses(c, toolCall[c].loaded)
      BY <1>5, <2>4 DEF RefreshRefused
    <3>. QED BY <1>0, <1>r, <2>1, <3>1, UsesFit
  <2>. QED BY <2>2, <2>3, <2>4
<1>6. CASE Compare(c)
  <2>1. toolCall[c].got # None
    BY <1>0, <1>6 DEF Compare, Fits
  <2>. QED BY <1>0, <1>6, <1>e, <1>r, <2>1, GoesFits DEF Compare, Further
<1>7. CASE Save(c)
  <2>1. toolCall[c].got \in Credentials
    BY <1>0, <1>7 DEF Save, Fits
  <2>. QED BY <1>0, <1>7, <1>r, <2>1, UsesFit DEF Save
<1>8. CASE CompareClear(c)
  BY <1>0, <1>8, <1>e, <1>r, GoesFits DEF CompareClear, Further
<1>9. CASE Clear(c) \/ LookupFails(c) \/ ProposeCall(c) \/ Act(c)
  BY <1>9, <1>e, <1>r DEF Clear, LookupFails, ProposeCall, Act
<1>10. CASE Identify(c)
  <2>1. CASE row = None
    BY <1>10, <1>e, <1>r, <2>1 DEF Identify
  <2>2. CASE row # None
    <3>. DEFINE r == [toolCall[c] EXCEPT !.loaded = row, !.at = "lookup"]
    <3>1. Fits(r)
      BY <1>0, <1>10, <2>2 DEF Identify, Fits, CallRecord, Sound
    <3>2. toolCall' = [toolCall EXCEPT ![c] = r] /\ row' = row
      BY <1>10, <2>2 DEF Identify
    <3>. HIDE DEF r
    <3>. QED BY <1>0, <1>r, <3>1, <3>2, CallMoves
  <2>. QED BY <2>1, <2>2
<1>11. CASE Lookup(c)
  <2>. DEFINE who == owner[toolCall[c].token]
  <2>0. toolCall[c].loaded \in Credentials /\ toolCall[c].loaded # None /\ row' = row
    BY <1>0, <1>11 DEF Lookup, Fits
  <2>1. CASE who = toolCall[c].loaded.account
    <3>. DEFINE r == [toolCall[c] EXCEPT !.who = who,
                          !.loaded = IF tool = "google" THEN toolCall[c].loaded ELSE None,
                          !.at = IF tool = "google" THEN "touch" ELSE "decide"]
    <3>1. who \in Accounts /\ who # None
      BY <2>0, <2>1, NoneAssumption DEF Credentials
    <3>2. toolCall' = [toolCall EXCEPT ![c] = r]
      BY <1>11, <2>1 DEF Lookup
    <3>3. Fits(r)
      BY <1>0, <1>11, <2>0, <3>1 DEF Lookup, Fits, CallRecord, Sound
    <3>. HIDE DEF r, who
    <3>. QED BY <1>0, <1>r, <2>0, <3>2, <3>3, CallMoves
  <2>2. CASE who # toolCall[c].loaded.account
    <3>1. \/ CallGoes(c, "compare_clear") \/ CallGoes(c, "clear") \/ Ends(c)
      BY <1>11, <2>2 DEF Lookup
    <3>. QED BY <1>0, <1>e, <1>r, <2>0, <3>1, GoesFits DEF Further
  <2>. QED BY <2>1, <2>2
<1>12. CASE Touch(c)
  <2>. DEFINE r == [toolCall[c] EXCEPT !.loaded = None, !.at = "decide"]
  <2>1. Fits(r)
    BY <1>0, <1>12 DEF Touch, Fits, CallRecord, Sound
  <2>2. toolCall' = [toolCall EXCEPT ![c] = r] /\ row' = toolCall[c].loaded
    BY <1>12 DEF Touch
  <2>. HIDE DEF r
  <2>. QED BY <1>0, <1>r, <2>1, <2>2, CallMoves
<1>13. CASE ExecuteApproved(c)
  BY <1>0, <1>13, <1>e, <1>r, GoesFits DEF ExecuteApproved, Further
<1>. QED BY <1>1, <1>2, <1>3, <1>4, <1>5, <1>6, <1>7, <1>8, <1>9, <1>10, <1>11, <1>12, <1>13 DEF Step

\* An owner, once known, stays; everything else of the calls is as it was.
LEMMA OthersFit ==
  ASSUME CallsFit, toolCall' = toolCall, tool' = tool,
         \A g \in Grants : owner[g] # None => owner'[g] = owner[g]
  PROVE  CallsFit'
<1>1. ASSUME NEW c \in Calls PROVE Fits(toolCall[c])'
  <2>1. Fits(toolCall[c]) /\ toolCall[c] \in CallRecord
    BY DEF CallsFit
  <2>2. toolCall[c].token # None => toolCall[c].token \in Grants
    BY <2>1 DEF CallRecord
  <2>. QED BY <2>1, <2>2 DEF Fits, Sound, CallRecord
<1>. QED BY <1>1 DEF CallsFit, CallRecord

\* The operator's own steps, and time.
OperatorStep ==
    \/ \E g \in Grants, account \in Accounts : Exchange(g, account)
    \/ ConnectLoad \/ ConnectSave \/ DisconnectLoad \/ Revoke \/ DisconnectClear

OperatorRecord == [
    at : {"rest", "exchanged", "store", "revoke", "remove"},
    grant : Grants \cup {None},
    existing : Credentials \cup {None},
    refresh : Grants \cup {None}]

LEMMA OperatorMoves ==
  ASSUME ConnectionsInv, OperatorStep
  PROVE  /\ operator' \in OperatorRecord /\ row' \in Credentials \cup {None}
         /\ owner' \in [Grants -> Accounts \cup {None}]
         /\ \A g \in Grants : owner[g] # None => owner'[g] = owner[g]
         /\ revoked' \subseteq Grants
         /\ OperatorFits' /\ Sound(row)'
         /\ tool' = tool /\ toolCall' = toolCall /\ issued' = issued /\ age' = age /\ reviewed' = reviewed
<1>0. /\ operator \in OperatorRecord /\ row \in Credentials \cup {None}
      /\ owner \in [Grants -> Accounts \cup {None}] /\ revoked \subseteq Grants
      /\ OperatorFits /\ Sound(row)
  BY DEF ConnectionsInv, ConnectionsTypeOK, OperatorRecord
<1>1. ASSUME NEW g \in Grants, NEW account \in Accounts, Exchange(g, account)
      PROVE  /\ operator' \in OperatorRecord /\ OperatorFits'
             /\ owner' \in [Grants -> Accounts \cup {None}]
             /\ \A h \in Grants : owner[h] # None => owner'[h] = owner[h]
  <2>1. PICK refresh \in Grants \cup {None} :
          /\ operator' = [operator EXCEPT !.at = "exchanged", !.grant = g, !.refresh = refresh]
          /\ tool = "x" => refresh = g
    BY <1>1 DEF Exchange
  <2>2. owner' = [owner EXCEPT ![g] = account] /\ owner[g] = None /\ tool' = tool
    BY <1>1 DEF Exchange
  <2>3. operator' \in OperatorRecord
    BY <1>0, <2>1 DEF OperatorRecord
  <2>4. OperatorFits'
    BY <1>0, <2>1, <2>2, NoneAssumption DEF OperatorFits, OperatorRecord, Sound
  <2>. QED BY <1>0, <2>2, <2>3, <2>4
<1>2. ASSUME ConnectLoad PROVE operator' \in OperatorRecord /\ OperatorFits'
  <2>. DEFINE refresh == IF operator.refresh = None /\ tool = "google"
                         THEN Fallback(owner[operator.grant]) ELSE operator.refresh
  <2>1. refresh \in Grants \cup {None}
    BY <1>0 DEF OperatorRecord, Fallback, Credentials
  <2>2. /\ operator' = IF tool = "google" /\ refresh = None THEN Rest
                       ELSE [operator EXCEPT !.at = "store", !.refresh = refresh]
        /\ owner' = owner /\ tool' = tool /\ operator.at = "exchanged"
    BY <1>2 DEF ConnectLoad, provider
  <2>3. tool = "x" => refresh # None
    BY <1>0, <2>2 DEF OperatorFits
  <2>. HIDE DEF refresh
  <2>4. CASE tool = "google" /\ refresh = None
    BY <2>2, <2>4 DEF Rest, OperatorRecord, OperatorFits, Sound
  <2>5. CASE ~(tool = "google" /\ refresh = None)
    <3>1. operator' = [operator EXCEPT !.at = "store", !.refresh = refresh]
      BY <2>2, <2>5
    <3>. QED BY <1>0, <2>1, <2>2, <2>3, <2>5, <3>1 DEF OperatorRecord, OperatorFits, Sound
  <2>. QED BY <2>4, <2>5
<1>3. ASSUME ConnectSave
      PROVE  operator' \in OperatorRecord /\ OperatorFits' /\ row' \in Credentials /\ Sound(row)'
  <2>1. operator' = Rest /\ tool' = tool
    BY <1>3 DEF ConnectSave
  <2>2. operator' \in OperatorRecord /\ OperatorFits'
    BY <2>1 DEF Rest, OperatorRecord, OperatorFits, Sound
  <2>3. 0 \in Versions
    BY RefreshesAssumption DEF Versions
  <2>4. operator.grant \in Grants /\ owner[operator.grant] \in Accounts
    BY <1>0, <1>3 DEF ConnectSave, OperatorFits, OperatorRecord
  <2>5. operator.refresh \in Grants \cup {None} /\ (tool \in {"x", "google"} => operator.refresh # None)
    BY <1>0, <1>3 DEF ConnectSave, OperatorFits, OperatorRecord
  <2>6. row' = [account |-> owner[operator.grant], grant |-> operator.grant, n |-> 0,
                refresh |-> operator.refresh]
    BY <1>3 DEF ConnectSave
  <2>. QED BY <2>1, <2>2, <2>3, <2>4, <2>5, <2>6 DEF Credentials, Sound
<1>4. ASSUME DisconnectLoad PROVE operator' \in OperatorRecord /\ OperatorFits'
  BY <1>0, <1>4 DEF DisconnectLoad, OperatorRecord, OperatorFits, Sound, provider
<1>5. ASSUME Revoke PROVE operator' \in OperatorRecord /\ OperatorFits' /\ revoked' \subseteq Grants
  <2>1. operator.existing \in Credentials /\ operator.existing.refresh # None
    BY <1>0, <1>5 DEF Revoke, OperatorRecord, OperatorFits, Sound
  <2>2. operator.existing.refresh \in Grants
    BY <2>1 DEF Credentials
  <2>3. operator' = [operator EXCEPT !.at = "remove", !.existing = None] /\ tool' = tool
    BY <1>5 DEF Revoke
  <2>4. operator' \in OperatorRecord /\ OperatorFits'
    BY <1>0, <2>3 DEF OperatorRecord, OperatorFits, Sound
  <2>. QED BY <1>0, <1>5, <2>2, <2>4 DEF Revoke
<1>6. ASSUME DisconnectClear
      PROVE  operator' \in OperatorRecord /\ OperatorFits' /\ row' = None /\ Sound(row)'
  BY <1>6 DEF DisconnectClear, Rest, OperatorRecord, OperatorFits, Sound
<1>7. /\ tool' = tool /\ toolCall' = toolCall /\ issued' = issued /\ age' = age /\ reviewed' = reviewed
  BY DEF OperatorStep, Exchange, ConnectLoad, ConnectSave, DisconnectLoad, Revoke, DisconnectClear, provider
<1>8. /\ ConnectSave \/ DisconnectClear \/ row' = row
      /\ Revoke \/ revoked' = revoked
      /\ (\E g \in Grants, account \in Accounts : Exchange(g, account)) \/ owner' = owner
  BY DEF OperatorStep, Exchange, ConnectLoad, ConnectSave, DisconnectLoad, Revoke, DisconnectClear, provider
<1>9. Sound(row)' /\ row' \in Credentials \cup {None}
  BY <1>0, <1>3, <1>6, <1>7, <1>8 DEF Sound
<1>10. operator' \in OperatorRecord /\ OperatorFits'
  BY <1>1, <1>2, <1>3, <1>4, <1>5, <1>6 DEF OperatorStep
<1>11. /\ owner' \in [Grants -> Accounts \cup {None}]
       /\ \A g \in Grants : owner[g] # None => owner'[g] = owner[g]
  BY <1>0, <1>1, <1>8
<1>12. revoked' \subseteq Grants
  BY <1>0, <1>5, <1>8
<1>. QED BY <1>7, <1>9, <1>10, <1>11, <1>12

\* What a step of a call does to what the calls share.
LEMMA SharedTypes ==
  ASSUME ConnectionsInv, NEW c \in Calls, Step(c)
  PROVE  /\ tool' = tool /\ owner' = owner /\ revoked' = revoked /\ age' = age /\ operator' = operator
         /\ issued' \in [Grants -> Versions] /\ reviewed' \in Accounts \cup {None}
<1>0. /\ issued \in [Grants -> Versions] /\ reviewed \in Accounts \cup {None}
      /\ toolCall[c] \in CallRecord /\ Fits(toolCall[c]) /\ ConnectionsTypeOK
  BY DEF ConnectionsInv, ConnectionsTypeOK, CallsFit
<1>1. /\ tool' = tool /\ owner' = owner /\ revoked' = revoked /\ age' = age /\ operator' = operator
  BY DEF Step, Start, Load, RefreshAnswered, RefreshLost, RefreshRefused, Compare, Save, CompareClear,
         Clear, Identify, Lookup, LookupFails, Touch, ProposeCall, ExecuteApproved, Act, provider
<1>2. \/ issued' = issued
      \/ /\ toolCall[c].at = "refresh" /\ issued[toolCall[c].loaded.grant] < MaxRefreshes
         /\ issued' = [issued EXCEPT ![toolCall[c].loaded.grant] = @ + 1]
  BY DEF Step, Start, Load, RefreshAnswered, RefreshLost, RefreshRefused, Compare, Save, CompareClear,
         Clear, Identify, Lookup, LookupFails, Touch, ProposeCall, ExecuteApproved, Act, provider
<1>3. reviewed' = reviewed \/ reviewed' = toolCall[c].who
  BY DEF Step, Start, Load, RefreshAnswered, RefreshLost, RefreshRefused, Compare, Save, CompareClear,
         Clear, Identify, Lookup, LookupFails, Touch, ProposeCall, ExecuteApproved, Act, provider
<1>4. issued' \in [Grants -> Versions]
  <2>1. toolCall[c].at = "refresh" => toolCall[c].loaded \in Credentials
    BY <1>0 DEF Fits, CallRecord
  <2>. QED BY <1>0, <1>2, <2>1, RefreshedType
<1>. QED BY <1>0, <1>1, <1>3, <1>4 DEF CallRecord

LEMMA ConnectionsInvariant == ConnectionsSpec => []ConnectionsInv
<1>. USE DEF OperatorRecord
<1>1. ConnectionsInit => ConnectionsInv
  <2>. SUFFICES ASSUME ConnectionsInit PROVE ConnectionsInv
    OBVIOUS
  <2>1. Idle \in CallRecord /\ Rest \in OperatorRecord /\ 0 \in Versions
    BY RefreshesAssumption DEF Idle, Rest, CallRecord, OperatorRecord, Versions
  <2>2. ConnectionsTypeOK
    BY <2>1 DEF ConnectionsInit, ConnectionsTypeOK, CallRecord, Ages
  <2>3. CallsFit
    BY <2>1, IdleFits DEF ConnectionsInit, CallsFit
  <2>. QED BY <2>2, <2>3 DEF ConnectionsInit, ConnectionsInv, OperatorFits, Sound, Rest
<1>2. ConnectionsInv /\ [ConnectionsNext]_connectionVars => ConnectionsInv'
  <2>. SUFFICES ASSUME ConnectionsInv, [ConnectionsNext]_connectionVars PROVE ConnectionsInv'
    OBVIOUS
  <2>0. /\ ConnectionsTypeOK /\ CallsFit /\ Sound(row) /\ OperatorFits
        /\ operator \in OperatorRecord /\ toolCall \in [Calls -> CallRecord]
    BY DEF ConnectionsInv, ConnectionsTypeOK, CallsFit
  <2>1. ASSUME NEW c \in Calls, Step(c) PROVE ConnectionsInv'
    <3>1. CallsFit' /\ Sound(row)' /\ row' \in Credentials \cup {None}
      BY <2>1, StepFits
    <3>2. /\ tool' = tool /\ owner' = owner /\ revoked' = revoked /\ age' = age /\ operator' = operator
          /\ issued' \in [Grants -> Versions] /\ reviewed' \in Accounts \cup {None}
      BY <2>1, SharedTypes
    <3>3. toolCall' \in [Calls -> CallRecord]
      BY <3>1 DEF CallsFit, CallRecord
    <3>4. ConnectionsTypeOK'
      BY <2>0, <3>1, <3>2, <3>3 DEF ConnectionsTypeOK, CallRecord
    <3>5. OperatorFits'
      BY <2>0, <3>2 DEF OperatorFits, Sound
    <3>. QED BY <3>1, <3>4, <3>5 DEF ConnectionsInv
  <2>2. ASSUME OperatorStep PROVE ConnectionsInv'
    <3>1. /\ operator' \in OperatorRecord /\ row' \in Credentials \cup {None}
          /\ owner' \in [Grants -> Accounts \cup {None}]
          /\ \A g \in Grants : owner[g] # None => owner'[g] = owner[g]
          /\ revoked' \subseteq Grants
          /\ OperatorFits' /\ Sound(row)'
          /\ tool' = tool /\ toolCall' = toolCall /\ issued' = issued /\ age' = age /\ reviewed' = reviewed
      BY <2>2, OperatorMoves
    <3>2. CallsFit'
      BY <2>0, <3>1, OthersFit
    <3>3. ConnectionsTypeOK'
      BY <2>0, <3>1 DEF ConnectionsTypeOK, OperatorRecord
    <3>. QED BY <3>1, <3>2, <3>3 DEF ConnectionsInv
  <2>3. CASE TimePasses
    <3>1. /\ tool' = tool /\ row' = row /\ owner' = owner /\ revoked' = revoked /\ issued' = issued
          /\ toolCall' = toolCall /\ operator' = operator /\ reviewed' = reviewed
      BY <2>3 DEF TimePasses, provider
    <3>2. age' \in [Grants \X Versions -> Ages]
      BY <2>0, <2>3 DEF TimePasses, ConnectionsTypeOK, Ages
    <3>3. ConnectionsTypeOK'
      BY <2>0, <3>1, <3>2 DEF ConnectionsTypeOK
    <3>4. CallsFit'
      BY <2>0, <3>1, OthersFit
    <3>. QED BY <2>0, <3>1, <3>3, <3>4 DEF ConnectionsInv, OperatorFits, Sound
  <2>4. CASE UNCHANGED connectionVars
    <3>1. /\ tool' = tool /\ row' = row /\ owner' = owner /\ revoked' = revoked /\ issued' = issued
          /\ toolCall' = toolCall /\ operator' = operator /\ reviewed' = reviewed /\ age' = age
      BY <2>4 DEF connectionVars
    <3>3. ConnectionsTypeOK'
      BY <2>0, <3>1 DEF ConnectionsTypeOK
    <3>4. CallsFit'
      BY <2>0, <3>1, OthersFit
    <3>. QED BY <2>0, <3>1, <3>3, <3>4 DEF ConnectionsInv, OperatorFits, Sound
  <2>. QED BY <2>1, <2>2, <2>3, <2>4 DEF ConnectionsNext, OperatorStep
<1>. QED BY <1>1, <1>2, PTL DEF ConnectionsSpec

(* Every reachable state of a tool's connection, its calls and the         *)
(* operator's flow is well typed.                                          *)
THEOREM ConnectionsTypeCorrect == ConnectionsSpec => []ConnectionsTypeOK
<1>1. ConnectionsInv => ConnectionsTypeOK
  BY DEF ConnectionsInv
<1>. QED BY <1>1, ConnectionsInvariant, PTL

(* An approved action is carried out with a token of the account that the  *)
(* operator reviewed, for any calls, accounts and grants, whoever connects *)
(* and disconnects between the call's reads.                               *)
THEOREM ActsAsTheReviewed == ConnectionsSpec => []ActsAsReviewed
<1>1. ConnectionsInv => ActsAsReviewed
  BY DEF ConnectionsInv, CallsFit, Fits, ActsAsReviewed
<1>. QED BY <1>1, ConnectionsInvariant, PTL
=============================================================================
