--------------------------- MODULE ProviderTrust ---------------------------
(***************************************************************************)
(* Which provider account an agent runtime may use: the status refresh,    *)
(* the operator's logins, resets and connections, and the network policy,  *)
(* of admin_api/orchestrator.py and admin_api/service.py, one runtime at a *)
(* time.  A step is one mutation, one lock section or one helper call; the *)
(* agent may rewrite its own credential file between any two of them, and  *)
(* the only thing that keeps an account the operator never chose from the  *)
(* provider is the anchor row checked inside the commit mutation.          *)
(*                                                                         *)
(* Turns stopped on the way (_stop_runtime_processes) are actions          *)
(* Deactivate and StopRuntime of TaskOrchestrator.  A token stands for its *)
(* hash; a Codex row keeps only the account, here any token of it.         *)
(***************************************************************************)
EXTENDS Integers

CONSTANTS
  RuntimeTypes,     \* the runtimes considered, each on its own
  Token, None,      \* credentials; no credential
  Account, AccountOf,  \* the provider account of each credential
  Proc,             \* request handlers, the poller, background refreshes
  NLogins           \* bound: how many logins are ever minted

ASSUME TrustConstants ==
  /\ RuntimeTypes \subseteq {"codex", "claude_code", "hermes"}
  /\ None \notin Token
  /\ AccountOf \in [Token -> Account]
  /\ NLogins \in Nat

VARIABLES
  runtime,   \* which of RuntimeTypes this behaviour is about; never changes
  enabled,   \* network policy: the runtime's provider is enabled
  status,    \* _RUNTIME_STATUSES: the cached status, in memory
  login,     \* oauth_logins row
  account,   \* provider account row: the anchor, or the Bedrock connection
  pin,       \* the proxy's pin row
  local,     \* the credential in the agent's own file
  parked,    \* _parked_login (Codex) or _login_process (Claude), in memory
  minted,    \* logins minted so far
  approved,  \* history: accounts the operator ever logged in with or connected
  proc       \* what each process is doing and what it has read

vars == <<runtime, enabled, status, login, account, pin, local, parked, minted, approved, proc>>

OAuth == runtime # "hermes"
TokenOrNone == Token \cup {None}
Login == 1 .. NLogins
NoLogin == [id |-> 0, completed |-> FALSE, token |-> None, expired |-> FALSE]
NoParked == [id |-> 0, completed |-> FALSE, read |-> FALSE, token |-> None]
Idle == [pc |-> "idle", job |-> "poll", status |-> "error", token |-> None,
         seen |-> None, login |-> 0]

(* Holding _REFRESH_LOCKS, OAUTH_LOGIN_LOCK and _BEDROCK_CONNECTION_LOCK.  *)
RefreshPC == {"withdraw", "probe", "drain", "capture", "anchor", "attest", "drop",
              "commit", "close"}
LoginPC == {"mint", "park"}
ConnectPC == {"validate"}
PC == RefreshPC \cup LoginPC \cup ConnectPC \cup
      {"idle", "refresh", "code", "hash", "mark", "spent", "reset", "clear", "reconcile", "deactivate"}

LoginStatus == {"awaiting_login", "error"}
RuntimeStatus == LoginStatus \cup {"loading", "active", "deactivated"}

Init ==
  /\ runtime \in RuntimeTypes
  /\ enabled = FALSE
  /\ status = "loading"
  /\ login = NoLogin
  /\ account = None /\ pin = None /\ local = None
  /\ parked = NoParked
  /\ minted = 0
  /\ approved = {}
  /\ proc = [p \in Proc |-> Idle]

At(p, pc) == proc[p].pc = pc
Goto(p, pc) == proc' = [proc EXCEPT ![p].pc = pc]
Rest(p) == proc' = [proc EXCEPT ![p] = Idle]
Free(pcs) == \A p \in Proc : proc[p].pc \notin pcs

(* What a finished refresh returns to: the completion of a Claude login    *)
(* drops its spent row unless the account came out active.                 *)
Finish(p, outcome) ==
  IF proc[p].job = "complete" /\ outcome # "active" THEN Goto(p, "spent") ELSE Rest(p)

SameAccount(t, u) == t # None /\ u # None /\ AccountOf[t] = AccountOf[u]
Current(row) == row # NoLogin /\ ~row.expired
DropExpired(row) == IF row.expired THEN NoLogin ELSE row

-----------------------------------------------------------------------------
(* The status refresh                                                      *)

(* The poller, a background refresh, a pre-task or operator recheck.       *)
Poll(p) ==
  /\ At(p, "idle")
  /\ Goto(p, "refresh")
  /\ UNCHANGED <<runtime, enabled, status, login, account, pin, local, parked, minted, approved>>

BeginRefresh(p) ==
  /\ At(p, "refresh")
  /\ Free(RefreshPC)
  /\ Goto(p, IF enabled THEN "probe" ELSE "withdraw")
  /\ UNCHANGED <<runtime, enabled, status, login, account, pin, local, parked, minted, approved>>

(* What the provider CLI or the stored connection says; any helper may     *)
(* fail.  A Codex login server found dead is unparked first.               *)
Verdicts ==
  IF (IF OAuth THEN local ELSE account) = None THEN LoginStatus
  ELSE IF OAuth THEN LoginStatus \cup {"active"} ELSE {"active", "error"}

Probe(p) ==
  /\ At(p, "probe")
  /\ parked' \in IF runtime = "codex" THEN {parked, NoParked} ELSE {parked}
  /\ \E verdict \in Verdicts :
       proc' = [proc EXCEPT ![p] = [@ EXCEPT
         !.status = verdict,
         !.token = IF OAuth /\ verdict = "active" THEN local ELSE None,
         !.login = parked'.id,
         !.seen = None,
         !.pc = CASE runtime = "codex" -> "drain"
                  [] runtime = "claude_code" /\ verdict = "active" -> "attest"
                  [] OTHER -> "commit"]]
  /\ UNCHANGED <<runtime, enabled, status, login, account, pin, local, minted, approved>>

(* _login_server_status: the poll is the sole reader of the parked login   *)
(* server, and keeps the account id it reads at the first completion.      *)
Drain(p) ==
  /\ At(p, "drain")
  /\ IF parked.id = proc[p].login /\ parked.completed /\ ~parked.read
       THEN \E t \in {local, None} : parked' = [parked EXCEPT !.read = TRUE, !.token = t]
       ELSE UNCHANGED parked
  /\ Goto(p, "capture")
  /\ UNCHANGED <<runtime, enabled, status, login, account, pin, local, minted, approved>>

(* _capture_completed_codex_login, up to its mutation.                     *)
Capture(p) ==
  /\ At(p, "capture")
  /\ CASE account # None -> Goto(p, "commit")
       [] account = None /\ login.expired -> Goto(p, "drop")
       [] account = None /\ ~login.expired ->
            IF login # NoLogin /\ parked.id = login.id /\ parked.read /\ parked.token # None
              THEN proc' = [proc EXCEPT ![p].pc = "anchor", ![p].seen = parked.token,
                                        ![p].login = login.id]
              ELSE Goto(p, "commit")
  /\ UNCHANGED <<runtime, enabled, status, login, account, pin, local, parked, minted, approved>>

(* _capture_completed_codex_oauth_login: the first anchor, for exactly the *)
(* login whose completion was read.                                        *)
Anchor(p) ==
  /\ At(p, "anchor")
  /\ CASE account # None -> UNCHANGED <<login, account>>
       [] account = None /\ Current(login) /\ login.id = proc[p].login ->
            login' = [login EXCEPT !.completed = TRUE] /\ account' = proc[p].seen
       [] OTHER -> login' = DropExpired(login) /\ UNCHANGED account
  /\ Goto(p, "commit")
  /\ UNCHANGED <<runtime, enabled, status, pin, local, parked, minted, approved>>

(* _current_oauth_login without a cursor: a row found expired is deleted   *)
(* by a mutation of its own, whatever the row is by then.                  *)
Drop(p) ==
  /\ At(p, "drop")
  /\ login' = NoLogin
  /\ Goto(p, "commit")
  /\ UNCHANGED <<runtime, enabled, status, account, pin, local, parked, minted, approved>>

(* Wrong: a completed login approves whatever token is found.              *)
FirstCaptureOfAny(t) == Current(login) /\ login.completed
FirstCaptureApproved(t) == Current(login) /\ login.completed /\ login.token = t

(* _claude_attestation: the provider says whose token this is, when the    *)
(* anchor does not already answer that and the operator allows the asking. *)
Attest(p) ==
  LET t == proc[p].token IN
  /\ At(p, "attest")
  /\ CASE account = None /\ login.expired -> Goto(p, "drop")
       [] account # t /\ (account # None \/ FirstCaptureApproved(t)) ->
            \E seen \in {t, None} : proc' = [proc EXCEPT ![p].pc = "commit", ![p].seen = seen]
       [] OTHER -> Goto(p, "commit")
  /\ UNCHANGED <<runtime, enabled, status, login, account, pin, local, parked, minted, approved>>

(* _trusted_active_account, against the anchor as it is at the commit.     *)
TrustedCodex(p) == IF account = None THEN "awaiting_login"
                   ELSE IF SameAccount(proc[p].token, account) THEN "active" ELSE "error"
TrustedClaude(p) ==
  LET t == proc[p].token IN
  CASE account = t -> "active"
    [] account = None /\ ~FirstCaptureApproved(t) -> "awaiting_login"
    [] account = None /\ FirstCaptureApproved(t) ->
         IF proc[p].seen = t THEN "active" ELSE "error"
    [] account # None /\ account # t ->
         IF proc[p].seen = t /\ SameAccount(t, account) THEN "active" ELSE "error"

Trusted(p) ==
  CASE proc[p].status # "active" \/ ~OAuth -> proc[p].status
    [] proc[p].status = "active" /\ runtime = "codex" -> TrustedCodex(p)
    [] proc[p].status = "active" /\ runtime = "claude_code" -> TrustedClaude(p)

(* Claude's trust check reads the login row when nothing is anchored.      *)
ChecksLogin(p) == runtime = "claude_code" /\ proc[p].status = "active" /\ account = None

Deactivated ==
  /\ status' = "deactivated"
  /\ login' = NoLogin
  /\ pin' = None

CommitTrusted(p) ==
  LET verdict == Trusted(p)
      t == proc[p].token IN
  /\ status' = verdict
  /\ IF OAuth /\ verdict = "active"
       THEN login' = NoLogin /\ account' = t /\ pin' = t
       ELSE /\ login' = IF ChecksLogin(p) THEN DropExpired(login) ELSE login
            /\ pin' = None
            /\ UNCHANGED account
  /\ IF runtime = "codex" /\ verdict = "active" /\ login # NoLogin
       THEN proc' = [proc EXCEPT ![p].pc = "close", ![p].login = login.id]
       ELSE Finish(p, verdict)

(* Wrong: the policy is not read again in the mutation.                    *)
CommitStalePolicy(p) ==
  /\ At(p, "commit")
  /\ CommitTrusted(p)
  /\ UNCHANGED <<runtime, enabled, local, parked, minted, approved>>

(* The refresh's one mutation: policy re-check, trust check, status,       *)
(* anchor, login row and pin.                                              *)
Commit(p) ==
  /\ At(p, "commit")
  /\ \/ enabled /\ CommitTrusted(p)
     \/ ~enabled /\ Deactivated /\ UNCHANGED account /\ Finish(p, "deactivated")
  /\ UNCHANGED <<runtime, enabled, local, parked, minted, approved>>

(* close_completed_login_server: only the login that was captured.         *)
CloseLogin(p) ==
  /\ At(p, "close")
  /\ parked' = IF parked.id = proc[p].login THEN NoParked ELSE parked
  /\ Finish(p, "active")
  /\ UNCHANGED <<runtime, enabled, status, login, account, pin, local, minted, approved>>

(* _mark_runtime_deactivated, from a refresh or from a policy change.      *)
Deactivate(p) ==
  /\ At(p, "withdraw") \/ At(p, "deactivate")
  /\ Deactivated
  /\ Finish(p, "deactivated")
  /\ UNCHANGED <<runtime, enabled, account, local, parked, minted, approved>>

-----------------------------------------------------------------------------
(* The operator: logins                                                    *)

LoginAvailable == enabled /\ status \in LoginStatus

(* _start_oauth_login; a start that finds a row answers with that row and  *)
(* changes nothing, so only the start that mints is a step.                *)
StartLogin(p) ==
  /\ At(p, "idle")
  /\ OAuth /\ Free(LoginPC) /\ LoginAvailable /\ login = NoLogin
  /\ Goto(p, "mint")
  /\ UNCHANGED <<runtime, enabled, status, login, account, pin, local, parked, minted, approved>>

(* start_device_login, start_oauth_login: the new login replaces the old.  *)
Mint(p) ==
  /\ At(p, "mint")
  /\ \/ /\ minted < NLogins
        /\ minted' = minted + 1
        /\ parked' = [NoParked EXCEPT !.id = minted']
        /\ proc' = [proc EXCEPT ![p].pc = "park", ![p].login = minted']
     \/ Rest(p) /\ UNCHANGED <<minted, parked>>
  /\ UNCHANGED <<runtime, enabled, status, login, account, pin, local, approved>>

(* The gate again, inside the mutation: a disable or a refresh that raced  *)
(* the mint makes it the loser, and it closes whatever is parked.          *)
Park(p) ==
  /\ At(p, "park")
  /\ \/ LoginAvailable /\ login' = [NoLogin EXCEPT !.id = proc[p].login] /\ UNCHANGED parked
     \/ ~LoginAvailable /\ parked' = NoParked /\ UNCHANGED login
  /\ Rest(p)
  /\ UNCHANGED <<runtime, enabled, status, account, pin, local, minted, approved>>

(* The operator approves the device code; Codex writes the credential.     *)
DeviceLogin(t) ==
  /\ runtime = "codex" /\ parked # NoParked /\ ~parked.completed
  /\ parked' = [parked EXCEPT !.completed = TRUE]
  /\ local' = t
  /\ approved' = approved \cup {AccountOf[t]}
  /\ UNCHANGED <<runtime, enabled, status, login, account, pin, minted, proc>>

(* complete_claude_oauth_login: code, hash, mark, refresh, spent.          *)
SubmitCode(p) ==
  /\ At(p, "idle")
  /\ runtime = "claude_code" /\ enabled /\ parked # NoParked
  /\ proc' = [proc EXCEPT ![p].pc = "code", ![p].login = parked.id]
  /\ UNCHANGED <<runtime, enabled, status, login, account, pin, local, parked, minted, approved>>

AcceptCode(p, t) ==
  /\ At(p, "code")
  /\ parked.id = proc[p].login
  /\ parked' = NoParked
  /\ local' = t
  /\ approved' = approved \cup {AccountOf[t]}
  /\ Goto(p, "hash")
  /\ UNCHANGED <<runtime, enabled, status, login, account, pin, minted>>

RejectCode(p) ==
  /\ At(p, "code")
  /\ parked' = IF parked.id = proc[p].login THEN NoParked ELSE parked
  /\ Rest(p)
  /\ UNCHANGED <<runtime, enabled, status, login, account, pin, local, minted, approved>>

ReadHash(p) ==
  /\ At(p, "hash")
  /\ \E t \in {local, None} : proc' = [proc EXCEPT ![p].pc = "mark", ![p].seen = t]
  /\ UNCHANGED <<runtime, enabled, status, login, account, pin, local, parked, minted, approved>>

(* mark_oauth_login_completed, of whichever row is current by now.         *)
Mark(p) ==
  LET seen == proc[p].seen IN
  /\ At(p, "mark")
  /\ login' = IF Current(login)
                THEN [login EXCEPT !.completed = TRUE, !.token = IF seen = None THEN @ ELSE seen]
                ELSE NoLogin
  /\ proc' = [proc EXCEPT ![p].pc = "refresh", ![p].job = "complete"]
  /\ UNCHANGED <<runtime, enabled, status, account, pin, local, parked, minted, approved>>

ClearSpent(p) ==
  /\ At(p, "spent")
  /\ login' = NoLogin
  /\ Rest(p)
  /\ UNCHANGED <<runtime, enabled, status, account, pin, local, parked, minted, approved>>

-----------------------------------------------------------------------------
(* The operator: resets, the Bedrock connection, the network policy        *)

ResetStatus == IF enabled THEN "awaiting_login" ELSE "deactivated"

(* Wrong: the reset leaves the proxy's pin.                                *)
ResetKeepsPin(p) ==
  /\ At(p, "idle") /\ OAuth
  /\ status' = ResetStatus
  /\ login' = NoLogin /\ account' = None
  /\ Goto(p, "reset")
  /\ UNCHANGED <<runtime, enabled, pin, local, parked, minted, approved>>

(* reset_linked_account: one mutation, then the parked login, the agent's  *)
(* own file (whose helper may fail), and a refresh either way.             *)
Reset(p) ==
  /\ At(p, "idle") /\ OAuth
  /\ status' = ResetStatus
  /\ login' = NoLogin /\ account' = None /\ pin' = None
  /\ Goto(p, "reset")
  /\ UNCHANGED <<runtime, enabled, local, parked, minted, approved>>

ResetClose(p) ==
  /\ At(p, "reset")
  /\ parked' = NoParked
  /\ Goto(p, "clear")
  /\ UNCHANGED <<runtime, enabled, status, login, account, pin, local, minted, approved>>

ResetClear(p) ==
  /\ At(p, "clear")
  /\ local' \in {local, None}
  /\ Goto(p, "refresh")
  /\ UNCHANGED <<runtime, enabled, status, login, account, pin, parked, minted, approved>>

Connect(p) ==
  /\ At(p, "idle")
  /\ runtime = "hermes" /\ Free(ConnectPC)
  /\ Goto(p, "validate")
  /\ UNCHANGED <<runtime, enabled, status, login, account, pin, local, parked, minted, approved>>

(* A key AWS accepts replaces the connection; the refresh that publishes   *)
(* it runs after _BEDROCK_CONNECTION_LOCK is released.                     *)
Store(p) ==
  /\ At(p, "validate")
  /\ \/ \E t \in Token : /\ account' = t
                         /\ approved' = approved \cup {AccountOf[t]}
                         /\ IF enabled THEN Goto(p, "refresh") ELSE Rest(p)
     \/ Rest(p) /\ UNCHANGED <<account, approved>>
  /\ UNCHANGED <<runtime, enabled, status, login, pin, local, parked, minted>>

Disconnect(p) ==
  /\ At(p, "idle")
  /\ runtime = "hermes" /\ Free(ConnectPC)
  /\ account' = None
  /\ status' = ResetStatus
  /\ UNCHANGED <<runtime, enabled, login, pin, local, parked, minted, approved, proc>>

(* replace_network_policy, then reconcile_runtime_status_after_policy_     *)
(* change, which reads the policy again.                                   *)
SetPolicy(p) ==
  /\ At(p, "idle")
  /\ enabled' \in BOOLEAN
  /\ Goto(p, "reconcile")
  /\ UNCHANGED <<runtime, status, login, account, pin, local, parked, minted, approved>>

Reconcile(p) ==
  /\ At(p, "reconcile")
  /\ Goto(p, IF enabled THEN "refresh" ELSE "deactivate")
  /\ UNCHANGED <<runtime, enabled, status, login, account, pin, local, parked, minted, approved>>

-----------------------------------------------------------------------------
(* The environment                                                         *)

(* A Codex completion nobody has read yet, or a Claude hash not yet read:  *)
(* the one window the code documents and leaves open to the agent.         *)
CompletionUnread ==
  \/ runtime = "codex" /\ parked.completed /\ ~parked.read
  \/ \E p \in Proc : At(p, "hash")

(* The agent, or its CLI rotating a token, rewrites the credential file.   *)
RewriteLocal ==
  /\ OAuth /\ ~CompletionUnread
  /\ local' \in TokenOrNone
  /\ UNCHANGED <<runtime, enabled, status, login, account, pin, parked, minted, approved, proc>>

Expire ==
  /\ Current(login)
  /\ login' = [login EXCEPT !.expired = TRUE]
  /\ UNCHANGED <<runtime, enabled, status, account, pin, local, parked, minted, approved, proc>>

(* The service restarts: what is in memory is lost.                        *)
Restart ==
  /\ status' = "loading"
  /\ parked' = NoParked
  /\ proc' = [p \in Proc |-> Idle]
  /\ UNCHANGED <<runtime, enabled, login, account, pin, local, minted, approved>>

RefreshStep(p) ==
  \/ BeginRefresh(p) \/ Probe(p) \/ Drain(p) \/ Capture(p) \/ Anchor(p) \/ Drop(p)
  \/ Attest(p) \/ Commit(p) \/ CloseLogin(p) \/ Deactivate(p)

RequestStep(p) ==
  \/ Mint(p) \/ Park(p) \/ (\E t \in Token : AcceptCode(p, t)) \/ RejectCode(p)
  \/ ReadHash(p) \/ Mark(p) \/ ClearSpent(p)
  \/ ResetClose(p) \/ ResetClear(p) \/ Store(p) \/ Reconcile(p)

Request(p) ==
  \/ StartLogin(p) \/ SubmitCode(p) \/ Reset(p) \/ Connect(p) \/ Disconnect(p) \/ SetPolicy(p)

Next ==
  \/ \E p \in Proc : Poll(p) \/ RefreshStep(p) \/ RequestStep(p) \/ Request(p)
  \/ \E t \in Token : DeviceLogin(t)
  \/ RewriteLocal \/ Expire \/ Restart

Spec == Init /\ [][Next]_vars

(* The poller never stops, and what was begun is carried through.          *)
Fairness ==
  /\ WF_vars(\E p \in Proc : Poll(p))
  /\ \A p \in Proc : WF_vars(RefreshStep(p)) /\ WF_vars(RequestStep(p))

FairSpec == Spec /\ Fairness

-----------------------------------------------------------------------------
(* Properties                                                              *)

LoginRow == [id : Login \cup {0}, completed : BOOLEAN, token : TokenOrNone, expired : BOOLEAN]
ParkedRecord == [id : Login \cup {0}, completed : BOOLEAN, read : BOOLEAN, token : TokenOrNone]
ProcRecord == [pc : PC, job : {"poll", "complete"}, status : LoginStatus \cup {"active"},
               token : TokenOrNone, seen : TokenOrNone, login : Login \cup {0}]

(* Every variable has its type, and no two processes hold the same lock.   *)
TypeOK ==
  /\ runtime \in RuntimeTypes
  /\ enabled \in BOOLEAN
  /\ status \in RuntimeStatus
  /\ login \in LoginRow
  /\ account \in TokenOrNone /\ pin \in TokenOrNone /\ local \in TokenOrNone
  /\ parked \in ParkedRecord
  /\ minted \in 0 .. NLogins
  /\ approved \subseteq Account
  /\ proc \in [Proc -> ProcRecord]
  /\ \A pcs \in {RefreshPC, LoginPC, ConnectPC}, p, q \in Proc :
       proc[p].pc \in pcs /\ proc[q].pc \in pcs => p = q

(* Only an account the operator logged in with, or connected, is ever      *)
(* anchored, however the agent rewrites its credentials meanwhile.         *)
AnchorApproved == account # None => AccountOf[account] \in approved

(* What the proxy lets through is the anchored account, and a runtime      *)
(* shown active is pinned.                                                 *)
PinIsAnchored ==
  OAuth => /\ pin # None => SameAccount(pin, account)
           /\ status = "active" => pin # None

(* Once a disable has been reconciled nothing reopens the provider.        *)
DisablePending ==
  \/ status = "loading"
  \/ \E p \in Proc : proc[p].pc \in {"reconcile", "deactivate"}
DisableSticks ==
  ~enabled /\ ~DisablePending =>
    /\ status = "deactivated"
    /\ pin = None
    /\ login = NoLogin

(* The anchor is immutable until an operator reset clears it.              *)
AnchorImmutable ==
  [][OAuth /\ account # None /\ account' # None => SameAccount(account, account')]_vars

=============================================================================
