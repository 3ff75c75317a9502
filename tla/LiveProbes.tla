----------------------------- MODULE LiveProbes -----------------------------
(***************************************************************************)
(* What a status refresh remembers of its last live validation: the Claude *)
(* usage probe of admin_api/orchestrator.py (_CLAUDE_LIVE_PROBE) and the   *)
(* Codex credential validation of admin_api/codex_app_server.py            *)
(* (_live_validation_failure).  Both ask a provider CLI that speaks        *)
(* through the proxy, whose pin only an active refresh publishes; both     *)
(* remember a refused credential for good, so that the poll does not ask   *)
(* again every five seconds.                                               *)
(*                                                                         *)
(* Every credential here belongs to the approved account: which account    *)
(* may be anchored is ProviderTrust's.  Refreshes hold the refresh lock,   *)
(* so one is enough; the operator, the provider and the agent's own CLI    *)
(* processes move beside it.  A failed attestation is tried again by the   *)
(* next refresh; its own four-minute memory is only a delay.               *)
(***************************************************************************)
EXTENDS Integers

CONSTANTS
  Providers,   \* the runtimes considered, each on its own
  MaxTokens,  \* bound: credentials ever minted
  MaxFailures   \* bound: failing calls, dead login servers, restarts, revocations

ASSUME ProbeConstants ==
  /\ Providers \subseteq {"claude_code", "codex"}
  /\ MaxTokens \in Nat /\ MaxFailures \in Nat

VARIABLES
  provider,   \* which of Providers this behaviour is about; never changes
  enabled,   \* network policy: the runtime's provider is enabled
  health,    \* _RUNTIME_STATUSES: the cached status
  anchor,    \* the anchored row's credential; 0: no anchor
  pin,       \* the proxy's pin row; 0: none
  login,     \* Claude: the token a completed login produced; 0: none
  parked,    \* Codex: the parked device login server
  stale,      \* history: the remembered verdict may outlive its reason, see below
  local,     \* the credential in the agent's file; 0: none
  dead,      \* credentials the provider refuses or the operator deleted
  minted,    \* credentials minted so far
  memo,      \* the remembered verdict; the credential keys Claude's only
  job,       \* the refresh holding the lock
  op,        \* the operator's reset in progress
  failures

probeVars == <<provider, enabled, health, anchor, pin, login, parked, stale, local, dead, minted,
               memo, job, op, failures>>

Claude == provider = "claude_code"
NoMemo == [verdict |-> "none", token |-> 0, fresh |-> FALSE]
NoJob == [at |-> "idle", forced |-> FALSE, token |-> 0, verdict |-> "error", said |-> "ok",
          landed |-> FALSE]

ProbesInit ==
  /\ provider \in Providers
  /\ enabled = TRUE /\ health = "loading"
  /\ anchor = 0 /\ pin = 0 /\ login = 0 /\ parked = "none" /\ stale = FALSE
  /\ local = 0 /\ dead = {} /\ minted = 0
  /\ memo = NoMemo /\ job = NoJob /\ op = "idle" /\ failures = 0

Fault == failures < MaxFailures /\ failures' = failures + 1
Mints == minted < MaxTokens /\ minted' = minted + 1 /\ local' = minted + 1
JobAt(step) == job.at = step
Concludes(verdict, at) == job' = [job EXCEPT !.verdict = verdict, !.at = at]
Remembered(verdict, token) == [verdict |-> verdict, token |-> token, fresh |-> TRUE]

(* The proxy: a Claude pin is the token's hash, a Codex pin the account.   *)
Admits(token) == enabled /\ pin # 0 /\ (Claude => pin = token)
Accepts(token) == token # 0 /\ token \notin dead

-----------------------------------------------------------------------------
(* The refresh                                                             *)

(* The poller, a policy change, a pre-task check (forced: the operator's). *)
Poll ==
  /\ JobAt("idle")
  /\ \E forced \in BOOLEAN :
       job' = [NoJob EXCEPT !.forced = forced, !.at = IF enabled THEN "read" ELSE "withdraw"]
  /\ UNCHANGED <<provider, enabled, health, anchor, pin, login, parked, stale, local, dead, minted, memo, op, failures>>

Deactivated == health' = "deactivated" /\ pin' = 0 /\ login' = 0

Withdraw ==
  /\ JobAt("withdraw")
  /\ Deactivated
  /\ job' = NoJob
  /\ UNCHANGED <<provider, enabled, anchor, parked, stale, local, dead, minted, memo, op, failures>>

(* Wrong: a verdict answers for whichever credential is asked about. *)
AnyMemoHolds(token) ==
  ~job.forced /\ memo # NoMemo /\ (memo.fresh \/ memo.verdict = "awaiting_login")
(* A refusal is final, any other verdict answers for the retry window.     *)
MemoHolds(token) ==
  /\ ~job.forced /\ memo # NoMemo
  /\ memo.fresh \/ memo.verdict = "awaiting_login"
  /\ Claude => memo.token = token

(* account_status: the CLI's own view; one that fails may look like a      *)
(* missing login.  A Claude token not on the anchor needs no probe,        *)
(* attestation validates it; one whose verdict still holds is not probed   *)
(* either.                                                                 *)
ReadAccount ==
  /\ JobAt("read")
  /\ \/ local = 0 /\ Concludes("awaiting_login", "drain") /\ UNCHANGED failures
     \/ Fault /\ \E verdict \in {"awaiting_login", "error"} : Concludes(verdict, "drain")
     \/ /\ local # 0 /\ UNCHANGED failures
        /\ job' = [job EXCEPT !.token = local,
             !.verdict = IF Claude /\ anchor = local /\ MemoHolds(local) THEN memo.verdict ELSE "active",
             !.at = IF Claude /\ (anchor # local \/ MemoHolds(local)) THEN "drain" ELSE "usage"]
  /\ UNCHANGED <<provider, enabled, health, anchor, pin, login, parked, stale, local, dead, minted, memo, op>>

(* What a live call says: the proxy's denial is a failure of the call, not *)
(* a refusal by the provider.                                              *)
Says(said) ==
  /\ said = "ok" => Admits(local) /\ Accepts(local)
  /\ said = "refused" => Admits(local) /\ ~Accepts(local)
  /\ IF said = "failed" /\ Admits(local) THEN Fault ELSE UNCHANGED failures

(* The usage read, with the credential the CLI finds by then.              *)
Usage ==
  /\ JobAt("usage")
  /\ \E said \in {"ok", "refused", "failed"} :
       /\ Says(said)
       /\ IF Claude THEN job' = [job EXCEPT !.said = said, !.at = "compare"]
          ELSE IF said = "ok" \/ (memo = NoMemo /\ pin = 0) THEN Concludes("active", "drain")
          ELSE IF MemoHolds(job.token) THEN Concludes(memo.verdict, "drain")
          ELSE Concludes("error", "validate")
  /\ UNCHANGED <<provider, enabled, health, anchor, pin, login, parked, stale, local, dead, minted, memo, op>>

(* The CLI rotated the token while it answered.                            *)
Rotated == local # job.token

(* _probe_claude_status, from the second read of the file on.              *)
Compare ==
  /\ JobAt("compare")
  /\ \/ /\ Fault \/ (local = 0 /\ UNCHANGED failures)
        /\ Concludes("error", "drain") /\ memo' = Remembered("error", job.token)
     \/ /\ local # 0 /\ Rotated
        /\ job' = [job EXCEPT !.token = local, !.verdict = "active", !.at = "drain"]
        /\ UNCHANGED <<memo, failures>>
     \/ /\ local # 0 /\ ~Rotated
        /\ LET verdict == CASE job.said = "refused" -> "awaiting_login"
                            [] job.said = "failed" -> "error"
                            [] OTHER -> "active"
           IN Concludes(verdict, "drain") /\ memo' = Remembered(verdict, job.token)
        /\ UNCHANGED failures
  /\ UNCHANGED <<provider, enabled, health, anchor, pin, login, parked, stale, local, dead, minted, op>>

(* account/read with refreshToken, through the unpinned auth endpoint.  A  *)
(* refusal and any other failure are told apart by the wording of the      *)
(* error (_codex_status_error): each may be taken for a missing login,     *)
(* which is remembered until a login, or for an error, which is tried      *)
(* again.                                                                  *)
Validate ==
  /\ JobAt("validate")
  /\ \/ /\ Accepts(local) /\ enabled /\ memo' = NoMemo /\ stale' = FALSE /\ UNCHANGED failures
        /\ job' = [job EXCEPT !.token = local, !.verdict = "active", !.at = "drain"]
     \/ \E verdict \in {"awaiting_login", "error"} :
           /\ \/ ~Accepts(local) /\ enabled /\ UNCHANGED <<stale, failures>>
              \/ /\ stale' = (stale \/ verdict = "awaiting_login")
                 /\ IF enabled THEN Fault ELSE UNCHANGED failures
           /\ memo' = Remembered(verdict, job.token) /\ Concludes(verdict, "drain")
  /\ UNCHANGED <<provider, enabled, health, anchor, pin, login, parked, local, dead, minted, op>>

(* Wrong: the previous credential's verdict outlives the login. *)
DrainKeepsVerdict ==
  /\ JobAt("drain") /\ job' = [job EXCEPT !.at = "attest", !.landed = parked = "completed"]
  /\ IF parked = "completed"
       THEN /\ parked' = "seen" /\ stale' = FALSE
            /\ anchor' = IF anchor = 0 THEN local ELSE anchor
       ELSE UNCHANGED <<parked, stale, anchor>>
  /\ UNCHANGED <<provider, enabled, health, pin, login, local, dead, minted, memo, op, failures>>
(* The poll, sole reader of the parked login server, sees the completion:  *)
(* it forgets the verdict about the previous credential, and a first       *)
(* anchor is captured.                                                     *)
Drain ==
  /\ JobAt("drain") /\ job' = [job EXCEPT !.at = "attest", !.landed = parked = "completed"]
  /\ IF parked = "completed"
       THEN /\ parked' = "seen" /\ memo' = NoMemo /\ stale' = FALSE
            /\ anchor' = IF anchor = 0 THEN local ELSE anchor
       ELSE UNCHANGED <<parked, memo, stale, anchor>>
  /\ UNCHANGED <<provider, enabled, health, pin, login, local, dead, minted, op, failures>>

(* The profile endpoint knows the token, and the file still holds it.      *)
Attested(token) == Accepts(token) /\ local = token
(* _claude_attestation: only a token that is not on the anchor, and only   *)
(* one that may be captured, is shown to the profile endpoint.             *)
Approved(token) == anchor # 0 \/ login = token
Attest ==
  /\ JobAt("attest")
  /\ IF Claude /\ job.verdict = "active" /\ anchor # job.token /\ Approved(job.token)
       THEN \/ /\ Attested(job.token) /\ UNCHANGED failures
               /\ job' = [job EXCEPT !.said = "attested", !.at = "commit"]
            \/ /\ IF Attested(job.token) THEN Fault ELSE UNCHANGED failures
               /\ job' = [job EXCEPT !.said = "unattested", !.at = "commit"]
       ELSE job' = [job EXCEPT !.said = "unattested", !.at = "commit"] /\ UNCHANGED failures
  /\ UNCHANGED <<provider, enabled, health, anchor, pin, login, parked, stale, local, dead, minted, memo, op>>

(* What the trust check makes of the verdict.                              *)
Outcome ==
  IF job.verdict # "active" THEN job.verdict
  ELSE IF ~Claude THEN IF anchor = 0 THEN "awaiting_login" ELSE "active"
  ELSE IF anchor = job.token THEN "active"
  ELSE IF ~Approved(job.token) THEN "awaiting_login"
  ELSE IF job.said = "attested" THEN "active" ELSE "error"

CommitVerdict ==
  /\ JobAt("commit")
  /\ IF ~enabled THEN Deactivated /\ job' = NoJob /\ UNCHANGED anchor
     ELSE /\ health' = Outcome
          /\ IF Outcome = "active"
               THEN anchor' = job.token /\ pin' = job.token /\ login' = 0
               ELSE pin' = 0 /\ UNCHANGED <<anchor, login>>
          /\ job' = IF Claude /\ Outcome = "active" /\ memo.token # job.token
                      THEN [job EXCEPT !.at = "backfill"] ELSE NoJob
  /\ UNCHANGED <<provider, enabled, parked, stale, local, dead, minted, memo, op, failures>>

(* _backfill_claude_usage: a usage read that fails is never a verdict.     *)
Backfill ==
  /\ JobAt("backfill")
  /\ \/ Admits(local) /\ Accepts(local) /\ memo' = Remembered("active", job.token)
        /\ UNCHANGED failures
     \/ /\ IF Admits(local) /\ Accepts(local) THEN Fault ELSE UNCHANGED failures
        /\ UNCHANGED memo
  /\ job' = NoJob
  /\ UNCHANGED <<provider, enabled, health, anchor, pin, login, parked, stale, local, dead, minted, op>>

-----------------------------------------------------------------------------
(* The operator, the provider, the agent's CLI, time                       *)

(* The reset clears the rows, then the remembered verdict (without the     *)
(* refresh lock), then the credential file.                                *)
Reset ==
  /\ op = "idle" /\ op' = "forget"
  /\ anchor' = 0 /\ pin' = 0 /\ login' = 0
  /\ health' = IF enabled THEN "awaiting_login" ELSE "deactivated"
  /\ UNCHANGED <<provider, enabled, parked, stale, local, dead, minted, memo, job, failures>>
Forget ==
  /\ op = "forget" /\ op' = "clear"
  /\ memo' = NoMemo /\ parked' = "none" /\ stale' = FALSE
  /\ UNCHANGED <<provider, enabled, health, anchor, pin, login, local, dead, minted, job, failures>>
Clear ==
  /\ op = "clear" /\ op' = "idle"
  /\ dead' = dead \cup ({local} \ {0}) /\ local' = 0
  /\ UNCHANGED <<provider, enabled, health, anchor, pin, login, parked, stale, minted, memo, job, failures>>

(* A Claude code submission; a Codex device login, parked until it lands.  *)
ClaudeLogin ==
  /\ Claude /\ enabled /\ op = "idle" /\ health \in {"awaiting_login", "error"}
  /\ Mints /\ login' = minted'
  /\ UNCHANGED <<provider, enabled, health, anchor, pin, parked, stale, dead, memo, job, op, failures>>
ParkLogin ==
  /\ ~Claude /\ enabled /\ op = "idle" /\ health \in {"awaiting_login", "error"}
  /\ parked' = "waiting" /\ stale' = (stale \/ parked = "completed")
  /\ UNCHANGED <<provider, enabled, health, anchor, pin, login, local, dead, minted, memo, job, op, failures>>
LoginLands ==
  /\ parked = "waiting" /\ enabled /\ parked' = "completed" /\ Mints
  /\ UNCHANGED <<provider, enabled, health, anchor, pin, login, stale, dead, memo, job, op, failures>>
(* A login server that dies takes an unread completion with it.            *)
ServerDies ==
  /\ parked \in {"waiting", "completed"} /\ Fault
  /\ parked' = "none" /\ stale' = (stale \/ parked = "completed")
  /\ UNCHANGED <<provider, enabled, health, anchor, pin, login, local, dead, minted, memo, job, op>>

(* Any CLI process may refresh the credential; the old one may live on.    *)
Rotate ==
  /\ enabled /\ Accepts(local) /\ Mints
  /\ dead' \in {dead, dead \cup {local}}
  /\ UNCHANGED <<provider, enabled, health, anchor, pin, login, parked, stale, memo, job, op, failures>>
Revoke ==
  /\ Accepts(local) /\ Fault /\ dead' = dead \cup {local}
  /\ UNCHANGED <<provider, enabled, health, anchor, pin, login, parked, stale, local, minted, memo, job, op>>

SetPolicy ==
  /\ enabled' = ~enabled
  /\ UNCHANGED <<provider, health, anchor, pin, login, parked, stale, local, dead, minted, memo, job, op, failures>>

(* CLAUDE_LIVE_PROBE_RETRY_SECONDS, LIVE_VALIDATION_RETRY_SECONDS.         *)
Expire ==
  /\ memo.fresh /\ memo' = [memo EXCEPT !.fresh = FALSE]
  /\ UNCHANGED <<provider, enabled, health, anchor, pin, login, parked, stale, local, dead, minted, job, op, failures>>

Restart ==
  /\ Fault /\ health' = "loading" /\ memo' = NoMemo /\ job' = NoJob /\ op' = "idle"
  /\ parked' = "none" /\ stale' = FALSE
  /\ UNCHANGED <<provider, enabled, anchor, pin, login, local, dead, minted>>

-----------------------------------------------------------------------------
RefreshStep ==
  \/ Poll \/ Withdraw \/ ReadAccount \/ Usage \/ Compare \/ Validate
  \/ Drain \/ Attest \/ CommitVerdict \/ Backfill
OperatorStep == Reset \/ Forget \/ Clear \/ ClaudeLogin \/ ParkLogin \/ SetPolicy

ProbesNext ==
  \/ RefreshStep \/ OperatorStep
  \/ LoginLands \/ ServerDies \/ Rotate \/ Revoke \/ Expire \/ Restart

(* The poller keeps polling, and time passes.                              *)
ProbesFairness == WF_probeVars(RefreshStep) /\ WF_probeVars(Expire)
ProbesSpec == ProbesInit /\ [][ProbesNext]_probeVars /\ ProbesFairness

-----------------------------------------------------------------------------
(* The operator is asked to log in again over an approved credential only  *)
(* when the provider refuses it or it is gone, however the CLI rotated it  *)
(* meanwhile and whatever earlier credential a verdict is still remembered *)
(* for.  Codex has two exceptions, and the verdict of either stands until  *)
(* the operator logs in or refreshes (stale): a login landed unseen, its    *)
(* server having died before the poll looked; or a validation failed in    *)
(* words that read like a missing login.                                   *)
LoginIsNeeded ==
  [][ JobAt("commit") /\ health # "awaiting_login" /\ health' = "awaiting_login"
        /\ job' = NoJob /\ job # NoJob /\ op = "idle" /\ op' = "idle"
        /\ job.token # 0 /\ anchor # 0 /\ ~stale /\ ~job.landed /\ parked # "completed"
      => job.token \in dead \/ (~Claude /\ local # job.token) ]_probeVars

(* The runtime has a credential the provider accepts and the operator      *)
(* approved, is left alone, and remembers no verdict without a reason.     *)
Usable == enabled /\ op = "idle" /\ anchor # 0 /\ Accepts(local) /\ ~stale

(* A Codex runtime whose approved credential is good becomes active again  *)
(* by itself after any failure, deactivation or restart: the validation    *)
(* goes around the pin the failure withdrew.                               *)
CodexComesBack == ~Claude /\ <>[]Usable => []<>(health = "active")

(* docs/architecture/agent-provider-lifecycle.md on deactivation: "The     *)
(* operator-approved account or connected credential remains, so           *)
(* re-enabling can return directly to `active` with no new login."  The    *)
(* Claude probe of a steady token goes through the pin that deactivation   *)
(* (or one failed probe) has withdrawn.                                    *)
ClaudeComesBack == Claude /\ <>[](Usable /\ local = anchor) => []<>(health = "active")
=============================================================================
