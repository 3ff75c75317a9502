-------------------------- MODULE GithubCredential --------------------------
(***************************************************************************)
(* The GitHub credential, the working token the proxy injects, and the     *)
(* repository audits (admin_api/github_credential.py,                      *)
(* admin_api/github_repo_audit.py), with the three kinds of thread that    *)
(* drive them: API threads that publish a policy or set, delete or        *)
(* re-check the credential, and the refresh loop of the orchestrator.      *)
(*                                                                         *)
(* Every database call is a transaction of its own, so each is a step.     *)
(* What a thread read earlier and uses later is in its own record.         *)
(***************************************************************************)
EXTENDS Naturals, FiniteSets

CONSTANTS
    Pats,        \* the personal access tokens an operator may paste
    Apps,        \* the GitHub Apps an operator may install
    Repos,       \* the repositories a policy may list as write targets
    Operators,   \* the API threads of the operator
    Poller,      \* github_credential_refresh_loop
    MaxFailures    \* bound on failed transactions and restarts

ASSUME ThreadsAssumption == Poller \notin Operators
ASSUME KeysAssumption == Pats \cap Apps = {}
ASSUME FaultsAssumption == MaxFailures \in Nat

Keys == Pats \cup Apps
Threads == Operators \cup {Poller}

Nothing == [none |-> TRUE]

ASSUME NothingAssumption == Nothing \notin Threads

\* A policy as the GitHub code reads it: the integration off, or on with its
\* write repositories (validation ties the list to an enabled integration).
Off == [enabled |-> FALSE, repos |-> {}]
Policies == {Off} \cup [enabled : {TRUE}, repos : SUBSET Repos]

\* The working-token row: whose token it is, and whether it is inside the
\* refresh margin of its expiry.
Tokens == [key : Keys, stale : BOOLEAN]

\* An audit row: facts fetched with a credential's token, fresh for a day, or
\* an error, which is never fresh.
Facts == [key : Keys, fresh : BOOLEAN]
Error == [error |-> TRUE]

VARIABLES
    policy,      \* the stored network policy
    credential,  \* the key in the github_credential row, or None
    working,       \* the proxy_github_token row, or None
    audits,      \* the github_repo_audit rows: one or None per repository
    lock,        \* the holder of _CREDENTIAL_LOCK, or None
    thread,      \* per thread: where it stands and what it has read
    failures       \* failures so far

credentialVars == <<policy, credential, working, audits, lock, thread, failures>>

Places == {"idle", "save", "lock", "write", "reconcile", "mint", "publish",
           "withdraw", "remove", "audit", "check", "fetch"}

IdleThread == [at |-> "idle", job |-> "reconcile", key |-> Nothing, policy |-> Off,
         fresh |-> FALSE, force |-> FALSE, due |-> {}]

Jobs == {"reconcile", "set", "delete", "start"}

CredentialTypeOK ==
    /\ policy \in Policies
    /\ credential \in Keys \cup {Nothing}
    /\ working \in Tokens \cup {Nothing}
    /\ audits \in [Repos -> Facts \cup {Error, Nothing}]
    /\ lock \in Threads \cup {Nothing}
    /\ thread \in [Threads -> [at : Places, job : Jobs, key : Keys \cup {Nothing},
                               policy : Policies, fresh : BOOLEAN,
                               force : BOOLEAN, due : SUBSET Repos]]
    /\ failures \in 0 .. MaxFailures

CredentialInit ==
    /\ policy = Off
    /\ credential = Nothing
    /\ working = Nothing
    /\ audits = [r \in Repos |-> Nothing]
    /\ lock = Nothing
    /\ thread = [t \in Threads |-> IdleThread]
    /\ failures = 0

ThreadAt(t, place) == thread[t].at = place
MovesTo(t, place) == thread' = [thread EXCEPT ![t].at = place]
\* Wrong: nothing serialises the changes of the credential.
FreeAlways == TRUE

Free == lock = Nothing

-----------------------------------------------------------------------------
(* Publishing a policy: replace_network_policy.                            *)

\* The previous policy is read before the new one is saved, outside any lock:
\* two publications may read the same one.
PublishRead(t) ==
    /\ ThreadAt(t, "idle")
    /\ \E p \in Policies :
          thread' = [thread EXCEPT ![t] =
                       [IdleThread EXCEPT !.at = "save", !.policy = p,
                                    !.fresh = p # policy, !.force = p # policy]]
    /\ UNCHANGED <<policy, credential, working, audits, lock, failures>>

PublishSave(t) ==
    /\ ThreadAt(t, "save")
    /\ policy' = thread[t].policy
    /\ thread' = [thread EXCEPT ![t].at = "lock", ![t].policy = Off]
    /\ UNCHANGED <<credential, working, audits, lock, failures>>

-----------------------------------------------------------------------------
(* The other jobs: set_pat and set_app, delete, the re-check endpoint, and *)
(* a cycle of the refresh loop.                                            *)

Begin(t, job, key, fresh, force) ==
    /\ ThreadAt(t, "idle")
    /\ thread' = [thread EXCEPT ![t] =
                    [IdleThread EXCEPT !.at = "lock", !.job = job, !.key = key,
                                 !.fresh = fresh, !.force = force]]
    /\ UNCHANGED <<policy, credential, working, audits, lock, failures>>

SetCredential(t) == \E key \in Keys : Begin(t, "set", key, TRUE, TRUE)
Delete(t) == Begin(t, "delete", Nothing, FALSE, TRUE)
Recheck(t) == Begin(t, "reconcile", Nothing, TRUE, TRUE)
Poll == Begin(Poller, "reconcile", Nothing, FALSE, FALSE)

-----------------------------------------------------------------------------
(* What runs under _CREDENTIAL_LOCK.                                       *)

Acquire(t) ==
    /\ ThreadAt(t, "lock")
    /\ Free
    /\ lock' = t
    /\ MovesTo(t, CASE thread[t].job = "set" -> "write"
                 [] thread[t].job = "delete" -> "withdraw"
                 [] OTHER -> "reconcile")
    /\ UNCHANGED <<policy, credential, working, audits, failures>>

\* Leaving the lock goes on to the audits; the convergence of a start has none.
Leave(t) ==
    /\ lock' = Nothing
    /\ thread' = [thread EXCEPT ![t] =
                    IF thread[t].job = "start" THEN IdleThread
                    ELSE [IdleThread EXCEPT !.at = "audit", !.force = thread[t].force]]

WriteCredential(t) ==
    /\ ThreadAt(t, "write")
    /\ credential' = thread[t].key
    /\ MovesTo(t, "reconcile")
    /\ UNCHANGED <<policy, working, audits, lock, failures>>

\* Wrong: a published token is kept until somebody asks for a new one.
KeepsUntilAsked(t) == ~thread[t].fresh /\ working # Nothing

\* An App's token is minted again when asked for, missing, or near expiry; a
\* personal access token stored before it has no expiry and counts as stale.
Keeps(t) == ~thread[t].fresh /\ working # Nothing /\ ~working.stale

\* reconcile reads the credential and the published token, which cannot change
\* under the lock, and the policy, which can.
Reconcile(t) ==
    /\ ThreadAt(t, "reconcile")
    /\ IF credential = Nothing \/ ~policy.enabled
         THEN MovesTo(t, "withdraw") /\ UNCHANGED lock
         ELSE IF credential \in Apps /\ Keeps(t)
                THEN Leave(t)
                ELSE /\ thread' = [thread EXCEPT
                                     ![t].key = credential,
                                     ![t].at = IF credential \in Apps THEN "mint" ELSE "publish"]
                     /\ UNCHANGED lock
    /\ UNCHANGED <<policy, credential, working, audits, failures>>

\* A pasted token, or what the mint answered, becomes the working token.
Publish(t) ==
    /\ thread[t].at \in {"publish", "mint"}
    /\ working' = [key |-> thread[t].key, stale |-> thread[t].key \in Pats]
    /\ Leave(t)
    /\ UNCHANGED <<policy, credential, audits, failures>>

\* No credential, GitHub off, or a failed mint: the row is cleared. A delete
\* goes on to drop the credential.
Withdraw(t) ==
    /\ thread[t].at \in {"withdraw", "mint"}
    /\ working' = Nothing
    /\ IF thread[t].job = "delete" THEN MovesTo(t, "remove") /\ UNCHANGED lock ELSE Leave(t)
    /\ UNCHANGED <<policy, credential, audits, failures>>

Remove(t) ==
    /\ ThreadAt(t, "remove")
    /\ credential' = Nothing
    /\ Leave(t)
    /\ UNCHANGED <<policy, working, audits, failures>>

-----------------------------------------------------------------------------
(* The repository audits: refresh.                                         *)

\* The policy's repositories are read and the rows of any other are pruned.
AuditRead(t) ==
    /\ ThreadAt(t, "audit")
    /\ audits' = [r \in Repos |-> IF r \in policy.repos THEN audits[r] ELSE Nothing]
    /\ thread' = [thread EXCEPT ![t] =
                    IF policy.repos = {} THEN IdleThread
                    ELSE [@ EXCEPT !.at = "check", !.due = policy.repos]]
    /\ UNCHANGED <<policy, credential, working, lock, failures>>

Fresh(audit) == audit \notin {Nothing, Error} /\ audit.fresh

\* Without a token every repository records the failure; with one, those due
\* are fetched with it.
AuditToken(t) ==
    LET due == {r \in thread[t].due : thread[t].force \/ ~Fresh(audits[r])}
    IN  /\ ThreadAt(t, "check")
        /\ IF working = Nothing
             THEN /\ audits' = [r \in Repos |-> IF r \in thread[t].due THEN Error ELSE audits[r]]
                  /\ thread' = [thread EXCEPT ![t] = IdleThread]
             ELSE /\ thread' = [thread EXCEPT ![t] =
                                  IF due = {} THEN IdleThread
                                  ELSE [@ EXCEPT !.at = "fetch", !.due = due, !.key = working.key]]
                  /\ UNCHANGED audits
        /\ UNCHANGED <<policy, credential, working, lock, failures>>

\* The helper answers for each repository with facts or with an error; what it
\* answers is saved whatever has changed since the token was read.
AuditSave(t) ==
    /\ ThreadAt(t, "fetch")
    /\ \E answered \in SUBSET thread[t].due :
          audits' = [r \in Repos |->
                       IF r \in answered THEN [key |-> thread[t].key, fresh |-> TRUE]
                       ELSE IF r \in thread[t].due THEN Error ELSE audits[r]]
    /\ thread' = [thread EXCEPT ![t] = IdleThread]
    /\ UNCHANGED <<policy, credential, working, lock, failures>>

-----------------------------------------------------------------------------
(* Time and failure.                                                       *)

TokenAges ==
    /\ working # Nothing
    /\ ~working.stale
    /\ working' = [working EXCEPT !.stale = TRUE]
    /\ UNCHANGED <<policy, credential, audits, lock, thread, failures>>

AuditAges(r) ==
    /\ Fresh(audits[r])
    /\ audits' = [audits EXCEPT ![r].fresh = FALSE]
    /\ UNCHANGED <<policy, credential, working, lock, thread, failures>>

\* A transaction fails: the exception leaves the lock and ends the job. A
\* publication swallows it, the API answers 500, the loop tries again later.
DatabaseFails(t) ==
    /\ thread[t].at \notin {"idle", "lock"}
    /\ failures < MaxFailures
    /\ failures' = failures + 1
    /\ lock' = IF lock = t THEN Nothing ELSE lock
    /\ thread' = [thread EXCEPT ![t] = IdleThread]
    /\ UNCHANGED <<policy, credential, working, audits>>

\* The admin service stops and starts again: start_workers converges once
\* before anything else, and the loop goes on from there.
Restart ==
    /\ failures < MaxFailures
    /\ failures' = failures + 1
    /\ lock' = Nothing
    /\ thread' = [t \in Threads |->
                    IF t = Poller THEN [IdleThread EXCEPT !.at = "lock", !.job = "start"] ELSE IdleThread]
    /\ UNCHANGED <<policy, credential, working, audits>>

-----------------------------------------------------------------------------
\* A step of a job already begun.
Step(t) ==
    \/ PublishSave(t) \/ Acquire(t) \/ WriteCredential(t) \/ Reconcile(t)
    \/ Publish(t) \/ Withdraw(t) \/ Remove(t)
    \/ AuditRead(t) \/ AuditToken(t) \/ AuditSave(t)

Request(t) == PublishRead(t) \/ SetCredential(t) \/ Delete(t) \/ Recheck(t)

CredentialNext ==
    \/ \E t \in Threads : Step(t) \/ DatabaseFails(t)
    \/ \E t \in Operators : Request(t)
    \/ Poll
    \/ TokenAges
    \/ \E r \in Repos : AuditAges(r)
    \/ Restart

\* Threads run, the loop's timer fires, and time passes; nobody has to ask for
\* anything.
CredentialFairness ==
    /\ \A t \in Threads : WF_credentialVars(Step(t))
    /\ WF_credentialVars(Poll)
    /\ WF_credentialVars(TokenAges)
    /\ \A r \in Repos : WF_credentialVars(AuditAges(r))

CredentialSpec == CredentialInit /\ [][CredentialNext]_credentialVars /\ CredentialFairness

-----------------------------------------------------------------------------
(* Properties.                                                             *)

OperatorsIdle == \A t \in Operators : ThreadAt(t, "idle")

\* Once every request has returned without a failure, GitHub off means no token:
\* the publication that turned it off has waited for any mint under way.
OffWithdraws == (OperatorsIdle /\ Free /\ failures = 0 /\ ~policy.enabled) => working = Nothing

\* Once the operator leaves it alone, the token row settles: it is empty, or
\* GitHub is on and it is a token of the stored credential, whatever failed or
\* was restarted before.
TokenConverges ==
    <>[]OperatorsIdle =>
        <>[](working # Nothing => policy.enabled /\ working.key = credential)

=============================================================================
