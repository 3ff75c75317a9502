------------------------------ MODULE PushGate ------------------------------
(***************************************************************************)
(* The life of a push that the .github approval gate holds: the proxy      *)
(* keeps its objects in the quarantine mirror and files a row, the         *)
(* operator decides, and the root helper replays the kept commits to       *)
(* GitHub or drops them (network_integrations/github/guard.py,             *)
(* push_gate/engine.py, pending.py and approve.py).                        *)
(*                                                                         *)
(* A step is one database mutation, one git command that changes a         *)
(* repository, or a run of commands nobody else can observe.  The          *)
(* row, the mirror and GitHub share no transaction.  Which pushes are held *)
(* is a function of one request and is not modelled: Push are those held,  *)
(* for one repository, and UpdatesOf their ref updates, which the row      *)
(* keeps unchanged.                                                        *)
(***************************************************************************)
EXTENDS Integers

CONSTANTS
  Push, Ref, Commit,
  Zero,            \* ZERO_OID: the ref does not exist
  UpdatesOf,       \* the commands of each push: ref -> [old, new]
  Resolver,        \* admin request threads that approve or reject
  None,            \* no push
  FirstRefs,       \* the refs of the repository at the start
  MaxFaults,       \* bound: restarts, failed mutations, changes made elsewhere
  AnswerMayBeLost  \* a push that landed may look failed to git (a timeout)

Tip == Commit \cup {Zero}

ASSUME PushConstants ==
  /\ Zero \notin Commit /\ None \notin Push
  /\ FirstRefs \in [Ref -> Tip]
  /\ \A p \in Push :
       /\ DOMAIN UpdatesOf[p] \subseteq Ref
       /\ UpdatesOf[p] \in [DOMAIN UpdatesOf[p] -> [old : Tip, new : Tip]]
       /\ \E r \in DOMAIN UpdatesOf[p] : UpdatesOf[p][r].new # Zero
  /\ MaxFaults \in Nat
  /\ AnswerMayBeLost \in BOOLEAN

VARIABLES
  remote,    \* the refs on GitHub
  held,      \* refs/pending/<id>/ in the mirror: the updates still kept
  row,       \* pending_pushes.status; "none" is no row
  gate,      \* where the proxy is with the push, and what it told the agent
  token,     \* a working GitHub token is stored
  resolver,  \* what each admin thread is doing; past "idle" it has RESOLVE_LOCK
  decided,   \* history: pushes whose resolution ever took the lock
  landed,    \* history: pushes that were ever replayed to GitHub
  faults     \* faults so far

vars == <<remote, held, row, gate, token, resolver, decided, landed, faults>>

Final == {"approved", "rejected", "failed"}
Idle == [pc |-> "idle", push |-> None, outcome |-> "none"]

RefsOf(p) == DOMAIN UpdatesOf[p]
Kept(p) == {r \in RefsOf(p) : UpdatesOf[p][r].new # Zero}

Init ==
  /\ remote = FirstRefs
  /\ held = [p \in Push |-> {}]
  /\ row = [p \in Push |-> "none"]
  /\ gate = [p \in Push |-> "new"]
  /\ token = TRUE
  /\ resolver = [a \in Resolver |-> Idle]
  /\ decided = {} /\ landed = {}
  /\ faults = 0

Fault == faults < MaxFaults /\ faults' = faults + 1
GateAt(p, from, to) == gate[p] = from /\ gate' = [gate EXCEPT ![p] = to]

-----------------------------------------------------------------------------
(* The proxy                                                               *)

(* The inspection found a change under .github/: a push id is drawn.       *)
Hold(p) ==
  /\ GateAt(p, "new", "holding")
  /\ UNCHANGED <<remote, held, row, token, resolver, decided, landed, faults>>

Quarantine(p) ==
  /\ gate[p] = "holding"
  /\ \E r \in Kept(p) \ held[p] : held' = [held EXCEPT ![p] = @ \cup {r}]
  /\ UNCHANGED <<remote, row, gate, token, resolver, decided, landed, faults>>

(* Wrong: the row is written before the commits are kept.                  *)
EnqueueFirst(p) ==
  /\ GateAt(p, "holding", "enqueued")
  /\ row' = [row EXCEPT ![p] = "pending"]
  /\ UNCHANGED <<remote, held, token, resolver, decided, landed, faults>>

Enqueue(p) ==
  /\ held[p] = Kept(p)
  /\ GateAt(p, "holding", "enqueued")
  /\ row' = [row EXCEPT ![p] = "pending"]
  /\ UNCHANGED <<remote, held, token, resolver, decided, landed, faults>>

(* Wrong: the gate gives up on a push whose row is written.                *)
GiveUpLate(p) ==
  /\ gate[p] \in {"holding", "enqueued"}
  /\ gate' = [gate EXCEPT ![p] = "dropping"]
  /\ \E kept \in SUBSET held[p] : held' = [held EXCEPT ![p] = kept]
  /\ UNCHANGED <<remote, row, token, resolver, decided, landed, faults>>

(* A git command or the insertion failed; the cleanup may fail as well.    *)
GiveUp(p) ==
  /\ GateAt(p, "holding", "dropping")
  /\ \E kept \in SUBSET held[p] : held' = [held EXCEPT ![p] = kept]
  /\ UNCHANGED <<remote, row, token, resolver, decided, landed, faults>>

Answer(p) ==
  /\ GateAt(p, "enqueued", "queued") \/ GateAt(p, "dropping", "denied")
  /\ UNCHANGED <<remote, held, row, token, resolver, decided, landed, faults>>

(* The proxy goes down: the agent gets no answer to what was in flight.    *)
ProxyRestart ==
  /\ Fault
  /\ gate' = [p \in Push |->
       IF gate[p] \in {"holding", "enqueued", "dropping"} THEN "lost" ELSE gate[p]]
  /\ UNCHANGED <<remote, held, row, token, resolver, decided, landed>>

-----------------------------------------------------------------------------
(* The admin service and its root helper                                   *)

At(a, pc) == resolver[a].pc = pc
PushOf(a) == resolver[a].push
Goto(a, pc) == resolver' = [resolver EXCEPT ![a].pc = pc]
GiveUpOn(a) == resolver' = [resolver EXCEPT ![a].pc = "cleanup", ![a].outcome = "failed"]
Release(a) == resolver' = [resolver EXCEPT ![a] = Idle]

LockFree == \A a \in Resolver : At(a, "idle")

(* _require_pending; a request that finds the lock taken or another status *)
(* is answered with a conflict and changes nothing.                        *)
Take(a, p, pc, outcome) ==
  /\ LockFree /\ At(a, "idle")
  /\ row[p] = "pending"
  /\ resolver' = [resolver EXCEPT ![a] = [pc |-> pc, push |-> p, outcome |-> outcome]]
  /\ decided' = decided \cup {p}
  /\ UNCHANGED <<remote, held, row, gate, token, landed, faults>>

Approve(a, p) ==
  IF token THEN Take(a, p, "validate", "approved") ELSE Take(a, p, "cleanup", "failed")

Reject(a, p) == Take(a, p, "cleanup", "rejected")

(* Every kept ref must still be there; any git command may fail.           *)
Validate(a) ==
  /\ At(a, "validate")
  /\ \/ held[PushOf(a)] = Kept(PushOf(a)) /\ Goto(a, "replay")
     \/ GiveUpOn(a)
  /\ UNCHANGED <<remote, held, row, gate, token, decided, landed, faults>>

(* Wrong: a ref is moved wherever it is.                                   *)
AdmitsForced(u, tip) == u.new = Zero => tip # Zero
(* git push with a lease: a ref already there is up to date, any other     *)
(* must be where the row says it was; a missing ref cannot be deleted.     *)
Admits(u, tip) == IF u.new = Zero THEN tip # Zero /\ tip = u.old
                                  ELSE tip \in {u.old, u.new}
Applicable(p) == \A r \in RefsOf(p) : Admits(UpdatesOf[p][r], remote[r])
Applied(p) == [r \in Ref |-> IF r \in RefsOf(p) THEN UpdatesOf[p][r].new ELSE remote[r]]

(* --atomic: every ref of the push moves, or none.                         *)
Land(a) ==
  /\ At(a, "replay")
  /\ Applicable(PushOf(a))
  /\ remote' = Applied(PushOf(a))
  /\ landed' = landed \cup {PushOf(a)}
  /\ Goto(a, "tidy") \/ (AnswerMayBeLost /\ GiveUpOn(a))
  /\ UNCHANGED <<held, row, gate, token, decided, faults>>

(* GitHub or git refuses, or nothing got there in time.                    *)
BeRefused(a) ==
  /\ At(a, "replay")
  /\ GiveUpOn(a)
  /\ UNCHANGED <<remote, held, row, gate, token, decided, landed, faults>>

(* The helper drops the kept refs it can.  A delete that git refuses is    *)
(* passed over; one that times out ends the helper with an error, after    *)
(* a replay as after any other command.                                    *)
Tidy(a) ==
  /\ At(a, "tidy")
  /\ \E kept \in SUBSET held[PushOf(a)] : held' = [held EXCEPT ![PushOf(a)] = kept]
  /\ Goto(a, "resolve") \/ (held[PushOf(a)] # {} /\ GiveUpOn(a))
  /\ UNCHANGED <<remote, row, gate, token, decided, landed, faults>>

(* _cleanup_pending_refs: best effort.                                     *)
Cleanup(a) ==
  /\ At(a, "cleanup")
  /\ \E kept \in SUBSET held[PushOf(a)] : held' = [held EXCEPT ![PushOf(a)] = kept]
  /\ Goto(a, "resolve")
  /\ UNCHANGED <<remote, row, gate, token, decided, landed, faults>>

(* resolve_pending_push.  A row that is no longer pending would raise.     *)
Resolve(a) ==
  /\ At(a, "resolve")
  /\ row' = [row EXCEPT ![PushOf(a)] = IF @ = "pending" THEN resolver[a].outcome ELSE @]
  /\ Release(a)
  /\ UNCHANGED <<remote, held, gate, token, decided, landed, faults>>

(* The mutation fails: the lock is released, the row is still pending.     *)
ResolveFails(a) ==
  /\ At(a, "resolve") /\ Fault
  /\ Release(a)
  /\ UNCHANGED <<remote, held, row, gate, token, decided, landed>>

(* The service goes down; systemd stops its helper with it.                *)
AdminRestart ==
  /\ Fault
  /\ resolver' = [a \in Resolver |-> Idle]
  /\ UNCHANGED <<remote, held, row, gate, token, decided, landed>>

-----------------------------------------------------------------------------
(* Elsewhere                                                               *)

TokenChange ==
  /\ Fault
  /\ token' = ~token
  /\ UNCHANGED <<remote, held, row, gate, resolver, decided, landed>>

(* Anyone else moves, creates or deletes a ref on GitHub.                  *)
Elsewhere(r, tip) ==
  /\ Fault
  /\ remote' = [remote EXCEPT ![r] = tip]
  /\ UNCHANGED <<held, row, gate, token, resolver, decided, landed>>

ProxyStep(p) == Hold(p) \/ Quarantine(p) \/ Enqueue(p) \/ GiveUp(p) \/ Answer(p)
HelperStep(a) == Validate(a) \/ Land(a) \/ BeRefused(a) \/ Tidy(a) \/ Cleanup(a)
ResolverStep(a) == HelperStep(a) \/ Resolve(a)

Next ==
  \/ \E p \in Push : ProxyStep(p)
  \/ \E a \in Resolver, p \in Push : Approve(a, p) \/ Reject(a, p)
  \/ \E a \in Resolver : ResolverStep(a) \/ ResolveFails(a)
  \/ ProxyRestart \/ AdminRestart \/ TokenChange
  \/ \E r \in Ref, tip \in Tip : Elsewhere(r, tip)

(* Every command has a timeout and every error path goes on, so a decision *)
(* that was begun and a push that is being held are carried through.       *)
Fairness ==
  /\ \A a \in Resolver : WF_vars(ResolverStep(a))
  /\ \A p \in Push : WF_vars(gate[p] # "new" /\ ProxyStep(p))

Spec == Init /\ [][Next]_vars /\ Fairness

-----------------------------------------------------------------------------
(* Properties                                                              *)

ResolverRecord ==
  [pc : {"idle", "validate", "replay", "tidy", "cleanup", "resolve"},
   push : Push \cup {None}, outcome : Final \cup {"none"}]

(* Every variable holds a value of its type; whoever resolves has a push.  *)
TypeOK ==
  /\ remote \in [Ref -> Tip]
  /\ held \in [Push -> SUBSET Ref]
  /\ row \in [Push -> Final \cup {"none", "pending"}]
  /\ gate \in [Push -> {"new", "holding", "enqueued", "dropping", "queued", "denied", "lost"}]
  /\ token \in BOOLEAN
  /\ resolver \in [Resolver -> ResolverRecord]
  /\ \A a \in Resolver : ~At(a, "idle") => PushOf(a) \in decided
  /\ decided \subseteq Push /\ landed \subseteq decided
  /\ faults \in 0 .. MaxFaults

(* A resolution is final: once a row is approved, rejected or failed it    *)
(* never changes again and its push never reaches GitHub (any more), also  *)
(* when two threads decide at once or the service restarts between the     *)
(* replay and the row.                                                     *)
ResolvedIsFinal ==
  [][\A p \in Push : row[p] \in Final =>
       row'[p] = row[p] /\ (p \in landed' => p \in landed)]_vars

(* "The conditional update always matches" (state.resolve_pending_push):   *)
(* the thread that resolves finds the row pending.                         *)
ResolverFindsPending == \A a \in Resolver : ~At(a, "idle") => row[PushOf(a)] = "pending"

(* GitHub changes by a replay only, and a replay moves all refs of one     *)
(* decided push from where the operator saw them to what he saw: it never  *)
(* overwrites what somebody else put there since, nor half of a push.      *)
LandsAsReviewed ==
  [][remote' # remote =>
       \/ \E r \in Ref, tip \in Tip : Elsewhere(r, tip)
       \/ \E p \in Push :
            /\ row[p] = "pending" /\ p \in decided
            /\ \A r \in Ref : remote'[r] # remote[r] =>
                 r \in RefsOf(p) /\ remote[r] = UpdatesOf[p][r].old
            /\ \A r \in RefsOf(p) : remote'[r] = UpdatesOf[p][r].new]_vars

(* Until the operator first decides, a row in the list has all its commits *)
(* in the mirror, so the first approval can be carried out.                *)
UndecidedIsWhole ==
  \A p \in Push : row[p] = "pending" /\ p \notin decided => held[p] = Kept(p)

(* What the agent is told is so: a push reported as queued has a row, and  *)
(* one reported as denied has none and never reaches GitHub.               *)
AnswerIsTrue ==
  \A p \in Push : /\ gate[p] = "queued" => row[p] # "none"
                  /\ gate[p] = "denied" => row[p] = "none" /\ p \notin landed

(* An approved push has landed.                                            *)
ApprovedHasLanded == \A p \in Push : row[p] = "approved" => p \in landed

=============================================================================
