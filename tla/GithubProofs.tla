---------------------------- MODULE GithubProofs ----------------------------
(***************************************************************************)
(* Proofs about PushGate for every repository, any held pushes and any     *)
(* number of admin threads; and about GithubCredential for any operators,  *)
(* keys and repositories.                                                  *)
(***************************************************************************)
EXTENDS PushGate, GithubCredential, TLAPS

-----------------------------------------------------------------------------
(* Types                                                                   *)

(* What a replay leaves on GitHub are refs again.                          *)
LEMMA AppliedType ==
  ASSUME NEW p \in Push, remote \in [Ref -> Tip]
  PROVE  Applied(p) \in [Ref -> Tip]
BY PushConstants DEF Applied, RefsOf

LEMMA TypeInit == Init => TypeOK
BY PushConstants DEF Init, TypeOK, At, PushOf, Idle, ResolverRecord, Tip

LEMMA TypeNext == TypeOK /\ [Next]_vars => TypeOK'
<1>. SUFFICES ASSUME TypeOK, [Next]_vars PROVE TypeOK'
  OBVIOUS
<1>. USE DEF TypeOK, At, PushOf
<1>1. ASSUME NEW p \in Push, ProxyStep(p) PROVE TypeOK'
  <2>1. CASE Hold(p)
    BY <2>1 DEF Hold, GateAt
  <2>2. CASE Quarantine(p)
    BY <2>2, PushConstants DEF Quarantine, Kept, RefsOf
  <2>3. CASE Enqueue(p)
    BY <2>3 DEF Enqueue, GateAt
  <2>4. CASE GiveUp(p)
    BY <2>4 DEF GiveUp, GateAt
  <2>5. CASE Answer(p)
    BY <2>5 DEF Answer, GateAt
  <2>. QED BY <1>1, <2>1, <2>2, <2>3, <2>4, <2>5 DEF ProxyStep
<1>2. ASSUME NEW a \in Resolver, NEW p \in Push, Approve(a, p) \/ Reject(a, p)
      PROVE  TypeOK'
  <2>1. PICK pc \in {"validate", "cleanup"}, outcome \in Final : Take(a, p, pc, outcome)
    BY <1>2 DEF Approve, Reject, Final
  <2>2. resolver' \in [Resolver -> ResolverRecord]
    BY <2>1 DEF Take, ResolverRecord
  <2>. QED BY <2>1, <2>2 DEF Take
<1>3. ASSUME NEW a \in Resolver, ResolverStep(a) \/ ResolveFails(a) PROVE TypeOK'
  <2>. USE DEF ResolverRecord
  <2>1. CASE Validate(a)
    BY <2>1 DEF Validate, Goto, GiveUpOn, Final
  <2>2. CASE Land(a)
    <3>1. PushOf(a) \in Push /\ remote' \in [Ref -> Tip]
      BY <2>2, AppliedType DEF Land
    <3>. QED BY <2>2, <3>1 DEF Land, Goto, GiveUpOn, Final
  <2>3. CASE BeRefused(a)
    BY <2>3 DEF BeRefused, GiveUpOn, Final
  <2>4. CASE Tidy(a)
    BY <2>4 DEF Tidy, Goto, GiveUpOn, Final
  <2>5. CASE Cleanup(a)
    BY <2>5 DEF Cleanup, Goto
  <2>6. CASE Resolve(a)
    <3>1. row' \in [Push -> Final \cup {"none", "pending"}]
      BY <2>6 DEF Resolve
    <3>. QED BY <2>6, <3>1 DEF Resolve, Release, Idle
  <2>7. CASE ResolveFails(a)
    BY <2>7, PushConstants DEF ResolveFails, Release, Idle, Fault
  <2>. QED BY <1>3, <2>1, <2>2, <2>3, <2>4, <2>5, <2>6, <2>7 DEF ResolverStep, HelperStep
<1>4. CASE ProxyRestart
  BY <1>4, PushConstants DEF ProxyRestart, Fault
<1>5. CASE AdminRestart
  BY <1>5, PushConstants DEF AdminRestart, Fault, Idle, ResolverRecord
<1>6. CASE TokenChange
  BY <1>6, PushConstants DEF TokenChange, Fault
<1>7. ASSUME NEW r \in Ref, NEW tip \in Tip, Elsewhere(r, tip) PROVE TypeOK'
  BY <1>7, PushConstants DEF Elsewhere, Fault
<1>8. CASE UNCHANGED vars
  BY <1>8 DEF vars
<1>. QED BY <1>1, <1>2, <1>3, <1>4, <1>5, <1>6, <1>7, <1>8 DEF Next

(* Every reachable state is well typed.                                    *)
THEOREM GateTypeCorrect == Spec => []TypeOK
BY TypeInit, TypeNext, PTL DEF Spec

-----------------------------------------------------------------------------
(* The lock and the rows                                                   *)

(* RESOLVE_LOCK: two threads that resolve are the same.                    *)
LockOK == \A a, b \in Resolver : ~At(a, "idle") /\ ~At(b, "idle") => a = b

(* A row exists once the proxy has filed it, and nothing is decided about  *)
(* before.                                                                 *)
FiledOK ==
  \A p \in Push :
    /\ gate[p] \in {"new", "holding", "dropping", "denied"} => row[p] = "none"
    /\ gate[p] \in {"enqueued", "queued"} => row[p] # "none"
    /\ row[p] = "none" => p \notin decided

(* A resolution about to be recorded as approved has landed.               *)
OutcomeOK ==
  \A a \in Resolver :
    /\ ~At(a, "idle") => resolver[a].outcome \in Final
    /\ At(a, "cleanup") => resolver[a].outcome # "approved"
    /\ At(a, "tidy") \/ (At(a, "resolve") /\ resolver[a].outcome = "approved")
         => PushOf(a) \in landed

GateInv ==
  /\ TypeOK
  /\ LockOK
  /\ ResolverFindsPending
  /\ FiledOK
  /\ UndecidedIsWhole
  /\ OutcomeOK
  /\ ApprovedHasLanded

LEMMA GateInvInit == Init => GateInv
<1>. SUFFICES ASSUME Init PROVE GateInv
  OBVIOUS
<1>1. TypeOK
  BY TypeInit
<1>. QED BY <1>1 DEF Init, GateInv, LockOK, ResolverFindsPending, FiledOK,
            UndecidedIsWhole, OutcomeOK, ApprovedHasLanded, At, Idle

(* A decision begins: a thread takes the free lock for a pending push, and *)
(* it can end approved only by way of a replay.                            *)
Taken(a, p) ==
  /\ LockFree /\ row[p] = "pending" /\ decided' = decided \cup {p}
  /\ \E pc \in {"validate", "cleanup"}, outcome \in Final :
       /\ pc = "cleanup" => outcome # "approved"
       /\ resolver' = [resolver EXCEPT ![a] = [pc |-> pc, push |-> p, outcome |-> outcome]]
  /\ UNCHANGED <<remote, held, row, gate, landed>>

LEMMA TakenStep ==
  ASSUME NEW a \in Resolver, NEW p \in Push, Approve(a, p) \/ Reject(a, p)
  PROVE  Taken(a, p)
BY DEF Approve, Reject, Take, Taken, Final

LEMMA GateInvNext == GateInv /\ [Next]_vars => GateInv'
<1>. SUFFICES ASSUME GateInv, [Next]_vars PROVE GateInv'
  OBVIOUS
<1>0. TypeOK'
  BY TypeNext DEF GateInv
<1>. USE <1>0 DEF GateInv
<1>1. ASSUME NEW p \in Push, ProxyStep(p) PROVE GateInv'
  <2>1. UNCHANGED <<resolver, decided, landed>>
    BY <1>1 DEF ProxyStep, Hold, Quarantine, Enqueue, GiveUp, Answer
  <2>2. LockOK' /\ OutcomeOK'
    BY <2>1 DEF LockOK, OutcomeOK, At, PushOf
  <2>3. FiledOK'
    BY <1>1, <2>1 DEF FiledOK, TypeOK, ProxyStep, GateAt, Hold, Quarantine, Enqueue, GiveUp, Answer
  <2>4. \A q \in Push : row'[q] = row[q] \/ (row[q] = "none" /\ row'[q] = "pending")
    BY <1>1 DEF FiledOK, TypeOK, ProxyStep, GateAt, Hold, Quarantine, Enqueue, GiveUp, Answer
  <2>5. ResolverFindsPending' /\ ApprovedHasLanded'
    BY <2>1, <2>4 DEF ResolverFindsPending, ApprovedHasLanded, TypeOK, At, PushOf
  <2>6. UndecidedIsWhole'
    BY <1>1, <2>1 DEF UndecidedIsWhole, FiledOK, TypeOK, Kept, RefsOf, ProxyStep, GateAt,
       Hold, Quarantine, Enqueue, GiveUp, Answer
  <2>. QED BY <2>2, <2>3, <2>5, <2>6
<1>2. ASSUME NEW a \in Resolver, NEW p \in Push, Approve(a, p) \/ Reject(a, p)
      PROVE  GateInv'
  <2>1. Taken(a, p)
    BY <1>2, TakenStep
  <2>2. \A b \in Resolver : b # a => resolver'[b] = resolver[b] /\ At(b, "idle")
    BY <2>1 DEF Taken, LockFree, TypeOK
  <2>3. /\ resolver'[a].push = p /\ resolver'[a].pc \in {"validate", "cleanup"}
        /\ resolver'[a].outcome \in Final
        /\ resolver'[a].pc = "cleanup" => resolver'[a].outcome # "approved"
    BY <2>1 DEF Taken, TypeOK
  <2>4. LockOK' /\ OutcomeOK'
    BY <2>2, <2>3 DEF LockOK, OutcomeOK, At, PushOf
  <2>5. ResolverFindsPending'
    BY <2>1, <2>2, <2>3 DEF Taken, ResolverFindsPending, At, PushOf
  <2>6. FiledOK' /\ UndecidedIsWhole' /\ ApprovedHasLanded'
    BY <2>1 DEF Taken, FiledOK, UndecidedIsWhole, ApprovedHasLanded, Kept, RefsOf
  <2>. QED BY <2>4, <2>5, <2>6
<1>3. ASSUME NEW a \in Resolver, HelperStep(a) PROVE GateInv'
  <2>. USE DEF TypeOK, ResolverRecord, At, PushOf
  <2>1. /\ UNCHANGED <<row, gate, decided>> /\ landed \subseteq landed'
        /\ ~At(a, "idle")
        /\ \A b \in Resolver : b # a => resolver'[b] = resolver[b]
        /\ resolver'[a].push = resolver[a].push
    BY <1>3 DEF HelperStep, Validate, Land, BeRefused, Tidy, Cleanup, Goto, GiveUpOn
  <2>2. LockOK'
    BY <2>1 DEF LockOK
  <2>3. ResolverFindsPending' /\ FiledOK' /\ ApprovedHasLanded'
    BY <2>1 DEF ResolverFindsPending, FiledOK, ApprovedHasLanded
  <2>4. \A p \in Push : p # PushOf(a) => held'[p] = held[p]
    BY <1>3 DEF HelperStep, Validate, Land, BeRefused, Tidy, Cleanup
  <2>5. UndecidedIsWhole'
    BY <2>1, <2>4 DEF UndecidedIsWhole, Kept, RefsOf
  <2>6. OutcomeOK'
    <3>1. /\ resolver'[a].outcome \in Final /\ resolver'[a].pc # "idle"
          /\ resolver'[a].pc = "cleanup" => resolver'[a].outcome # "approved"
          /\ resolver'[a].pc = "tidy" \/ (resolver'[a].pc = "resolve" /\ resolver'[a].outcome = "approved")
               => resolver[a].push \in landed'
      <4>1. CASE Validate(a)
        BY <4>1 DEF Validate, Goto, GiveUpOn, OutcomeOK, Final
      <4>2. CASE Land(a)
        BY <4>2 DEF Land, Goto, GiveUpOn, OutcomeOK, Final
      <4>3. CASE BeRefused(a)
        BY <4>3 DEF BeRefused, GiveUpOn, OutcomeOK, Final
      <4>4. CASE Tidy(a)
        BY <4>4 DEF Tidy, Goto, GiveUpOn, OutcomeOK, Final
      <4>5. CASE Cleanup(a)
        BY <4>5 DEF Cleanup, Goto, OutcomeOK, Final
      <4>. QED BY <1>3, <4>1, <4>2, <4>3, <4>4, <4>5 DEF HelperStep
    <3>. QED BY <2>1, <3>1 DEF OutcomeOK
  <2>. QED BY <2>2, <2>3, <2>5, <2>6
<1>4. ASSUME NEW a \in Resolver, Resolve(a) PROVE GateInv'
  <2>. USE DEF TypeOK, ResolverRecord, At, PushOf
  <2>1. /\ UNCHANGED <<held, gate, decided, landed>>
        /\ resolver'[a] = Idle
        /\ \A b \in Resolver : b # a => resolver'[b] = resolver[b]
        /\ \A p \in Push : p # PushOf(a) => row'[p] = row[p]
        /\ row[PushOf(a)] = "pending" /\ row'[PushOf(a)] = resolver[a].outcome
        /\ resolver[a].outcome \in Final
    BY <1>4 DEF Resolve, Release, ResolverFindsPending, OutcomeOK
  <2>2. LockOK'
    BY <2>1 DEF LockOK, Idle
  <2>5. OutcomeOK'
    <3>. SUFFICES ASSUME NEW b \in Resolver, b # a
                  PROVE  (/\ ~At(b, "idle") => resolver[b].outcome \in Final
                          /\ At(b, "cleanup") => resolver[b].outcome # "approved"
                          /\ At(b, "tidy") \/ (At(b, "resolve") /\ resolver[b].outcome = "approved")
                               => PushOf(b) \in landed)'
      BY <2>1 DEF OutcomeOK, Idle
    <3>. QED BY <2>1 DEF OutcomeOK
  <2>3. ResolverFindsPending'
    <3>. SUFFICES ASSUME NEW b \in Resolver, ~At(b, "idle")' PROVE row'[PushOf(b)'] = "pending"
      BY DEF ResolverFindsPending
    <3>1. b # a
      BY <2>1 DEF Idle
    <3>. QED BY <1>4, <2>1, <3>1 DEF LockOK, Resolve
  <2>4. FiledOK' /\ UndecidedIsWhole' /\ ApprovedHasLanded'
    BY <1>4, <2>1 DEF FiledOK, UndecidedIsWhole, ApprovedHasLanded, OutcomeOK, Kept, RefsOf, Final, Resolve
  <2>. QED BY <2>2, <2>3, <2>4, <2>5
<1>5. ASSUME NEW a \in Resolver, ResolveFails(a) PROVE GateInv'
  <2>. USE DEF TypeOK
  <2>1. /\ UNCHANGED <<held, row, gate, decided, landed>>
        /\ \A b \in Resolver : resolver'[b] = resolver[b] \/ resolver'[b] = Idle
    BY <1>5 DEF ResolveFails, Release
  <2>2. LockOK' /\ ResolverFindsPending'
    BY <2>1 DEF LockOK, ResolverFindsPending, At, PushOf, Idle
  <2>3. OutcomeOK'
    BY <2>1 DEF OutcomeOK, At, PushOf, Idle
  <2>4. FiledOK' /\ UndecidedIsWhole' /\ ApprovedHasLanded'
    BY <2>1 DEF FiledOK, UndecidedIsWhole, ApprovedHasLanded, Kept, RefsOf
  <2>. QED BY <2>2, <2>3, <2>4
<1>6. CASE AdminRestart
  BY <1>6 DEF AdminRestart, LockOK, ResolverFindsPending, FiledOK, UndecidedIsWhole, OutcomeOK,
     ApprovedHasLanded, At, PushOf, Idle, Kept, RefsOf
<1>7. CASE ProxyRestart
  <2>1. UNCHANGED <<held, row, resolver, decided, landed>>
    BY <1>7 DEF ProxyRestart
  <2>2. FiledOK'
    BY <1>7 DEF ProxyRestart, FiledOK
  <2>. QED BY <2>1, <2>2 DEF LockOK, ResolverFindsPending, UndecidedIsWhole, OutcomeOK,
              ApprovedHasLanded, At, PushOf, Kept, RefsOf
<1>8. CASE TokenChange \/ (\E r \in Ref, tip \in Tip : Elsewhere(r, tip)) \/ UNCHANGED vars
  <2>1. UNCHANGED <<held, row, gate, resolver, decided, landed>>
    BY <1>8 DEF TokenChange, Elsewhere, vars
  <2>. QED BY <2>1 DEF LockOK, ResolverFindsPending, FiledOK, UndecidedIsWhole, OutcomeOK,
              ApprovedHasLanded, At, PushOf, Kept, RefsOf
<1>. QED BY <1>1, <1>2, <1>3, <1>4, <1>5, <1>6, <1>7, <1>8 DEF Next, ResolverStep

LEMMA GateInvariant == Spec => []GateInv
BY GateInvInit, GateInvNext, PTL DEF Spec

(* The thread that resolves a push always finds its row pending.           *)
THEOREM ResolversFindPending == Spec => []ResolverFindsPending
BY GateInvariant, PTL DEF GateInv

(* A row nobody has decided about has all its commits in the mirror.       *)
THEOREM UndecidedAreWhole == Spec => []UndecidedIsWhole
BY GateInvariant, PTL DEF GateInv

(* An approved push has landed.                                            *)
THEOREM ApprovedLanded == Spec => []ApprovedHasLanded
BY GateInvariant, PTL DEF GateInv

(* A push reported queued has a row; one reported denied has none and      *)
(* never reaches GitHub.                                                   *)
THEOREM AnswersTrue == Spec => []AnswerIsTrue
<1>1. GateInv => AnswerIsTrue
  BY DEF GateInv, TypeOK, FiledOK, AnswerIsTrue
<1>. QED BY <1>1, GateInvariant, PTL

-----------------------------------------------------------------------------
(* Steps                                                                   *)

(* Only a resolution changes a row that exists, and only a replay makes a  *)
(* push land; both are of a push whose row is pending.                     *)
LEMMA PendingMoves ==
  ASSUME GateInv, [Next]_vars, NEW p \in Push, row[p] \in Final
  PROVE  row'[p] = row[p] /\ (p \in landed' => p \in landed)
<1>. USE DEF GateInv, TypeOK, Final
<1>1. ASSUME NEW q \in Push, ProxyStep(q) PROVE row'[p] = row[p] /\ landed' = landed
  <2>1. gate[q] \in {"new", "holding", "dropping"} => q # p
    BY DEF FiledOK
  <2>. QED BY <1>1, <2>1 DEF ProxyStep, Hold, Quarantine, Enqueue, GiveUp, Answer, GateAt
<1>2. ASSUME NEW a \in Resolver, ResolverStep(a) \/ ResolveFails(a)
      PROVE  row'[p] = row[p] /\ (p \in landed' => p \in landed)
  <2>1. ~At(a, "idle") => PushOf(a) # p
    BY DEF ResolverFindsPending
  <2>. QED BY <1>2, <2>1 DEF ResolverStep, HelperStep, Validate, Land, BeRefused, Tidy, Cleanup,
              Resolve, ResolveFails, At, PushOf
<1>3. ASSUME NEW a \in Resolver, NEW q \in Push, Approve(a, q) \/ Reject(a, q)
      PROVE  row' = row /\ landed' = landed
  BY <1>3, TakenStep DEF Taken
<1>4. CASE ProxyRestart \/ AdminRestart \/ TokenChange \/ UNCHANGED vars
           \/ (\E r \in Ref, tip \in Tip : Elsewhere(r, tip))
  BY <1>4 DEF ProxyRestart, AdminRestart, TokenChange, Elsewhere, vars
<1>. QED BY <1>1, <1>2, <1>3, <1>4 DEF Next

(* A resolution is final, for the row and for GitHub.                      *)
THEOREM ResolutionsFinal == Spec => ResolvedIsFinal
<1>1. GateInv /\ [Next]_vars =>
        [\A p \in Push : row[p] \in Final =>
           row'[p] = row[p] /\ (p \in landed' => p \in landed)]_vars
  BY PendingMoves
<1>. QED BY <1>1, GateInvariant, PTL DEF Spec, ResolvedIsFinal

(* What a replay puts on GitHub is one decided, still pending push, whole  *)
(* and from the state the operator saw.                                    *)
LEMMA ReplayMoves ==
  ASSUME GateInv, NEW a \in Resolver, Land(a)
  PROVE  \E p \in Push :
           /\ row[p] = "pending" /\ p \in decided
           /\ \A r \in Ref : remote'[r] # remote[r] =>
                r \in RefsOf(p) /\ remote[r] = UpdatesOf[p][r].old
           /\ \A r \in RefsOf(p) : remote'[r] = UpdatesOf[p][r].new
<1>1. /\ PushOf(a) \in Push /\ PushOf(a) \in decided
      /\ row[PushOf(a)] = "pending"
  BY DEF GateInv, TypeOK, ResolverFindsPending, Land, At
<1>2. RefsOf(PushOf(a)) \subseteq Ref
  BY <1>1, PushConstants DEF RefsOf
<1>3. \A r \in RefsOf(PushOf(a)) : remote'[r] = UpdatesOf[PushOf(a)][r].new
  BY <1>2 DEF Land, Applied
<1>4. ASSUME NEW r \in Ref, remote'[r] # remote[r]
      PROVE  r \in RefsOf(PushOf(a)) /\ remote[r] = UpdatesOf[PushOf(a)][r].old
  <2>1. r \in RefsOf(PushOf(a))
    BY <1>4 DEF Land, Applied
  <2>2. Admits(UpdatesOf[PushOf(a)][r], remote[r])
    BY <2>1 DEF Land, Applicable
  <2>. QED BY <1>3, <1>4, <2>1, <2>2 DEF Admits
<1>. QED BY <1>1, <1>3, <1>4

(* GitHub changes by a replay of that kind only.                           *)
THEOREM LandingsReviewed == Spec => LandsAsReviewed
<1>1. ASSUME GateInv, [Next]_vars, remote' # remote
      PROVE  \/ \E r \in Ref, tip \in Tip : Elsewhere(r, tip)
             \/ \E a \in Resolver : Land(a)
  <2>1. ASSUME NEW p \in Push, ProxyStep(p) PROVE FALSE
    BY <1>1, <2>1 DEF ProxyStep, Hold, Quarantine, Enqueue, GiveUp, Answer
  <2>2. ASSUME NEW a \in Resolver, NEW p \in Push, Approve(a, p) \/ Reject(a, p) PROVE FALSE
    BY <1>1, <2>2, TakenStep DEF Taken
  <2>3. ASSUME NEW a \in Resolver, ResolverStep(a) \/ ResolveFails(a) PROVE Land(a)
    BY <1>1, <2>3 DEF ResolverStep, HelperStep, Validate, BeRefused, Tidy, Cleanup, Resolve, ResolveFails
  <2>4. ~(ProxyRestart \/ AdminRestart \/ TokenChange \/ UNCHANGED vars)
    BY <1>1 DEF ProxyRestart, AdminRestart, TokenChange, vars
  <2>. QED BY <1>1, <2>1, <2>2, <2>3, <2>4 DEF Next
<1>2. GateInv /\ [Next]_vars =>
        [remote' # remote =>
           \/ \E r \in Ref, tip \in Tip : Elsewhere(r, tip)
           \/ \E p \in Push :
                /\ row[p] = "pending" /\ p \in decided
                /\ \A r \in Ref : remote'[r] # remote[r] =>
                     r \in RefsOf(p) /\ remote[r] = UpdatesOf[p][r].old
                /\ \A r \in RefsOf(p) : remote'[r] = UpdatesOf[p][r].new]_vars
  BY <1>1, ReplayMoves
<1>. QED BY <1>2, GateInvariant, PTL DEF Spec, LandsAsReviewed

-----------------------------------------------------------------------------
(* GithubCredential.                                                       *)

\* The places of a thread that holds _CREDENTIAL_LOCK, and those of one that is
\* about to publish a token whatever the policy has become.
Locked == {"write", "reconcile", "mint", "publish", "withdraw", "remove"}
Publishing == {"mint", "publish"}

\* What a thread has read fits what it is about to write.
ThreadOK(t) ==
    /\ lock = t <=> thread[t].at \in Locked
    /\ thread[t].at \in Publishing \cup {"fetch"} => thread[t].key \in Keys
    /\ thread[t].at = "save" => t \in Operators

\* An operator's job that has not got the lock yet.
Waits == \E t \in Operators : ThreadAt(t, "lock")

\* A thread that has yet to look at the policy, or has found it off.
Withdraws == \E t \in Threads : thread[t].at \in {"write", "reconcile", "withdraw"}

\* While nothing fails: a token that outlives its policy has a thread that will
\* withdraw it; and whoever is about to publish one is followed by the
\* publication that turned the policy off.
OffOK ==
    failures = 0 /\ ~policy.enabled =>
       /\ working # Nothing => Waits \/ Withdraws
       /\ \A t \in Threads : thread[t].at \in Publishing => Waits

CredentialInv == CredentialTypeOK /\ (\A t \in Threads : ThreadOK(t)) /\ OffOK


ThreadRecord == [at : Places, job : Jobs, key : Keys \cup {Nothing}, policy : Policies,
                 fresh : BOOLEAN, force : BOOLEAN, due : SUBSET Repos]

LEMMA NothingApart == Nothing \notin Tokens /\ Nothing \notin Facts
<1>1. ASSUME NEW x \in Tokens PROVE x # Nothing
  BY <1>1 DEF Tokens, Nothing
<1>2. ASSUME NEW x \in Facts PROVE x # Nothing
  BY <1>2 DEF Facts, Nothing
<1>. QED BY <1>1, <1>2

LEMMA IdleType == IdleThread \in ThreadRecord /\ Off \in Policies
BY DEF IdleThread, ThreadRecord, Places, Jobs, Policies

\* Whatever a thread does, its own record stays a record, and only it moves.
LEMMA ThreadType == CredentialTypeOK /\ [CredentialNext]_credentialVars => thread' \in [Threads -> ThreadRecord]
<1>. SUFFICES ASSUME CredentialTypeOK, CredentialNext PROVE thread' \in [Threads -> ThreadRecord]
  BY DEF CredentialTypeOK, credentialVars, ThreadRecord
<1>0. thread \in [Threads -> ThreadRecord] /\ policy \in Policies /\ working \in Tokens \cup {Nothing}
      /\ credential \in Keys \cup {Nothing}
  BY DEF CredentialTypeOK, ThreadRecord
<1>p. policy.repos \in SUBSET Repos
  <2>1. Off.repos \in SUBSET Repos
    BY DEF Off
  <2>2. ASSUME policy \in [enabled : {TRUE}, repos : SUBSET Repos] PROVE policy.repos \in SUBSET Repos
    BY <2>2
  <2>. QED BY <1>0, <2>1, <2>2 DEF Policies
<1>. USE <1>0, IdleType
<1>1. ASSUME NEW t \in Threads, Step(t) PROVE thread' \in [Threads -> ThreadRecord]
  <2>1. CASE PublishSave(t)
    <3>1. [thread[t] EXCEPT !.at = "lock", !.policy = Off] \in ThreadRecord
      BY DEF ThreadRecord, Places
    <3>2. thread' = [thread EXCEPT ![t] = [thread[t] EXCEPT !.at = "lock", !.policy = Off]]
      BY <2>1 DEF PublishSave
    <3>. QED BY <3>1, <3>2
  <2>2. CASE Acquire(t)
    BY <2>2 DEF Acquire, MovesTo, ThreadRecord, Places
  <2>3. CASE WriteCredential(t)
    BY <2>3 DEF WriteCredential, MovesTo, ThreadRecord, Places
  <2>l. ASSUME Leave(t) PROVE thread' \in [Threads -> ThreadRecord]
    BY <2>l DEF Leave, ThreadRecord, Places, IdleThread, Jobs
  <2>4. CASE Reconcile(t)
    <3>1. CASE credential = Nothing \/ ~policy.enabled
      BY <2>4, <3>1 DEF Reconcile, MovesTo, ThreadRecord, Places
    <3>2. CASE ~(credential = Nothing \/ ~policy.enabled) /\ credential \in Apps /\ Keeps(t)
      BY <2>4, <3>2, <2>l DEF Reconcile
    <3>3. CASE ~(credential = Nothing \/ ~policy.enabled) /\ ~(credential \in Apps /\ Keeps(t))
      BY <2>4, <3>3 DEF Reconcile, ThreadRecord, Places
    <3>. QED BY <3>1, <3>2, <3>3
  <2>5. CASE Publish(t) \/ Remove(t)
    BY <2>5, <2>l DEF Publish, Remove
  <2>6. CASE Withdraw(t)
    BY <2>6, <2>l DEF Withdraw, MovesTo, ThreadRecord, Places
  <2>7. CASE AuditRead(t)
    <3>1. [thread[t] EXCEPT !.at = "check", !.due = policy.repos] \in ThreadRecord
      BY <1>p DEF ThreadRecord, Places
    <3>2. \/ thread' = [thread EXCEPT ![t] = IdleThread]
          \/ thread' = [thread EXCEPT ![t] = [thread[t] EXCEPT !.at = "check", !.due = policy.repos]]
      BY <2>7 DEF AuditRead
    <3>. QED BY <3>1, <3>2
  <2>8. CASE AuditToken(t)
    <3>1. CASE working = Nothing
      BY <2>8, <3>1 DEF AuditToken
    <3>2. CASE working # Nothing
      <4>. DEFINE due == {r \in thread[t].due : thread[t].force \/ ~Fresh(audits[r])}
      <4>1. due \in SUBSET Repos /\ working.key \in Keys
        BY <3>2 DEF ThreadRecord, Tokens
      <4>2. thread' = [thread EXCEPT ![t] = IF due = {} THEN IdleThread
                                           ELSE [@ EXCEPT !.at = "fetch", !.due = due, !.key = working.key]]
        BY <2>8, <3>2 DEF AuditToken
      <4>3. [thread[t] EXCEPT !.at = "fetch", !.due = due, !.key = working.key] \in ThreadRecord
        BY <4>1 DEF ThreadRecord, Places
      <4>. HIDE DEF due
      <4>. QED BY <4>2, <4>3
    <3>. QED BY <3>1, <3>2
  <2>9. CASE AuditSave(t)
    BY <2>9 DEF AuditSave
  <2>. QED BY <1>1, <2>1, <2>2, <2>3, <2>4, <2>5, <2>6, <2>7, <2>8, <2>9 DEF Step
<1>2. ASSUME NEW t \in Threads, DatabaseFails(t) PROVE thread' \in [Threads -> ThreadRecord]
  BY <1>2 DEF DatabaseFails
<1>3. ASSUME NEW t \in Threads, NEW job \in Jobs, NEW key \in Keys \cup {Nothing}, NEW fresh \in BOOLEAN,
             NEW force \in BOOLEAN, Begin(t, job, key, fresh, force)
      PROVE  thread' \in [Threads -> ThreadRecord]
  BY <1>3 DEF Begin, ThreadRecord, Places, IdleThread
<1>4. ASSUME NEW t \in Operators, Request(t) PROVE thread' \in [Threads -> ThreadRecord]
  <2>1. CASE PublishRead(t)
    <3>1. PICK p \in Policies :
            thread' = [thread EXCEPT ![t] = [IdleThread EXCEPT !.at = "save", !.policy = p,
                                                  !.fresh = p # policy, !.force = p # policy]]
      BY <2>1 DEF PublishRead
    <3>2. (p # policy) \in BOOLEAN
      OBVIOUS
    <3>. QED BY <3>1, <3>2 DEF ThreadRecord, Places, IdleThread
  <2>2. CASE SetCredential(t) \/ Delete(t) \/ Recheck(t)
    BY <2>2, <1>3 DEF SetCredential, Delete, Recheck, Threads, Jobs
  <2>. QED BY <1>4, <2>1, <2>2 DEF Request
<1>5. CASE Poll
  BY <1>5, <1>3 DEF Poll, Threads, Jobs
<1>6. CASE TokenAges \/ (\E r \in Repos : AuditAges(r))
  BY <1>6 DEF TokenAges, AuditAges
<1>7. CASE Restart
  BY <1>7 DEF Restart, ThreadRecord, IdleThread, Places, Jobs
<1>. QED BY <1>1, <1>2, <1>4, <1>5, <1>6, <1>7 DEF CredentialNext

\* What a thread writes is of its type, because what it has read is.
LEMMA RowTypes ==
  ASSUME CredentialTypeOK, \A t \in Threads : ThreadOK(t), [CredentialNext]_credentialVars
  PROVE  /\ policy' \in Policies /\ credential' \in Keys \cup {Nothing}
         /\ working' \in Tokens \cup {Nothing} /\ lock' \in Threads \cup {Nothing}
         /\ failures' \in 0 .. MaxFailures
<1>. DEFINE Good == /\ policy' \in Policies /\ credential' \in Keys \cup {Nothing}
                    /\ working' \in Tokens \cup {Nothing} /\ lock' \in Threads \cup {Nothing}
                    /\ failures' \in 0 .. MaxFailures
<1>0. /\ policy \in Policies /\ credential \in Keys \cup {Nothing}
      /\ working \in Tokens \cup {Nothing} /\ lock \in Threads \cup {Nothing}
      /\ failures \in 0 .. MaxFailures /\ MaxFailures \in Nat
      /\ \A t \in Threads : thread[t].policy \in Policies /\ thread[t].key \in Keys \cup {Nothing}
  BY FaultsAssumption DEF CredentialTypeOK
<1>1. ASSUME NEW t \in Threads, Step(t) PROVE Good
  <2>1. CASE Publish(t)
    <3>1. thread[t].key \in Keys
      BY <2>1 DEF Publish, ThreadOK, Publishing
    <3>2. working' \in Tokens
      <4>1. (thread[t].key \in Pats) \in BOOLEAN
        OBVIOUS
      <4>. QED BY <2>1, <3>1, <4>1 DEF Publish, Tokens
    <3>. QED BY <1>0, <2>1, <3>2 DEF Publish, Leave
  <2>2. CASE ~Publish(t)
    BY <1>0, <1>1, <2>2 DEF Step, PublishSave, Acquire, WriteCredential, Reconcile, Withdraw, Remove,
                            AuditRead, AuditToken, AuditSave, Leave
  <2>. QED BY <2>1, <2>2
<1>2. ASSUME NEW t \in Threads, DatabaseFails(t) PROVE Good
  BY <1>0, <1>2 DEF DatabaseFails
<1>3. CASE Poll \/ (\E t \in Operators : Request(t)) \/ (\E r \in Repos : AuditAges(r)) \/ UNCHANGED credentialVars
  BY <1>0, <1>3 DEF Poll, Request, PublishRead, SetCredential, Delete, Recheck, Begin, AuditAges, credentialVars
<1>4. CASE TokenAges
  <2>1. working \in Tokens
    BY <1>0, <1>4 DEF TokenAges
  <2>. QED BY <1>0, <1>4, <2>1 DEF TokenAges, Tokens
<1>5. CASE Restart
  BY <1>0, <1>5 DEF Restart
<1>6. ASSUME CredentialNext PROVE Good
  BY <1>1, <1>2, <1>3, <1>4, <1>5, <1>6 DEF CredentialNext
<1>7. Good
  BY <1>3, <1>6
<1>. QED BY <1>7

LEMMA AuditTypes ==
  ASSUME CredentialTypeOK, \A t \in Threads : ThreadOK(t), [CredentialNext]_credentialVars
  PROVE  audits' \in [Repos -> Facts \cup {Error, Nothing}]
<1>0. audits \in [Repos -> Facts \cup {Error, Nothing}]
  BY DEF CredentialTypeOK
<1>1. ASSUME NEW t \in Threads, AuditSave(t) PROVE audits' \in [Repos -> Facts \cup {Error, Nothing}]
  <2>1. [key |-> thread[t].key, fresh |-> TRUE] \in Facts
    BY <1>1 DEF AuditSave, ThreadAt, ThreadOK, Facts
  <2>. QED BY <1>0, <1>1, <2>1 DEF AuditSave
<1>2. ASSUME NEW t \in Threads, Step(t), ~AuditSave(t) PROVE audits' \in [Repos -> Facts \cup {Error, Nothing}]
  BY <1>0, <1>2 DEF Step, PublishSave, Acquire, WriteCredential, Reconcile, Publish, Withdraw, Remove,
                    AuditRead, AuditToken
<1>3. ASSUME NEW r \in Repos, AuditAges(r) PROVE audits' \in [Repos -> Facts \cup {Error, Nothing}]
  <2>1. audits[r] \in Facts
    BY <1>0, <1>3 DEF AuditAges, Fresh
  <2>. QED BY <1>0, <1>3, <2>1 DEF AuditAges, Facts
<1>4. ASSUME \/ \E t \in Threads : DatabaseFails(t)
             \/ Poll \/ (\E t \in Operators : Request(t)) \/ TokenAges \/ Restart \/ UNCHANGED credentialVars
      PROVE  audits' = audits
  BY <1>4 DEF DatabaseFails, Poll, Request, PublishRead, SetCredential, Delete, Recheck, Begin, TokenAges,
              Restart, credentialVars
<1>. QED BY <1>0, <1>1, <1>2, <1>3, <1>4 DEF CredentialNext

\* Only the moving thread's record changes, and it goes from place to place as
\* the lock allows; what it is to publish it has read under the lock.
LEMMA ThreadsKeep ==
  ASSUME CredentialTypeOK, \A t \in Threads : ThreadOK(t), [CredentialNext]_credentialVars
  PROVE  \A t \in Threads : ThreadOK(t)'
<1>0. /\ thread \in [Threads -> ThreadRecord] /\ lock \in Threads \cup {Nothing}
      /\ credential \in Keys \cup {Nothing} /\ working \in Tokens \cup {Nothing}
  BY DEF CredentialTypeOK, ThreadRecord
<1>. USE NothingAssumption DEF ThreadOK, Locked, Publishing
<1>l. ASSUME NEW t \in Threads, lock = t, Leave(t) PROVE \A u \in Threads : ThreadOK(u)'
  BY <1>0, <1>l DEF Leave, IdleThread
<1>m. ASSUME NEW t \in Threads, NEW place \in Places, MovesTo(t, place), lock' = lock, lock = t,
             place \in Locked \ Publishing
      PROVE  \A u \in Threads : ThreadOK(u)'
  BY <1>0, <1>m DEF MovesTo, ThreadRecord
<1>s. ASSUME NEW t \in Threads, lock # t, lock' = lock, thread'[t].at \notin Locked \cup {"fetch"},
             thread'[t].at = "save" => t \in Operators,
             \A u \in Threads \ {t} : thread'[u] = thread[u]
      PROVE  \A u \in Threads : ThreadOK(u)'
  BY <1>0, <1>s
<1>1. ASSUME NEW t \in Threads, Step(t) PROVE \A u \in Threads : ThreadOK(u)'
  <2>1. CASE PublishSave(t)
    BY <1>0, <1>s, <2>1 DEF PublishSave, ThreadAt, ThreadRecord
  <2>2. CASE Acquire(t)
    BY <1>0, <2>2 DEF Acquire, MovesTo, ThreadAt, Free, ThreadRecord
  <2>3. CASE WriteCredential(t)
    BY <1>m, <2>3 DEF WriteCredential, ThreadAt, Places
  <2>4. CASE Reconcile(t)
    <3>0. lock = t
      BY <2>4 DEF Reconcile, ThreadAt
    <3>1. CASE credential = Nothing \/ ~policy.enabled
      BY <1>m, <2>4, <3>0, <3>1 DEF Reconcile, Places
    <3>2. CASE ~(credential = Nothing \/ ~policy.enabled) /\ credential \in Apps /\ Keeps(t)
      BY <1>l, <2>4, <3>0, <3>2 DEF Reconcile
    <3>3. CASE ~(credential = Nothing \/ ~policy.enabled) /\ ~(credential \in Apps /\ Keeps(t))
      BY <1>0, <2>4, <3>0, <3>3 DEF Reconcile, ThreadRecord
    <3>. QED BY <3>1, <3>2, <3>3
  <2>5. CASE Publish(t) \/ Remove(t)
    BY <1>l, <2>5 DEF Publish, Remove, ThreadAt
  <2>6. CASE Withdraw(t)
    BY <1>l, <1>m, <2>6 DEF Withdraw, ThreadAt, Places
  <2>7. CASE AuditRead(t)
    BY <1>0, <1>s, <2>7 DEF AuditRead, ThreadAt, IdleThread, ThreadRecord
  <2>8. CASE AuditToken(t)
    <3>1. working # Nothing => working.key \in Keys
      BY <1>0 DEF Tokens
    <3>2. lock # t /\ lock' = lock
      BY <2>8 DEF AuditToken, ThreadAt
    <3>3. CASE working = Nothing
      BY <1>s, <1>0, <2>8, <3>2, <3>3 DEF AuditToken, IdleThread, ThreadRecord
    <3>4. CASE working # Nothing
      <4>. DEFINE due == {r \in thread[t].due : thread[t].force \/ ~Fresh(audits[r])}
      <4>1. thread' = [thread EXCEPT ![t] = IF due = {} THEN IdleThread
                                           ELSE [@ EXCEPT !.at = "fetch", !.due = due, !.key = working.key]]
        BY <2>8, <3>4 DEF AuditToken
      <4>. HIDE DEF due
      <4>. QED BY <1>0, <3>1, <3>2, <3>4, <4>1 DEF IdleThread, ThreadRecord
    <3>. QED BY <3>3, <3>4
  <2>9. CASE AuditSave(t)
    BY <1>0, <1>s, <2>9 DEF AuditSave, ThreadAt, IdleThread, ThreadRecord
  <2>. QED BY <1>1, <2>1, <2>2, <2>3, <2>4, <2>5, <2>6, <2>7, <2>8, <2>9 DEF Step
<1>2. ASSUME NEW t \in Threads, DatabaseFails(t) PROVE \A u \in Threads : ThreadOK(u)'
  BY <1>0, <1>2 DEF DatabaseFails, IdleThread
<1>3. ASSUME NEW t \in Threads, NEW job \in Jobs, NEW key, NEW fresh, NEW force, Begin(t, job, key, fresh, force)
      PROVE  \A u \in Threads : ThreadOK(u)'
  BY <1>0, <1>s, <1>3 DEF Begin, ThreadAt, IdleThread, ThreadRecord
<1>4. ASSUME NEW t \in Operators, Request(t) PROVE \A u \in Threads : ThreadOK(u)'
  <2>1. CASE PublishRead(t)
    BY <1>0, <1>s, <2>1 DEF PublishRead, ThreadAt, IdleThread, ThreadRecord, Threads
  <2>. QED BY <1>3, <1>4, <2>1 DEF Request, SetCredential, Delete, Recheck, Threads, Jobs
<1>5. CASE Poll
  BY <1>3, <1>5 DEF Poll, Threads, Jobs
<1>6. CASE TokenAges \/ (\E r \in Repos : AuditAges(r)) \/ UNCHANGED credentialVars
  BY <1>6 DEF TokenAges, AuditAges, credentialVars
<1>7. CASE Restart
  BY <1>0, <1>7 DEF Restart, IdleThread
<1>. QED BY <1>1, <1>2, <1>4, <1>5, <1>6, <1>7 DEF CredentialNext

\* Who takes a token away, seen from the policy and the token.
LEMMA OffKeeps ==
  ASSUME CredentialInv, [CredentialNext]_credentialVars PROVE OffOK'
<1>0. /\ thread \in [Threads -> ThreadRecord] /\ lock \in Threads \cup {Nothing}
      /\ failures \in Nat /\ Operators \subseteq Threads
      /\ \A t \in Threads : ThreadOK(t)
      /\ OffOK
  BY FaultsAssumption DEF CredentialInv, CredentialTypeOK, ThreadRecord, Threads
<1>. SUFFICES ASSUME failures' = 0, ~policy'.enabled
              PROVE  /\ working' # Nothing => Waits' \/ Withdraws'
                     /\ \A t \in Threads : thread'[t].at \in Publishing => Waits'
  BY DEF OffOK
<1>. DEFINE Goal == /\ working' # Nothing => Waits' \/ Withdraws'
                    /\ \A t \in Threads : thread'[t].at \in Publishing => Waits'
<1>. HIDE DEF Goal
<1>h. SUFFICES Goal
  BY DEF Goal
<1>w. ASSUME NEW t \in Operators, thread'[t].at = "lock" PROVE Goal
  BY <1>w DEF Goal, Waits, ThreadAt
\* A step of a thread that neither waits nor decides about the token.
<1>s. ASSUME NEW t \in Threads, thread[t].at \notin {"write", "reconcile", "withdraw", "lock"},
             thread'[t].at \notin Publishing, failures = 0, policy' = policy, working' = working,
             \A u \in Threads \ {t} : thread'[u] = thread[u]
      PROVE  Goal
  BY <1>0, <1>s DEF Goal, OffOK, Waits, Withdraws, ThreadAt
<1>1. ASSUME NEW t \in Threads, Step(t) PROVE Goal
  <2>0. failures = 0
    BY <1>1 DEF Step, PublishSave, Acquire, WriteCredential, Reconcile, Publish, Withdraw, Remove,
                AuditRead, AuditToken, AuditSave
  <2>1. CASE PublishSave(t)
    BY <1>0, <1>w, <2>1 DEF PublishSave, ThreadAt, ThreadOK, ThreadRecord
  <2>2. CASE Acquire(t)
    <3>1. \A u \in Threads : thread[u].at \notin Locked
      BY <1>0, <2>2, NothingAssumption DEF Acquire, Free, ThreadOK
    <3>2. thread'[t].at \in {"write", "reconcile", "withdraw"}
      BY <1>0, <2>2 DEF Acquire, MovesTo, ThreadRecord
    <3>. QED BY <1>0, <2>2, <3>1, <3>2
             DEF Acquire, MovesTo, ThreadAt, Goal, Withdraws, Locked, Publishing, ThreadRecord
  <2>3. CASE WriteCredential(t)
    <3>1. thread'[t].at = "reconcile" /\ \A u \in Threads \ {t} : thread'[u] = thread[u]
      BY <1>0, <2>3 DEF WriteCredential, MovesTo, ThreadRecord
    <3>. QED BY <1>0, <2>0, <2>3, <3>1
             DEF WriteCredential, ThreadAt, Goal, Waits, Withdraws, OffOK, Publishing
  <2>4. CASE Reconcile(t)
    <3>1. thread' = [thread EXCEPT ![t].at = "withdraw"]
      BY <2>4 DEF Reconcile, MovesTo
    <3>2. thread'[t].at = "withdraw" /\ \A u \in Threads \ {t} : thread'[u] = thread[u]
      BY <1>0, <3>1 DEF ThreadRecord
    <3>. QED BY <1>0, <2>0, <2>4, <3>2
             DEF Reconcile, ThreadAt, Goal, Waits, Withdraws, OffOK, Publishing
  <2>5. CASE Publish(t)
    <3>1. Waits
      BY <1>0, <2>0, <2>5 DEF Publish, OffOK, Publishing
    <3>2. \A u \in Threads \ {t} : thread'[u] = thread[u]
      BY <1>0, <2>5 DEF Publish, Leave
    <3>. QED BY <1>0, <2>5, <3>1, <3>2, <1>w DEF Publish, Waits, ThreadAt
  <2>6. CASE Withdraw(t)
    <3>1. working' = Nothing
      BY <2>6 DEF Withdraw
    <3>2. thread'[t].at \notin Publishing /\ \A u \in Threads \ {t} : thread'[u] = thread[u]
      <4>1. CASE MovesTo(t, "remove")
        BY <1>0, <4>1 DEF MovesTo, Publishing, ThreadRecord
      <4>2. CASE Leave(t)
        BY <1>0, <4>2 DEF Leave, IdleThread, Publishing
      <4>. QED BY <2>6, <4>1, <4>2 DEF Withdraw
    <3>3. ASSUME NEW u \in Threads, thread'[u].at \in Publishing PROVE Goal
      <4>1. thread[u].at \in Publishing /\ ~policy.enabled
        BY <2>6, <3>2, <3>3 DEF Withdraw
      <4>2. PICK v \in Operators : ThreadAt(v, "lock")
        BY <1>0, <2>0, <4>1 DEF OffOK, Waits
      <4>. QED BY <1>0, <1>w, <2>6, <3>2, <4>2 DEF Withdraw, ThreadAt
    <3>. QED BY <3>1, <3>3 DEF Goal, Publishing
  <2>7. CASE Remove(t)
    BY <1>0, <1>s, <2>0, <2>7 DEF Remove, Leave, ThreadAt, IdleThread, Publishing
  <2>8. CASE AuditRead(t)
    BY <1>0, <1>s, <2>0, <2>8 DEF AuditRead, ThreadAt, IdleThread, Publishing, ThreadRecord
  <2>9. CASE AuditToken(t)
    <3>1. thread'[t].at \in {"idle", "fetch"} /\ \A u \in Threads \ {t} : thread'[u] = thread[u]
      <4>1. CASE working = Nothing
        BY <1>0, <2>9, <4>1 DEF AuditToken, IdleThread
      <4>2. CASE working # Nothing
        <5>. DEFINE due == {r \in thread[t].due : thread[t].force \/ ~Fresh(audits[r])}
        <5>1. thread' = [thread EXCEPT ![t] = IF due = {} THEN IdleThread
                                             ELSE [@ EXCEPT !.at = "fetch", !.due = due, !.key = working.key]]
          BY <2>9, <4>2 DEF AuditToken
        <5>. HIDE DEF due
        <5>. QED BY <1>0, <5>1 DEF IdleThread, ThreadRecord
      <4>. QED BY <4>1, <4>2
    <3>. QED BY <1>s, <2>0, <2>9, <3>1 DEF AuditToken, ThreadAt, Publishing
  <2>10. CASE AuditSave(t)
    BY <1>0, <1>s, <2>0, <2>10 DEF AuditSave, ThreadAt, IdleThread, Publishing
  <2>. QED BY <1>1, <2>1, <2>2, <2>3, <2>4, <2>5, <2>6, <2>7, <2>8, <2>9, <2>10 DEF Step
<1>2. ASSUME (\E t \in Threads : DatabaseFails(t)) \/ Restart PROVE FALSE
  BY <1>0, <1>2 DEF DatabaseFails, Restart
<1>3. ASSUME NEW t \in Threads, NEW job, NEW key, NEW fresh, NEW force, Begin(t, job, key, fresh, force) PROVE Goal
  <2>1. thread'[t].at = "lock" /\ \A u \in Threads \ {t} : thread'[u] = thread[u]
    BY <1>0, <1>3 DEF Begin, IdleThread
  <2>. QED BY <1>0, <1>3, <2>1 DEF Begin, OffOK, Goal, Waits, Withdraws, ThreadAt, Publishing
<1>4. ASSUME NEW t \in Operators, Request(t) PROVE Goal
  <2>1. CASE PublishRead(t)
    <3>1. thread'[t].at = "save" /\ \A u \in Threads \ {t} : thread'[u] = thread[u]
      BY <1>0, <2>1 DEF PublishRead, IdleThread
    <3>. QED BY <1>0, <1>s, <2>1, <3>1 DEF PublishRead, ThreadAt, Publishing
  <2>. QED BY <1>3, <1>4, <1>0, <2>1 DEF Request, SetCredential, Delete, Recheck
<1>5. CASE Poll
  BY <1>3, <1>5 DEF Poll, Threads
<1>6. CASE TokenAges \/ (\E r \in Repos : AuditAges(r)) \/ UNCHANGED credentialVars
  BY <1>0, <1>6, NothingApart DEF TokenAges, AuditAges, credentialVars, OffOK, Goal, Waits, Withdraws, ThreadAt
<1>. QED BY <1>1, <1>2, <1>4, <1>5, <1>6 DEF CredentialNext

LEMMA CredentialInvariant == CredentialSpec => []CredentialInv
<1>1. CredentialInit => CredentialInv
  <2>. SUFFICES ASSUME CredentialInit PROVE CredentialInv
    OBVIOUS
  <2>1. CredentialTypeOK
    BY IdleType, FaultsAssumption DEF CredentialInit, CredentialTypeOK, ThreadRecord
  <2>2. \A t \in Threads : ThreadOK(t)
    BY NothingAssumption DEF CredentialInit, ThreadOK, IdleThread, Locked, Publishing
  <2>. QED BY <2>1, <2>2 DEF CredentialInit, CredentialInv, OffOK, IdleThread, Publishing
<1>2. CredentialInv /\ [CredentialNext]_credentialVars => CredentialInv'
  <2>. SUFFICES ASSUME CredentialInv, [CredentialNext]_credentialVars PROVE CredentialInv'
    OBVIOUS
  <2>1. CredentialTypeOK'
    BY ThreadType, RowTypes, AuditTypes DEF CredentialInv, CredentialTypeOK, ThreadRecord
  <2>. QED BY <2>1, ThreadsKeep, OffKeeps DEF CredentialInv
<1>. QED BY <1>1, <1>2, PTL DEF CredentialSpec

(* Every reachable state of the stored credential, the working token, the  *)
(* audits and the threads that move them is well typed.                    *)
THEOREM CredentialTypeCorrect == CredentialSpec => []CredentialTypeOK
<1>1. CredentialInv => CredentialTypeOK
  BY DEF CredentialInv
<1>. QED BY <1>1, CredentialInvariant, PTL

(* Once every request has returned and nothing failed, GitHub off means no *)
(* working token, for any number of operators who publish policies, set,   *)
(* delete and re-check the credential while tokens are being minted.       *)
THEOREM OffMeansWithdrawn == CredentialSpec => []OffWithdraws
<1>1. CredentialInv => OffWithdraws
  <2>. SUFFICES ASSUME CredentialInv, OperatorsIdle, Free, failures = 0, ~policy.enabled, working # Nothing
                PROVE  FALSE
    BY DEF OffWithdraws
  <2>1. ~Waits
    BY DEF OperatorsIdle, Waits, ThreadAt
  <2>2. ~Withdraws
    BY NothingAssumption DEF CredentialInv, ThreadOK, Free, Withdraws, Locked
  <2>. QED BY <2>1, <2>2 DEF CredentialInv, OffOK
<1>. QED BY <1>1, CredentialInvariant, PTL
=============================================================================
