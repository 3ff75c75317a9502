------------------------ MODULE ProviderTrustProofs ------------------------
(***************************************************************************)
(* Theorems about ProviderTrust, for every set of processes, tokens and    *)
(* accounts, for each of the three runtimes.                               *)
(***************************************************************************)
EXTENDS ProviderTrust, TLAPS

-----------------------------------------------------------------------------
(* Type correctness and the three locks                                    *)

Locks == {RefreshPC, LoginPC, ConnectPC}

ProcsTyped ==
  /\ proc \in [Proc -> ProcRecord]
  /\ \A pcs \in Locks, p, q \in Proc : proc[p].pc \in pcs /\ proc[q].pc \in pcs => p = q

StateTyped ==
  /\ runtime \in RuntimeTypes
  /\ enabled \in BOOLEAN
  /\ status \in RuntimeStatus
  /\ login \in LoginRow
  /\ account \in TokenOrNone /\ pin \in TokenOrNone /\ local \in TokenOrNone
  /\ parked \in ParkedRecord
  /\ minted \in 0 .. NLogins
  /\ approved \subseteq Account

LEMMA TypeParts ==
  /\ TypeOK <=> StateTyped /\ ProcsTyped
  /\ TypeOK' <=> StateTyped' /\ ProcsTyped'
  BY DEF TypeOK, StateTyped, ProcsTyped, Locks

(* A step from one place to another keeps or takes the locks of the new.   *)
MayGo(p, pc) == \A pcs \in Locks : pc \in pcs => proc[p].pc \in pcs \/ Free(pcs)

LEMMA MoveTyped ==
  ASSUME ProcsTyped, NEW p \in Proc, NEW r \in ProcRecord, MayGo(p, r.pc),
         proc' = [proc EXCEPT ![p] = r]
  PROVE  ProcsTyped'
<1>1. proc' \in [Proc -> ProcRecord] BY DEF ProcsTyped
<1>2. ASSUME NEW pcs \in Locks, NEW a \in Proc, NEW b \in Proc,
             proc'[a].pc \in pcs, proc'[b].pc \in pcs
      PROVE  a = b
  BY <1>2 DEF ProcsTyped, MayGo, Free
<1> QED BY <1>1, <1>2 DEF ProcsTyped, Locks

LEMMA GotoTyped ==
  ASSUME ProcsTyped, NEW p \in Proc, NEW pc \in PC, MayGo(p, pc), Goto(p, pc)
  PROVE  ProcsTyped'
<1> DEFINE r == [proc[p] EXCEPT !.pc = pc]
<1>1. r \in ProcRecord /\ r.pc = pc BY DEF ProcsTyped, ProcRecord
<1>2. proc' = [proc EXCEPT ![p] = r] BY DEF Goto
<1> HIDE DEF r
<1> QED BY <1>1, <1>2, MoveTyped

LEMMA Defaults == Idle \in ProcRecord /\ NoLogin \in LoginRow /\ NoParked \in ParkedRecord
<1>1. Idle \in ProcRecord BY DEF Idle, ProcRecord, PC, LoginStatus, TokenOrNone, Login
<1>2. NoLogin \in LoginRow BY DEF NoLogin, LoginRow, TokenOrNone, Login
<1>3. NoParked \in ParkedRecord BY DEF NoParked, ParkedRecord, TokenOrNone, Login
<1> QED BY <1>1, <1>2, <1>3

LEMMA RestTyped ==
  ASSUME ProcsTyped, NEW p \in Proc, Rest(p) PROVE ProcsTyped'
<1>1. MayGo(p, Idle.pc) BY DEF MayGo, Locks, Idle, RefreshPC, LoginPC, ConnectPC
<1> QED BY <1>1, Defaults, MoveTyped DEF Rest

LEMMA FinishTyped ==
  ASSUME ProcsTyped, NEW p \in Proc, NEW outcome, Finish(p, outcome) PROVE ProcsTyped'
<1>1. MayGo(p, "spent") /\ "spent" \in PC
  BY DEF MayGo, Locks, PC, RefreshPC, LoginPC, ConnectPC
<1> QED BY <1>1, GotoTyped, RestTyped DEF Finish

LEMMA InitTyped == Init => TypeOK
<1> SUFFICES ASSUME Init PROVE TypeOK OBVIOUS
<1>1. StateTyped
  <2>1. minted \in 0 .. NLogins BY TrustConstants DEF Init
  <2> QED BY <2>1, Defaults DEF Init, StateTyped, RuntimeStatus, TokenOrNone
<1>2. ProcsTyped
  BY Defaults DEF Init, ProcsTyped, Locks, Idle, RefreshPC, LoginPC, ConnectPC
<1> QED BY <1>1, <1>2, TypeParts

(* The types of the parts of the state that steps copy from place to place.*)
LEMMA Fields ==
  ASSUME StateTyped, ProcsTyped
  PROVE  /\ login \in LoginRow /\ login.id \in Login \cup {0} /\ login.token \in TokenOrNone
         /\ login.expired \in BOOLEAN
         /\ parked \in ParkedRecord /\ parked.id \in Login \cup {0} /\ parked.token \in TokenOrNone
         /\ account \in TokenOrNone /\ local \in TokenOrNone /\ None \in TokenOrNone
         /\ \A p \in Proc :
              /\ proc[p] \in ProcRecord
              /\ proc[p].status \in LoginStatus \cup {"active"}
              /\ proc[p].token \in TokenOrNone /\ proc[p].seen \in TokenOrNone
              /\ proc[p].login \in Login \cup {0}
  BY DEF StateTyped, ProcsTyped, LoginRow, ParkedRecord, ProcRecord, TokenOrNone

(* The steps of a refresh.                                                 *)
StateSame == UNCHANGED <<runtime, enabled, status, login, account, pin, local, parked, minted, approved>>

LEMMA SameTyped == StateTyped /\ StateSame => StateTyped'
  BY DEF StateTyped, StateSame

(* Places where the lock of the refresh is held, or of no lock at all.     *)
LEMMA Places ==
  /\ RefreshPC \subseteq PC /\ LoginPC \subseteq PC /\ ConnectPC \subseteq PC
  /\ \A p \in Proc, pc \in RefreshPC : proc[p].pc \in RefreshPC => MayGo(p, pc)
  /\ \A p \in Proc, pc \in PC \ (RefreshPC \cup LoginPC \cup ConnectPC) : MayGo(p, pc)
  /\ \A p \in Proc, pc \in RefreshPC : Free(RefreshPC) => MayGo(p, pc)
  /\ \A p \in Proc, pc \in ConnectPC : Free(ConnectPC) => MayGo(p, pc)
  /\ \A p \in Proc, pc \in LoginPC : Free(LoginPC) \/ proc[p].pc \in LoginPC => MayGo(p, pc)
  BY DEF PC, RefreshPC, LoginPC, ConnectPC, MayGo, Locks

(* A commit says one of the statuses a login can start from, or active.    *)
LEMMA Verdict ==
  ASSUME StateTyped, ProcsTyped, TrustConstants, NEW p \in Proc
  PROVE  Trusted(p) \in LoginStatus \cup {"active"}
<1>1. TrustedCodex(p) \in LoginStatus \cup {"active"} BY DEF TrustedCodex, LoginStatus
<1>2. TrustedClaude(p) \in LoginStatus \cup {"active"} BY DEF TrustedClaude, LoginStatus
<1>3. runtime \in {"codex", "claude_code", "hermes"} BY DEF StateTyped, TrustConstants
<1> QED BY <1>1, <1>2, <1>3, Fields DEF Trusted, OAuth

LEMMA RefreshTyped ==
  ASSUME TypeOK, NEW p \in Proc, RefreshStep(p) PROVE TypeOK'
<1>0. StateTyped /\ ProcsTyped BY TypeParts
<1>1. CASE BeginRefresh(p)
  <2>1. StateTyped' BY <1>0, <1>1, SameTyped DEF BeginRefresh, StateSame
  <2>2. PICK pc \in RefreshPC : Goto(p, pc) BY <1>1 DEF BeginRefresh, RefreshPC
  <2> QED BY <1>0, <1>1, <2>1, <2>2, Places, GotoTyped, TypeParts DEF BeginRefresh
<1>2. CASE Probe(p)
  <2>1. parked' \in ParkedRecord
    BY <1>0, <1>2, Defaults DEF Probe, StateTyped
  <2>2. StateTyped' BY <1>0, <1>2, <2>1 DEF Probe, StateTyped
  <2>3. PICK verdict \in Verdicts : proc' = [proc EXCEPT ![p] = [@ EXCEPT
         !.status = verdict,
         !.token = IF OAuth /\ verdict = "active" THEN local ELSE None,
         !.login = parked'.id,
         !.seen = None,
         !.pc = CASE runtime = "codex" -> "drain"
                  [] runtime = "claude_code" /\ verdict = "active" -> "attest"
                  [] OTHER -> "commit"]]
    BY <1>2 DEF Probe
  <2> DEFINE r == [proc[p] EXCEPT
         !.status = verdict,
         !.token = IF OAuth /\ verdict = "active" THEN local ELSE None,
         !.login = parked'.id,
         !.seen = None,
         !.pc = CASE runtime = "codex" -> "drain"
                  [] runtime = "claude_code" /\ verdict = "active" -> "attest"
                  [] OTHER -> "commit"]
  <2>4. proc' = [proc EXCEPT ![p] = r] BY <2>3
  <2>5. r \in ProcRecord /\ r.pc \in RefreshPC
    <3>1. verdict \in LoginStatus \cup {"active"} BY DEF Verdicts, LoginStatus
    <3>2. parked'.id \in Login \cup {0} BY <2>1 DEF ParkedRecord
    <3>3. local \in TokenOrNone /\ None \in TokenOrNone BY <1>0 DEF StateTyped, TokenOrNone
    <3>4. proc[p] \in ProcRecord BY <1>0 DEF ProcsTyped
    <3> QED BY <3>1, <3>2, <3>3, <3>4 DEF ProcRecord, PC, RefreshPC
  <2>6. MayGo(p, r.pc) BY <1>2, <2>5, Places DEF Probe, At, RefreshPC
  <2> HIDE DEF r
  <2>7. ProcsTyped' BY <1>0, <2>4, <2>5, <2>6, MoveTyped
  <2> QED BY <2>2, <2>7, TypeParts
<1>3. CASE Drain(p)
  <2>1. parked' \in ParkedRecord
    BY <1>0, <1>3 DEF Drain, StateTyped, ParkedRecord, TokenOrNone
  <2>2. StateTyped' BY <1>0, <1>3, <2>1 DEF Drain, StateTyped
  <2>3. MayGo(p, "capture") /\ "capture" \in PC BY <1>3, Places DEF Drain, At, RefreshPC
  <2> QED BY <1>0, <1>3, <2>2, <2>3, GotoTyped, TypeParts DEF Drain
<1>4. CASE Capture(p)
  <2>1. StateTyped' BY <1>0, <1>4, SameTyped DEF Capture, StateSame
  <2>2. PICK r \in ProcRecord : r.pc \in RefreshPC /\ proc' = [proc EXCEPT ![p] = r]
    <3> DEFINE a == [proc[p] EXCEPT !.pc = "anchor", !.seen = parked.token, !.login = login.id]
               g(pc) == [proc[p] EXCEPT !.pc = pc]
    <3>0. proc[p] \in ProcRecord /\ parked.token \in TokenOrNone /\ login.id \in Login \cup {0}
      BY <1>0, Fields
    <3>1. a \in ProcRecord /\ a.pc \in RefreshPC BY <3>0 DEF ProcRecord, PC, RefreshPC
    <3>2. \A pc \in RefreshPC : g(pc) \in ProcRecord /\ g(pc).pc \in RefreshPC
      BY <3>0 DEF ProcRecord, PC
    <3>3. \/ proc' = [proc EXCEPT ![p] = a]
          \/ \E pc \in RefreshPC : proc' = [proc EXCEPT ![p] = g(pc)]
      BY <1>0, <1>4 DEF Capture, Goto, RefreshPC, ProcsTyped, StateTyped, LoginRow
    <3> HIDE DEF a, g
    <3> QED BY <3>1, <3>2, <3>3
  <2>3. MayGo(p, r.pc) BY <1>4, <2>2, Places DEF Capture, At, RefreshPC
  <2> QED BY <1>0, <2>1, <2>2, <2>3, MoveTyped, TypeParts
<1>5. CASE Anchor(p)
  <2>1. account' \in TokenOrNone BY <1>0, <1>5, Fields DEF Anchor
  <2>2. [login EXCEPT !.completed = TRUE] \in LoginRow BY <1>0, Fields DEF LoginRow
  <2>3. login' \in LoginRow
    BY <1>0, <1>5, <2>2, Fields, Defaults DEF Anchor, DropExpired
  <2>4. StateTyped' BY <1>0, <1>5, <2>1, <2>3 DEF Anchor, StateTyped
  <2>5. MayGo(p, "commit") /\ "commit" \in PC BY <1>5, Places DEF Anchor, At, RefreshPC
  <2> QED BY <1>0, <1>5, <2>4, <2>5, GotoTyped, TypeParts DEF Anchor
<1>6. CASE Drop(p)
  <2>1. StateTyped' BY <1>0, <1>6, Defaults DEF Drop, StateTyped
  <2>2. MayGo(p, "commit") /\ "commit" \in PC BY <1>6, Places DEF Drop, At, RefreshPC
  <2> QED BY <1>0, <1>6, <2>1, <2>2, GotoTyped, TypeParts DEF Drop
<1>7. CASE Attest(p)
  <2>1. StateTyped' BY <1>0, <1>7, SameTyped DEF Attest, StateSame
  <2>2. PICK r \in ProcRecord : r.pc \in RefreshPC /\ proc' = [proc EXCEPT ![p] = r]
    <3> DEFINE a(seen) == [proc[p] EXCEPT !.pc = "commit", !.seen = seen]
               g(pc) == [proc[p] EXCEPT !.pc = pc]
    <3>0. proc[p] \in ProcRecord BY <1>0, Fields
    <3>1. \A seen \in TokenOrNone : a(seen) \in ProcRecord /\ a(seen).pc \in RefreshPC
      BY <3>0 DEF ProcRecord, PC, RefreshPC
    <3>2. \A pc \in RefreshPC : g(pc) \in ProcRecord /\ g(pc).pc \in RefreshPC
      BY <3>0 DEF ProcRecord, PC
    <3>3. proc[p].token \in TokenOrNone /\ None \in TokenOrNone
      BY <1>0, Fields DEF TokenOrNone
    <3>4. \/ \E seen \in TokenOrNone : proc' = [proc EXCEPT ![p] = a(seen)]
          \/ \E pc \in RefreshPC : proc' = [proc EXCEPT ![p] = g(pc)]
      <4>1. \/ Goto(p, "drop") \/ Goto(p, "commit")
            \/ \E seen \in {proc[p].token, None} : proc' = [proc EXCEPT ![p] = a(seen)]
        BY <1>7 DEF Attest
      <4>2. "drop" \in RefreshPC /\ "commit" \in RefreshPC
        BY DEF RefreshPC
      <4>3. \A pc \in {"drop", "commit"} : Goto(p, pc) => proc' = [proc EXCEPT ![p] = g(pc)]
        BY DEF Goto
      <4> HIDE DEF a, g
      <4> QED BY <3>3, <4>1, <4>2, <4>3
    <3> HIDE DEF a, g
    <3> QED BY <3>1, <3>2, <3>4
  <2>3. MayGo(p, r.pc) BY <1>7, <2>2, Places DEF Attest, At, RefreshPC
  <2> QED BY <1>0, <2>1, <2>2, <2>3, MoveTyped, TypeParts
<1>8. CASE Commit(p)
  <2>1. CASE enabled /\ CommitTrusted(p)
    <3>1. Trusted(p) \in LoginStatus \cup {"active"} BY <1>0, TrustConstants, Verdict
    <3>2. StateTyped'
      <4>1. login' \in LoginRow
        BY <1>0, <2>1, Fields, Defaults DEF CommitTrusted, DropExpired
      <4>2. account' \in TokenOrNone /\ pin' \in TokenOrNone
        BY <1>0, <2>1, Fields DEF CommitTrusted
      <4>3. status' \in RuntimeStatus BY <2>1, <3>1 DEF CommitTrusted, RuntimeStatus
      <4> QED BY <1>0, <1>8, <4>1, <4>2, <4>3 DEF Commit, StateTyped
    <3>3. ProcsTyped'
      <4>1. CASE Finish(p, Trusted(p)) BY <1>0, <4>1, FinishTyped
      <4>2. CASE proc' = [proc EXCEPT ![p].pc = "close", ![p].login = login.id]
        <5> DEFINE r == [proc[p] EXCEPT !.pc = "close", !.login = login.id]
        <5>1. proc[p] \in ProcRecord /\ login.id \in Login \cup {0} BY <1>0, Fields
        <5>2. r \in ProcRecord /\ r.pc = "close" BY <5>1 DEF ProcRecord, PC, RefreshPC
        <5>3. MayGo(p, "close") BY <1>8, Places DEF Commit, At, RefreshPC
        <5>4. proc' = [proc EXCEPT ![p] = r] BY <4>2
        <5> HIDE DEF r
        <5> QED BY <1>0, <5>2, <5>3, <5>4, MoveTyped
      <4> QED BY <2>1, <4>1, <4>2 DEF CommitTrusted
    <3> QED BY <3>2, <3>3, TypeParts
  <2>2. CASE ~enabled /\ Deactivated /\ UNCHANGED account /\ Finish(p, "deactivated")
    <3>1. StateTyped'
      BY <1>0, <1>8, <2>2, Defaults, Fields DEF Commit, Deactivated, StateTyped, RuntimeStatus
    <3>2. ProcsTyped' BY <1>0, <2>2, FinishTyped
    <3> QED BY <3>1, <3>2, TypeParts
  <2> QED BY <1>8, <2>1, <2>2 DEF Commit
<1>9. CASE CloseLogin(p)
  <2>1. StateTyped' BY <1>0, <1>9, Defaults DEF CloseLogin, StateTyped
  <2> QED BY <1>0, <1>9, <2>1, FinishTyped, TypeParts DEF CloseLogin
<1>10. CASE Deactivate(p)
  <2>1. StateTyped'
    BY <1>0, <1>10, Defaults, Fields DEF Deactivate, Deactivated, StateTyped, RuntimeStatus
  <2> QED BY <1>0, <1>10, <2>1, FinishTyped, TypeParts DEF Deactivate
<1> QED
  BY <1>1, <1>2, <1>3, <1>4, <1>5, <1>6, <1>7, <1>8, <1>9, <1>10 DEF RefreshStep

LEMMA RequestTyped ==
  ASSUME TypeOK, NEW p \in Proc, Poll(p) \/ RequestStep(p) \/ Request(p) PROVE TypeOK'
<1>0. StateTyped /\ ProcsTyped BY TypeParts
(* Steps that only move from one place to another.                         *)
<1>1. CASE \/ Poll(p) \/ StartLogin(p) \/ Connect(p) \/ Reconcile(p)
  <2>1. StateTyped'
    BY <1>0, <1>1, SameTyped DEF Poll, StartLogin, Connect, Reconcile, StateSame
  <2>2. PICK pc \in PC : Goto(p, pc) /\ MayGo(p, pc)
    BY <1>1, Places
    DEF Poll, StartLogin, Connect, Reconcile, PC, RefreshPC, LoginPC, ConnectPC
  <2> QED BY <1>0, <2>1, <2>2, GotoTyped, TypeParts
<1>2. CASE Mint(p)
  <2>1. CASE /\ minted < NLogins /\ minted' = minted + 1
             /\ parked' = [NoParked EXCEPT !.id = minted']
             /\ proc' = [proc EXCEPT ![p].pc = "park", ![p].login = minted']
    <3>1. minted' \in Login /\ minted' \in 0 .. NLogins
      BY <1>0, <2>1, TrustConstants DEF StateTyped, Login
    <3>2. parked' \in ParkedRecord BY <2>1, <3>1, Defaults DEF ParkedRecord
    <3>3. StateTyped' BY <1>0, <1>2, <3>1, <3>2 DEF Mint, StateTyped
    <3> DEFINE r == [proc[p] EXCEPT !.pc = "park", !.login = minted']
    <3>4. proc[p] \in ProcRecord BY <1>0, Fields
    <3>5. r \in ProcRecord /\ r.pc = "park" BY <3>1, <3>4 DEF ProcRecord, PC, LoginPC
    <3>6. MayGo(p, "park") BY <1>2, Places DEF Mint, At, LoginPC
    <3>7. proc' = [proc EXCEPT ![p] = r] BY <2>1
    <3> HIDE DEF r
    <3>8. ProcsTyped' BY <1>0, <3>5, <3>6, <3>7, MoveTyped
    <3> QED BY <3>3, <3>8, TypeParts
  <2>2. CASE Rest(p) /\ UNCHANGED <<minted, parked>>
    <3>1. StateTyped' BY <1>0, <1>2, <2>2, SameTyped DEF Mint, StateSame
    <3> QED BY <1>0, <2>2, <3>1, RestTyped, TypeParts
  <2> QED BY <1>2, <2>1, <2>2 DEF Mint
<1>3. CASE Park(p)
  <2>1. CASE login' = [NoLogin EXCEPT !.id = proc[p].login] /\ UNCHANGED parked
    <3>1. login' \in LoginRow
      <4>1. proc[p].login \in Login \cup {0} BY <1>0, Fields
      <4> QED BY <2>1, <4>1, Defaults DEF LoginRow
    <3>2. StateTyped' BY <1>0, <1>3, <2>1, <3>1 DEF Park, StateTyped
    <3> QED BY <1>0, <1>3, <3>2, RestTyped, TypeParts DEF Park
  <2>2. CASE parked' = NoParked /\ UNCHANGED login
    <3>1. StateTyped' BY <1>0, <1>3, <2>2, Defaults DEF Park, StateTyped
    <3> QED BY <1>0, <1>3, <3>1, RestTyped, TypeParts DEF Park
  <2> QED BY <1>3, <2>1, <2>2 DEF Park
<1>4. ASSUME NEW t \in Token, AcceptCode(p, t) PROVE TypeOK'
  <2>1. StateTyped'
    BY <1>0, <1>4, Defaults, TrustConstants DEF AcceptCode, StateTyped, TokenOrNone
  <2>2. MayGo(p, "hash") /\ "hash" \in PC
    BY Places DEF PC, RefreshPC, LoginPC, ConnectPC
  <2> QED BY <1>0, <1>4, <2>1, <2>2, GotoTyped, TypeParts DEF AcceptCode
<1>5. CASE RejectCode(p)
  <2>1. StateTyped' BY <1>0, <1>5, Defaults DEF RejectCode, StateTyped
  <2> QED BY <1>0, <1>5, <2>1, RestTyped, TypeParts DEF RejectCode
<1>6. CASE ReadHash(p)
  <2>1. StateTyped' BY <1>0, <1>6, SameTyped DEF ReadHash, StateSame
  <2>2. PICK t \in {local, None} : proc' = [proc EXCEPT ![p].pc = "mark", ![p].seen = t]
    BY <1>6 DEF ReadHash
  <2> DEFINE r == [proc[p] EXCEPT !.pc = "mark", !.seen = t]
  <2>3. proc[p] \in ProcRecord /\ t \in TokenOrNone BY <1>0, Fields
  <2>4. r \in ProcRecord /\ r.pc = "mark" BY <2>3 DEF ProcRecord, PC
  <2>5. MayGo(p, "mark") BY Places DEF PC, RefreshPC, LoginPC, ConnectPC
  <2>6. proc' = [proc EXCEPT ![p] = r] BY <2>2
  <2> HIDE DEF r
  <2>7. ProcsTyped' BY <1>0, <2>4, <2>5, <2>6, MoveTyped
  <2> QED BY <2>1, <2>7, TypeParts
<1>7. CASE Mark(p)
  <2>1. login' \in LoginRow
    <3>1. proc[p].seen \in TokenOrNone /\ login \in LoginRow BY <1>0, Fields
    <3>2. \A t \in TokenOrNone : [login EXCEPT !.completed = TRUE, !.token = t] \in LoginRow
      BY <3>1 DEF LoginRow
    <3>3. [login EXCEPT !.completed = TRUE,
             !.token = IF proc[p].seen = None THEN @ ELSE proc[p].seen] \in LoginRow
      BY <3>1, <3>2 DEF LoginRow
    <3> QED BY <1>7, <3>3, Defaults DEF Mark
  <2>2. StateTyped' BY <1>0, <1>7, <2>1 DEF Mark, StateTyped
  <2> DEFINE r == [proc[p] EXCEPT !.pc = "refresh", !.job = "complete"]
  <2>3. proc[p] \in ProcRecord BY <1>0, Fields
  <2>4. r \in ProcRecord /\ r.pc = "refresh" BY <2>3 DEF ProcRecord, PC
  <2>5. MayGo(p, "refresh") BY Places DEF PC, RefreshPC, LoginPC, ConnectPC
  <2>6. proc' = [proc EXCEPT ![p] = r] BY <1>7 DEF Mark
  <2> HIDE DEF r
  <2>7. ProcsTyped' BY <1>0, <2>4, <2>5, <2>6, MoveTyped
  <2> QED BY <2>2, <2>7, TypeParts
<1>8. CASE ClearSpent(p)
  <2>1. StateTyped' BY <1>0, <1>8, Defaults DEF ClearSpent, StateTyped
  <2> QED BY <1>0, <1>8, <2>1, RestTyped, TypeParts DEF ClearSpent
<1>9. CASE ResetClose(p)
  <2>1. StateTyped' BY <1>0, <1>9, Defaults DEF ResetClose, StateTyped
  <2>2. MayGo(p, "clear") /\ "clear" \in PC BY Places DEF PC, RefreshPC, LoginPC, ConnectPC
  <2> QED BY <1>0, <1>9, <2>1, <2>2, GotoTyped, TypeParts DEF ResetClose
<1>10. CASE ResetClear(p)
  <2>1. StateTyped' BY <1>0, <1>10, Fields DEF ResetClear, StateTyped
  <2>2. MayGo(p, "refresh") /\ "refresh" \in PC BY Places DEF PC, RefreshPC, LoginPC, ConnectPC
  <2> QED BY <1>0, <1>10, <2>1, <2>2, GotoTyped, TypeParts DEF ResetClear
<1>11. CASE Store(p)
  <2>1. account' \in TokenOrNone /\ approved' \subseteq Account
    BY <1>0, <1>11, TrustConstants DEF Store, StateTyped, TokenOrNone
  <2>2. StateTyped' BY <1>0, <1>11, <2>1 DEF Store, StateTyped
  <2>3. MayGo(p, "refresh") /\ "refresh" \in PC BY Places DEF PC, RefreshPC, LoginPC, ConnectPC
  <2>4. Goto(p, "refresh") \/ Rest(p) BY <1>11 DEF Store
  <2> QED BY <1>0, <2>2, <2>3, <2>4, GotoTyped, RestTyped, TypeParts
<1>12. CASE SubmitCode(p)
  <2>1. StateTyped' BY <1>0, <1>12, SameTyped DEF SubmitCode, StateSame
  <2> DEFINE r == [proc[p] EXCEPT !.pc = "code", !.login = parked.id]
  <2>2. proc[p] \in ProcRecord /\ parked.id \in Login \cup {0} BY <1>0, Fields
  <2>3. r \in ProcRecord /\ r.pc = "code" BY <2>2 DEF ProcRecord, PC
  <2>4. MayGo(p, "code") BY Places DEF PC, RefreshPC, LoginPC, ConnectPC
  <2>5. proc' = [proc EXCEPT ![p] = r] BY <1>12 DEF SubmitCode
  <2> HIDE DEF r
  <2>6. ProcsTyped' BY <1>0, <2>3, <2>4, <2>5, MoveTyped
  <2> QED BY <2>1, <2>6, TypeParts
<1>13. CASE Reset(p)
  <2>1. StateTyped'
    BY <1>0, <1>13, Defaults, Fields DEF Reset, ResetStatus, StateTyped, RuntimeStatus, LoginStatus
  <2>2. MayGo(p, "reset") /\ "reset" \in PC BY Places DEF PC, RefreshPC, LoginPC, ConnectPC
  <2> QED BY <1>0, <1>13, <2>1, <2>2, GotoTyped, TypeParts DEF Reset
<1>14. CASE Disconnect(p)
  <2>1. StateTyped'
    BY <1>0, <1>14, Fields DEF Disconnect, ResetStatus, StateTyped, RuntimeStatus, LoginStatus
  <2>2. ProcsTyped' BY <1>0, <1>14 DEF Disconnect, ProcsTyped
  <2> QED BY <2>1, <2>2, TypeParts
<1>15. CASE SetPolicy(p)
  <2>1. StateTyped' BY <1>0, <1>15 DEF SetPolicy, StateTyped
  <2>2. MayGo(p, "reconcile") /\ "reconcile" \in PC BY Places DEF PC, RefreshPC, LoginPC, ConnectPC
  <2> QED BY <1>0, <1>15, <2>1, <2>2, GotoTyped, TypeParts DEF SetPolicy
<1> QED
  BY <1>1, <1>2, <1>3, <1>4, <1>5, <1>6, <1>7, <1>8, <1>9, <1>10, <1>11, <1>12, <1>13, <1>14,
     <1>15 DEF RequestStep, Request

LEMMA OthersTyped ==
  ASSUME TypeOK, (\E t \in Token : DeviceLogin(t)) \/ RewriteLocal \/ Expire \/ Restart
  PROVE  TypeOK'
<1>0. StateTyped /\ ProcsTyped BY TypeParts
<1>1. ASSUME NEW t \in Token, DeviceLogin(t) PROVE TypeOK'
  <2>1. parked' \in ParkedRecord BY <1>0, <1>1, Fields DEF DeviceLogin, ParkedRecord
  <2>2. StateTyped' BY <1>0, <1>1, <2>1, TrustConstants DEF DeviceLogin, StateTyped, TokenOrNone
  <2>3. ProcsTyped' BY <1>0, <1>1 DEF DeviceLogin, ProcsTyped
  <2> QED BY <2>2, <2>3, TypeParts
<1>2. CASE RewriteLocal
  <2>1. StateTyped' BY <1>0, <1>2 DEF RewriteLocal, StateTyped
  <2>2. ProcsTyped' BY <1>0, <1>2 DEF RewriteLocal, ProcsTyped
  <2> QED BY <2>1, <2>2, TypeParts
<1>3. CASE Expire
  <2>1. login' \in LoginRow BY <1>0, <1>3, Fields DEF Expire, LoginRow
  <2>2. StateTyped' BY <1>0, <1>3, <2>1 DEF Expire, StateTyped
  <2>3. ProcsTyped' BY <1>0, <1>3 DEF Expire, ProcsTyped
  <2> QED BY <2>2, <2>3, TypeParts
<1>4. CASE Restart
  <2>1. StateTyped' BY <1>0, <1>4, Defaults DEF Restart, StateTyped, RuntimeStatus
  <2>2. ProcsTyped'
    BY <1>4, Defaults DEF Restart, ProcsTyped, Locks, Idle, RefreshPC, LoginPC, ConnectPC
  <2> QED BY <2>1, <2>2, TypeParts
<1> QED BY <1>1, <1>2, <1>3, <1>4

(* Every variable keeps its type and no lock is ever held twice.           *)
THEOREM TrustTypeCorrect == Spec => []TypeOK
<1>1. TypeOK /\ [Next]_vars => TypeOK'
  <2> SUFFICES ASSUME TypeOK, [Next]_vars PROVE TypeOK' OBVIOUS
  <2>1. CASE UNCHANGED vars
    <3>1. StateTyped' /\ ProcsTyped' BY <2>1, TypeParts DEF vars, StateTyped, ProcsTyped
    <3> QED BY <3>1, TypeParts
  <2>2. CASE Next BY <2>2, RefreshTyped, RequestTyped, OthersTyped DEF Next
  <2> QED BY <2>1, <2>2
<1> QED BY <1>1, InitTyped, PTL DEF Spec

-----------------------------------------------------------------------------
(* Where a step takes the process that makes it                            *)

OnlyMoves(p) == \A q \in Proc : q # p => proc'[q] = proc[q]

LEMMA GotoMoves ==
  ASSUME ProcsTyped, NEW p \in Proc, NEW pc, Goto(p, pc)
  PROVE  /\ OnlyMoves(p)
         /\ proc'[p].pc = pc /\ proc'[p].status = proc[p].status
         /\ proc'[p].token = proc[p].token /\ proc'[p].seen = proc[p].seen
<1>1. proc \in [Proc -> ProcRecord] /\ proc[p] \in ProcRecord BY DEF ProcsTyped
<1>2. proc'[p] = [proc[p] EXCEPT !.pc = pc] /\ OnlyMoves(p) BY <1>1 DEF Goto, OnlyMoves
<1> QED BY <1>1, <1>2 DEF ProcRecord

LEMMA RestMoves ==
  ASSUME ProcsTyped, NEW p \in Proc, Rest(p)
  PROVE  /\ proc'[p] = Idle /\ OnlyMoves(p)
         /\ proc'[p].pc = "idle"
  BY DEF ProcsTyped, Rest, OnlyMoves, Idle

LEMMA FinishMoves ==
  ASSUME ProcsTyped, NEW p \in Proc, NEW outcome, Finish(p, outcome)
  PROVE  proc'[p].pc \in {"idle", "spent"} /\ OnlyMoves(p)
  BY GotoMoves, RestMoves DEF Finish

(* What the steps that do not simply go somewhere write into their record. *)
LEMMA RecordMoves ==
  ASSUME ProcsTyped, NEW p \in Proc
  PROVE  /\ \A r : proc' = [proc EXCEPT ![p] = r] => proc'[p] = r /\ OnlyMoves(p)
         /\ ReadHash(p) => /\ proc'[p].pc = "mark" /\ proc'[p].seen \in {local, None}
                           /\ OnlyMoves(p)
         /\ Mark(p) => proc'[p].pc = "refresh" /\ OnlyMoves(p)
         /\ SubmitCode(p) => proc'[p].pc = "code" /\ OnlyMoves(p)
         /\ Mint(p) => proc'[p].pc \in {"park", "idle"} /\ OnlyMoves(p)
<1>1. proc \in [Proc -> ProcRecord] /\ proc[p] \in ProcRecord BY DEF ProcsTyped
<1>2. \A r : proc' = [proc EXCEPT ![p] = r] => proc'[p] = r /\ OnlyMoves(p)
  BY <1>1 DEF OnlyMoves
<1>3. ReadHash(p) => /\ proc'[p].pc = "mark" /\ proc'[p].seen \in {local, None}
                     /\ OnlyMoves(p)
  BY <1>1 DEF ReadHash, ProcRecord, OnlyMoves
<1>4. Mark(p) => proc'[p].pc = "refresh" /\ OnlyMoves(p)
  BY <1>1 DEF Mark, ProcRecord, OnlyMoves
<1>5. SubmitCode(p) => proc'[p].pc = "code" /\ OnlyMoves(p)
  BY <1>1 DEF SubmitCode, ProcRecord, OnlyMoves
<1>6. Mint(p) => proc'[p].pc \in {"park", "idle"} /\ OnlyMoves(p)
  BY <1>1, RestMoves DEF Mint, ProcRecord, OnlyMoves
<1> QED BY <1>2, <1>3, <1>4, <1>5, <1>6

LEMMA ProbeMoves ==
  ASSUME ProcsTyped, StateTyped, NEW p \in Proc, Probe(p)
  PROVE  /\ proc'[p].pc \in {"drain", "attest", "commit"} /\ OnlyMoves(p)
         /\ OAuth /\ proc'[p].status = "active" => proc'[p].token # None
<1>1. proc \in [Proc -> ProcRecord] /\ proc[p] \in ProcRecord BY DEF ProcsTyped
<1>2. PICK verdict \in Verdicts : proc' = [proc EXCEPT ![p] = [@ EXCEPT
         !.status = verdict,
         !.token = IF OAuth /\ verdict = "active" THEN local ELSE None,
         !.login = parked'.id,
         !.seen = None,
         !.pc = CASE runtime = "codex" -> "drain"
                  [] runtime = "claude_code" /\ verdict = "active" -> "attest"
                  [] OTHER -> "commit"]]
  BY DEF Probe
<1> DEFINE place == CASE runtime = "codex" -> "drain"
                      [] runtime = "claude_code" /\ verdict = "active" -> "attest"
                      [] OTHER -> "commit"
           token == IF OAuth /\ verdict = "active" THEN local ELSE None
<1>3. /\ proc'[p].pc = place /\ proc'[p].status = verdict /\ proc'[p].token = token
      /\ OnlyMoves(p)
  BY <1>1, <1>2 DEF ProcRecord, OnlyMoves
<1>4. place \in {"drain", "attest", "commit"} OBVIOUS
<1>5. OAuth /\ verdict = "active" => token # None BY DEF Verdicts, LoginStatus
<1> QED BY <1>3, <1>4, <1>5

LEMMA CaptureMoves ==
  ASSUME ProcsTyped, StateTyped, NEW p \in Proc, Capture(p)
  PROVE  /\ \/ proc'[p].pc = "anchor" /\ proc'[p].seen = parked.token
            \/ proc'[p].pc \in {"commit", "drop"}
         /\ proc'[p].status = proc[p].status /\ proc'[p].token = proc[p].token
         /\ OnlyMoves(p)
<1>1. proc \in [Proc -> ProcRecord] /\ proc[p] \in ProcRecord BY DEF ProcsTyped
<1>2. login.expired \in BOOLEAN BY Fields
<1>3. CASE Goto(p, "commit") \/ Goto(p, "drop") BY <1>3, GotoMoves
<1>4. CASE proc' = [proc EXCEPT ![p].pc = "anchor", ![p].seen = parked.token,
                                ![p].login = login.id]
  BY <1>1, <1>4 DEF ProcRecord, OnlyMoves
<1> QED BY <1>2, <1>3, <1>4 DEF Capture

LEMMA AttestMoves ==
  ASSUME ProcsTyped, NEW p \in Proc, Attest(p)
  PROVE  /\ proc'[p].pc \in {"commit", "drop"}
         /\ proc'[p].status = proc[p].status /\ proc'[p].token = proc[p].token
         /\ OnlyMoves(p)
<1>1. proc \in [Proc -> ProcRecord] /\ proc[p] \in ProcRecord BY DEF ProcsTyped
<1>2. CASE Goto(p, "commit") \/ Goto(p, "drop") BY <1>2, GotoMoves
<1>3. ASSUME NEW seen, proc' = [proc EXCEPT ![p].pc = "commit", ![p].seen = seen]
      PROVE  /\ proc'[p].pc \in {"commit", "drop"}
             /\ proc'[p].status = proc[p].status /\ proc'[p].token = proc[p].token
             /\ OnlyMoves(p)
  BY <1>1, <1>3 DEF ProcRecord, OnlyMoves
<1> QED BY <1>2, <1>3 DEF Attest

LEMMA CommitMoves ==
  ASSUME ProcsTyped, NEW p \in Proc, Commit(p)
  PROVE  proc'[p].pc \in {"idle", "spent", "close"} /\ OnlyMoves(p)
<1>1. proc \in [Proc -> ProcRecord] /\ proc[p] \in ProcRecord BY DEF ProcsTyped
<1>2. CASE proc' = [proc EXCEPT ![p].pc = "close", ![p].login = login.id]
  BY <1>1, <1>2 DEF ProcRecord, OnlyMoves
<1>3. ASSUME NEW outcome, Finish(p, outcome)
      PROVE  proc'[p].pc \in {"idle", "spent", "close"} /\ OnlyMoves(p)
  BY <1>3, FinishMoves
<1> QED BY <1>2, <1>3 DEF Commit, CommitTrusted

-----------------------------------------------------------------------------
(* Only accounts the operator chose are anchored                           *)

(* A credential is on its way to the anchor from the moment the operator's *)
(* login wrote it: through the agent's file while the completion is not    *)
(* read, the record of the process that read it, the parked login and the  *)
(* login row.  Everywhere on that way its account is one the operator chose*)
ChosenIn(t, accounts) == t # None => AccountOf[t] \in accounts

StateChosen ==
  /\ ChosenIn(account, approved)
  /\ ChosenIn(login.token, approved)
  /\ ChosenIn(parked.token, approved)
  /\ parked.completed /\ ~parked.read => runtime = "codex" /\ ChosenIn(local, approved)

ReadChosen(p) ==
  /\ proc[p].pc = "hash" => ChosenIn(local, approved)
  /\ proc[p].pc \in {"mark", "anchor"} => ChosenIn(proc[p].seen, approved)

Provenance == StateChosen /\ \A p \in Proc : ReadChosen(p)

LEMMA RecordsNone ==
  /\ NoLogin.token = None /\ ~NoLogin.completed /\ ~NoLogin.expired
  /\ NoParked.token = None /\ ~NoParked.completed
  /\ Idle.pc = "idle"
  /\ DropExpired(login) \in {login, NoLogin}
  BY DEF NoLogin, NoParked, Idle, DropExpired

(* A step that writes none of the places a credential travels through.     *)
LEMMA KeepsState ==
  ASSUME Provenance, StateTyped, approved \subseteq approved',
         account' \in {account, None}, login'.token \in {login.token, None},
         runtime' = runtime,
         local' = local, parked' = parked \/ (parked'.token = None /\ ~parked'.completed)
  PROVE  StateChosen'
  BY DEF Provenance, StateChosen, ChosenIn

(* The records of the other processes stay good, and so does a record in   *)
(* which nothing was read.                                                 *)
LEMMA KeepsReads ==
  ASSUME Provenance, NEW p \in Proc, OnlyMoves(p), approved \subseteq approved',
         local' = local \/ ChosenIn(local', approved'), ReadChosen(p)'
  PROVE  \A q \in Proc : ReadChosen(q)'
<1> SUFFICES ASSUME NEW q \in Proc PROVE ReadChosen(q)' OBVIOUS
<1>1. CASE q = p BY <1>1
<1>2. CASE q # p
  <2>1. proc'[q] = proc[q] /\ ReadChosen(q) BY <1>2 DEF OnlyMoves, Provenance
  <2> QED BY <2>1 DEF ReadChosen, ChosenIn
<1> QED BY <1>1, <1>2

LEMMA NothingRead ==
  ASSUME NEW p \in Proc, proc'[p].pc \notin {"hash", "mark", "anchor"} PROVE ReadChosen(p)'
  BY DEF ReadChosen

(* What the commit trusts: the anchored account, or, for the first capture *)
(* of a Claude login, the credential the operator's login wrote.           *)
LEMMA TrustedIsSame ==
  ASSUME StateTyped, NEW p \in Proc, OAuth, Trusted(p) = "active"
  PROVE  /\ proc[p].status = "active"
         /\ \/ account = proc[p].token
            \/ SameAccount(proc[p].token, account)
            \/ account = None /\ login.token = proc[p].token
<1>1. runtime \in {"codex", "claude_code"} BY TrustConstants DEF StateTyped, OAuth
<1>2. CASE proc[p].status # "active" BY <1>2 DEF Trusted
<1>3. CASE proc[p].status = "active" /\ runtime = "codex"
  <2>1. TrustedCodex(p) = "active" BY <1>3 DEF Trusted, OAuth
  <2> QED BY <1>3, <2>1 DEF TrustedCodex
<1>4. CASE proc[p].status = "active" /\ runtime = "claude_code"
  <2>1. TrustedClaude(p) = "active" BY <1>4 DEF Trusted, OAuth
  <2>2. CASE account = proc[p].token BY <1>4, <2>2
  <2>3. CASE account = None /\ account # proc[p].token
    <3>1. FirstCaptureApproved(proc[p].token) BY <2>1, <2>3 DEF TrustedClaude
    <3> QED BY <1>4, <2>3, <3>1 DEF FirstCaptureApproved
  <2>4. CASE account # None /\ account # proc[p].token
    BY <1>4, <2>1, <2>4 DEF TrustedClaude
  <2> QED BY <2>2, <2>3, <2>4
<1> QED BY <1>1, <1>2, <1>3, <1>4

LEMMA TrustedIsChosen ==
  ASSUME StateTyped, Provenance, NEW p \in Proc, OAuth, Trusted(p) = "active"
  PROVE  ChosenIn(proc[p].token, approved)
  BY TrustedIsSame DEF Provenance, StateChosen, ChosenIn, SameAccount

LEMMA RefreshChosen ==
  ASSUME TypeOK, Provenance, NEW p \in Proc, RefreshStep(p) PROVE Provenance'
<1>0. StateTyped /\ ProcsTyped BY TypeParts
<1> USE RecordsNone
(* Steps that write no credential anywhere.                                *)
<1>1. CASE BeginRefresh(p) \/ Probe(p) \/ Drop(p) \/ Attest(p) \/ CloseLogin(p) \/ Deactivate(p)
  <2>1. UNCHANGED <<runtime, account, local, approved>> /\ login'.token \in {login.token, None}
    BY <1>1 DEF BeginRefresh, Probe, Drop, Attest, CloseLogin, Deactivate, Deactivated
  <2>2. parked' = parked \/ (parked'.token = None /\ ~parked'.completed)
    <3>1. CASE Probe(p) \/ CloseLogin(p)
      <4>1. parked' = parked \/ parked' = NoParked BY <3>1 DEF Probe, CloseLogin
      <4> QED BY <4>1
    <3>2. CASE BeginRefresh(p) \/ Drop(p) \/ Deactivate(p)
      BY <3>2 DEF BeginRefresh, Drop, Deactivate
    <3>3. CASE Attest(p) BY <3>3 DEF Attest
    <3> QED BY <1>1, <3>1, <3>2, <3>3
  <2>3. StateChosen' BY <1>0, <2>1, <2>2, KeepsState
  <2>4. proc'[p].pc \notin {"hash", "mark", "anchor"} /\ OnlyMoves(p)
    <3>1. CASE BeginRefresh(p) \/ Drop(p)
      <4>1. PICK pc \in {"probe", "withdraw", "commit"} : Goto(p, pc)
        BY <3>1 DEF BeginRefresh, Drop
      <4> QED BY <1>0, <4>1, GotoMoves
    <3>2. CASE Probe(p) \/ Attest(p) BY <1>0, <3>2, ProbeMoves, AttestMoves
    <3>3. CASE CloseLogin(p) \/ Deactivate(p)
      BY <1>0, <3>3, FinishMoves DEF CloseLogin, Deactivate
    <3> QED BY <1>1, <3>1, <3>2, <3>3
  <2> QED BY <2>1, <2>3, <2>4, KeepsReads, NothingRead DEF Provenance
<1>2. CASE Drain(p)
  <2>1. UNCHANGED <<runtime, account, login, local, approved>> BY <1>2 DEF Drain
  <2>2. StateChosen'
    <3>1. CASE UNCHANGED parked
      BY <1>2, <2>1, <3>1 DEF Drain, Provenance, StateChosen
    <3>2. ASSUME NEW t \in {local, None}, parked.completed, ~parked.read,
                 parked' = [parked EXCEPT !.read = TRUE, !.token = t]
          PROVE  StateChosen'
      <4>1. parked'.token = t /\ parked'.read = TRUE
        BY <1>0, <3>2, Fields DEF ParkedRecord
      <4>2. ChosenIn(t, approved) BY <3>2 DEF Provenance, StateChosen, ChosenIn
      <4> QED BY <2>1, <4>1, <4>2 DEF Provenance, StateChosen
    <3> QED BY <1>2, <3>1, <3>2 DEF Drain
  <2>3. proc'[p].pc \notin {"hash", "mark", "anchor"} /\ OnlyMoves(p)
    BY <1>0, <1>2, GotoMoves DEF Drain
  <2> QED BY <2>1, <2>2, <2>3, KeepsReads, NothingRead DEF Provenance
<1>3. CASE Capture(p)
  <2>1. UNCHANGED <<runtime, account, login, parked, local, approved>> BY <1>3 DEF Capture
  <2>2. StateChosen' BY <2>1 DEF Provenance, StateChosen, ChosenIn
  <2>3. ReadChosen(p)' /\ OnlyMoves(p)
    BY <1>0, <1>3, <2>1, CaptureMoves DEF ReadChosen, Provenance, StateChosen
  <2> QED BY <2>1, <2>2, <2>3, KeepsReads DEF Provenance
<1>4. CASE Anchor(p)
  <2>1. UNCHANGED <<parked, local, approved, runtime>> BY <1>4 DEF Anchor
  <2>2. ChosenIn(proc[p].seen, approved) BY <1>4 DEF Anchor, At, Provenance, ReadChosen
  <2>3. ChosenIn(account', approved)
    BY <1>4, <2>2 DEF Anchor, Provenance, StateChosen
  <2>4. login'.token \in {login.token, None}
    <3>1. [login EXCEPT !.completed = TRUE].token = login.token BY <1>0, Fields DEF LoginRow
    <3> QED BY <1>4, <3>1 DEF Anchor
  <2>5. StateChosen' BY <2>1, <2>3, <2>4 DEF Provenance, StateChosen, ChosenIn
  <2>6. proc'[p].pc \notin {"hash", "mark", "anchor"} /\ OnlyMoves(p)
    BY <1>0, <1>4, GotoMoves DEF Anchor
  <2> QED BY <2>1, <2>5, <2>6, KeepsReads, NothingRead DEF Provenance
<1>5. CASE Commit(p)
  <2>1. UNCHANGED <<parked, local, approved, runtime>> BY <1>5 DEF Commit
  <2>2. login'.token \in {login.token, None}
    BY <1>5 DEF Commit, CommitTrusted, Deactivated
  <2>3. ChosenIn(account', approved)
    <3>1. CASE account' = account BY <3>1 DEF Provenance, StateChosen
    <3>2. CASE OAuth /\ Trusted(p) = "active" /\ account' = proc[p].token
      BY <1>0, <3>2, TrustedIsChosen
    <3> QED BY <1>5, <3>1, <3>2 DEF Commit, CommitTrusted
  <2>4. StateChosen' BY <2>1, <2>2, <2>3 DEF Provenance, StateChosen, ChosenIn
  <2>5. proc'[p].pc \notin {"hash", "mark", "anchor"} /\ OnlyMoves(p)
    BY <1>0, <1>5, CommitMoves
  <2> QED BY <2>1, <2>4, <2>5, KeepsReads, NothingRead DEF Provenance
<1> QED BY <1>1, <1>2, <1>3, <1>4, <1>5 DEF RefreshStep

LEMMA RequestMoves ==
  ASSUME ProcsTyped, NEW p \in Proc,
         \/ Poll(p) \/ StartLogin(p) \/ Connect(p) \/ Reconcile(p) \/ Mint(p) \/ Park(p)
         \/ RejectCode(p) \/ ClearSpent(p) \/ ResetClose(p) \/ ResetClear(p) \/ SubmitCode(p)
         \/ Reset(p) \/ Disconnect(p) \/ SetPolicy(p) \/ Store(p) \/ Mark(p)
  PROVE  proc'[p].pc \notin {"hash", "mark", "anchor"} /\ OnlyMoves(p)
<1>1. CASE \/ Poll(p) \/ StartLogin(p) \/ Connect(p) \/ ResetClose(p) \/ ResetClear(p)
           \/ Reset(p) \/ SetPolicy(p)
  <2>1. PICK pc \in {"refresh", "mint", "validate", "clear", "reset", "reconcile"} : Goto(p, pc)
    BY <1>1 DEF Poll, StartLogin, Connect, ResetClose, ResetClear, Reset, SetPolicy
  <2> QED BY <2>1, GotoMoves
<1>2. CASE Reconcile(p)
  <2>1. PICK pc \in {"refresh", "deactivate"} : Goto(p, pc) BY <1>2 DEF Reconcile
  <2> QED BY <2>1, GotoMoves
<1>3. CASE Mint(p) \/ SubmitCode(p) \/ Mark(p) BY <1>3, RecordMoves
<1>4. CASE Park(p) \/ RejectCode(p) \/ ClearSpent(p)
  BY <1>4, RestMoves DEF Park, RejectCode, ClearSpent
<1>5. CASE Store(p)
  <2>1. Goto(p, "refresh") \/ Rest(p) BY <1>5 DEF Store
  <2> QED BY <2>1, GotoMoves, RestMoves
<1>6. CASE Disconnect(p) BY <1>6 DEF Disconnect, OnlyMoves, At
<1> QED BY <1>1, <1>2, <1>3, <1>4, <1>5, <1>6

LEMMA RequestChosen ==
  ASSUME TypeOK, Provenance, NEW p \in Proc, Poll(p) \/ RequestStep(p) \/ Request(p)
  PROVE  Provenance'
<1>0. StateTyped /\ ProcsTyped BY TypeParts
<1> USE RecordsNone
<1>1. CASE \/ Poll(p) \/ StartLogin(p) \/ Connect(p) \/ Reconcile(p) \/ Mint(p) \/ Park(p)
           \/ RejectCode(p) \/ ClearSpent(p) \/ ResetClose(p) \/ SubmitCode(p)
           \/ Reset(p) \/ Disconnect(p) \/ SetPolicy(p)
  <2>1. UNCHANGED <<runtime, local, approved>> /\ account' \in {account, None}
    BY <1>1 DEF Poll, StartLogin, Connect, Reconcile, Mint, Park, RejectCode, ClearSpent,
                ResetClose, SubmitCode, Reset, Disconnect, SetPolicy
  <2>2. login'.token \in {login.token, None}
    <3>1. CASE Park(p)
      <4>1. login' = login \/ login' = [NoLogin EXCEPT !.id = proc[p].login]
        BY <3>1 DEF Park
      <4> QED BY <4>1 DEF NoLogin
    <3>2. CASE ~Park(p)
      <4>1. login' = login \/ login' = NoLogin
        BY <1>1, <3>2 DEF Poll, StartLogin, Connect, Reconcile, Mint, RejectCode, ClearSpent,
                          ResetClose, SubmitCode, Reset, Disconnect, SetPolicy
      <4> QED BY <4>1
    <3> QED BY <3>1, <3>2
  <2>3. parked' = parked \/ (parked'.token = None /\ ~parked'.completed)
    <3>1. CASE Mint(p)
      <4>1. parked' = parked \/ parked' = [NoParked EXCEPT !.id = minted'] BY <3>1 DEF Mint
      <4> QED BY <4>1 DEF NoParked
    <3>2. CASE ~Mint(p)
      <4>1. parked' = parked \/ parked' = NoParked
        BY <1>1, <3>2 DEF Poll, StartLogin, Connect, Reconcile, Park, RejectCode, ClearSpent,
                          ResetClose, SubmitCode, Reset, Disconnect, SetPolicy
      <4> QED BY <4>1
    <3> QED BY <3>1, <3>2
  <2>4. StateChosen' BY <1>0, <2>1, <2>2, <2>3, KeepsState
  <2>5. proc'[p].pc \notin {"hash", "mark", "anchor"} /\ OnlyMoves(p)
    BY <1>0, <1>1, RequestMoves
  <2> QED BY <2>1, <2>4, <2>5, KeepsReads, NothingRead DEF Provenance
<1>2. ASSUME NEW t \in Token, AcceptCode(p, t) PROVE Provenance'
  <2>1. /\ UNCHANGED <<account, login>> /\ parked' = NoParked
        /\ approved \subseteq approved' /\ ChosenIn(local', approved')
    BY <1>2 DEF AcceptCode, ChosenIn
  <2>2. StateChosen' BY <2>1 DEF Provenance, StateChosen, ChosenIn
  <2>3. OnlyMoves(p) /\ proc'[p].pc = "hash" BY <1>0, <1>2, GotoMoves DEF AcceptCode
  <2>4. ReadChosen(p)' BY <2>1, <2>3 DEF ReadChosen
  <2> QED BY <2>1, <2>2, <2>3, <2>4, KeepsReads DEF Provenance
<1>3. CASE ReadHash(p)
  <2>1. UNCHANGED <<runtime, account, login, parked, local, approved>> BY <1>3 DEF ReadHash
  <2>2. StateChosen' BY <2>1 DEF Provenance, StateChosen, ChosenIn
  <2>3. ChosenIn(local, approved) BY <1>3 DEF ReadHash, At, Provenance, ReadChosen
  <2>4. proc'[p].pc = "mark" /\ proc'[p].seen \in {local, None} /\ OnlyMoves(p)
    BY <1>0, <1>3, RecordMoves
  <2>5. ReadChosen(p)' BY <2>1, <2>3, <2>4 DEF ReadChosen, ChosenIn
  <2> QED BY <2>1, <2>2, <2>4, <2>5, KeepsReads DEF Provenance
<1>4. CASE Mark(p)
  <2>1. UNCHANGED <<runtime, account, parked, local, approved>> BY <1>4 DEF Mark
  <2>2. ChosenIn(proc[p].seen, approved) BY <1>4 DEF Mark, At, Provenance, ReadChosen
  <2>3. login'.token \in {login.token, None, proc[p].seen}
    <3>1. login \in LoginRow BY <1>0, Fields
    <3>2. [login EXCEPT !.completed = TRUE,
             !.token = IF proc[p].seen = None THEN @ ELSE proc[p].seen].token
            \in {login.token, proc[p].seen}
      BY <3>1 DEF LoginRow
    <3> QED BY <1>4, <3>2 DEF Mark
  <2>4. StateChosen' BY <2>1, <2>2, <2>3 DEF Provenance, StateChosen, ChosenIn
  <2>5. proc'[p].pc \notin {"hash", "mark", "anchor"} /\ OnlyMoves(p)
    BY <1>0, <1>4, RequestMoves
  <2> QED BY <2>1, <2>4, <2>5, KeepsReads, NothingRead DEF Provenance
<1>5. CASE ResetClear(p)
  <2>1. /\ UNCHANGED <<runtime, account, login, parked, approved>>
        /\ local' = local \/ ChosenIn(local', approved')
    BY <1>5 DEF ResetClear, ChosenIn
  <2>2. StateChosen' BY <2>1 DEF Provenance, StateChosen, ChosenIn
  <2>3. proc'[p].pc \notin {"hash", "mark", "anchor"} /\ OnlyMoves(p)
    BY <1>0, <1>5, RequestMoves
  <2> QED BY <2>1, <2>2, <2>3, KeepsReads, NothingRead DEF Provenance
<1>6. CASE Store(p)
  <2>1. /\ UNCHANGED <<runtime, login, local, parked>> /\ approved \subseteq approved'
        /\ account' = account \/ ChosenIn(account', approved')
    BY <1>6 DEF Store, ChosenIn
  <2>2. StateChosen' BY <2>1 DEF Provenance, StateChosen, ChosenIn
  <2>3. proc'[p].pc \notin {"hash", "mark", "anchor"} /\ OnlyMoves(p)
    BY <1>0, <1>6, RequestMoves
  <2> QED BY <2>1, <2>2, <2>3, KeepsReads, NothingRead DEF Provenance
<1> QED BY <1>1, <1>2, <1>3, <1>4, <1>5, <1>6 DEF RequestStep, Request

LEMMA OthersChosen ==
  ASSUME TypeOK, Provenance,
         (\E t \in Token : DeviceLogin(t)) \/ RewriteLocal \/ Expire \/ Restart
  PROVE  Provenance'
<1>0. StateTyped /\ ProcsTyped BY TypeParts
<1> USE RecordsNone
<1>1. ASSUME NEW t \in Token, DeviceLogin(t) PROVE Provenance'
  <2>1. /\ UNCHANGED <<runtime, account, login, proc>> /\ runtime = "codex"
        /\ approved \subseteq approved' /\ ChosenIn(local', approved')
    BY <1>1 DEF DeviceLogin, ChosenIn
  <2>2. parked'.token = parked.token BY <1>0, <1>1, Fields DEF DeviceLogin, ParkedRecord
  <2> QED BY <2>1, <2>2 DEF Provenance, StateChosen, ReadChosen, ChosenIn
<1>2. CASE RewriteLocal
  <2>1. UNCHANGED <<runtime, account, login, parked, approved, proc>> BY <1>2 DEF RewriteLocal
  <2>2. ~(parked.completed /\ ~parked.read) /\ \A p \in Proc : proc[p].pc # "hash"
    BY <1>2 DEF RewriteLocal, CompletionUnread, At, Provenance, StateChosen
  <2> QED BY <2>1, <2>2 DEF Provenance, StateChosen, ReadChosen
<1>3. CASE Expire
  <2>1. UNCHANGED <<runtime, account, local, parked, approved, proc>> BY <1>3 DEF Expire
  <2>2. login'.token = login.token BY <1>0, <1>3, Fields DEF Expire, LoginRow
  <2> QED BY <2>1, <2>2 DEF Provenance, StateChosen, ReadChosen
<1>4. CASE Restart
  <2>1. UNCHANGED <<account, login, approved>> /\ parked' = NoParked BY <1>4 DEF Restart
  <2>2. \A p \in Proc : proc'[p].pc = "idle" BY <1>4 DEF Restart
  <2>3. StateChosen' BY <2>1 DEF Provenance, StateChosen, ChosenIn
  <2> QED BY <2>2, <2>3 DEF Provenance, ReadChosen
<1> QED BY <1>1, <1>2, <1>3, <1>4

LEMMA ProvenanceInvariant == Spec => []Provenance
<1>1. Init => Provenance
  BY RecordsNone DEF Init, Provenance, StateChosen, ReadChosen, ChosenIn
<1>2. TypeOK /\ Provenance /\ [Next]_vars => Provenance'
  <2> SUFFICES ASSUME TypeOK, Provenance, [Next]_vars PROVE Provenance' OBVIOUS
  <2>1. CASE UNCHANGED vars BY <2>1 DEF vars, Provenance, StateChosen, ReadChosen
  <2>2. CASE Next BY <2>2, RefreshChosen, RequestChosen, OthersChosen DEF Next
  <2> QED BY <2>1, <2>2
<1> QED BY <1>1, <1>2, TrustTypeCorrect, PTL DEF Spec

(* Whatever the agent writes into its credential file, and in whatever     *)
(* order refreshes, logins, resets and restarts interleave, the anchored   *)
(* account is one the operator logged in with or connected.                *)
THEOREM AnchorsApproved == Spec => []AnchorApproved
<1>1. Provenance => AnchorApproved BY DEF Provenance, StateChosen, ChosenIn, AnchorApproved
<1> QED BY <1>1, ProvenanceInvariant, PTL

-----------------------------------------------------------------------------
(* What a commit trusts is pinned, and stays until a reset                 *)

AfterProbe == RefreshPC \ {"withdraw", "probe", "close"}

(* Bedrock requests are Hermes's and logins are not; a credential that the *)
(* probe found active is a credential.                                     *)
Fits(p) ==
  /\ proc[p].pc \in ConnectPC => ~OAuth
  /\ proc[p].pc \in LoginPC => OAuth
  /\ proc[p].pc \in AfterProbe /\ proc[p].status = "active" /\ OAuth => proc[p].token # None

KindOK ==
  /\ ~OAuth => pin = None /\ login = NoLogin
  /\ \A p \in Proc : Fits(p)

LEMMA KeepsFits ==
  ASSUME KindOK, NEW p \in Proc, OnlyMoves(p), runtime' = runtime, Fits(p)'
  PROVE  \A q \in Proc : Fits(q)'
<1> SUFFICES ASSUME NEW q \in Proc PROVE Fits(q)' OBVIOUS
<1>1. CASE q = p BY <1>1
<1>2. CASE q # p
  <2>1. proc'[q] = proc[q] /\ Fits(q) BY <1>2 DEF OnlyMoves, KindOK
  <2> QED BY <2>1 DEF Fits, OAuth
<1> QED BY <1>1, <1>2

LEMMA RuntimeFixed ==
  ASSUME [Next]_vars PROVE runtime' = runtime
<1>1. ASSUME NEW p \in Proc, RefreshStep(p) PROVE runtime' = runtime
  BY <1>1 DEF RefreshStep, BeginRefresh, Probe, Drain, Capture, Anchor, Drop, Attest, Commit,
              CloseLogin, Deactivate
<1>2. ASSUME NEW p \in Proc, RequestStep(p) PROVE runtime' = runtime
  BY <1>2 DEF RequestStep, Mint, Park, AcceptCode, RejectCode, ReadHash, Mark, ClearSpent,
              ResetClose, ResetClear, Store, Reconcile
<1>3. ASSUME NEW p \in Proc, Poll(p) \/ Request(p) PROVE runtime' = runtime
  BY <1>3 DEF Poll, Request, StartLogin, SubmitCode, Reset, Connect, Disconnect, SetPolicy
<1>4. CASE (\E t \in Token : DeviceLogin(t)) \/ RewriteLocal \/ Expire \/ Restart
  BY <1>4 DEF DeviceLogin, RewriteLocal, Expire, Restart
<1>5. CASE UNCHANGED vars BY <1>5 DEF vars
<1> QED BY <1>1, <1>2, <1>3, <1>4, <1>5 DEF Next

LEMMA ProcessFits ==
  ASSUME TypeOK, KindOK, runtime' = runtime, NEW p \in Proc,
         Poll(p) \/ RefreshStep(p) \/ RequestStep(p) \/ Request(p)
  PROVE  \A q \in Proc : Fits(q)'
<1>0. StateTyped /\ ProcsTyped /\ Fits(p) BY TypeParts DEF KindOK
<1> DEFINE holds == ConnectPC \cup LoginPC \cup AfterProbe
<1>1. CASE BeginRefresh(p)
  <2>1. PICK pc \in {"probe", "withdraw"} : Goto(p, pc) BY <1>1 DEF BeginRefresh
  <2>2. proc'[p].pc \notin holds /\ OnlyMoves(p)
    BY <1>0, <2>1, GotoMoves DEF ConnectPC, LoginPC, AfterProbe
  <2> QED BY <2>2, KeepsFits DEF Fits
<1>2. CASE Probe(p)
  <2>1. /\ proc'[p].pc \in {"drain", "attest", "commit"} /\ OnlyMoves(p)
        /\ OAuth /\ proc'[p].status = "active" => proc'[p].token # None
    BY <1>0, <1>2, ProbeMoves
  <2> QED BY <2>1, KeepsFits DEF Fits, ConnectPC, LoginPC, OAuth
<1>3. CASE Drain(p) \/ Capture(p) \/ Anchor(p) \/ Drop(p) \/ Attest(p)
  <2>1. /\ proc'[p].pc \in AfterProbe /\ proc[p].pc \in AfterProbe /\ OnlyMoves(p)
        /\ proc'[p].status = proc[p].status /\ proc'[p].token = proc[p].token
    <3>1. CASE Drain(p) \/ Anchor(p) \/ Drop(p)
      <4>1. proc[p].pc \in AfterProbe /\ \E pc \in AfterProbe : Goto(p, pc)
        BY <3>1 DEF Drain, Anchor, Drop, At, AfterProbe, RefreshPC
      <4> QED BY <1>0, <4>1, GotoMoves
    <3>2. CASE Capture(p)
      BY <1>0, <3>2, CaptureMoves DEF Capture, At, AfterProbe, RefreshPC
    <3>3. CASE Attest(p)
      BY <1>0, <3>3, AttestMoves DEF Attest, At, AfterProbe, RefreshPC
    <3> QED BY <1>3, <3>1, <3>2, <3>3
  <2>2. proc'[p].pc \notin ConnectPC /\ proc'[p].pc \notin LoginPC
    BY <2>1 DEF AfterProbe, RefreshPC, ConnectPC, LoginPC
  <2>3. Fits(p)' BY <1>0, <2>1, <2>2 DEF Fits, OAuth
  <2> QED BY <2>1, <2>3, KeepsFits
<1>4. CASE Commit(p) \/ CloseLogin(p) \/ Deactivate(p)
  <2>1. proc'[p].pc \in {"idle", "spent", "close"} /\ OnlyMoves(p)
    BY <1>0, <1>4, CommitMoves, FinishMoves DEF CloseLogin, Deactivate
  <2>2. proc'[p].pc \notin holds BY <2>1 DEF ConnectPC, LoginPC, AfterProbe, RefreshPC
  <2> QED BY <2>1, <2>2, KeepsFits DEF Fits
<1>5. CASE StartLogin(p) \/ Connect(p)
  <2>1. PICK pc \in {"mint", "validate"} : /\ Goto(p, pc)
                                           /\ pc = "mint" => OAuth
                                           /\ pc = "validate" => ~OAuth
    BY <1>5 DEF StartLogin, Connect, OAuth
  <2>2. proc'[p].pc = pc /\ OnlyMoves(p) BY <1>0, <2>1, GotoMoves
  <2>3. Fits(p)' BY <2>1, <2>2 DEF Fits, OAuth, ConnectPC, LoginPC, AfterProbe, RefreshPC
  <2> QED BY <2>2, <2>3, KeepsFits
<1>6. CASE Mint(p)
  <2>1. OAuth BY <1>0, <1>6 DEF Mint, At, Fits, LoginPC
  <2>2. proc'[p].pc \in {"park", "idle"} /\ OnlyMoves(p) BY <1>0, <1>6, RecordMoves
  <2>3. Fits(p)' BY <2>1, <2>2 DEF Fits, OAuth, ConnectPC, LoginPC, AfterProbe, RefreshPC
  <2> QED BY <2>2, <2>3, KeepsFits
<1>7. CASE \/ Poll(p) \/ Reconcile(p) \/ Park(p) \/ (\E t \in Token : AcceptCode(p, t))
           \/ RejectCode(p) \/ ReadHash(p) \/ Mark(p) \/ ClearSpent(p) \/ ResetClose(p)
           \/ ResetClear(p) \/ SubmitCode(p) \/ Reset(p) \/ SetPolicy(p) \/ Store(p)
  <2>1. proc'[p].pc \notin holds /\ OnlyMoves(p)
    <3>1. CASE \/ Poll(p) \/ Reconcile(p) \/ (\E t \in Token : AcceptCode(p, t))
               \/ ResetClose(p) \/ ResetClear(p) \/ Reset(p) \/ SetPolicy(p)
      <4>1. PICK pc \in {"refresh", "deactivate", "hash", "clear", "reset", "reconcile"} :
              Goto(p, pc)
        BY <3>1 DEF Poll, Reconcile, AcceptCode, ResetClose, ResetClear, Reset, SetPolicy
      <4> QED BY <1>0, <4>1, GotoMoves DEF ConnectPC, LoginPC, AfterProbe, RefreshPC
    <3>2. CASE ReadHash(p) \/ Mark(p) \/ SubmitCode(p)
      BY <1>0, <3>2, RecordMoves DEF ConnectPC, LoginPC, AfterProbe, RefreshPC
    <3>3. CASE Park(p) \/ RejectCode(p) \/ ClearSpent(p) \/ Store(p)
      <4>1. Rest(p) \/ Goto(p, "refresh") BY <3>3 DEF Park, RejectCode, ClearSpent, Store
      <4> QED BY <1>0, <4>1, GotoMoves, RestMoves DEF ConnectPC, LoginPC, AfterProbe, RefreshPC
    <3> QED BY <1>7, <3>1, <3>2, <3>3
  <2> QED BY <2>1, KeepsFits DEF Fits
<1>8. CASE Disconnect(p)
  BY <1>8 DEF Disconnect, KindOK, Fits, OAuth
<1> QED
  BY <1>1, <1>2, <1>3, <1>4, <1>5, <1>6, <1>7, <1>8 DEF RefreshStep, RequestStep, Request

LEMMA HermesKeepsNone ==
  ASSUME TypeOK, KindOK, [Next]_vars, ~OAuth
  PROVE  pin' = None /\ login' = NoLogin
<1>0. StateTyped /\ ProcsTyped /\ pin = None /\ login = NoLogin BY TypeParts DEF KindOK
<1> USE RecordsNone
<1>1. ASSUME NEW p \in Proc, RefreshStep(p) PROVE pin' = None /\ login' = NoLogin
  <2>1. CASE Anchor(p)
    <3>1. ~Current(login) BY <1>0 DEF Current
    <3> QED BY <1>0, <2>1, <3>1 DEF Anchor, DropExpired
  <2>2. CASE Commit(p) BY <1>0, <2>2 DEF Commit, CommitTrusted, Deactivated, DropExpired
  <2>3. CASE Drop(p) \/ Deactivate(p) BY <1>0, <2>3 DEF Drop, Deactivate, Deactivated
  <2>4. CASE BeginRefresh(p) \/ Probe(p) \/ Drain(p) \/ Capture(p) \/ Attest(p) \/ CloseLogin(p)
    BY <1>0, <2>4 DEF BeginRefresh, Probe, Drain, Capture, Attest, CloseLogin
  <2> QED BY <1>1, <2>1, <2>2, <2>3, <2>4 DEF RefreshStep
<1>2. ASSUME NEW p \in Proc, Poll(p) \/ RequestStep(p) \/ Request(p)
      PROVE  pin' = None /\ login' = NoLogin
  <2>1. CASE Park(p)
    BY <2>1 DEF Park, At, KindOK, Fits, LoginPC
  <2>2. CASE Mark(p)
    <3>1. ~Current(login) BY <1>0 DEF Current
    <3> QED BY <1>0, <2>2, <3>1 DEF Mark
  <2>3. CASE \/ Poll(p) \/ Mint(p) \/ (\E t \in Token : AcceptCode(p, t)) \/ RejectCode(p)
             \/ ReadHash(p) \/ ClearSpent(p) \/ ResetClose(p) \/ ResetClear(p) \/ Store(p)
             \/ Reconcile(p) \/ Request(p)
    BY <1>0, <2>3 DEF Poll, Mint, AcceptCode, RejectCode, ReadHash, ClearSpent, ResetClose,
      ResetClear, Store, Reconcile, Request, StartLogin, SubmitCode, Reset, Connect, Disconnect,
      SetPolicy
  <2> QED BY <1>2, <2>1, <2>2, <2>3 DEF RequestStep
<1>3. CASE (\E t \in Token : DeviceLogin(t)) \/ RewriteLocal \/ Expire \/ Restart
  BY <1>0, <1>3 DEF DeviceLogin, RewriteLocal, Expire, Restart, Current
<1>4. CASE UNCHANGED vars BY <1>0, <1>4 DEF vars
<1> QED BY <1>1, <1>2, <1>3, <1>4 DEF Next

LEMMA KindInvariant == Spec => []KindOK
<1>1. Init => KindOK
  BY RecordsNone DEF Init, KindOK, Fits, ConnectPC, LoginPC, AfterProbe, RefreshPC
<1>2. TypeOK /\ KindOK /\ [Next]_vars => KindOK'
  <2> SUFFICES ASSUME TypeOK, KindOK, [Next]_vars PROVE KindOK' OBVIOUS
  <2>1. runtime' = runtime /\ (~OAuth => pin' = None /\ login' = NoLogin)
    BY RuntimeFixed, HermesKeepsNone
  <2>2. \A q \in Proc : Fits(q)'
    <3>1. ASSUME NEW p \in Proc, Poll(p) \/ RefreshStep(p) \/ RequestStep(p) \/ Request(p)
          PROVE  \A q \in Proc : Fits(q)'
      BY <2>1, <3>1, ProcessFits
    <3>2. CASE (\E t \in Token : DeviceLogin(t)) \/ RewriteLocal \/ Expire \/ UNCHANGED vars
      <4>1. proc' = proc BY <3>2 DEF DeviceLogin, RewriteLocal, Expire, vars
      <4> QED BY <2>1, <4>1 DEF KindOK, Fits, OAuth
    <3>3. CASE Restart
      <4>1. \A q \in Proc : proc'[q].pc = "idle" BY <3>3, RecordsNone DEF Restart
      <4> QED BY <4>1 DEF Fits, ConnectPC, LoginPC, AfterProbe, RefreshPC
    <3> QED BY <3>1, <3>2, <3>3 DEF Next
  <2> QED BY <2>1, <2>2 DEF KindOK, OAuth
<1> QED BY <1>1, <1>2, TrustTypeCorrect, PTL DEF Spec

(* The four things a step can do to the anchor, the pin and the status.    *)
KeepsAccount == UNCHANGED <<account, pin>> /\ status' \in {status, "loading", "deactivated"}
ClearsPin == account' \in {account, None} /\ pin' = None /\ status' # "active"
FirstAnchors == account = None /\ UNCHANGED <<pin, status>>
PinsAccount == /\ pin' = account' /\ account' # None
               /\ account = None \/ SameAccount(account, account')

LEMMA AccountSteps ==
  ASSUME TypeOK, KindOK, [Next]_vars, OAuth
  PROVE  KeepsAccount \/ ClearsPin \/ FirstAnchors \/ PinsAccount
<1>0. StateTyped /\ ProcsTyped BY TypeParts
<1>1. ASSUME NEW p \in Proc, RefreshStep(p)
      PROVE  KeepsAccount \/ ClearsPin \/ FirstAnchors \/ PinsAccount
  <2>1. CASE Anchor(p)
    <3>1. CASE account = None BY <2>1, <3>1 DEF Anchor, FirstAnchors
    <3>2. CASE account # None BY <2>1, <3>2 DEF Anchor, KeepsAccount
    <3> QED BY <3>1, <3>2
  <2>2. CASE Commit(p)
    <3>1. CASE ~enabled
      BY <2>2, <3>1 DEF Commit, Deactivated, ClearsPin
    <3>2. CASE enabled /\ Trusted(p) # "active"
      BY <2>2, <3>2 DEF Commit, CommitTrusted, ClearsPin
    <3>3. CASE enabled /\ Trusted(p) = "active"
      <4>1. account' = proc[p].token /\ pin' = proc[p].token
        BY <2>2, <3>3 DEF Commit, CommitTrusted
      <4>2. /\ proc[p].status = "active"
            /\ \/ account = proc[p].token
               \/ SameAccount(proc[p].token, account)
               \/ account = None /\ login.token = proc[p].token
        BY <1>0, <3>3, TrustedIsSame
      <4>3. proc[p].token # None
        BY <2>2, <4>2 DEF Commit, At, KindOK, Fits, AfterProbe, RefreshPC
      <4> QED BY <4>1, <4>2, <4>3 DEF PinsAccount, SameAccount
    <3> QED BY <3>1, <3>2, <3>3
  <2>3. CASE Deactivate(p) BY <2>3 DEF Deactivate, Deactivated, ClearsPin
  <2>4. CASE \/ BeginRefresh(p) \/ Probe(p) \/ Drain(p) \/ Capture(p) \/ Attest(p)
             \/ CloseLogin(p) \/ Drop(p)
    BY <2>4
    DEF BeginRefresh, Probe, Drain, Capture, Attest, CloseLogin, Drop, KeepsAccount
  <2> QED BY <1>1, <2>1, <2>2, <2>3, <2>4 DEF RefreshStep
<1>2. ASSUME NEW p \in Proc, Poll(p) \/ RequestStep(p) \/ Request(p)
      PROVE  KeepsAccount \/ ClearsPin \/ FirstAnchors \/ PinsAccount
  <2>1. CASE Reset(p) BY <2>1 DEF Reset, ResetStatus, ClearsPin
  <2>2. ~Store(p) /\ ~Disconnect(p)
    BY DEF Store, Disconnect, At, KindOK, Fits, ConnectPC, OAuth
  <2>3. CASE \/ Poll(p) \/ Mint(p) \/ Park(p) \/ (\E t \in Token : AcceptCode(p, t))
             \/ RejectCode(p) \/ ReadHash(p) \/ Mark(p) \/ ClearSpent(p) \/ ResetClose(p)
             \/ ResetClear(p) \/ Reconcile(p) \/ StartLogin(p) \/ SubmitCode(p) \/ Connect(p)
             \/ SetPolicy(p)
    BY <2>3 DEF Poll, Mint, Park, AcceptCode, RejectCode, ReadHash, Mark, ClearSpent,
      ResetClose, ResetClear, Reconcile, StartLogin, SubmitCode, Connect, SetPolicy, KeepsAccount
  <2> QED BY <1>2, <2>1, <2>2, <2>3 DEF RequestStep, Request
<1>3. CASE (\E t \in Token : DeviceLogin(t)) \/ RewriteLocal \/ Expire \/ Restart
  BY <1>3 DEF DeviceLogin, RewriteLocal, Expire, Restart, KeepsAccount
<1>4. CASE UNCHANGED vars BY <1>4 DEF vars, KeepsAccount
<1> QED BY <1>1, <1>2, <1>3, <1>4 DEF Next

(* What the proxy lets through is always an account of the anchor's, and a *)
(* runtime shown active always has such a pin.                             *)
THEOREM PinsAnchored == Spec => []PinIsAnchored
<1>1. Init => PinIsAnchored BY DEF Init, PinIsAnchored
<1>2. TypeOK /\ KindOK /\ PinIsAnchored /\ [Next]_vars => PinIsAnchored'
  <2> SUFFICES ASSUME TypeOK, KindOK, PinIsAnchored, [Next]_vars, OAuth'
               PROVE  /\ pin' # None => SameAccount(pin', account')
                      /\ status' = "active" => pin' # None
    BY DEF PinIsAnchored, SameAccount
  <2>1. OAuth BY RuntimeFixed DEF OAuth
  <2>2. CASE KeepsAccount BY <2>1, <2>2 DEF KeepsAccount, PinIsAnchored
  <2>3. CASE ClearsPin BY <2>3 DEF ClearsPin
  <2>4. CASE FirstAnchors BY <2>1, <2>4 DEF FirstAnchors, PinIsAnchored, SameAccount
  <2>5. CASE PinsAccount BY <2>5 DEF PinsAccount, SameAccount
  <2> QED BY <2>1, <2>2, <2>3, <2>4, <2>5, AccountSteps
<1> QED BY <1>1, <1>2, TrustTypeCorrect, KindInvariant, PTL DEF Spec

(* No step replaces an anchored account by another one: a reset has to     *)
(* clear it first.                                                         *)
THEOREM AnchorsImmutable == Spec => AnchorImmutable
<1> DEFINE Kept == OAuth /\ account # None /\ account' # None => SameAccount(account, account')
<1>1. TypeOK /\ KindOK /\ [Next]_vars => Kept
  <2> SUFFICES ASSUME TypeOK, KindOK, [Next]_vars, OAuth, account # None, account' # None
               PROVE  SameAccount(account, account')
    OBVIOUS
  <2>1. account' = account \/ SameAccount(account, account')
    BY AccountSteps DEF KeepsAccount, ClearsPin, FirstAnchors, PinsAccount
  <2> QED BY <2>1 DEF SameAccount
<1>2. TypeOK /\ KindOK /\ [Next]_vars => [Kept]_vars BY <1>1
<1> QED BY <1>2, TrustTypeCorrect, KindInvariant, PTL DEF Spec, AnchorImmutable

-----------------------------------------------------------------------------
(* A disable sticks                                                        *)

Shut == status = "deactivated" /\ pin = None /\ login = NoLogin

LEMMA ShutIsSticking == /\ DisableSticks <=> (enabled \/ DisablePending \/ Shut)
                        /\ DisableSticks' <=> (enabled' \/ DisablePending' \/ Shut')
  BY DEF DisableSticks, Shut

(* A step that neither reconciles, nor touches status and pin, nor writes  *)
(* a login row where there was none while the provider is disabled.        *)
LEMMA QuietSteps ==
  ASSUME DisableSticks, NEW p \in Proc, proc[p].pc \notin {"reconcile", "deactivate"},
         OnlyMoves(p), UNCHANGED <<enabled, status, pin>>,
         enabled \/ login # NoLogin \/ login' = NoLogin
  PROVE  DisableSticks'
<1>1. CASE enabled BY <1>1, ShutIsSticking
<1>2. CASE DisablePending
  <2>1. CASE status = "loading" BY <2>1, ShutIsSticking DEF DisablePending
  <2>2. ASSUME NEW q \in Proc, proc[q].pc \in {"reconcile", "deactivate"}
        PROVE  DisableSticks'
    <3>1. proc'[q] = proc[q] BY <2>2 DEF OnlyMoves
    <3> QED BY <2>2, <3>1, ShutIsSticking DEF DisablePending
  <2> QED BY <1>2, <2>1, <2>2 DEF DisablePending
<1>3. CASE ~enabled /\ Shut BY <1>3, ShutIsSticking DEF Shut
<1> QED BY <1>1, <1>2, <1>3, ShutIsSticking

LEMMA RefreshSticks ==
  ASSUME TypeOK, KindOK, DisableSticks, NEW p \in Proc, RefreshStep(p)
  PROVE  DisableSticks'
<1>0. StateTyped /\ ProcsTyped BY TypeParts
<1> USE RecordsNone
<1>1. CASE Commit(p)
  <2>1. CASE enabled BY <1>1, <2>1, ShutIsSticking DEF Commit
  <2>2. CASE ~enabled
    BY <1>1, <2>2, ShutIsSticking DEF Commit, Deactivated, Shut
  <2> QED BY <2>1, <2>2
<1>2. CASE Deactivate(p)
  BY <1>2, ShutIsSticking DEF Deactivate, Deactivated, Shut
<1>3. CASE \/ BeginRefresh(p) \/ Probe(p) \/ Drain(p) \/ Capture(p) \/ Anchor(p) \/ Drop(p)
           \/ Attest(p) \/ CloseLogin(p)
  <2>1. UNCHANGED <<enabled, status, pin>> /\ proc[p].pc \notin {"reconcile", "deactivate"}
    BY <1>3
    DEF BeginRefresh, Probe, Drain, Capture, Anchor, Drop, Attest, CloseLogin, At
  <2>2. login # NoLogin \/ login' = NoLogin
    <3>1. CASE Anchor(p) BY <3>1 DEF Anchor, Current, DropExpired
    <3>2. CASE ~Anchor(p)
      BY <1>3, <3>2 DEF BeginRefresh, Probe, Drain, Capture, Drop, Attest, CloseLogin
    <3> QED BY <3>1, <3>2
  <2>3. OnlyMoves(p)
    <3>1. CASE BeginRefresh(p) \/ Drain(p) \/ Anchor(p) \/ Drop(p)
      <4>1. PICK pc \in {"probe", "withdraw", "capture", "commit"} : Goto(p, pc)
        BY <3>1 DEF BeginRefresh, Drain, Anchor, Drop
      <4> QED BY <1>0, <4>1, GotoMoves
    <3>2. CASE Probe(p) \/ Capture(p) \/ Attest(p)
      BY <1>0, <3>2, ProbeMoves, CaptureMoves, AttestMoves
    <3>3. CASE CloseLogin(p) BY <1>0, <3>3, FinishMoves DEF CloseLogin
    <3> QED BY <1>3, <3>1, <3>2, <3>3
  <2> QED BY <2>1, <2>2, <2>3, QuietSteps
<1> QED BY <1>1, <1>2, <1>3 DEF RefreshStep

LEMMA RequestSticks ==
  ASSUME TypeOK, KindOK, DisableSticks, NEW p \in Proc,
         Poll(p) \/ RequestStep(p) \/ Request(p)
  PROVE  DisableSticks'
<1>0. StateTyped /\ ProcsTyped BY TypeParts
<1> USE RecordsNone
<1>1. CASE SetPolicy(p)
  <2>1. proc'[p].pc = "reconcile" BY <1>0, <1>1, GotoMoves DEF SetPolicy
  <2> QED BY <2>1, ShutIsSticking DEF DisablePending
<1>2. CASE Reconcile(p)
  <2>1. CASE enabled BY <1>2, <2>1, ShutIsSticking DEF Reconcile
  <2>2. CASE ~enabled
    <3>1. Goto(p, "deactivate") BY <1>2, <2>2 DEF Reconcile
    <3>2. proc'[p].pc = "deactivate" BY <1>0, <3>1, GotoMoves
    <3> QED BY <3>2, ShutIsSticking DEF DisablePending
  <2> QED BY <2>1, <2>2
<1>3. CASE Reset(p) BY <1>3, ShutIsSticking DEF Reset, ResetStatus, Shut
<1>4. CASE Disconnect(p)
  <2>1. pin = None /\ login = NoLogin BY <1>4 DEF Disconnect, KindOK, OAuth
  <2> QED BY <1>4, <2>1, ShutIsSticking DEF Disconnect, ResetStatus, Shut
<1>5. CASE \/ Poll(p) \/ Mint(p) \/ Park(p) \/ (\E t \in Token : AcceptCode(p, t))
           \/ RejectCode(p) \/ ReadHash(p) \/ Mark(p) \/ ClearSpent(p) \/ ResetClose(p)
           \/ ResetClear(p) \/ Store(p) \/ StartLogin(p) \/ SubmitCode(p) \/ Connect(p)
  <2>1. UNCHANGED <<enabled, status, pin>> /\ proc[p].pc \notin {"reconcile", "deactivate"}
    BY <1>5 DEF Poll, Mint, Park, AcceptCode, RejectCode, ReadHash, Mark, ClearSpent,
                ResetClose, ResetClear, Store, StartLogin, SubmitCode, Connect, At
  <2>2. enabled \/ login # NoLogin \/ login' = NoLogin
    BY <1>5 DEF Poll, Mint, Park, LoginAvailable, AcceptCode, RejectCode, ReadHash, Mark,
                Current, ClearSpent, ResetClose, ResetClear, Store, StartLogin, SubmitCode, Connect
  <2>3. OnlyMoves(p)
    <3>1. CASE ReadHash(p) BY <1>0, <3>1, RecordMoves
    <3>2. ASSUME NEW t \in Token, AcceptCode(p, t) PROVE OnlyMoves(p)
      BY <1>0, <3>2, GotoMoves DEF AcceptCode
    <3> QED BY <1>0, <1>5, <3>1, <3>2, RequestMoves
  <2> QED BY <2>1, <2>2, <2>3, QuietSteps
<1> QED BY <1>1, <1>2, <1>3, <1>4, <1>5 DEF RequestStep, Request

(* However refreshes, logins and policy changes interleave, once the       *)
(* request that disabled the provider has reconciled, the runtime shows    *)
(* deactivated, with no pin and no login left.                             *)
THEOREM DisablesStick == Spec => []DisableSticks
<1>1. Init => DisableSticks BY DEF Init, DisableSticks, DisablePending
<1>2. TypeOK /\ KindOK /\ DisableSticks /\ [Next]_vars => DisableSticks'
  <2> SUFFICES ASSUME TypeOK, KindOK, DisableSticks, [Next]_vars PROVE DisableSticks' OBVIOUS
  <2>1. ASSUME NEW t \in Token, DeviceLogin(t) PROVE DisableSticks'
    BY <2>1, ShutIsSticking DEF DeviceLogin, DisablePending, Shut
  <2>2. CASE RewriteLocal BY <2>2, ShutIsSticking DEF RewriteLocal, DisablePending, Shut
  <2>3. CASE Expire
    BY <2>3, ShutIsSticking DEF Expire, Current, DisablePending, Shut
  <2>4. CASE Restart BY <2>4, ShutIsSticking DEF Restart, DisablePending
  <2>5. CASE UNCHANGED vars BY <2>5, ShutIsSticking DEF vars, DisablePending, Shut
  <2> QED BY <2>1, <2>2, <2>3, <2>4, <2>5, RefreshSticks, RequestSticks DEF Next
<1> QED BY <1>1, <1>2, TrustTypeCorrect, KindInvariant, PTL DEF Spec
=============================================================================
