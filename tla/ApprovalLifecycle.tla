------------------------- MODULE ApprovalLifecycle -------------------------
(***************************************************************************)
(* What the tools service promises of an action that needs the operator:   *)
(* it is asked for, decided once, run at most once and only if approved,   *)
(* and its outcome is written once.  How threads, processes and restarts   *)
(* get there is ToolApprovals.                                             *)
(***************************************************************************)
EXTENDS Naturals

CONSTANT Item

VARIABLES
  phase, \* of each item
  ran    \* how often the action of each reached the provider

vars == <<phase, ran>>

Final == {"denied", "expired", "executed", "failed"}
Moves(N, p) == phase' = [n \in Item |-> IF n \in N THEN p ELSE phase[n]]

Init == phase = [n \in Item |-> "absent"] /\ ran = [n \in Item |-> 0]

Ask(n) == phase[n] = "absent" /\ Moves({n}, "pending") /\ UNCHANGED ran

Refuse(n) ==
  /\ phase[n] = "pending"
  /\ Moves({n}, "denied") \/ Moves({n}, "expired")
  /\ UNCHANGED ran

Approve(n) == phase[n] = "pending" /\ Moves({n}, "approved") /\ UNCHANGED ran

(* An approval may be forgotten while its action is on the way.            *)
Run(n) ==
  /\ phase[n] \in {"approved", "pruned"} /\ ran[n] = 0
  /\ ran' = [ran EXCEPT ![n] = 1]
  /\ UNCHANGED phase

Succeed(n) == phase[n] = "approved" /\ ran[n] = 1 /\ Moves({n}, "executed") /\ UNCHANGED ran

(* A failure says nothing of whether the action reached the provider.      *)
Fail(N) == (\A n \in N : phase[n] = "approved") /\ Moves(N, "failed") /\ UNCHANGED ran

Forget(N) ==
  /\ \A n \in N : phase[n] \in Final \cup {"approved"}
  /\ Moves(N, "pruned")
  /\ UNCHANGED ran

Next ==
  \/ \E n \in Item : Ask(n) \/ Refuse(n) \/ Approve(n) \/ Run(n) \/ Succeed(n)
  \/ \E N \in SUBSET Item : Fail(N) \/ Forget(N)

Spec == Init /\ [][Next]_vars
=============================================================================
