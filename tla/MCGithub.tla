------------------------------ MODULE MCGithub ------------------------------
(***************************************************************************)
(* The push gate and the GitHub credential.  The gate reads whichever      *)
(* token is published, so each is explored while the other has not begun.  *)
(*                                                                         *)
(* One push moves a branch and creates another; a second one, from the     *)
(* same base, moves the first branch elsewhere and deletes the other.      *)
(***************************************************************************)
EXTENDS PushGate, GithubCredential, TLC

From(old, new) == [old |-> old, new |-> new]
MCUpdatesOf ==
  [p \in Push |->
    IF p = "create" THEN "main" :> From("c0", "c1") @@ "topic" :> From(Zero, "c1")
                    ELSE "main" :> From("c0", "c2") @@ "topic" :> From("c1", Zero)]
MCFirstRefs == [r \in Ref |-> IF r = "main" THEN "c0" ELSE Zero]

MCInit == Init /\ CredentialInit
MCSpec ==
  /\ MCInit
  /\ [][\/ CredentialInit /\ Next /\ UNCHANGED credentialVars
        \/ Init /\ CredentialNext /\ UNCHANGED vars]_<<vars, credentialVars>>
  /\ Fairness /\ CredentialFairness
=============================================================================
