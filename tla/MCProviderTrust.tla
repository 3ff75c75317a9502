-------------------------- MODULE MCProviderTrust --------------------------
(* Tokens are named by the account they belong to.                         *)
EXTENDS ProviderTrust, TLC

MCAccountOf == [t \in Token |-> IF t \in {"a1", "a2"} THEN "a" ELSE "b"]
MCSymmetry == Permutations(Proc)
=============================================================================
