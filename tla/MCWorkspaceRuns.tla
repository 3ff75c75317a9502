-------------------------- MODULE MCWorkspaceRuns --------------------------
EXTENDS WorkspaceRuns, TLC

MCSymmetry == Permutations(Requester) \cup Permutations(AgentCall)
=============================================================================
