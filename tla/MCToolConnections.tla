------------------------- MODULE MCToolConnections -------------------------
EXTENDS ToolConnections, TLC

MCSymmetry == Permutations(Calls) \cup Permutations(Accounts) \cup Permutations(Grants)
=============================================================================
