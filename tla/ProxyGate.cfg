CONSTANTS
  Conns = {c1, c2}
  Slots = 1
  us = us
  eu = eu
  a = a
  t = t
  Regions <- MCRegions
  Accounts <- MCAccounts
  Tokens <- MCTokens
  Policies <- MCPolicies
  Requests <- MCRequests
  MaxFrames = 3
  Invocations = {n1, n2}
  Priced = {"nova"}
  Unpriced = {"new"}
  Days = 2
  MaxMetered = 4
SPECIFICATION MCSpec
SYMMETRY MCSymmetry
CONSTRAINT OpaqueBound
INVARIANTS PermittedWhenSent UpstreamIsJudged WritesStayInScope MeteredIsTrue
CHECK_DEADLOCK FALSE
