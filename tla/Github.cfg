CONSTANTS
  Push = {"create", "delete"}
  Ref = {"main", "topic"}
  Commit = {"c0", "c1", "c2"}
  Zero = "zero"
  None = "none"
  UpdatesOf <- MCUpdatesOf
  FirstRefs <- MCFirstRefs
  Resolver = {a1, a2}
  MaxFaults = 2
  AnswerMayBeLost = TRUE
  Pats = {p}
  Apps = {a, b}
  Repos = {r}
  Operators = {o1}
  Poller = poller
  MaxFailures = 2
SPECIFICATION MCSpec
INVARIANTS UndecidedIsWhole AnswerIsTrue OffWithdraws
PROPERTIES LandsAsReviewed TokenConverges
CHECK_DEADLOCK FALSE
