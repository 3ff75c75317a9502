CONSTANTS
  RuntimeTypes = {"codex", "claude_code", "hermes"}
  Token = {"a1", "a2", "b1"}
  None = "none"
  Account = {"a", "b"}
  AccountOf <- MCAccountOf
  Proc = {p1, p2}
  NLogins = 1
SPECIFICATION FairSpec
INVARIANTS AnchorApproved PinIsAnchored DisableSticks
