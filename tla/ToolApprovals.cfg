CONSTANTS
  Asset = {"big", "small"}
  SizeOf <- MCSizeOf
  Uploader = {u1, u2}
  UPLOAD_SLOTS = 2
  MAX_STAGED_ASSETS = 2
  MAX_TOTAL_BYTES = 4
  NApprovals = 2
  Caller = {c1}
  Operator = {o1, o2}
  PENDING_APPROVAL_LIMIT = 2
  APPROVAL_HISTORY_LIMIT = 1
  MAX_CONCURRENT_CALLS = 1
  Change = {1, 2}
  Object = {"draft", "label", "event", "post"}
  KindOf <- MCKindOf
  Account = {"ann", "bob"}
  AccountOf <- MCAccountOf
  Requests <- MCRequests
  MaxEdits = 1
SPECIFICATION MCSpec
INVARIANTS IndexMatchesFiles ApprovedIsDriven ActsOnWhatWasShown
PROPERTIES KeepsLifecycle
SYMMETRY MCSymmetry
