CONSTANTS
  Tools = {"x", "google", "instagram", "linkedin"}
  Accounts = {a, b}
  Grants = {g1, g2}
  MaxRefreshes = 1
  Calls = {c1, c2}
SPECIFICATION ConnectionsSpec
INVARIANTS ActsAsReviewed
SYMMETRY MCSymmetry
