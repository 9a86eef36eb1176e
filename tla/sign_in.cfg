SPECIFICATION FairSpec
CONSTANTS
  Pages = {p1, p2}
  Users = {u1, u2}
  Challenges = {c1, c2, c3}
  Faults = {"lost", "restart", "late", "noAnswer", "again", "cancel", "reload", "tab", "unusable", "other"}
  MaxFailures = 2
  None = None
CHECK_DEADLOCK FALSE
INVARIANTS SessionIsOfAccount
PROPERTIES SignsIn
