SPECIFICATION Spec
CONSTANTS
  u1 = u1
  u2 = u2
  Users = {u1, u2}
  Reviewers = {v1, v2}
  Syncs = {s1, s2}
  RoleSets <- TwoRoles
  Ledger <- ShortLedgers
  PageSize = 2
  MaxTransactions = 3
  Faults = {"dbError", "blink", "shortPage", "badRow"}
  MaxFailures = 1
  MaxRequests = 4
  NoUser = NoUser
SYMMETRY Symmetry
CHECK_DEADLOCK FALSE
INVARIANTS SharersAreMembers SyncedIsComplete StoredIsCounted RevokedIsNotCopied
PROPERTIES RemovedStaysRemoved
