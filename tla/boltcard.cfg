SPECIFICATION Spec
CONSTANTS
  p1 = p1
  p2 = p2
  Payments = {p1, p2}
  Amount <- TwoInvoices
  MaxTxAmount = 3
  DailyLimit = 4
  Deliveries = {d1, d2}
  TopUp = 2
  Instances = {s1}
  Funders = {f1}
  Adjustments = {1}
  Targets = {1}
  Balances = {2}
  Faults = {"dbError", "payRejected", "replyLost", "crash", "txFailed"}
  MaxFailures = 1
SYMMETRY Symmetry
CHECK_DEADLOCK FALSE
INVARIANTS BalanceIsLedger NeverOverspent PaidIsCharged FailedIsRefunded TopUpIsNotLost
PROPERTIES OnlyActiveIsCharged
