SPECIFICATION FairSpec
CONSTANTS
  Redeemers = {r1, r2, r3}
  Cancellers = {c1}
  Invoices = {i1, i2}
  Faults = {"dbError", "payRejected", "payPending", "replyLost", "crash", "overlap", "late"}
  MaxFailures = 2
  NoOne = NoOne
CHECK_DEADLOCK FALSE
INVARIANTS RedeemedOnce WithdrawnIsUnspent ShownIsRedeemed
PROPERTIES BearerIsPaid ImplementsOncePayout
