SPECIFICATION FairSpec
CONSTANTS
  Requests = {r1, r2, r3}
  Endpoints = {"webhook", "forward-with-tips", "forward-ln-address", "forward-npubcash", "forward-nwc-defer", "forward-nwc-tips", "pay-invoice", "send-nwc-tips"}
  Orders <- EveryOrder
  Faults = {"dbError", "replyLost", "invoiceError", "noConfig", "payRejected", "tipError", "clientError", "crash", "overlap", "late"}
  MaxFailures = 1
  MaxCalls = 1
  NoOne = NoOne
CHECK_DEADLOCK FALSE
INVARIANTS PayoutsAccounted TipsFollowBase NoAbandonedClaim CompletedIsForwardedUnlessNwc
PROPERTIES ClaimsAreSwept PaidIsForwarded
