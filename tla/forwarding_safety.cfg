SPECIFICATION Spec
CONSTANTS
  Requests = {r1, r2, r3}
  Endpoints = {"webhook", "forward-with-tips", "forward-ln-address", "forward-npubcash", "forward-nwc-defer", "forward-nwc-tips", "pay-invoice", "send-nwc-tips"}
  Orders <- EveryOrder
  Faults = {"invoiceError", "noConfig", "payRejected", "tipError", "clientError", "crash", "overlap", "late"}
  MaxFailures = 2
  MaxCalls = 3
  NoOne = NoOne
CHECK_DEADLOCK FALSE
INVARIANTS AtMostOnePayout ClaimExclusive
PROPERTIES TerminalStatus ImplementsOncePayout
