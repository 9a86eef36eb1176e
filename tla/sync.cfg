SPECIFICATION Spec
CONSTANTS
  w1 = w1
  w2 = w2
  w3 = w3
  Wallets = {w1, w2}
  KindOf <- AllAlike
  Devices = {d1, d2}
  Requests = {r1}
  Faults = {"lost", "noFetch", "overlap", "crash"}
  MaxFailures = 1
  NoTimer = NoTimer
  NoData = NoData
  Nowhere = Nowhere
SYMMETRY Symmetry
CHECK_DEADLOCK FALSE
INVARIANTS AddedIsKept RemovedIsGone
