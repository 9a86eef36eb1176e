SPECIFICATION FairSpec
CONSTANTS
  w1 = w1
  w2 = w2
  w3 = w3
  Wallets = {w1, w2}
  KindOf <- OneNpub
  Devices = {d1}
  Requests = {r1, r2}
  Faults = {"lost", "noFetch", "overlap", "crash"}
  MaxFailures = 1
  NoTimer = NoTimer
  NoData = NoData
  Nowhere = Nowhere
CHECK_DEADLOCK FALSE
PROPERTIES AddedReachesServer
