SPECIFICATION FairSpec
CONSTANTS
  Handlers = {h1, h2}
  Poller = poller
  Sweeper = sweeper
  MaxRedisFailures = 2
CHECK_DEADLOCK FALSE
INVARIANTS NeverAhead
PROPERTIES StaleCopyDies PollerLearns
