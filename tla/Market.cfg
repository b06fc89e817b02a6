SPECIFICATION Spec
CONSTANTS
  Feeder = {events}
  Copies = 3
  Providers = {"none", "dict", "book"}
  MaxDeltas = 3
  MaxFaults = 1
  Caller = {tick, order}
  Submitter = order
  MaxTime = 2
  MaxAge = 1
  MaxOutages = 1
  Instrument = {spot, swap}
  Swaps = {swap}
  Command = {k1, k2}
  MaxListings = 1
  MaxBreaks = 1
  MaxCandles = 5
  PageSize = 2
  PageLimits = {0, 2}
  MaxPageFaults = 1
INVARIANTS
  HealthyBookIsExact
  FeedIsHonest
  BackfillHasNoHole
PROPERTY
  MarketSettles
CHECK_DEADLOCK FALSE
