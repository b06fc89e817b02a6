SPECIFICATION Spec
CONSTANTS
  Provider = {p1, p2}
  Route = {"chief", "review"}
  None = none
  Caller = {"live", "daily"}
  RouteOf <- MCRouteOf
  Operator = {o1, o2}
  Threshold = 2
  MaxRetries = 1
  MaxTroubles = 3
  Loop = {"execution", "lease_renew", "scanner"}
  Execution = "execution"
  LeaseRenew = "lease_renew"
  NoLease = nolease
  Mine = mine
  Other = other
  MaxTokens = 3
  MaxCopies = 2
  MaxBreakdowns = 2
INVARIANT
  ConfigSettles
PROPERTIES
  OutagesAreBounded
  EndsItsOwn
CHECK_DEADLOCK FALSE
