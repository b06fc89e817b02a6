CONSTANTS
  Prices <- TwoPrices
  Deposit = 100
  Fee = 1
  Leverage = 2
  Rates <- FundingRates
  MaxLots = 2
  MaxOrders = 4
  MaxCrashes = 1
  MaxFaults = 1
SPECIFICATION FairSpec
INVARIANTS
  AccountsAgree
  MarginIsOneNumber
  TableFollowsJournal
PROPERTY
  HaltIsTrue
CHECK_DEADLOCK FALSE
