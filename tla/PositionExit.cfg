CONSTANTS
  spot = spot
  perp = perp
  None = none
  Symbol <- SpotAndPerp
  Perp <- OnePerp
  Entry <- BuyAndShort
  TimeStop = 1
  Grace = 1
  MaxOrders = 2
  Faults = {"crash", "read"}
SPECIFICATION FairSpec
INVARIANT
  PerpIsOneEntry
PROPERTIES
  NoSecondListedExit
  OpenIsClosed
