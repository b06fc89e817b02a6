SPECIFICATION Spec
CONSTANTS
  symbols <- MCsymbols
  Shown = {"ltc"}
  PerpCoin = {"btc"}
  Never = never
  Interval = 2
  Cooldown = 1
  CacheTtl = 1
  SettleTime = 0
  FetchTime = 1
  MaxMishaps = 1
INVARIANTS
  InputsAreOfTheCoin
  NoPyramiding
PROPERTY
  TurnsAreFair
CHECK_DEADLOCK FALSE
