SPECIFICATION Spec
CONSTANTS
  Topics = {"evidence"}
  VenueOrder = {a}
  MaxAttempts = 3
  MaxCalls = 4
  Keys = {k1, k2}
  LiveKeys = {l}
  NoKeys = none
  Validator = {"startup", "page", "other"}
  Startup = "startup"
  MaxEdits = 3
  Asset = {"btc"}
  Signal = {s1, s2}
  NoSignal = none
  Rows = 1
  MaxFills = 1
  MaxUnreadable = 3
  Markets <- MCMarkets
  Volatility = {0, 1}
  Candles <- MCCandles
  MinHistory = 2
  Calm = 2
  MaxBuilds = 2
  Caller = {callback, tick}
  Lots = {1}
  Price = {0, 1}
  Gate = {g}
  max_order_notional = 1
  max_symbol_exposure = 1
  max_open_orders = 1
  MaxOrders = 1
  Bars <- MCBars
  MaxChart = 4
  Period = 2
  Macd <- MCMacd
  CandleSets = {"candles"}
  TradeSets = {"trades"}
  MaxHistory = 4
  HistoryPage = 2
  MaxAsked = 4
  MaxHistoryFaults = 1
  CampaignTicks = 4
  TicksPerDay = 2
  MinElapsed = 1
  MinValidDays = 2
  DecisionIds = {d1}
  MaxRestarts = 1
INVARIANT
  ExtremeStandsOut
CHECK_DEADLOCK FALSE
