CONSTANTS
  e1 = e1
  e2 = e2
  None = none
  Engine <- TwoEngines
  TTL = 2
  MaxDelay = 2
  MaxTokens = 3
SPECIFICATION FairSpec
INVARIANTS
  OneLateOrder
  OneDefiantOrder
PROPERTIES
  NeverStolen
  LossIsNoticed
