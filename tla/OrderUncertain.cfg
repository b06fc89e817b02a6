CONSTANTS
  c1 = c1
  c2 = c2
  w1 = w1
  w2 = w2
  Client <- TwoClients
  Worker <- OneWorker
  Starter = w1
  Stream = stream
  None = none
  Qty = 2
  Copies = 2
  Answers <- UncertainAnswers
  MaxCrashes = 1
  ExchangeSurvives = TRUE
SPECIFICATION Spec
INVARIANTS
  SettledOnce
  ClaimsAreBacked
PROPERTY
  KeepsContract
CHECK_DEADLOCK FALSE
