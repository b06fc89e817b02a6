CONSTANTS
  c1 = c1
  c2 = c2
  w1 = w1
  w2 = w2
  Client <- TwoClients
  Worker <- OneWorker
  Starter = w1
  Stream = stream
  None = none
  Qty = 2
  Copies = 1
  Answers <- DefiniteAnswers
  MaxCrashes = 1
  ExchangeSurvives = TRUE
SPECIFICATION FairSpec
INVARIANT
  FilledIsExact
PROPERTIES
  RestartRecovers
  PathProgresses
