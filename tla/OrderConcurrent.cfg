CONSTANTS
  c1 = c1
  c2 = c2
  w1 = w1
  w2 = w2
  Client <- TwoClients
  Worker <- TwoWorkers
  Starter = w1
  Stream = stream
  None = none
  Qty = 2
  Copies = 1
  Answers <- AllAnswers
  MaxCrashes = 1
  ExchangeSurvives = FALSE
SPECIFICATION Spec
INVARIANTS
  TypeOK
  SingleSubmission
  PersistBeforeSubmit
CHECK_DEADLOCK FALSE
SYMMETRY Symmetry
