SPECIFICATION Spec
CONSTANTS
  Day = {1, 2}
  Week = {11}
  Month = {21}
  Year = {31}
  ChildrenOf <- MCChildrenOf
  EndOf <- MCEndOf
  Runner = {direct, coordinator}
  Coordinator = coordinator
  Asked <- MCAsked
  DailyReviews <- MCDailyReviews
  MaxReviewFaults = 1
  Quantities = {1, 2}
  MaxFills = 4
  MaxDisturbances = 1
  Reviewer = {loop, operator}
  Loop = loop
  MaxDate = 2
  MaxTrades = 2
  Candidate = {c1, c2}
  Content = {x, bad}
  Forbidden = {bad}
  Path = {"factor", "detour", "risk", "away", "api"}
  File = {"factor.py", "engine.py"}
  Outside = "outside"
  FileOf <- MCFileOf
  Protected = {"risk"}
  Allowed = {"factor", "detour", "risk", "away"}
  MaxFiles = 1
  MaxLines = 1
  Challenger = {c1, c2}
  MaxPromotions = 2
INVARIANTS
  CountsAreHonest
  RefusedStaysOut
PROPERTIES
  EpisodesAreSound
  ReviewsAreFinished
CHECK_DEADLOCK FALSE
