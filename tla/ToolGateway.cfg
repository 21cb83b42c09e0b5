SPECIFICATION FairSpec
CONSTANTS
  Call = {lookup, refund}
  High = {refund}
  FailureThreshold = 2
  SuccessThreshold = 2
  Cooldown = 2
  Timeout = 2
  MaxAttempts = 3
INVARIANTS
  HighRiskOnce
  HighAnswersAreTrue
  OldAnswersDoNotDecide
PROPERTIES
  StaysOpen
  EveryCallAnswered
CHECK_DEADLOCK FALSE
