SPECIFICATION FairSpec
CONSTANTS
  Request = {r1, r2, r3}
  NoRequest = NoRequest
  Ttl = 2
  MaxTurns = 1
  TurnsFitTtl = TRUE
CHECK_DEADLOCK FALSE
INVARIANTS
  TurnExclusion
  ToolUseAnswered
PROPERTIES
  OnlyHolderFrees
  SessionComesBack
  Serialised
INVARIANT HistoryIsCurrent
