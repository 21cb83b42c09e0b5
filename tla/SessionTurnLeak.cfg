SPECIFICATION Spec
CONSTANTS
  Request = {r1, r2}
  NoRequest = NoRequest
  Ttl = 2
  MaxTurns = 1
  TurnsFitTtl = TRUE
CHECK_DEADLOCK FALSE
INVARIANT EveryExitReleases
