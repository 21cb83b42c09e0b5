SPECIFICATION FairSpec
CONSTANTS
  Request = {r1, r2, r3}
  NoRequest = NoRequest
  Stream = {r2}
  Others = {r3}
  Body <- MCBody
  Ttl = 2
  RunsFitTtl = TRUE
CHECK_DEADLOCK FALSE
INVARIANTS
  OneAtWork
  ReplayFaithful
PROPERTIES
  CompletedIsKept
  KeyComesBack
INVARIANT FailureReleases
