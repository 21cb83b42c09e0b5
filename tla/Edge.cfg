\* Three requests, two processes, three windows.
SPECIFICATION FairSpec
CONSTANTS
  Process = {p1, p2}
  Connected = {{p1, p2}, {p2}}
  Told = {p1}
  MaxRequests = 3
  Rps = 2
  Burst = 2
  NoProcess = NoProcess
  NoTenant = NoTenant
  NoSession = NoSession
  Missing = Missing
  MaxNow = 2
INVARIANT DegradedNotOpen
INVARIANT OnlyOwnersServed
CHECK_DEADLOCK FALSE
PROPERTY ShutdownEnds
