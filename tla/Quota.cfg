SPECIFICATION QSpec
CONSTANTS
  s1 = s1
  s2 = s2
  tenant = tenant
  Session <- MCSession
  Tenant = tenant
  Limit <- MCLimit
  MaxCall = 2
  MaxCalls = 3
  MaxFaults = 2
INVARIANTS
  CounterCoversTable
  OverchargeBounded
  OvershootBounded
  PricesUnambiguous
CHECK_DEADLOCK FALSE
