\* Three turns in a window of seven messages.
SPECIFICATION Spec
CONSTANTS
  None = None
  Unset = Unset
  MaxMessages = 7
  Threshold = 8
  KeepRecent = 2
  MaxCalls = 2
  MaxUses = 2
  MaxTurns = 3
  MaxFaults = 2
  Tool <- MCTool
  TenantRules <- MCTenantRules
  Topics <- MCTopics
INVARIANT HistoryHoldsTogether
INVARIANT TopicsStayApart
INVARIANT TenantsOnlyTighten
INVARIANT StreamIsMasked
CHECK_DEADLOCK FALSE
