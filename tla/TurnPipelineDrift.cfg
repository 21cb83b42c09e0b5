\* A compaction of a list that trimming had shortened splits a tool use.
SPECIFICATION Spec
CONSTANTS
  None = None
  Unset = Unset
  MaxMessages = 7
  Threshold = 8
  KeepRecent = 2
  MaxCalls = 2
  MaxUses = 2
  MaxTurns = 3
  MaxFaults = 1
  Tool <- MCTool
  TenantRules <- MCTenantRules
  Topics <- MCTopics
INVARIANT ResultsFollowUses
CHECK_DEADLOCK FALSE
