SPECIFICATION Spec
CONSTANTS
  Caller = {c1, c2}
  Officer = {o1}
CHECK_DEADLOCK FALSE
INVARIANTS
  StatesAreEarned
  NoZombies
  OneActive
  TrailIsComplete
PROPERTY TerminalStays
PROPERTY AcceptedNotRejected
