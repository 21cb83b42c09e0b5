SPECIFICATION Spec
CONSTANTS
  Call = {c1, c2, c3, c4, c5}
  Other = {c4, c5}
  Subject <- MCSubject
  Window = 2
CHECK_DEADLOCK FALSE
INVARIANTS
  OneCallPerApproval
  NotAskedTwice
PROPERTIES
  DecisionsAreFinal
  Implements
