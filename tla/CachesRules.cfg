SPECIFICATION Spec
CONSTANTS
  r1 = r1
  r2 = r2
  r3 = r3
  p1 = p1
  p2 = p2
  Request = {r1, r2, r3}
  Proc = {p1, p2}
  On <- MCOn
  Endless = {"read"}
  MaxStarts = 2
  KeyTtl = 2
  MaxLog = 2
  MaxVersion = 2
  MaxFaults = 1
  None = None
  Unset = Unset
PROPERTIES
  RulesLeftAlone
CHECK_DEADLOCK FALSE
