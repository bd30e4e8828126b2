CONSTANTS
  MaxStarts = 2
  Kinds <- TokenOnly
SPECIFICATION Spec
INVARIANT TokenSeesStop
CHECK_DEADLOCK FALSE
