SPECIFICATION Spec
CONSTANTS
  Missing = Missing
  Partial = Partial
  NoSnapshot = NoSnapshot
  MaxVersions = 4
  Disturbances = {"abort", "crash"}
\* The bound on versions, or a CORRUPT row, ends the behaviour.
CHECK_DEADLOCK FALSE
INVARIANT StartsFromBase
