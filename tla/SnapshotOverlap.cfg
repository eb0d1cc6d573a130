SPECIFICATION Spec
CONSTANTS
  Callers = {checkpoint, admin}
  Damaged = Damaged
  MaxArchives = 4
  MaxFaults = 0
  MaxDamage = 0
  FlakyReads = FALSE
\* The bound on archives ends the behaviour.
CHECK_DEADLOCK FALSE
INVARIANT PublishedStaysRestorable
