SPECIFICATION Spec
CONSTANTS
  Calls = {c1, c2, c3, c4}
  MaxAttempts = 2
  Purged = {c1, c2}
  LastDay = 1
SYMMETRY Interchangeable
CHECK_DEADLOCK FALSE
INVARIANTS TypeOK EveryDecisionHasItsRow ReadBackInOrder GivesUpUnderContention
