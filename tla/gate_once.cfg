SPECIFICATION Spec
CONSTANTS
  Deciders = {d1, d2, d3}
  Execs = {e1}
  Decisions = {approve, reject}
  None = None
  Gates = {"patch_approval"}
  MaxCrashes = 0
  EffectFaults = FALSE
  SendFaults = TRUE
SYMMETRY Interchangeable
INVARIANT AtMostOnce
PROPERTY ImplementsOnce
