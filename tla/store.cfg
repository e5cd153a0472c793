SPECIFICATION Spec
CONSTANTS
  Keys = {k1, k2}
  Clients = {c1, c2, c3}
  Kinds = {"create", "cas", "blind", "delete", "bulk"}
  Seeds = {"absent", "versioned", "bulk_saved", "blob"}
SYMMETRY Interchangeable
CHECK_DEADLOCK FALSE
INVARIANTS TypeOK NoLostUpdate LossMeansAnotherWon CreateOnce LoserLeavesNoTrace
PROPERTY ImplementsRegister
