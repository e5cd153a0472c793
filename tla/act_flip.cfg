SPECIFICATION Spec
CONSTANTS
  b1 = b1
  b2 = b2
  Builds = {b1, b2}
  Base = base
  Graphs = {g1}
  Certs = {1}
  Rank <- MCRank
  None = None
  Requests = {r1, r2}
  Wants = {"APPROVE_CANDIDATE", "ACTIVATE"}
  Activators = {r1}
  Reviewing = FALSE
  Crashes = TRUE
  MaxLedger = 4
  MaxRecompiles = 0
SYMMETRY Interchangeable
INVARIANTS ActivationIsComplete
