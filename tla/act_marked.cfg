SPECIFICATION Spec
CONSTANTS
  b1 = b1
  b2 = b2
  Builds = {b1}
  Base = base
  Graphs = {g1}
  Certs = {1, 2}
  Rank <- MCRank
  None = None
  Requests = {r1, r2}
  Wants = {"APPROVE_CANDIDATE", "EXECUTE"}
  Activators = {r1, r2}
  Reviewing = FALSE
  Crashes = FALSE
  MaxLedger = 3
  MaxRecompiles = 1
SYMMETRY Interchangeable
INVARIANTS MarkedActiveWasActivated
