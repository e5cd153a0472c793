SPECIFICATION Spec
CONSTANTS
  b1 = b1
  b2 = b2
  Builds = {b1}
  Base = base
  Graphs = {g1, g2}
  Certs = {1}
  Rank <- MCRank
  None = None
  Requests = {r1, r2}
  Wants = {"APPROVE_CANDIDATE", "REJECT_PATCH", "REQUEST_REVISION", "ACTIVATE", "EXECUTE"}
  Activators = {r1, r2}
  Reviewing = TRUE
  Crashes = TRUE
  MaxLedger = 3
  MaxRecompiles = 1
SYMMETRY Interchangeable
INVARIANTS TypeOK ActiveWasApproved ActivationFollowsApproval ApprovedDocument ApprovedIsMinted
PROPERTIES GraphsAreImmutable
