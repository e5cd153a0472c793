SPECIFICATION Spec
CONSTANTS
  Rules = {r1, r2}
  Edits = {v1}
  Extractions <- MCModelExtractions
  Verdict <- MCVerdict
  Execs = {e1, e2}
  Requests = {q1, q2}
  None = None
  MaxRequests = 2
SYMMETRY Interchangeable
INVARIANT ModelRulesAreReviewed
CHECK_DEADLOCK FALSE
