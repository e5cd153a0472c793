SPECIFICATION Spec
CONSTANTS
  Rules = {r1, r2}
  Edits = {v1}
  Extractions <- MCExtractions
  Verdict <- MCVerdict
  Execs = {e1, e2}
  Requests = {q1, q2}
  None = None
  MaxRequests = 2
SYMMETRY Interchangeable
INVARIANTS TypeOK ReviewedRulesAreAccepted NoRuleSlipsThrough ValidatedMeansValid
PROPERTIES ArchiveOnlyHides ImplementsCatalogue
CHECK_DEADLOCK FALSE
