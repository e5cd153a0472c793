SPECIFICATION Spec
CONSTANTS
  None = None
  Wildcard = Wildcard
  Enums <- MCEnums
  Fields <- MCFields
  Actions <- MCActions
  Base <- MCBase
  Defaults <- MCDefaults
  TextRank <- MCTextRank
  ScoreFields <- MCScoreFields
  Fallback <- MCFallback
  BoundaryBase <- MCBoundaryBase
  OrderingCase <- MCOrderingCase
  BoundaryCap = 7
  CohortCap = 60
  MetamorphicCap = 40
  Grid <- MCGrid
  ImpactSize = 20
  Inputs <- MCInputs
  Traces <- MCTraces
  WitnessCap = 100
  Domain <- MCDomain
INVARIANTS
  TypeOK
  WitnessesCoverDisagreements
  LabelKeepsItsPromise
  CertifiedBreaksNothing
  FrontsAgree
  ReverifyBlamesNoRepair
  PassedMeansRepaired
  RefusedMeansCovered
  AdjacentMovesAreObserved
CHECK_DEADLOCK FALSE
