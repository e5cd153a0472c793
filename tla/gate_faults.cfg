SPECIFICATION FairSpec
CONSTANTS
  Deciders = {d1, d2}
  Execs = {e1, e2}
  Decisions = {approve, reject}
  None = None
  Gates = {"patch_approval", "activation"}
  MaxCrashes = 1
  EffectFaults = TRUE
  SendFaults = TRUE
INVARIANTS TypeOK ClaimExclusive WaitingTokenIsStored OutputsAreOnRecord
PROPERTIES NotBricked DecidedGateResumes
