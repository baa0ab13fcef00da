CONSTANTS
  s1 = s1
  s2 = s2
  Symbols = {s1, s2}
  Lots = 2
  Deployments <- MCDeployments
  MaxSells = 5
  None = None
SPECIFICATION FairSpec
INVARIANTS
  OneOpenFastSell
  OneOpenDeepSell
  FastSellsSpaced
PROPERTY PersistentSignalSells
CHECK_DEADLOCK FALSE
