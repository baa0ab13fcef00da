CONSTANTS
  Gateways = {g1, g2}
  Intents = {i1, s1}
  Dispatched = {i1}
  LiveIntents = {i1, s1}
  None = None
  MaxApprovals = 1
  MaxCalls = 2
  MaxDay = 0
  MaxFaults = 0
  Faults = {}
  Watchers = {j1}
  SellIntents = {s1}
  WithCleanup = FALSE
SPECIFICATION SystemSpec
INVARIANT NoDuplicateClaim
