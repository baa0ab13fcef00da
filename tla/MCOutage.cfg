CONSTANTS
  Gateways = {g1}
  Intents = {i1}
  Dispatched = {i1}
  LiveIntents = {i1}
  None = None
  MaxApprovals = 1
  MaxCalls = 1
  MaxDay = 1
  MaxFaults = 1
  Faults = {"lost_request"}
  Watchers = {}
  SellIntents = {}
  WithCleanup = TRUE
SPECIFICATION SystemFairSpec
PROPERTY OrdersRecovered
