CONSTANTS
  Gateways = {g1}
  Intents = {i1, s1}
  Dispatched = {i1}
  LiveIntents = {i1}
  None = None
  MaxApprovals = 1
  MaxCalls = 1
  MaxDay = 1
  MaxFaults = 0
  Faults = {}
  Watchers = {j1}
  SellIntents = {s1}
  WithCleanup = TRUE
  Agents = {"strategy", "risk", "audit"}
  Risk = "risk"
  Audit = "audit"
  Stances = {"support", "question", "rejected"}
  MaxRounds = 2
  NoCase = NoCase
SPECIFICATION MCSpec
INVARIANTS
  RecordsCoherent
  OneOrderPerGateway
  
