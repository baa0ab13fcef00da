CONSTANTS
  Gateways = {g1, g2}
  Intents = {i1, i2}
  Dispatched = {i1, i2}
  LiveIntents = {i1}
  None = None
  MaxApprovals = 1
  MaxCalls = 2
  MaxDay = 1
  MaxFaults = 0
  Faults = {}
SPECIFICATION FairSpec
PROPERTIES EverySubmissionReported EveryApprovalTaken
