CONSTANTS
  Gateways = {g1, g2}
  Intents = {i1}
  Dispatched = {i1}
  LiveIntents = {}
  None = None
  MaxApprovals = 2
  MaxCalls = 2
  MaxDay = 1
  MaxFaults = 2
  Faults = {"crash", "timeout", "lost_request", "duplicate_request", "submit_timeout"}
SPECIFICATION Spec
SYMMETRY MCSymmetry
INVARIANTS TypeOK OneCallPerApproval OneOrderPerGateway OrderIsTheClaimers
PROPERTIES ClosedStaysClosed ActsOnEachApprovalOnce
