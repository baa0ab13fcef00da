CONSTANTS
  api = api
  scheduler = scheduler
  c2 = c2
  d1 = d1
  d2 = d2
  Cases = {c1}
  Focus = {c1}
  Discussed = {c1}
  Contradicted = {}
  Agents = {risk, audit}
  Risk = risk
  Audit = audit
  Stances = {"rejected"}
  MaxRounds = 2
  Processes = {api, scheduler}
  Handles <- MCHandles
  Retracting = TRUE
  AgentIds = {risk, audit}
  Nothing = None
  Records = {r1}
  Dates = {d1, d2}
  Deltas <- MCDeltas
  Deployments <- MCDeployments
  MaxSettlements = 2
  None = None
SPECIFICATION MCSpec
INVARIANTS
  LastRoundAnswered
  FirstRoundHeard
  ScoreIsItsSettlements
  
  DiscussionRatedOnce
  
PROPERTY MCEveryDiscussionConcludes
CHECK_DEADLOCK FALSE
