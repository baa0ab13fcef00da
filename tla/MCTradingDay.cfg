CONSTANTS
  Cases <- MCCases
  Lot <- MCLot
  Sectors <- MCSectors
  Sector <- MCSector
  Equity = 20
  Cashes = {3,9}
  Held = {0,1}
  StockBudget = 6
  TotalLimit = 8
  SingleLimit = 5
  SingleAmount = 3
  HoldCounts = {1,2,3}
  BaseSize = 2
  SectorLimit = 6
  NewExposureLimit = 6
  NewExposures = {0,2}
  Symbols <- MCCases
  MaxLots = 2
  Limit = 3
  Plane = "local"
  Switches = {TRUE, FALSE}
  Faults = {}
  MaxFaults = 0
  MaxOrders = 5
  None = None
SPECIFICATION MCSpec
INVARIANTS
  NewExposureKept
  
  
  DayExposureKept
  
PROPERTY MCEveryOrderJournaled
CHECK_DEADLOCK FALSE
