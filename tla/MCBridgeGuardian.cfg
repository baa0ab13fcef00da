CONSTANTS
  Symbols = {a, b}
  MaxLots = 1
  Limit = 2
  Plane = "gateway"
  Switches = {TRUE}
  Faults = {}
  MaxFaults = 0
  MaxOrders = 2
  None = None
SPECIFICATION DaySpec
PROPERTY BlockedBridgeGetsNothing
CHECK_DEADLOCK FALSE
