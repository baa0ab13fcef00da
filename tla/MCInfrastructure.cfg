CONSTANTS
  Subsystems = {s1, s2}
  Users = {u1, u2}
  Threshold = 1
  Stores = {p1, p2}
  StoreKeys = {k1, k2}
  FineClock = TRUE
  MaxStamp = 4
  Writers = {w1, w2}
  MaxPayloads = 4
  Publishers = {j1, j2, j3}
  Capacity = 3
  Priorities = {0, 1}
  SameNumber = FALSE
  MaxEvents = 3
SPECIFICATION MCSpec
INVARIANTS
  BreakersSound
  ReadsLastWrite
  DrainFindsAnEvent
PROPERTIES
  OpenIsProbed
  NeverGoesBack
  MCEveryEventHandled
CHECK_DEADLOCK FALSE
