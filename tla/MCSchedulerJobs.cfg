CONSTANTS
  g1 = g1
  i1 = i1
  Staff = {a1, a2}
  Discussants = {a1}
  MaxTurns = 1
  MaxAcks = 1
  Nobody = Nobody
SPECIFICATION MCSpec
INVARIANT EscalatedAfterWarning
PROPERTIES
  MCEveryIntentCloses
  MCUnansweredIsUrged
CHECK_DEADLOCK FALSE
