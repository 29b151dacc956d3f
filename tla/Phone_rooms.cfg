SPECIFICATION FairSpec
CONSTANTS
  MaxVisits = 2
  MaxUpdates = 1
  MaxTroubles = 1
CHECK_DEADLOCK FALSE
INVARIANTS PhoneHears VisitIsCurrent
PROPERTIES EventuallySettles
