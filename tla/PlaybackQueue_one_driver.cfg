SPECIFICATION Spec
CONSTANTS
  Items = {i1, i2, i3}
  Drivers = {d1}
  Guests = {g1, g2}
  SkipStatuses = {"pending", "playing"}
  None = None
SYMMETRY Symmetry
CHECK_DEADLOCK FALSE
INVARIANTS  OnePlaying
PROPERTIES PlayerToldTheTruth  DoneIsFinal PlaysLikeAJukebox
