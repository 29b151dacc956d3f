CONSTANTS
  Items = {i1, i2, i3}
  Categories = {c1}
  Admins = {a1, a2}
  COOLDOWN = 2
  None = None
SPECIFICATION Spec
SYMMETRY Symmetry
CONSTRAINT CallsOrPick
INVARIANTS
  SilenceMeansNothing
  ActiveIsReal
  NoEarlyRepeat
CHECK_DEADLOCK FALSE
