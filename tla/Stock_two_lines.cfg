SPECIFICATION Spec
CONSTANTS
  aguila = aguila
  poker = poker
  cubetazo = cubetazo
  Products <- Bar
  Orders = {o1}
  Callers = {c1}
  Menu <- MixedMenu
  Carts <- DoubleCarts
  Deltas <- UpAndDown
  OpeningStock <- Full
  MaxMovements = 2
  None = None
SYMMETRY Symmetry
CHECK_DEADLOCK FALSE
PROPERTIES ReturnsExact
