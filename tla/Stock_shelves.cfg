SPECIFICATION Spec
CONSTANTS
  aguila = aguila
  poker = poker
  cubetazo = cubetazo
  Products <- Bar
  Orders = {o1}
  Callers = {c1, c2}
  Menu <- MixedMenu
  Carts <- PlainCarts
  Deltas <- UpAndDown
  OpeningStock <- Full
  MaxMovements = 2
  None = None
SYMMETRY Symmetry
CHECK_DEADLOCK FALSE
INVARIANTS StockNeverNegative
PROPERTIES ReturnsExact StockAccountedFor
