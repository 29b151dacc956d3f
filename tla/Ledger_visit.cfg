SPECIFICATION OverlapSpec
CONSTANTS
  Tables = {t1}
  Sessions = {s1}
  Requests = {r1, r2}
  Entries = {e1, e2, e3}
  Callers = {c1, c2}
  Amounts = {1}
  Endpoints <- VisitEndpoints
  HandStatuses = {}
  None = None
SYMMETRY RowSymmetry
CHECK_DEADLOCK FALSE
INVARIANTS TotalIsBill ProjectionMirrorsSession NoOverPayment
