SPECIFICATION OverlapSpec
CONSTANTS
  Tables = {t1}
  Sessions = {s1, s2, s3}
  Requests = {r1}
  Entries = {e1}
  Callers = {c1, c2}
  Amounts = {1}
  Endpoints <- PaymentEndpoints
  HandStatuses = {"closing"}
  None = None
SYMMETRY RowSymmetry
CHECK_DEADLOCK FALSE
INVARIANTS OneActiveSession CurrentIsLive OpenIsShown
