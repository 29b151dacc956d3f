SPECIFICATION OverlapSpec
CONSTANTS
  Tables = {t1}
  Sessions = {s1}
  Requests = {r1}
  Entries = {e1, e2}
  Callers = {c1, c2}
  Amounts = {1}
  Endpoints <- OverlapEndpoints
  HandStatuses = {}
  None = None
SYMMETRY RowSymmetry
CHECK_DEADLOCK FALSE
INVARIANTS NoLimboSession NothingPendingWhileAsked NoActiveOrderWhenPaid
