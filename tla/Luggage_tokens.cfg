SPECIFICATION Spec
CONSTANTS
  Tickets = {k1, k2, k3}
  Numbers = {n1, n2}
  Callers = {c1, c2, c3}
  None = None
SYMMETRY Symmetry
CHECK_DEADLOCK FALSE
INVARIANTS OneTicketPerToken
PROPERTIES EndsOnce LeavesPaid
