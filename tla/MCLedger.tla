------------------------------ MODULE MCLedger ------------------------------
(* Small instances of Ledger, and of Overlaps on top of it, for TLC. *)
EXTENDS Overlaps, TLC

\* All but the two that move an order on in the kitchen and the customer's
\* cancellation, which does to a request what the staff's rejection does.
OverlapEndpoints == AllEndpoints \ {"prepare", "ready", "cancel"}

\* One order from request to refund, and the ways a session ends.
OrderEndpoints == {"open", "create", "accept", "quickAdd", "updateItems",
                   "reject", "cancel", "prepare", "ready", "deliver",
                   "cancelOrder", "refund"}
PaymentEndpoints == {"open", "close", "markPaid", "void", "quickAdd"}
VisitEndpoints == {"open", "create", "accept", "quickAdd", "reject", "cancel",
                   "prepare", "ready", "deliver", "cancelOrder", "adjust",
                   "partialPayment", "refund"}

RowSymmetry == Permutations(Sessions) \cup Permutations(Requests)
                 \cup Permutations(Entries) \cup Permutations(Callers)
                 \cup Permutations(Tables)
=============================================================================
