------------------------------ MODULE BarState ------------------------------
(***************************************************************************)
(* The rows the table service of the bar keeps in PostgreSQL, and the HTTP *)
(* calls that are being served.  The modules TableSessions, OrderRequests, *)
(* Orders and Consumptions act on this state; Ledger composes them.        *)
(*                                                                         *)
(* Every service method follows one scheme: it reads rows and validates    *)
(* them outside any transaction, then opens prisma.$transaction and        *)
(* writes.  A method whose validation reads something another method may   *)
(* change before the transaction runs is split in two (or three) steps of  *)
(* a caller; call[c] holds what the caller has read.  A method whose       *)
(* validation is repeated by a guarded updateMany in the transaction is    *)
(* one step.  Transactions run at READ COMMITTED and update by key, so the *)
(* writes of one transaction are one step, increments are atomic, and a    *)
(* count made inside a transaction before its first write locks nothing    *)
(* and is a step of its own.                                               *)
(***************************************************************************)
EXTENDS Integers, FiniteSets

CONSTANTS
  Tables,      \* tables and virtual bars
  Sessions,    \* pool of TableSession rows; its size bounds the sessions opened
  Requests,    \* pool of OrderRequest rows, each with at most one Order
               \* (Order.order_request_id is unique)
  Entries,     \* pool of Consumption rows
  Callers,     \* HTTP calls the backend serves at the same time
  Amounts,     \* prices: an order's items stand for what they cost
  Endpoints,   \* the endpoints the clients use (a run may leave some aside)
  HandStatuses,\* statuses the staff sets by hand through PATCH /tables/:id
  None

TableStatuses == {"available", "occupied", "closing"}

\* Endpoints whose handler validates before its transaction, plus those that
\* are one step.  HandStatuses = {} switches PATCH /tables/:id off.
AllEndpoints ==
  {"open", "close", "requestPayment", "cancelPayment", "markPaid", "void",
   "create", "accept", "quickAdd", "updateItems", "reject", "cancel",
   "prepare", "ready", "deliver", "cancelOrder",
   "adjust", "partialPayment", "refund"}

ASSUME ConstantsAssumption ==
  /\ Amounts \subseteq Nat \ {0}
  /\ Endpoints \subseteq AllEndpoints
  /\ HandStatuses \subseteq TableStatuses
  /\ None \notin Sessions \cup Requests \cup Entries

VARIABLES
  table,       \* Table: the projection the UI and the music rules read
  session,     \* TableSession
  request,     \* OrderRequest
  order,       \* Order, under the id of its request
  entry,       \* Consumption: the lines of the bills
  call         \* what each caller is doing and what it has read

vars == <<table, session, request, order, entry, call>>
rows == <<table, session, request, order, entry>>

(***************************************************************************)
(* Types.  Money is in whole pesos; a total may go below zero, so it is an *)
(* integer.  An unused row of a pool has the status (type) "none".         *)
(***************************************************************************)
SessionStatuses == {"none", "open", "closed", "void"}
RequestStatuses == {"none", "pending", "accepted", "rejected", "cancelled"}
OrderStatuses == {"none", "accepted", "preparing", "ready", "delivered",
                  "cancelled"}
\* "adjustment" stands for both types of a hand-made line: a discount is an
\* adjustment whose amount the server forces below zero.
EntryTypes == {"none", "product", "adjustment", "partial_payment", "refund"}

\* Steps of a split handler: the call stands before the step it names.
Steps == {"idle", "createCommit", "acceptCommit", "quickAddCommit",
          "updateItemsCommit", "closeCount", "closeCommit",
          "requestPaymentCounts", "requestPaymentActive",
          "requestPaymentPending", "requestPaymentCommit",
          "cancelPaymentCommit", "voidCommit", "markPaidCount",
          "markPaidCommit", "adjustCommit", "partialPaymentCommit",
          "refundCommit"}

TableRow == [current: Sessions \cup {None}, status: TableStatuses,
             active: Int, pending: Int, total: Int]
SessionRow == [status: SessionStatuses, table: Tables \cup {None},
               payReq: BOOLEAN, paid: BOOLEAN, voided: BOOLEAN, total: Int]
RequestRow == [status: RequestStatuses, session: Sessions \cup {None},
               items: Amounts \cup {0}]
OrderRow == [status: OrderStatuses, items: Amounts \cup {0}]
EntryRow == [type: EntryTypes, session: Sessions \cup {None},
             order: Requests \cup {None}, amount: Int, reversed: BOOLEAN,
             reverses: Entries \cup {None}]
CallState == [step: Steps, id: Sessions \cup Requests \cup Entries \cup {None},
              amt: Int]

TypeOK ==
  /\ table \in [Tables -> TableRow]
  /\ session \in [Sessions -> SessionRow]
  /\ request \in [Requests -> RequestRow]
  /\ order \in [Requests -> OrderRow]
  /\ entry \in [Entries -> EntryRow]
  /\ call \in [Callers -> CallState]

Idle == [step |-> "idle", id |-> None, amt |-> 0]
NoEntry == [type |-> "none", session |-> None, order |-> None, amount |-> 0,
            reversed |-> FALSE, reverses |-> None]

FreeTable == [current |-> None, status |-> "available",
              active |-> 0, pending |-> 0, total |-> 0]

\* A freshly seeded database: every table free, no session yet.
Init ==
  /\ table = [t \in Tables |-> FreeTable]
  /\ session = [s \in Sessions |->
                  [status |-> "none", table |-> None, payReq |-> FALSE,
                   paid |-> FALSE, voided |-> FALSE, total |-> 0]]
  /\ request = [r \in Requests |->
                  [status |-> "none", session |-> None, items |-> 0]]
  /\ order = [r \in Requests |-> [status |-> "none", items |-> 0]]
  /\ entry = [e \in Entries |-> NoEntry]
  /\ call = [c \in Callers |-> Idle]

(***************************************************************************)
(* Calls.                                                                  *)
(***************************************************************************)
\* An idle caller validates a call to an endpoint and stands before its
\* transaction; nothing is written.
Begin(c, endpoint, step, id, amt) ==
  /\ endpoint \in Endpoints
  /\ call[c] = Idle
  /\ call' = [call EXCEPT ![c] = [step |-> step, id |-> id, amt |-> amt]]
  /\ UNCHANGED rows

\* A caller inside its transaction goes on to the next statement.
Continue(c, from, to) ==
  /\ call[c].step = from
  /\ call' = [call EXCEPT ![c].step = to]
  /\ UNCHANGED rows

\* The transaction commits and the call returns.
Finish(c, step) ==
  /\ call[c].step = step
  /\ call' = [call EXCEPT ![c] = Idle]

\* The call ends without effect: a check inside the transaction throws, a
\* guarded update matches no row, stock runs out, the database refuses or the
\* process dies.  The transaction rolls back.
Fail(c) ==
  /\ call[c] # Idle
  /\ call' = [call EXCEPT ![c] = Idle]
  /\ UNCHANGED rows

(***************************************************************************)
(* The table projection: TableProjectionService, as functions from a table *)
(* row to the row it writes.                                               *)
(***************************************************************************)
OnSessionOpened(row, s) == [row EXCEPT !.current = s, !.status = "occupied"]

\* Whatever session the row points at, the row is reset.
OnSessionClosed_KeepsPointer(row) == [FreeTable EXCEPT !.current = row.current]
OnSessionClosed(row) == FreeTable

OnOrderRequestCreated(row) == [row EXCEPT !.pending = @ + 1]
OnOrderRequestAccepted(row) ==
  [row EXCEPT !.pending = @ - 1, !.active = @ + 1]
OnOrderRequestRejected(row) == [row EXCEPT !.pending = @ - 1]
OnOrderLeftActive_Forgotten(row) == row
OnOrderLeftActive(row) == [row EXCEPT !.active = @ - 1]
OnConsumptionCreated(row, amt) == [row EXCEPT !.total = @ + amt]
OnConsumptionReversed(row, amt) == [row EXCEPT !.total = @ - amt]

(***************************************************************************)
(* Reading the rows.                                                       *)
(***************************************************************************)
\* NON_CLOSED, and the predicate of the partial unique index on table_id.
NonClosed(s) == session[s].status = "open"

\* What the handlers test instead: status !== closed.  A void session passes.
NotClosed(s) == session[s].status \notin {"none", "closed"}

ActiveOrderStatuses == {"accepted", "preparing", "ready"}
ActiveOrdersOf(s) ==
  {r \in Requests : /\ order[r].status \in ActiveOrderStatuses
                    /\ request[r].session = s}
PendingRequestsOf(s) ==
  {r \in Requests : /\ request[r].status = "pending"
                    /\ request[r].session = s}
TableOf(s) == session[s].table
=============================================================================
