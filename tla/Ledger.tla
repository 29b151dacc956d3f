------------------------------- MODULE Ledger -------------------------------
(***************************************************************************)
(* The table service as a whole: sessions, requests, orders and bills      *)
(* acting on the same rows, their calls interleaved step by step.          *)
(***************************************************************************)
EXTENDS TableSessions, OrderRequests, Orders, Sums

Next ==
  \/ SessionsNext
  \/ RequestsNext
  \/ OrdersNext
  \/ BillNext
  \/ \E c \in Callers : Fail(c)

Spec == Init /\ [][Next]_vars

LinesOfSession(s) == {e \in Entries : entry[e].type # "none"
                                        /\ entry[e].session = s}
LinesOfOrder(r) == {e \in Entries : entry[e].order = r}
RefundsOf(e) == {f \in Entries : entry[f].reverses = e}
Balance(lines) == SumOver([e \in Entries |-> entry[e].amount], lines)

(***************************************************************************)
(* Invariants.                                                             *)
(***************************************************************************)
\* A table never has two sessions that are not over, however many customers
\* scan it at once and however sessions are closed, voided and opened again
\* (open and the partial unique index TableSession_one_active_per_table).
OneActiveSession ==
  \A s1, s2 \in Sessions :
    /\ NonClosed(s1) /\ NonClosed(s2)
    /\ TableOf(s1) = TableOf(s2)
    => s1 = s2

\* The session a table row points at is a session of that table and is not
\* over: a customer who refreshes a token never lands on a finished session
\* (createAndProject, close, markPaid, voidSession and onSessionClosed).
CurrentIsLive ==
  \A t \in Tables :
    table[t].current # None => /\ TableOf(table[t].current) = t
                               /\ NonClosed(table[t].current)

\* There is an order for exactly the requests that were accepted, whatever
\* accept, reject, cancel and edit raced for a request (the guarded
\* updateMany of accept and terminateRequest).
OrderIffAccepted ==
  \A r \in Requests :
    (order[r].status # "none") <=> (request[r].status = "accepted")

\* Every delivered order was billed exactly once, to the session that asked
\* for it and at the price it was accepted for; no other order has a product
\* line (updateStatus and emitConsumptions).
BilledOnDelivery ==
  \A r \in Requests :
    LET lines == {e \in LinesOfOrder(r) : entry[e].type = "product"} IN
    IF order[r].status = "delivered"
      THEN \E e \in lines : lines = {e} /\ entry[e].amount = order[r].items
                                        /\ entry[e].session = request[r].session
      ELSE lines = {}

\* A bill line is marked reversed exactly when one refund line points at it,
\* and that line undoes its amount on the same bill; concurrent refunds of a
\* line do not both go through (refundConsumption).
RefundedOnce ==
  \A e \in Entries :
    IF entry[e].reversed
      THEN \E f \in Entries : /\ RefundsOf(e) = {f}
                              /\ entry[f].type = "refund"
                              /\ entry[f].amount = - entry[e].amount
                              /\ entry[f].session = entry[e].session
      ELSE RefundsOf(e) = {}

\* The cached total of a session is the sum of its bill lines at all times:
\* the customer's pending amount and the bill never disagree (emitConsumptions,
\* createAdjustment, recordPartialPayment, refundConsumption, summarize).
TotalIsBill ==
  \A s \in Sessions : session[s].total = Balance(LinesOfSession(s))

(***************************************************************************)
(* How rows and calls refer to each other: with TypeOK, what every handler *)
(* relies on without checking it, because rows are never deleted and keys  *)
(* never change.  It is inductive, and the other invariants rest on it.    *)
(***************************************************************************)
SessionExists(s) == s \in Sessions /\ session[s].status # "none"
RequestExists(r) == r \in Requests /\ request[r].status # "none"
Refundable(e) == e \in Entries /\ entry[e].type \notin {"none", "refund"}

RowsLinked ==
  /\ \A s \in Sessions : session[s].status # "none" => TableOf(s) \in Tables
  /\ \A r \in Requests :
       request[r].status # "none" => /\ SessionExists(request[r].session)
                                     /\ request[r].items \in Amounts
  /\ \A e \in Entries :
       IF entry[e].type = "none" THEN entry[e] = NoEntry
                                 ELSE SessionExists(entry[e].session)
  /\ \A f \in Entries :
       entry[f].reverses # None => /\ entry[f].type = "refund"
                                   /\ Refundable(entry[f].reverses)

RequestSteps == {"acceptCommit", "updateItemsCommit"}
ItemSteps == RequestSteps \cup {"createCommit", "quickAddCommit"}
SessionSteps == Steps \ (RequestSteps \cup {"idle", "refundCommit"})

CallLinked(k) ==
  /\ k.step \in SessionSteps => SessionExists(k.id)
  /\ k.step \in RequestSteps => RequestExists(k.id)
  /\ k.step \in ItemSteps => k.amt \in Amounts
  /\ k.step = "refundCommit" => Refundable(k.id)

CallsLinked == \A c \in Callers : CallLinked(call[c])

Linked == TypeOK /\ RowsLinked /\ CallsLinked

(***************************************************************************)
(* What a step may do.                                                     *)
(***************************************************************************)
\* A request that was decided stays decided the same way and keeps its items,
\* and a delivered or cancelled order stays so (guards of accept,
\* terminateRequest, updateItems and updateStatus, under every interleaving).
DecisionsAreFinal ==
  [][\A r \in Requests :
       /\ request[r].status \in {"accepted", "rejected", "cancelled"}
            => request'[r] = request[r]
       /\ order[r].status \in {"delivered", "cancelled"}
            => order'[r] = order[r]]_vars

(***************************************************************************)
(* The order flow implements OrderPromise.                                 *)
(***************************************************************************)
StageOf(r) ==
  CASE request[r].status \in {"none", "pending"} -> request[r].status
    [] request[r].status \in {"rejected", "cancelled"} -> "declined"
    [] order[r].status \in ActiveOrderStatuses -> "inProgress"
    [] order[r].status = "cancelled" -> "cancelled"
    [] \E e \in LinesOfOrder(r) : entry[e].reversed -> "refunded"
    [] OTHER -> "delivered"

Promise == INSTANCE OrderPromise WITH
  stage <- [r \in Requests |-> StageOf(r)],
  price <- [r \in Requests |-> order[r].items],
  billed <- [r \in Requests |-> Balance(LinesOfOrder(r))]

\* Every step of the table service is a step of the order promise or leaves
\* it alone (accept to refundConsumption, seen per order).
KeepsPromise == Promise!PSpec

=============================================================================
