------------------------------- MODULE Orders -------------------------------
(***************************************************************************)
(* OrdersService: an accepted order on its way to the table.  updateStatus *)
(* guards its update with the status it read, so a transition is one step. *)
(* Nothing here looks at the session's status.                             *)
(***************************************************************************)
EXTENDS Consumptions

\* TRANSITIONS
Transitions(status) ==
  CASE status = "accepted" -> {"delivered", "preparing", "cancelled"}
    [] status = "preparing" -> {"ready", "cancelled"}
    [] status = "ready" -> {"delivered", "cancelled"}
    [] OTHER -> {}

LeaveActive(r) ==
  table' = [table EXCEPT ![TableOf(request[r].session)] = OnOrderLeftActive(@)]

\* updateStatus to preparing or ready: nothing but the status moves.
Advance(r, endpoint, next) ==
  /\ endpoint \in Endpoints
  /\ next \in Transitions(order[r].status)
  /\ order' = [order EXCEPT ![r].status = next]
  /\ UNCHANGED <<table, session, request, entry, call>>

Prepare(r) == Advance(r, "prepare", "preparing")
MarkReady(r) == Advance(r, "ready", "ready")

\* updateStatus to delivered: emitConsumptions bills the order at the prices
\* of the time it was accepted.
ProductLine_AtRequestPrice(r) ==
  Line("product", request[r].session, r, request[r].items, None)
ProductLine(r) ==
  Line("product", request[r].session, r, order[r].items, None)

Deliver(r) ==
  LET s == request[r].session IN
  /\ "deliver" \in Endpoints
  /\ "delivered" \in Transitions(order[r].status)
  /\ order' = [order EXCEPT ![r].status = "delivered"]
  /\ \E e \in Entries :
       /\ Unused(e)
       /\ entry' = [entry EXCEPT ![e] = ProductLine(r)]
  /\ session' = [session EXCEPT ![s].total = @ + order[r].items]
  /\ table' = [table EXCEPT ![TableOf(s)] =
                 OnOrderLeftActive(OnConsumptionCreated(@, order[r].items))]
  /\ UNCHANGED <<request, call>>

\* updateStatus to cancelled (the stock goes back, which is not modelled here).
CancelOrder(r) ==
  /\ "cancelOrder" \in Endpoints
  /\ "cancelled" \in Transitions(order[r].status)
  /\ order' = [order EXCEPT ![r].status = "cancelled"]
  /\ LeaveActive(r)
  /\ UNCHANGED <<session, request, entry, call>>

OrdersNext ==
  \E r \in Requests : Prepare(r) \/ MarkReady(r) \/ Deliver(r) \/ CancelOrder(r)
=============================================================================
