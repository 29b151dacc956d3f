--------------------------- MODULE OrderRequests ---------------------------
(***************************************************************************)
(* OrderRequestsService: what a customer asks for, until the staff accepts *)
(* it (an Order is created), rejects it or the customer cancels it.        *)
(* Stock and recipes are left out; running short is a Fail of the call.    *)
(***************************************************************************)
EXTENDS BarState

ProjectOn(s, Change(_)) == table' = [table EXCEPT ![TableOf(s)] = Change(@)]

\* The pending request the guarded updateMany of a transaction matches.
StillPending(r) == request[r].status = "pending"

(***************************************************************************)
(* create(): the customer's own request.                                   *)
(***************************************************************************)
TakesOrders(s) == NotClosed(s) /\ ~ session[s].payReq

CreateRead(c, s, items) ==
  /\ TakesOrders(s)
  /\ Begin(c, "create", "createCommit", s, items)

CreateCommit(c) ==
  LET s == call[c].id IN
  /\ Finish(c, "createCommit")
  /\ \E r \in Requests :
       /\ request[r].status = "none"
       /\ request' = [request EXCEPT ![r] = [status |-> "pending",
                        session |-> s, items |-> call[c].amt]]
  /\ ProjectOn(s, OnOrderRequestCreated)
  /\ UNCHANGED <<session, order, entry>>

(***************************************************************************)
(* accept(): the items are those read before the transaction.              *)
(***************************************************************************)
AcceptRead(c, r) ==
  /\ StillPending(r)
  /\ NotClosed(request[r].session)
  /\ Begin(c, "accept", "acceptCommit", r, request[r].items)

NewOrder(items) == [status |-> "accepted", items |-> items]

AcceptCommit_Unguarded(c) ==
  LET r == call[c].id IN
  /\ Finish(c, "acceptCommit")
  /\ request' = [request EXCEPT ![r].status = "accepted"]
  /\ order' = [order EXCEPT ![r] = NewOrder(call[c].amt)]
  /\ ProjectOn(request[r].session, OnOrderRequestAccepted)
  /\ UNCHANGED <<session, entry>>

AcceptCommit(c) ==
  LET r == call[c].id IN
  /\ Finish(c, "acceptCommit")
  /\ StillPending(r)
  /\ request' = [request EXCEPT ![r].status = "accepted"]
  /\ order' = [order EXCEPT ![r] = NewOrder(call[c].amt)]
  /\ ProjectOn(request[r].session, OnOrderRequestAccepted)
  /\ UNCHANGED <<session, entry>>

(***************************************************************************)
(* createAndAccept(): the staff's shortcut, past the payment-request gate. *)
(***************************************************************************)
QuickAddRead(c, s, items) ==
  /\ NotClosed(s)
  /\ Begin(c, "quickAdd", "quickAddCommit", s, items)

QuickAddCommit(c) ==
  LET s == call[c].id IN
  /\ Finish(c, "quickAddCommit")
  /\ \E r \in Requests :
       /\ request[r].status = "none"
       /\ request' = [request EXCEPT ![r] = [status |-> "accepted",
                        session |-> s, items |-> call[c].amt]]
       /\ order' = [order EXCEPT ![r] = NewOrder(call[c].amt)]
  /\ ProjectOn(s, OnOrderRequestAccepted)
  /\ UNCHANGED <<session, entry>>

(***************************************************************************)
(* updateItems(): the customer edits a request that is still pending.      *)
(***************************************************************************)
UpdateItemsRead(c, r, items) ==
  /\ StillPending(r)
  /\ TakesOrders(request[r].session)
  /\ Begin(c, "updateItems", "updateItemsCommit", r, items)

UpdateItemsCommit_Unguarded(c) ==
  LET r == call[c].id IN
  /\ Finish(c, "updateItemsCommit")
  /\ request' = [request EXCEPT ![r].items = call[c].amt]
  /\ UNCHANGED <<table, session, order, entry>>

UpdateItemsCommit(c) ==
  LET r == call[c].id IN
  /\ Finish(c, "updateItemsCommit")
  /\ StillPending(r)
  /\ request' = [request EXCEPT ![r].items = call[c].amt]
  /\ UNCHANGED <<table, session, order, entry>>

\* reject() and cancelByCustomer(): terminateRequest.  The validation reads
\* the status the guarded update tests again, so it is one step.
TerminateRequest_Unguarded(r, endpoint, target) ==
  /\ endpoint \in Endpoints
  /\ request[r].status # "none"
  /\ request' = [request EXCEPT ![r].status = target]
  /\ ProjectOn(request[r].session, OnOrderRequestRejected)
  /\ UNCHANGED <<session, order, entry, call>>

TerminateRequest(r, endpoint, target) ==
  /\ endpoint \in Endpoints
  /\ StillPending(r)
  /\ request' = [request EXCEPT ![r].status = target]
  /\ ProjectOn(request[r].session, OnOrderRequestRejected)
  /\ UNCHANGED <<session, order, entry, call>>

Reject(r) == TerminateRequest(r, "reject", "rejected")
CancelByCustomer(r) == TerminateRequest(r, "cancel", "cancelled")

RequestsNext ==
  \/ \E c \in Callers :
       \/ \E s \in Sessions, a \in Amounts : \/ CreateRead(c, s, a)
                                             \/ QuickAddRead(c, s, a)
       \/ \E r \in Requests : \/ AcceptRead(c, r)
                              \/ \E a \in Amounts : UpdateItemsRead(c, r, a)
       \/ CreateCommit(c)
       \/ AcceptCommit(c)
       \/ QuickAddCommit(c)
       \/ UpdateItemsCommit(c)
  \/ \E r \in Requests : Reject(r) \/ CancelByCustomer(r)
=============================================================================
