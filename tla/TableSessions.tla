--------------------------- MODULE TableSessions ---------------------------
(***************************************************************************)
(* TableSessionsService: a table's visit from the scan of its QR code to   *)
(* the payment, and the payment flow.                                      *)
(***************************************************************************)
EXTENDS BarState

\* open(): one transaction.  The customers of a table join the session the
\* table already has; otherwise a new one is created and projected.  The
\* partial unique index turns a lost race into a failed insert, so looking
\* and inserting are one step.
HasNonClosed_ViaProjection(t) == table[t].current # None
HasNonClosed(t) == \E s \in Sessions : session[s].table = t /\ NonClosed(s)

Open(t) ==
  /\ "open" \in Endpoints
  /\ ~ HasNonClosed(t)
  /\ \E s \in Sessions :
       /\ session[s].status = "none"
       /\ session' = [session EXCEPT ![s] =
                        [@ EXCEPT !.status = "open", !.table = t]]
       /\ table' = [table EXCEPT ![t] = OnSessionOpened(@, s)]
  /\ UNCHANGED <<request, order, entry, call>>

(***************************************************************************)
(* close(): for sessions already paid or without consumption.              *)
(***************************************************************************)
CloseRead_AnyConsumption(c, s) ==
  /\ NotClosed(s)
  /\ Begin(c, "close", "closeCount", s, 0)

CloseRead(c, s) ==
  /\ NotClosed(s)
  /\ session[s].paid \/ session[s].total <= 0
  /\ Begin(c, "close", "closeCount", s, 0)

\* The count ranges over every session of the table.
CloseCount(c) ==
  /\ Continue(c, "closeCount", "closeCommit")
  /\ \A s \in Sessions : TableOf(s) = TableOf(call[c].id)
                           => ActiveOrdersOf(s) = {}

CloseCommit(c) ==
  LET s == call[c].id IN
  /\ Finish(c, "closeCommit")
  /\ session' = [session EXCEPT ![s].status = "closed"]
  /\ table' = [table EXCEPT ![TableOf(s)] = OnSessionClosed(@)]
  /\ UNCHANGED <<request, order, entry>>

(***************************************************************************)
(* requestPayment() and cancelPaymentRequest(): the customer asks for the  *)
(* bill, or changes their mind.  Neither write is guarded.                 *)
(***************************************************************************)
RequestPaymentRead(c, s) ==
  /\ NotClosed(s)
  /\ ~ session[s].paid
  /\ ~ session[s].payReq
  /\ Begin(c, "requestPayment", "requestPaymentCounts", s, 0)

\* countInFlightOrders: two counts in a Promise.all, answered in any order.
CountActive(c, from, to) ==
  /\ Continue(c, from, to)
  /\ ActiveOrdersOf(call[c].id) = {}

CountPending_OfNobody(c, from, to) == Continue(c, from, to)
CountPending(c, from, to) ==
  /\ Continue(c, from, to)
  /\ PendingRequestsOf(call[c].id) = {}

RequestPaymentCount(c) ==
  \/ CountActive(c, "requestPaymentCounts", "requestPaymentPending")
  \/ CountPending(c, "requestPaymentCounts", "requestPaymentActive")
  \/ CountPending(c, "requestPaymentPending", "requestPaymentCommit")
  \/ CountActive(c, "requestPaymentActive", "requestPaymentCommit")

RequestPaymentCommit(c) ==
  /\ Finish(c, "requestPaymentCommit")
  /\ session' = [session EXCEPT ![call[c].id].payReq = TRUE]
  /\ UNCHANGED <<table, request, order, entry>>

CancelPaymentRead(c, s) ==
  /\ session[s].status # "none"
  /\ ~ session[s].paid
  /\ session[s].payReq
  /\ Begin(c, "cancelPayment", "cancelPaymentCommit", s, 0)

CancelPaymentCommit(c) ==
  /\ Finish(c, "cancelPaymentCommit")
  /\ session' = [session EXCEPT ![call[c].id].payReq = FALSE]
  /\ UNCHANGED <<table, request, order, entry>>

(***************************************************************************)
(* voidSession(): close without charging.  Orders in progress are left.    *)
(***************************************************************************)
VoidRead_Again(c, s) ==
  /\ NotClosed(s)
  /\ ~ session[s].paid
  /\ Begin(c, "void", "voidCommit", s, 0)

VoidRead(c, s) ==
  /\ NotClosed(s)
  /\ ~ session[s].paid
  /\ ~ session[s].voided
  /\ Begin(c, "void", "voidCommit", s, 0)

VoidCommit(c) ==
  LET s == call[c].id IN
  /\ Finish(c, "voidCommit")
  /\ session' = [session EXCEPT ![s] =
                   [@ EXCEPT !.status = "void", !.voided = TRUE,
                             !.payReq = FALSE]]
  /\ table' = [table EXCEPT ![TableOf(s)] = OnSessionClosed(@)]
  /\ UNCHANGED <<request, order, entry>>

(***************************************************************************)
(* markPaid(): record the payment and close, in one transaction.           *)
(***************************************************************************)
MarkPaidRead(c, s) ==
  /\ NotClosed(s)
  /\ Begin(c, "markPaid", "markPaidCount", s, 0)

MarkPaidCount_Unchecked(c) == Continue(c, "markPaidCount", "markPaidCommit")
MarkPaidCount(c) ==
  /\ Continue(c, "markPaidCount", "markPaidCommit")
  /\ ActiveOrdersOf(call[c].id) = {}

\* paid_at, closed_at, status = closed and no payment request any more.
Settled(row) ==
  [row EXCEPT !.status = "closed", !.paid = TRUE, !.payReq = FALSE]

MarkPaidCommit(c) ==
  LET s == call[c].id IN
  /\ Finish(c, "markPaidCommit")
  /\ session' = [session EXCEPT ![s] = Settled(@)]
  /\ table' = [table EXCEPT ![TableOf(s)] = OnSessionClosed(@)]
  /\ UNCHANGED <<request, order, entry>>

\* TablesService.updateStatus writes Table.status past the projection service.
UpdateStatus(t, status) ==
  /\ status \in HandStatuses
  /\ table' = [table EXCEPT ![t].status = status]
  /\ UNCHANGED <<session, request, order, entry, call>>

SessionsNext ==
  \/ \E t \in Tables : Open(t) \/ \E st \in TableStatuses : UpdateStatus(t, st)
  \/ \E c \in Callers :
       \/ \E s \in Sessions : \/ CloseRead(c, s)
                              \/ RequestPaymentRead(c, s)
                              \/ CancelPaymentRead(c, s)
                              \/ VoidRead(c, s)
                              \/ MarkPaidRead(c, s)
       \/ CloseCount(c)
       \/ CloseCommit(c)
       \/ RequestPaymentCount(c)
       \/ RequestPaymentCommit(c)
       \/ CancelPaymentCommit(c)
       \/ VoidCommit(c)
       \/ MarkPaidCount(c)
       \/ MarkPaidCommit(c)
=============================================================================
