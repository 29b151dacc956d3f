--------------------------- MODULE Ledger_proofs ---------------------------
(***************************************************************************)
(* Theorems about Ledger and Overlaps, for every set of tables, sessions,  *)
(* requests, bill lines, callers, prices and endpoints.                    *)
(***************************************************************************)
EXTENDS Overlaps, Sums_proofs

(***************************************************************************)
(* Linked: types, and references between rows and calls.                   *)
(***************************************************************************)
LEMMA InitLinked == Init => Linked
  BY ConstantsAssumption
  DEF Init, Linked, TypeOK, RowsLinked, CallsLinked, CallLinked, TableRow,
      SessionRow, RequestRow, OrderRow, EntryRow, CallState, Idle, NoEntry,
      FreeTable, TableStatuses, SessionStatuses, RequestStatuses, OrderStatuses,
      EntryTypes, Steps, SessionSteps, RequestSteps, ItemSteps

\* A read step of a handler: only the caller's own record changes.
LEMMA CallOnly ==
  ASSUME Linked, UNCHANGED rows, NEW c \in Callers, NEW k \in CallState,
         CallLinked(k), call' = [call EXCEPT ![c] = k]
  PROVE  Linked'
<1>1. TypeOK'
  BY DEF Linked, TypeOK, rows
<1>2. RowsLinked'
  BY DEF Linked, RowsLinked, rows, SessionExists, TableOf, Refundable
<1>3. CallsLinked'
  BY DEF Linked, TypeOK, CallsLinked, CallLinked, rows, SessionExists,
         RequestExists, Refundable
<1> QED BY <1>1, <1>2, <1>3 DEF Linked

\* A transaction commits: what the other callers hold stays valid as long as
\* no row disappears.
LEMMA CallsKept ==
  ASSUME Linked,
         call' = call \/ (\E c \in Callers : call' = [call EXCEPT ![c] = Idle]),
         \A s \in Sessions : SessionExists(s) => SessionExists(s)',
         \A r \in Requests : RequestExists(r) => RequestExists(r)',
         \A e \in Entries : Refundable(e) => Refundable(e)'
  PROVE  CallsLinked' /\ call' \in [Callers -> CallState]
<1>1. call' \in [Callers -> CallState]
  BY DEF Linked, TypeOK, CallState, Idle, Steps
<1>2. ASSUME NEW c \in Callers PROVE CallLinked(call[c])'
  <2>1. CallLinked(call[c])
    BY DEF Linked, CallsLinked
  <2>2. CASE call'[c] = call[c]
    BY <2>1, <2>2
    DEF CallLinked, SessionExists, RequestExists, Refundable
  <2>3. CASE call'[c] = Idle
    BY <2>3 DEF CallLinked, Idle, SessionSteps, RequestSteps, ItemSteps
  <2> QED BY <2>2, <2>3 DEF Linked, TypeOK
<1> QED BY <1>1, <1>2 DEF CallsLinked

\* Every step that writes no row.
ReadStep ==
  \E c \in Callers :
    \/ \E s \in Sessions :
         \/ CloseRead(c, s) \/ RequestPaymentRead(c, s)
         \/ CancelPaymentRead(c, s) \/ VoidRead(c, s) \/ MarkPaidRead(c, s)
         \/ \E a \in Amounts : \/ CreateRead(c, s, a) \/ QuickAddRead(c, s, a)
                               \/ AdjustRead(c, s, a) \/ AdjustRead(c, s, - a)
                               \/ PartialPaymentRead(c, s, a)
    \/ \E r \in Requests : \/ AcceptRead(c, r)
                           \/ \E a \in Amounts : UpdateItemsRead(c, r, a)
    \/ \E e \in Entries : RefundRead(c, e)
    \/ CloseCount(c) \/ RequestPaymentCount(c) \/ MarkPaidCount(c)
    \/ Fail(c)

\* Every step that writes rows.
WriteStep ==
  \/ \E t \in Tables : Open(t) \/ \E st \in TableStatuses : UpdateStatus(t, st)
  \/ \E c \in Callers :
       \/ CloseCommit(c) \/ RequestPaymentCommit(c) \/ CancelPaymentCommit(c)
       \/ VoidCommit(c) \/ MarkPaidCommit(c)
       \/ CreateCommit(c) \/ AcceptCommit(c) \/ QuickAddCommit(c)
       \/ UpdateItemsCommit(c)
       \/ AdjustCommit(c) \/ PartialPaymentCommit(c) \/ RefundCommit(c)
  \/ \E r \in Requests :
       \/ Reject(r) \/ CancelByCustomer(r)
       \/ Prepare(r) \/ MarkReady(r) \/ Deliver(r) \/ CancelOrder(r)

\* The steps of Next, endpoint by endpoint.
LEMMA NextSplit == Next => ReadStep \/ WriteStep
  BY DEF Next, SessionsNext, RequestsNext, OrdersNext, BillNext, ReadStep,
         WriteStep

\* Steps that only read keep the rows and calls well formed.
LEMMA ReadStepLinked ==
  ASSUME Linked, ReadStep
  PROVE  Linked' /\ UNCHANGED rows
<1> PICK c \in Callers :
    \/ \E s \in Sessions :
         \/ CloseRead(c, s) \/ RequestPaymentRead(c, s)
         \/ CancelPaymentRead(c, s) \/ VoidRead(c, s) \/ MarkPaidRead(c, s)
         \/ \E a \in Amounts : \/ CreateRead(c, s, a) \/ QuickAddRead(c, s, a)
                               \/ AdjustRead(c, s, a) \/ AdjustRead(c, s, - a)
                               \/ PartialPaymentRead(c, s, a)
    \/ \E r \in Requests : \/ AcceptRead(c, r)
                           \/ \E a \in Amounts : UpdateItemsRead(c, r, a)
    \/ \E e \in Entries : RefundRead(c, e)
    \/ CloseCount(c) \/ RequestPaymentCount(c) \/ MarkPaidCount(c)
    \/ Fail(c)
  BY DEF ReadStep
<1>0. UNCHANGED rows
  BY DEF CloseRead, RequestPaymentRead, CancelPaymentRead, VoidRead,
         MarkPaidRead, CreateRead, QuickAddRead, AdjustRead,
         PartialPaymentRead, AcceptRead, UpdateItemsRead, RefundRead,
         CloseCount, RequestPaymentCount, CountActive, CountPending,
         MarkPaidCount, Fail, Begin, Continue
<1> SUFFICES Linked'
  BY <1>0
<1>1. ASSUME NEW s \in Sessions, NEW amt \in Int, NEW step \in SessionSteps,
             NEW endpoint, Begin(c, endpoint, step, s, amt),
             session[s].status # "none",
             step \in ItemSteps => amt \in Amounts
      PROVE  Linked'
  <2> DEFINE k == [step |-> step, id |-> s, amt |-> amt]
  <2>1. k \in CallState
    BY <1>1 DEF CallState, SessionSteps
  <2>2. CallLinked(k)
    BY <1>1 DEF CallLinked, SessionExists, SessionSteps, RequestSteps
  <2> QED BY <1>0, <1>1, <2>1, <2>2, CallOnly DEF Begin
<1>2. ASSUME NEW r \in Requests, NEW a \in Amounts, NEW step \in RequestSteps,
             NEW endpoint, Begin(c, endpoint, step, r, a),
             request[r].status = "pending"
      PROVE  Linked'
  <2> DEFINE k == [step |-> step, id |-> r, amt |-> a]
  <2>1. k \in CallState
    BY ConstantsAssumption DEF CallState, RequestSteps, Steps
  <2>2. CallLinked(k)
    BY <1>2 DEF CallLinked, RequestExists, SessionSteps, RequestSteps, Steps
  <2> QED BY <1>0, <1>2, <2>1, <2>2, CallOnly DEF Begin
<1>3. ASSUME NEW from, NEW to, from \in SessionSteps \ ItemSteps,
             to \in SessionSteps \ ItemSteps, Continue(c, from, to)
      PROVE  Linked'
  <2> DEFINE k == [call[c] EXCEPT !.step = to]
  <2>1. k \in CallState /\ call' = [call EXCEPT ![c] = k]
    BY <1>3 DEF Continue, Linked, TypeOK, CallState, SessionSteps
  <2>2. CallLinked(k)
    BY <1>3 DEF Continue, Linked, TypeOK, CallState, CallsLinked, CallLinked,
                SessionSteps, RequestSteps
  <2> QED BY <1>0, <2>1, <2>2, CallOnly
<1> USE DEF SessionSteps, RequestSteps, ItemSteps, Steps
<1>4. CASE \E s \in Sessions :
             \/ CloseRead(c, s) \/ RequestPaymentRead(c, s)
             \/ CancelPaymentRead(c, s) \/ VoidRead(c, s) \/ MarkPaidRead(c, s)
  <2> PICK s \in Sessions :
        \/ CloseRead(c, s) \/ RequestPaymentRead(c, s)
        \/ CancelPaymentRead(c, s) \/ VoidRead(c, s) \/ MarkPaidRead(c, s)
    BY <1>4
  <2>1. CASE CloseRead(c, s)
    BY <1>1, <2>1 DEF CloseRead, NotClosed
  <2>2. CASE RequestPaymentRead(c, s)
    BY <1>1, <2>2 DEF RequestPaymentRead, NotClosed
  <2>3. CASE CancelPaymentRead(c, s)
    BY <1>1, <2>3 DEF CancelPaymentRead
  <2>4. CASE VoidRead(c, s)
    BY <1>1, <2>4 DEF VoidRead, NotClosed
  <2>5. CASE MarkPaidRead(c, s)
    BY <1>1, <2>5 DEF MarkPaidRead, NotClosed
  <2> QED BY <2>1, <2>2, <2>3, <2>4, <2>5
<1>5. CASE \E s \in Sessions, a \in Amounts :
             \/ CreateRead(c, s, a) \/ QuickAddRead(c, s, a)
             \/ AdjustRead(c, s, a) \/ AdjustRead(c, s, - a)
             \/ PartialPaymentRead(c, s, a)
  <2> PICK s \in Sessions, a \in Amounts :
        \/ CreateRead(c, s, a) \/ QuickAddRead(c, s, a)
        \/ AdjustRead(c, s, a) \/ AdjustRead(c, s, - a)
        \/ PartialPaymentRead(c, s, a)
    BY <1>5
  <2>0. a \in Int /\ - a \in Int
    BY ConstantsAssumption
  <2>1. CASE CreateRead(c, s, a)
    BY <1>1, <2>0, <2>1 DEF CreateRead, TakesOrders, NotClosed
  <2>2. CASE QuickAddRead(c, s, a)
    BY <1>1, <2>0, <2>2 DEF QuickAddRead, NotClosed
  <2>3. CASE AdjustRead(c, s, a) \/ AdjustRead(c, s, - a)
    BY <1>1, <2>0, <2>3 DEF AdjustRead, NotClosed
  <2>4. CASE PartialPaymentRead(c, s, a)
    BY <1>1, <2>0, <2>4 DEF PartialPaymentRead, NotClosed
  <2> QED BY <2>1, <2>2, <2>3, <2>4
<1>6. CASE \E r \in Requests :
             AcceptRead(c, r) \/ \E a \in Amounts : UpdateItemsRead(c, r, a)
  <2> PICK r \in Requests :
        AcceptRead(c, r) \/ \E a \in Amounts : UpdateItemsRead(c, r, a)
    BY <1>6
  <2>1. CASE AcceptRead(c, r)
    <3>1. request[r].items \in Amounts
      BY <2>1 DEF AcceptRead, StillPending, Linked, RowsLinked
    <3> QED BY <1>2, <2>1, <3>1 DEF AcceptRead, StillPending
  <2>2. CASE \E a \in Amounts : UpdateItemsRead(c, r, a)
    BY <1>2, <2>2 DEF UpdateItemsRead, StillPending
  <2> QED BY <2>1, <2>2
<1>7. CASE \E e \in Entries : RefundRead(c, e)
  <2> PICK e \in Entries : RefundRead(c, e)
    BY <1>7
  <2> DEFINE k == [step |-> "refundCommit", id |-> e, amt |-> 0]
  <2>1. k \in CallState
    BY DEF CallState, Steps
  <2>2. CallLinked(k)
    BY DEF RefundRead, CallLinked, Refundable, SessionSteps, RequestSteps,
           ItemSteps
  <2> QED BY <1>0, <2>1, <2>2, CallOnly DEF RefundRead, Begin
<1>8. CASE CloseCount(c) \/ RequestPaymentCount(c) \/ MarkPaidCount(c)
  BY <1>3, <1>8 DEF CloseCount, RequestPaymentCount, CountActive, CountPending,
                    MarkPaidCount
<1>9. CASE Fail(c)
  <2>1. Idle \in CallState /\ CallLinked(Idle)
    BY DEF Idle, CallState, Steps, CallLinked, SessionSteps, RequestSteps,
           ItemSteps
  <2> QED BY <1>0, <1>9, <2>1, CallOnly DEF Fail
<1> QED BY <1>4, <1>5, <1>6, <1>7, <1>8, <1>9

\* The projection service writes table rows.
LEMMA TableRows ==
  ASSUME NEW row \in TableRow, NEW s \in Sessions, NEW a \in Int
  PROVE  /\ OnSessionOpened(row, s) \in TableRow
         /\ OnSessionClosed(row) \in TableRow
         /\ OnOrderRequestCreated(row) \in TableRow
         /\ OnOrderRequestAccepted(row) \in TableRow
         /\ OnOrderRequestRejected(row) \in TableRow
         /\ OnOrderLeftActive(row) \in TableRow
         /\ OnConsumptionCreated(row, a) \in TableRow
         /\ OnLine(row, a) \in TableRow
<1> USE DEF TableRow, TableStatuses
<1>1. OnSessionOpened(row, s) \in TableRow
  BY DEF OnSessionOpened
<1>2. OnSessionClosed(row) \in TableRow
  BY DEF OnSessionClosed, FreeTable
<1>3. OnOrderRequestCreated(row) \in TableRow
  BY DEF OnOrderRequestCreated
<1>4. OnOrderRequestAccepted(row) \in TableRow
  <2>1. row.pending - 1 \in Int /\ row.active + 1 \in Int
    OBVIOUS
  <2>2. \A p, n \in Int : [row EXCEPT !.pending = p, !.active = n] \in TableRow
    OBVIOUS
  <2> QED BY <2>1, <2>2 DEF OnOrderRequestAccepted
<1>5. OnOrderRequestRejected(row) \in TableRow
  BY DEF OnOrderRequestRejected
<1>6. OnOrderLeftActive(row) \in TableRow
  BY DEF OnOrderLeftActive
<1>7. OnConsumptionCreated(row, a) \in TableRow
  BY DEF OnConsumptionCreated
<1>8. OnLine(row, a) \in TableRow
  <2>1. CASE a >= 0
    BY <1>7, <2>1 DEF OnLine
  <2>2. CASE ~ (a >= 0)
    BY <2>2 DEF OnLine, OnConsumptionReversed
  <2> QED BY <2>1, <2>2
<1> QED BY <1>1, <1>2, <1>3, <1>4, <1>5, <1>6, <1>7, <1>8

\* The table of a session is there to be projected on.
LEMMA TableWritten ==
  ASSUME Linked, NEW s, SessionExists(s), NEW row \in TableRow,
         table' = [table EXCEPT ![TableOf(s)] = row]
  PROVE  table' \in [Tables -> TableRow]
  BY DEF Linked, TypeOK

\* A session belongs to a table.
LEMMA TableOfSession ==
  ASSUME Linked, NEW s, SessionExists(s)
  PROVE  /\ s \in Sessions
         /\ session[s] \in SessionRow
         /\ TableOf(s) \in Tables
         /\ table[TableOf(s)] \in TableRow
  BY DEF Linked, TypeOK, RowsLinked, SessionExists

\* A transaction that writes well-typed rows, removes none and refers only to
\* rows that exist keeps everything linked.
LEMMA RowsWritten ==
  ASSUME Linked,
         call' = call \/ (\E c \in Callers : call' = [call EXCEPT ![c] = Idle]),
         table' \in [Tables -> TableRow],
         session' \in [Sessions -> SessionRow],
         request' \in [Requests -> RequestRow],
         order' \in [Requests -> OrderRow],
         entry' \in [Entries -> EntryRow],
         \A s \in Sessions :
           \/ session'[s] = session[s]
           \/ session'[s].status # "none" /\ session'[s].table \in Tables,
         \A r \in Requests :
           \/ request'[r] = request[r]
           \/ /\ request'[r].status # "none"
              /\ request'[r].items \in Amounts
              /\ SessionExists(request'[r].session),
         \A e \in Entries :
           \/ entry'[e] = entry[e]
           \/ /\ entry'[e].type # "none"
              /\ SessionExists(entry'[e].session)
              /\ Refundable(e) => entry'[e].type # "refund"
              /\ entry'[e].reverses # None =>
                   entry'[e].type = "refund" /\ Refundable(entry'[e].reverses)
  PROVE  Linked'
<1>1. \A s : SessionExists(s) => SessionExists(s)'
  BY DEF SessionExists
<1>2. \A r \in Requests : RequestExists(r) => RequestExists(r)'
  BY DEF RequestExists
<1>3. \A e : Refundable(e) => Refundable(e)'
  BY DEF Refundable
<1>4. CallsLinked' /\ call' \in [Callers -> CallState]
  BY <1>1, <1>2, <1>3, CallsKept
<1>5. \A s \in Sessions : session'[s].status # "none" => TableOf(s)' \in Tables
  BY DEF Linked, RowsLinked, TableOf
<1>6. \A r \in Requests :
        (request[r].status # "none" => /\ SessionExists(request[r].session)
                                       /\ request[r].items \in Amounts)'
  BY <1>1 DEF Linked, RowsLinked
<1>7. \A e \in Entries :
        (IF entry[e].type = "none" THEN entry[e] = NoEntry
                                   ELSE SessionExists(entry[e].session))'
  BY <1>1 DEF Linked, RowsLinked
<1>8. \A f \in Entries :
        (entry[f].reverses # None => /\ entry[f].type = "refund"
                                     /\ Refundable(entry[f].reverses))'
  BY <1>3 DEF Linked, RowsLinked
<1>9. RowsLinked'
  BY <1>5, <1>6, <1>7, <1>8 DEF RowsLinked
<1> QED BY <1>4, <1>9 DEF Linked, TypeOK

\* A session that exists gets a new row for the same table.
LEMMA SessionWritten ==
  ASSUME Linked, NEW c \in Callers, NEW s, SessionExists(s),
         NEW row \in SessionRow, row.status # "none", row.table = TableOf(s),
         session' = [session EXCEPT ![s] = row],
         table' \in [Tables -> TableRow],
         call' = [call EXCEPT ![c] = Idle],
         UNCHANGED <<request, order, entry>>
  PROVE  Linked'
<1>1. session' \in [Sessions -> SessionRow] /\ TableOf(s) \in Tables
  BY TableOfSession DEF Linked, TypeOK
<1>2. \A x \in Sessions :
        \/ session'[x] = session[x]
        \/ session'[x].status # "none" /\ session'[x].table \in Tables
  BY <1>1 DEF Linked, TypeOK
<1> QED BY <1>1, <1>2, RowsWritten DEF Linked, TypeOK

\* A new line goes on the bill of a session.
LEMMA LineWritten ==
  ASSUME Linked, NEW e \in Entries, Unused(e), NEW line \in EntryRow,
         line.type \notin {"none", "refund"}, SessionExists(line.session),
         line.reverses = None,
         entry' = [entry EXCEPT ![e] = line]
  PROVE  /\ entry' \in [Entries -> EntryRow]
         /\ \A x \in Entries :
              \/ entry'[x] = entry[x]
              \/ /\ entry'[x].type # "none"
                 /\ SessionExists(entry'[x].session)
                 /\ Refundable(x) => entry'[x].type # "refund"
                 /\ entry'[x].reverses # None =>
                      entry'[x].type = "refund" /\ Refundable(entry'[x].reverses)
  BY DEF Linked, TypeOK

\* Its amount moves the totals of the session and of the table.
LEMMA TotalsWritten ==
  ASSUME Linked, NEW s, SessionExists(s), NEW a \in Int,
         session' = [session EXCEPT ![s].total = @ + a]
  PROVE  /\ session' \in [Sessions -> SessionRow]
         /\ \A x \in Sessions :
              \/ session'[x] = session[x]
              \/ session'[x].status # "none" /\ session'[x].table \in Tables
<1>1. s \in Sessions /\ session[s].table \in Tables
  BY TableOfSession DEF TableOf
<1>2. session' \in [Sessions -> SessionRow]
  BY <1>1 DEF Linked, TypeOK, SessionRow
<1>3. session'[s].table = session[s].table /\ session'[s].status = session[s].status
  BY <1>1 DEF Linked, TypeOK, SessionRow
<1> QED BY <1>1, <1>2, <1>3 DEF Linked, TypeOK, SessionExists

\* Opening a session keeps the rows linked.
LEMMA OpenLinked ==
  ASSUME Linked, NEW t \in Tables, Open(t)
  PROVE  Linked'
<1>1. PICK s \in Sessions :
        /\ session' = [session EXCEPT ![s] =
                         [@ EXCEPT !.status = "open", !.table = t]]
        /\ table' = [table EXCEPT ![t] = OnSessionOpened(@, s)]
        /\ UNCHANGED <<request, order, entry, call>>
  BY DEF Open
<1>2. table' \in [Tables -> TableRow]
  <2>1. table[t] \in TableRow
    BY DEF Linked, TypeOK
  <2>2. OnSessionOpened(table[t], s) \in TableRow
    BY <2>1, 0 \in Int, TableRows
  <2> QED BY <1>1, <2>2 DEF Linked, TypeOK
<1>3. [session[s] EXCEPT !.status = "open", !.table = t] \in SessionRow
  BY DEF Linked, TypeOK, SessionRow, SessionStatuses
<1>4. session' \in [Sessions -> SessionRow]
  BY <1>1, <1>3 DEF Linked, TypeOK
<1>5. session'[s].status = "open" /\ session'[s].table = t
  BY <1>1 DEF Linked, TypeOK, SessionRow
<1>6. \A x \in Sessions :
        \/ session'[x] = session[x]
        \/ session'[x].status # "none" /\ session'[x].table \in Tables
  BY <1>1, <1>5 DEF Linked, TypeOK
<1> QED BY <1>1, <1>2, <1>4, <1>6, RowsWritten DEF Linked, TypeOK

\* So does setting the status of a table.
LEMMA UpdateStatusLinked ==
  ASSUME Linked, NEW t \in Tables, NEW st \in TableStatuses, UpdateStatus(t, st)
  PROVE  Linked'
<1>1. table' \in [Tables -> TableRow]
  BY DEF UpdateStatus, Linked, TypeOK, TableRow
<1> QED BY <1>1, RowsWritten DEF UpdateStatus, Linked, TypeOK

\* close, requestPayment, cancelPaymentRequest, voidSession, markPaid.
LEMMA SessionCommitLinked ==
  ASSUME Linked, NEW c \in Callers,
         \/ CloseCommit(c) \/ RequestPaymentCommit(c) \/ CancelPaymentCommit(c)
         \/ VoidCommit(c) \/ MarkPaidCommit(c)
  PROVE  Linked'
<1> DEFINE s == call[c].id
<1>1. SessionExists(s) /\ call' = [call EXCEPT ![c] = Idle]
  BY DEF CloseCommit, RequestPaymentCommit, CancelPaymentCommit, VoidCommit,
         MarkPaidCommit, Finish, Linked, CallsLinked, CallLinked,
         SessionSteps, RequestSteps, Steps
<1>2. s \in Sessions /\ session[s] \in SessionRow /\ TableOf(s) \in Tables
      /\ session[s].status # "none" /\ TableOf(s) = session[s].table
  BY <1>1, TableOfSession DEF SessionExists, TableOf
<1>3. OnSessionClosed(table[TableOf(s)]) \in TableRow
  BY <1>1, <1>2, TableOfSession, TableRows
<1> USE <1>1, <1>2
<1>4. CASE CloseCommit(c)
  <2> DEFINE row == [session[s] EXCEPT !.status = "closed"]
  <2>1. row \in SessionRow /\ row.status # "none" /\ row.table = TableOf(s)
    BY DEF SessionRow, SessionStatuses
  <2>2. session' = [session EXCEPT ![s] = row]
        /\ table' = [table EXCEPT ![TableOf(s)] = OnSessionClosed(table[TableOf(s)])]
        /\ UNCHANGED <<request, order, entry>>
    BY <1>4 DEF CloseCommit, Finish
  <2> QED BY <1>3, <2>1, <2>2, TableWritten, SessionWritten
<1>5. CASE RequestPaymentCommit(c)
  <2> DEFINE row == [session[s] EXCEPT !.payReq = TRUE]
  <2>1. row \in SessionRow /\ row.status # "none" /\ row.table = TableOf(s)
    BY DEF SessionRow, SessionStatuses
  <2>2. session' = [session EXCEPT ![s] = row]
        /\ UNCHANGED <<table, request, order, entry>>
    BY <1>5 DEF RequestPaymentCommit, Finish
  <2> QED BY <2>1, <2>2, SessionWritten DEF Linked, TypeOK
<1>6. CASE CancelPaymentCommit(c)
  <2> DEFINE row == [session[s] EXCEPT !.payReq = FALSE]
  <2>1. row \in SessionRow /\ row.status # "none" /\ row.table = TableOf(s)
    BY DEF SessionRow, SessionStatuses
  <2>2. session' = [session EXCEPT ![s] = row]
        /\ UNCHANGED <<table, request, order, entry>>
    BY <1>6 DEF CancelPaymentCommit, Finish
  <2> QED BY <2>1, <2>2, SessionWritten DEF Linked, TypeOK
<1>7. CASE VoidCommit(c)
  <2> DEFINE row == [session[s] EXCEPT !.status = "void", !.voided = TRUE,
                                       !.payReq = FALSE]
  <2>1. row \in SessionRow /\ row.status # "none" /\ row.table = TableOf(s)
    BY DEF SessionRow, SessionStatuses
  <2>2. session' = [session EXCEPT ![s] = row]
        /\ table' = [table EXCEPT ![TableOf(s)] = OnSessionClosed(table[TableOf(s)])]
        /\ UNCHANGED <<request, order, entry>>
    BY <1>7 DEF VoidCommit, Finish
  <2> QED BY <1>3, <2>1, <2>2, TableWritten, SessionWritten
<1>8. CASE MarkPaidCommit(c)
  <2> DEFINE row == Settled(session[s])
  <2>1. row \in SessionRow /\ row.status # "none" /\ row.table = TableOf(s)
    BY DEF SessionRow, SessionStatuses, Settled
  <2>2. session' = [session EXCEPT ![s] = row]
        /\ table' = [table EXCEPT ![TableOf(s)] = OnSessionClosed(table[TableOf(s)])]
        /\ UNCHANGED <<request, order, entry>>
    BY <1>8 DEF MarkPaidCommit, Finish
  <2> QED BY <1>3, <2>1, <2>2, TableWritten, SessionWritten
<1> QED BY <1>4, <1>5, <1>6, <1>7, <1>8

\* create, accept, createAndAccept, updateItems.
LEMMA RequestCommitLinked ==
  ASSUME Linked, NEW c \in Callers,
         \/ CreateCommit(c) \/ AcceptCommit(c) \/ QuickAddCommit(c)
         \/ UpdateItemsCommit(c)
  PROVE  Linked'
<1> DEFINE id == call[c].id
           a == call[c].amt
<1>1. /\ call' = [call EXCEPT ![c] = Idle]
      /\ a \in Amounts
      /\ CreateCommit(c) \/ QuickAddCommit(c) => SessionExists(id)
      /\ AcceptCommit(c) \/ UpdateItemsCommit(c) => RequestExists(id)
  BY DEF CreateCommit, AcceptCommit, QuickAddCommit, UpdateItemsCommit, Finish,
         Linked, CallsLinked, CallLinked, SessionSteps, RequestSteps,
         ItemSteps, Steps
<1>2. a \in Amounts \cup {0}
  BY <1>1
<1>3. NewOrder(a) \in OrderRow
  BY <1>2 DEF NewOrder, OrderRow, OrderStatuses
<1>4. CASE CreateCommit(c) \/ QuickAddCommit(c)
  <2>1. PICK r \in Requests, st \in {"pending", "accepted"} :
          /\ request' = [request EXCEPT ![r] =
                           [status |-> st, session |-> id, items |-> a]]
          /\ order' = order \/ order' = [order EXCEPT ![r] = NewOrder(a)]
    BY <1>4 DEF CreateCommit, QuickAddCommit
  <2>2. id \in Sessions /\ TableOf(id) \in Tables /\ table[TableOf(id)] \in TableRow
    BY <1>1, <1>4, TableOfSession
  <2>3. table' \in [Tables -> TableRow] /\ UNCHANGED <<session, entry>>
    BY <1>1, <1>4, <2>2, TableRows, TableWritten
    DEF CreateCommit, QuickAddCommit, ProjectOn
  <2>4. [status |-> st, session |-> id, items |-> a] \in RequestRow
    BY <1>2, <2>2 DEF RequestRow, RequestStatuses
  <2>5. request' \in [Requests -> RequestRow] /\ order' \in [Requests -> OrderRow]
    BY <1>3, <2>1, <2>4 DEF Linked, TypeOK
  <2>6. \A x \in Requests :
          \/ request'[x] = request[x]
          \/ /\ request'[x].status # "none"
             /\ request'[x].items \in Amounts
             /\ SessionExists(request'[x].session)
    BY <1>1, <1>4, <2>1 DEF Linked, TypeOK
  <2> QED BY <1>1, <2>3, <2>5, <2>6, RowsWritten DEF Linked, TypeOK
<1>5. CASE AcceptCommit(c)
  <2>1. id \in Requests /\ request[id] \in RequestRow
        /\ request[id].items \in Amounts /\ SessionExists(request[id].session)
    BY <1>1, <1>5 DEF RequestExists, Linked, TypeOK, RowsLinked
  <2>2. OnOrderRequestAccepted(table[TableOf(request[id].session)]) \in TableRow
    BY <2>1, TableOfSession, TableRows
  <2>3. table' \in [Tables -> TableRow] /\ UNCHANGED <<session, entry>>
    BY <1>5, <2>1, <2>2, TableWritten DEF AcceptCommit, ProjectOn
  <2>4. [request[id] EXCEPT !.status = "accepted"] \in RequestRow
    BY <2>1 DEF RequestRow, RequestStatuses
  <2>5. request' = [request EXCEPT ![id] = [request[id] EXCEPT !.status = "accepted"]]
        /\ order' = [order EXCEPT ![id] = NewOrder(a)]
    BY <1>5 DEF AcceptCommit
  <2>6. request' \in [Requests -> RequestRow] /\ order' \in [Requests -> OrderRow]
    BY <1>3, <2>4, <2>5 DEF Linked, TypeOK
  <2>7. request'[id].status = "accepted" /\ request'[id].items = request[id].items
        /\ request'[id].session = request[id].session
    BY <2>1, <2>5 DEF Linked, TypeOK, RequestRow
  <2>8. \A x \in Requests :
          \/ request'[x] = request[x]
          \/ /\ request'[x].status # "none"
             /\ request'[x].items \in Amounts
             /\ SessionExists(request'[x].session)
    BY <2>1, <2>5, <2>7 DEF Linked, TypeOK
  <2> QED BY <1>1, <2>3, <2>6, <2>8, RowsWritten DEF Linked, TypeOK
<1>6. CASE UpdateItemsCommit(c)
  <2>1. id \in Requests /\ request[id] \in RequestRow
        /\ SessionExists(request[id].session) /\ request[id].status # "none"
    BY <1>1, <1>6 DEF RequestExists, Linked, TypeOK, RowsLinked
  <2>2. request' = [request EXCEPT ![id] = [request[id] EXCEPT !.items = a]]
        /\ UNCHANGED <<table, session, order, entry>>
    BY <1>6 DEF UpdateItemsCommit
  <2>3. request' \in [Requests -> RequestRow]
    BY <1>2, <2>1, <2>2 DEF Linked, TypeOK, RequestRow
  <2>4. request'[id].status # "none" /\ request'[id].items = a
        /\ request'[id].session = request[id].session
    BY <2>1, <2>2 DEF Linked, TypeOK, RequestRow
  <2>5. \A x \in Requests :
          \/ request'[x] = request[x]
          \/ /\ request'[x].status # "none"
             /\ request'[x].items \in Amounts
             /\ SessionExists(request'[x].session)
    BY <1>1, <2>1, <2>2, <2>4 DEF Linked, TypeOK
  <2> QED BY <1>1, <2>2, <2>3, <2>5, RowsWritten DEF Linked, TypeOK
<1> QED BY <1>4, <1>5, <1>6

\* createAdjustment, recordPartialPayment: a line and two totals.
LEMMA BillCommitLinked ==
  ASSUME Linked, NEW c \in Callers, AdjustCommit(c) \/ PartialPaymentCommit(c)
  PROVE  Linked'
<1> DEFINE s == call[c].id
<1>1. /\ call' = [call EXCEPT ![c] = Idle]
      /\ SessionExists(s)
      /\ call[c].amt \in Int
  BY DEF AdjustCommit, PartialPaymentCommit, Finish, Linked, TypeOK, CallState,
         CallsLinked, CallLinked, SessionSteps, RequestSteps, Steps
<1>2. PICK a \in Int, type \in {"adjustment", "partial_payment"}, e \in Entries :
        /\ Unused(e)
        /\ entry' = [entry EXCEPT ![e] = Line(type, s, None, a, None)]
        /\ AddToBill(s, a)
        /\ UNCHANGED <<request, order>>
  <2>1. CASE AdjustCommit(c)
    BY <1>1, <2>1 DEF AdjustCommit
  <2>2. CASE PartialPaymentCommit(c)
    <3>1. - call[c].amt \in Int
      BY <1>1
    <3> QED BY <2>2, <3>1 DEF PartialPaymentCommit
  <2> QED BY <2>1, <2>2
<1> DEFINE line == Line(type, s, None, a, None)
<1>3. s \in Sessions /\ OnLine(table[TableOf(s)], a) \in TableRow
  BY <1>1, TableOfSession, TableRows
<1>4. table' \in [Tables -> TableRow]
  BY <1>1, <1>2, <1>3, TableWritten DEF AddToBill
<1>5. line = [type |-> type, session |-> s, order |-> None, amount |-> a,
              reversed |-> FALSE, reverses |-> None]
  BY DEF Line
<1>6. /\ line \in EntryRow
      /\ line.type \notin {"none", "refund"}
      /\ line.session = s
      /\ line.reverses = None
  BY <1>3, <1>5 DEF EntryRow, EntryTypes
<1> HIDE DEF line
<1>7. entry' = [entry EXCEPT ![e] = line]
  BY <1>2 DEF line
<1>8. /\ entry' \in [Entries -> EntryRow]
      /\ \A x \in Entries :
           \/ entry'[x] = entry[x]
           \/ /\ entry'[x].type # "none"
              /\ SessionExists(entry'[x].session)
              /\ Refundable(x) => entry'[x].type # "refund"
              /\ entry'[x].reverses # None =>
                   entry'[x].type = "refund" /\ Refundable(entry'[x].reverses)
  BY <1>1, <1>2, <1>6, <1>7, LineWritten
<1>9. /\ session' \in [Sessions -> SessionRow]
      /\ \A x \in Sessions :
           \/ session'[x] = session[x]
           \/ session'[x].status # "none" /\ session'[x].table \in Tables
  BY <1>1, <1>2, TotalsWritten DEF AddToBill
<1> QED BY <1>1, <1>2, <1>4, <1>8, <1>9, RowsWritten DEF Linked, TypeOK

\* refundConsumption: the line is marked and a second one written.
LEMMA RefundCommitLinked ==
  ASSUME Linked, NEW c \in Callers, RefundCommit(c)
  PROVE  Linked'
<1> DEFINE e == call[c].id
           s == entry[e].session
           a == - entry[e].amount
           line == RefundLine(e)
           marked == [entry[e] EXCEPT !.reversed = TRUE]
<1>1. Refundable(e) /\ call' = [call EXCEPT ![c] = Idle]
  BY DEF RefundCommit, Finish, Linked, CallsLinked, CallLinked
<1>2. /\ e \in Entries
      /\ entry[e] \in EntryRow
      /\ entry[e].type \notin {"none", "refund"}
      /\ SessionExists(s)
  BY <1>1 DEF Refundable, Linked, TypeOK, RowsLinked
<1>3. a \in Int
  BY <1>2 DEF EntryRow
<1>4. PICK f \in Entries :
        /\ Unused(f)
        /\ entry' = [entry EXCEPT ![e].reversed = TRUE, ![f] = line]
        /\ AddToBill(s, a)
        /\ UNCHANGED <<request, order>>
  BY DEF RefundCommit
<1>5. s \in Sessions /\ OnLine(table[TableOf(s)], a) \in TableRow
  BY <1>2, <1>3, TableOfSession, TableRows
<1>6. table' \in [Tables -> TableRow]
  BY <1>2, <1>4, <1>5, TableWritten DEF AddToBill
<1>7. /\ session' \in [Sessions -> SessionRow]
      /\ \A x \in Sessions :
           \/ session'[x] = session[x]
           \/ session'[x].status # "none" /\ session'[x].table \in Tables
  BY <1>2, <1>3, <1>4, TotalsWritten DEF AddToBill
<1>8. line = [type |-> "refund", session |-> s, order |-> entry[e].order,
              amount |-> a, reversed |-> FALSE, reverses |-> e]
  BY DEF RefundLine, Line
<1>9. /\ line \in EntryRow
      /\ line.type = "refund"
      /\ line.session = s
      /\ line.reverses = e
  BY <1>2, <1>3, <1>5, <1>8 DEF EntryRow, EntryTypes
<1>10. /\ marked \in EntryRow
       /\ marked.type = entry[e].type
       /\ marked.session = s
       /\ marked.reverses = entry[e].reverses
  BY <1>2 DEF EntryRow
<1>11. e # f /\ ~ Refundable(f)
  BY <1>2, <1>4 DEF Unused, Refundable
<1> HIDE DEF line, marked, a
<1>12. /\ entry' \in [Entries -> EntryRow]
       /\ entry'[f] = line
       /\ entry'[e] = marked
       /\ \A x \in Entries \ {e, f} : entry'[x] = entry[x]
  <2>1. entry' = [[entry EXCEPT ![e] = marked] EXCEPT ![f] = line]
    BY <1>4 DEF marked
  <2> QED BY <1>2, <1>9, <1>10, <1>11, <2>1 DEF Linked, TypeOK
<1>13. entry[e].reverses = None
  BY <1>2 DEF Linked, RowsLinked
<1>14. \A x \in Entries :
         \/ entry'[x] = entry[x]
         \/ /\ entry'[x].type # "none"
            /\ SessionExists(entry'[x].session)
            /\ Refundable(x) => entry'[x].type # "refund"
            /\ entry'[x].reverses # None =>
                 entry'[x].type = "refund" /\ Refundable(entry'[x].reverses)
  BY <1>1, <1>2, <1>9, <1>10, <1>11, <1>12, <1>13
<1> QED BY <1>1, <1>4, <1>6, <1>7, <1>12, <1>14, RowsWritten DEF Linked, TypeOK

\* reject, cancelByCustomer.
LEMMA TerminateLinked ==
  ASSUME Linked, NEW r \in Requests, NEW endpoint,
         NEW target \in {"rejected", "cancelled"},
         TerminateRequest(r, endpoint, target)
  PROVE  Linked'
<1>1. request[r] \in RequestRow /\ request[r].items \in Amounts
      /\ SessionExists(request[r].session)
  BY DEF TerminateRequest, StillPending, Linked, TypeOK, RowsLinked
<1>2. OnOrderRequestRejected(table[TableOf(request[r].session)]) \in TableRow
  BY <1>1, TableOfSession, TableRows
<1>3. table' \in [Tables -> TableRow]
  BY <1>1, <1>2, TableWritten DEF TerminateRequest, ProjectOn
<1>4. request' = [request EXCEPT ![r].status = target]
      /\ UNCHANGED <<session, order, entry, call>>
  BY DEF TerminateRequest
<1>5. request' \in [Requests -> RequestRow]
  BY <1>4 DEF Linked, TypeOK, RequestRow, RequestStatuses
<1>6. request'[r].status # "none" /\ request'[r].items = request[r].items
      /\ request'[r].session = request[r].session
  BY <1>1, <1>4 DEF Linked, TypeOK, RequestRow
<1>7. \A x \in Requests :
        \/ request'[x] = request[x]
        \/ /\ request'[x].status # "none"
           /\ request'[x].items \in Amounts
           /\ SessionExists(request'[x].session)
  BY <1>1, <1>4, <1>6 DEF Linked, TypeOK
<1> QED BY <1>3, <1>4, <1>5, <1>7, RowsWritten DEF Linked, TypeOK

\* OrdersService.updateStatus.
LEMMA OrderStepLinked ==
  ASSUME Linked, OrderIffAccepted, NEW r \in Requests,
         Prepare(r) \/ MarkReady(r) \/ Deliver(r) \/ CancelOrder(r)
  PROVE  Linked'
<1> DEFINE s == request[r].session
           a == order[r].items
<1>1. SessionExists(s) /\ a \in Int
  <2>1. order[r].status # "none"
    BY DEF Prepare, MarkReady, Advance, Deliver, CancelOrder, Transitions
  <2>2. request[r].status # "none"
    BY <2>1 DEF OrderIffAccepted
  <2> QED BY <2>2, ConstantsAssumption DEF Linked, TypeOK, RowsLinked, OrderRow
<1>2. /\ s \in Sessions
      /\ OnOrderLeftActive(table[TableOf(s)]) \in TableRow
      /\ OnOrderLeftActive(OnConsumptionCreated(table[TableOf(s)], a)) \in TableRow
  BY <1>1, TableOfSession, TableRows
<1>3. order' \in [Requests -> OrderRow] /\ UNCHANGED <<request, call>>
  BY DEF Prepare, MarkReady, Advance, Deliver, CancelOrder, Linked, TypeOK,
         OrderRow, OrderStatuses
<1>4. CASE Prepare(r) \/ MarkReady(r) \/ CancelOrder(r)
  <2>1. table' \in [Tables -> TableRow] /\ UNCHANGED <<session, entry>>
    BY <1>1, <1>2, <1>4, TableWritten
    DEF Prepare, MarkReady, Advance, CancelOrder, LeaveActive, Linked, TypeOK
  <2> QED BY <1>3, <2>1, RowsWritten DEF Linked, TypeOK
<1>5. CASE Deliver(r)
  <2> DEFINE line == ProductLine(r)
  <2>1. PICK e \in Entries : Unused(e) /\ entry' = [entry EXCEPT ![e] = line]
    BY <1>5 DEF Deliver
  <2>2. line = [type |-> "product", session |-> s, order |-> r, amount |-> a,
                reversed |-> FALSE, reverses |-> None]
    BY DEF ProductLine, Line
  <2>3. /\ line \in EntryRow
        /\ line.type \notin {"none", "refund"}
        /\ line.session = s
        /\ line.reverses = None
    BY <1>1, <1>2, <2>2 DEF EntryRow, EntryTypes
  <2> HIDE DEF line
  <2>4. /\ entry' \in [Entries -> EntryRow]
        /\ \A x \in Entries :
             \/ entry'[x] = entry[x]
             \/ /\ entry'[x].type # "none"
                /\ SessionExists(entry'[x].session)
                /\ Refundable(x) => entry'[x].type # "refund"
                /\ entry'[x].reverses # None =>
                     entry'[x].type = "refund" /\ Refundable(entry'[x].reverses)
    BY <1>1, <2>1, <2>3, LineWritten
  <2>5. /\ session' \in [Sessions -> SessionRow]
        /\ \A x \in Sessions :
             \/ session'[x] = session[x]
             \/ session'[x].status # "none" /\ session'[x].table \in Tables
    BY <1>1, <1>5, TotalsWritten DEF Deliver
  <2>6. table' \in [Tables -> TableRow]
    BY <1>1, <1>2, <1>5, TableWritten DEF Deliver
  <2> QED BY <1>3, <2>4, <2>5, <2>6, RowsWritten DEF Linked, TypeOK
<1> QED BY <1>4, <1>5

\* So does every step that writes.
LEMMA WriteStepLinked ==
  ASSUME Linked, OrderIffAccepted, WriteStep
  PROVE  Linked'
<1>1. CASE \E t \in Tables :
             Open(t) \/ \E st \in TableStatuses : UpdateStatus(t, st)
  BY <1>1, OpenLinked, UpdateStatusLinked
<1>2. ASSUME NEW c \in Callers,
             \/ CloseCommit(c) \/ RequestPaymentCommit(c)
             \/ CancelPaymentCommit(c) \/ VoidCommit(c) \/ MarkPaidCommit(c)
      PROVE  Linked'
  BY <1>2, SessionCommitLinked
<1>3. ASSUME NEW c \in Callers,
             \/ CreateCommit(c) \/ AcceptCommit(c) \/ QuickAddCommit(c)
             \/ UpdateItemsCommit(c)
      PROVE  Linked'
  BY <1>3, RequestCommitLinked
<1>4. ASSUME NEW c \in Callers,
             AdjustCommit(c) \/ PartialPaymentCommit(c) \/ RefundCommit(c)
      PROVE  Linked'
  BY <1>4, BillCommitLinked, RefundCommitLinked
<1>5. ASSUME NEW r \in Requests, Reject(r) \/ CancelByCustomer(r)
      PROVE  Linked'
  BY <1>5, TerminateLinked DEF Reject, CancelByCustomer
<1>6. ASSUME NEW r \in Requests,
             Prepare(r) \/ MarkReady(r) \/ Deliver(r) \/ CancelOrder(r)
      PROVE  Linked'
  BY <1>6, OrderStepLinked
<1> QED BY <1>1, <1>2, <1>3, <1>4, <1>5, <1>6 DEF WriteStep

(***************************************************************************)
(* What a transaction does to requests and orders.                         *)
(***************************************************************************)
Untouched(r) == request'[r] = request[r] /\ order'[r] = order[r]
Decidable(r) == request[r].status \in {"none", "pending"}

\* What a step may do to a request and its order.
LEMMA RequestEffect ==
  ASSUME Linked, WriteStep, NEW r \in Requests
  PROVE  \/ Untouched(r)
         \/ Decidable(r) /\ request'[r].status # "accepted" /\ order'[r] = order[r]
         \/ /\ Decidable(r)
            /\ request'[r].status = "accepted"
            /\ order'[r].status = "accepted"
         \/ /\ request'[r] = request[r]
            /\ order[r].status \in ActiveOrderStatuses
            /\ order'[r].status \in OrderStatuses \ {"none"}
            /\ order'[r].status = "delivered" => Deliver(r)
<1> USE DEF Untouched, Decidable
<1>1. CASE UNCHANGED <<request, order>>
  BY <1>1
<1>2. ASSUME NEW c \in Callers, CreateCommit(c)
      PROVE  \/ Untouched(r)
             \/ Decidable(r) /\ request'[r].status # "accepted" /\ order'[r] = order[r]
  BY <1>2 DEF CreateCommit, Linked, TypeOK
<1>3. ASSUME NEW c \in Callers, UpdateItemsCommit(c)
      PROVE  \/ Untouched(r)
             \/ Decidable(r) /\ request'[r].status # "accepted" /\ order'[r] = order[r]
  BY <1>3 DEF UpdateItemsCommit, StillPending, Linked, TypeOK, RequestRow
<1>4. ASSUME NEW c \in Callers, AcceptCommit(c)
      PROVE  \/ Untouched(r)
             \/ /\ Decidable(r)
                /\ request'[r].status = "accepted"
                /\ order'[r].status = "accepted"
  BY <1>4 DEF AcceptCommit, NewOrder, StillPending, Linked, TypeOK, RequestRow
<1>5. ASSUME NEW c \in Callers, QuickAddCommit(c)
      PROVE  \/ Untouched(r)
             \/ /\ Decidable(r)
                /\ request'[r].status = "accepted"
                /\ order'[r].status = "accepted"
  BY <1>5 DEF QuickAddCommit, NewOrder, Linked, TypeOK
<1>6. ASSUME NEW x \in Requests, Reject(x) \/ CancelByCustomer(x)
      PROVE  \/ Untouched(r)
             \/ Decidable(r) /\ request'[r].status # "accepted" /\ order'[r] = order[r]
  BY <1>6 DEF Reject, CancelByCustomer, TerminateRequest, StillPending, Linked,
              TypeOK, RequestRow
<1>7. ASSUME NEW x \in Requests,
             Prepare(x) \/ MarkReady(x) \/ Deliver(x) \/ CancelOrder(x)
      PROVE  \/ Untouched(r)
             \/ /\ request'[r] = request[r]
                /\ order[r].status \in ActiveOrderStatuses
                /\ order'[r].status \in OrderStatuses \ {"none"}
                /\ order'[r].status = "delivered" => Deliver(r)
  <2>1. /\ request' = request
        /\ order[x].status \in ActiveOrderStatuses
        /\ \E st \in {"preparing", "ready", "delivered", "cancelled"} :
             /\ order' = [order EXCEPT ![x].status = st]
             /\ st = "delivered" => Deliver(x)
    BY <1>7 DEF Prepare, MarkReady, Advance, Deliver, CancelOrder, Transitions,
                ActiveOrderStatuses
  <2> QED BY <2>1 DEF Linked, TypeOK, OrderRow, OrderStatuses
<1>8. ASSUME NEW c \in Callers,
             \/ CloseCommit(c) \/ RequestPaymentCommit(c)
             \/ CancelPaymentCommit(c) \/ VoidCommit(c) \/ MarkPaidCommit(c)
             \/ AdjustCommit(c) \/ PartialPaymentCommit(c) \/ RefundCommit(c)
      PROVE  UNCHANGED <<request, order>>
  BY <1>8 DEF CloseCommit, RequestPaymentCommit, CancelPaymentCommit,
              VoidCommit, MarkPaidCommit, AdjustCommit, PartialPaymentCommit,
              RefundCommit
<1>9. ASSUME NEW t \in Tables,
             Open(t) \/ \E st \in TableStatuses : UpdateStatus(t, st)
      PROVE  UNCHANGED <<request, order>>
  BY <1>9 DEF Open, UpdateStatus
<1> QED BY <1>1, <1>2, <1>3, <1>4, <1>5, <1>6, <1>7, <1>8, <1>9 DEF WriteStep

\* An order stays tied to the acceptance of its request.
LEMMA OrderIffAcceptedKept ==
  ASSUME Linked, OrderIffAccepted, WriteStep
  PROVE  OrderIffAccepted'
<1> SUFFICES ASSUME NEW r \in Requests
             PROVE  (order'[r].status # "none") <=> (request'[r].status = "accepted")
  BY DEF OrderIffAccepted
<1>1. (order[r].status # "none") <=> (request[r].status = "accepted")
  BY DEF OrderIffAccepted
<1> QED BY <1>1, RequestEffect DEF Untouched, Decidable, ActiveOrderStatuses

(***************************************************************************)
(* What a transaction does to sessions and the pointers of the tables.     *)
(***************************************************************************)
\* Sessions stay on their tables and as they are, and tables show the same.
SameShown == /\ \A s \in Sessions : /\ session'[s].table = session[s].table
                                    /\ session'[s].status = session[s].status
             /\ \A t \in Tables : table'[t].current = table[t].current

\* The ends of a session.
Ends(c) == CloseCommit(c) \/ VoidCommit(c) \/ MarkPaidCommit(c)

\* Nothing else moves them.
LEMMA OpenOrEnd ==
  ASSUME Linked, WriteStep
  PROVE  \/ \E t \in Tables : Open(t)
         \/ \E c \in Callers : Ends(c)
         \/ SameShown
<1> USE DEF SameShown
<1>1. ASSUME NEW t \in Tables, NEW st \in TableStatuses, UpdateStatus(t, st)
      PROVE  SameShown
  BY <1>1 DEF UpdateStatus, Linked, TypeOK, TableRow
<1>2. ASSUME NEW c \in Callers, RequestPaymentCommit(c) \/ CancelPaymentCommit(c)
      PROVE  SameShown
  BY <1>2 DEF RequestPaymentCommit, CancelPaymentCommit, Linked, TypeOK, SessionRow
<1>3. ASSUME NEW c \in Callers,
             CreateCommit(c) \/ AcceptCommit(c) \/ QuickAddCommit(c)
      PROVE  SameShown
  <2>1. CASE CreateCommit(c)
    BY <2>1 DEF CreateCommit, ProjectOn, OnOrderRequestCreated, Linked, TypeOK,
                TableRow
  <2>2. CASE AcceptCommit(c)
    BY <2>2 DEF AcceptCommit, ProjectOn, OnOrderRequestAccepted, Linked, TypeOK,
                TableRow
  <2>3. CASE QuickAddCommit(c)
    BY <2>3 DEF QuickAddCommit, ProjectOn, OnOrderRequestAccepted, Linked,
                TypeOK, TableRow
  <2> QED BY <1>3, <2>1, <2>2, <2>3
<1>4. ASSUME NEW c \in Callers, UpdateItemsCommit(c)
      PROVE  SameShown
  BY <1>4 DEF UpdateItemsCommit
<1>5. ASSUME NEW c \in Callers,
             AdjustCommit(c) \/ PartialPaymentCommit(c) \/ RefundCommit(c)
      PROVE  SameShown
  <2>1. PICK s, a : AddToBill(s, a)
    BY <1>5 DEF AdjustCommit, PartialPaymentCommit, RefundCommit
  <2>2. \A row \in TableRow : OnLine(row, a).current = row.current
    BY DEF OnLine, OnConsumptionCreated, OnConsumptionReversed, TableRow
  <2> QED BY <2>1, <2>2 DEF AddToBill, Linked, TypeOK, SessionRow, TableRow
<1>6. ASSUME NEW r \in Requests, Reject(r) \/ CancelByCustomer(r)
      PROVE  SameShown
  BY <1>6 DEF Reject, CancelByCustomer, TerminateRequest, ProjectOn,
              OnOrderRequestRejected, Linked, TypeOK, TableRow
<1>7. ASSUME NEW r \in Requests, Prepare(r) \/ MarkReady(r) \/ CancelOrder(r)
      PROVE  SameShown
  BY <1>7 DEF Prepare, MarkReady, Advance, CancelOrder, LeaveActive,
              OnOrderLeftActive, Linked, TypeOK, TableRow
<1>8. ASSUME NEW r \in Requests, Deliver(r)
      PROVE  SameShown
  <2>1. \A s \in Sessions : /\ session'[s].table = session[s].table
                            /\ session'[s].status = session[s].status
    BY <1>8 DEF Deliver, Linked, TypeOK, SessionRow
  <2>2. \A t \in Tables : table'[t].current = table[t].current
    BY <1>8 DEF Deliver, OnConsumptionCreated, OnOrderLeftActive, Linked,
                TypeOK, TableRow
  <2> QED BY <2>1, <2>2
<1> HIDE DEF SameShown
<1> QED BY <1>1, <1>2, <1>3, <1>4, <1>5, <1>6, <1>7, <1>8 DEF WriteStep, Ends

\* A session that ends leaves its table free, whatever the table shows.
LEMMA EndEffect ==
  ASSUME Linked, NEW c \in Callers, Ends(c)
  PROVE  \E s \in Sessions :
           /\ s = call[c].id
           /\ TableOf(s) \in Tables
           /\ \A x \in Sessions : session'[x].table = session[x].table
           /\ \A x \in Sessions \ {s} : session'[x] = session[x]
           /\ session'[s].status = IF VoidCommit(c) THEN "void" ELSE "closed"
           /\ table' = [table EXCEPT ![TableOf(s)] = FreeTable]
<1>1. PICK s \in Sessions : s = call[c].id /\ TableOf(s) \in Tables
  <2>1. SessionExists(call[c].id)
    BY DEF Ends, CloseCommit, VoidCommit, MarkPaidCommit, Finish, Linked,
           CallsLinked, CallLinked, SessionSteps, RequestSteps, Steps
  <2> QED BY <2>1, TableOfSession
<1>2. table' = [table EXCEPT ![TableOf(s)] = FreeTable]
  BY <1>1 DEF Ends, CloseCommit, VoidCommit, MarkPaidCommit, OnSessionClosed
<1>3. /\ \A x \in Sessions : session'[x].table = session[x].table
      /\ \A x \in Sessions \ {s} : session'[x] = session[x]
      /\ session'[s].status = IF VoidCommit(c) THEN "void" ELSE "closed"
  <2> USE <1>1 DEF Linked, TypeOK, SessionRow
  <2>1. CASE VoidCommit(c)
    <3>1. session' = [session EXCEPT ![s] =
                        [@ EXCEPT !.status = "void", !.voided = TRUE,
                                  !.payReq = FALSE]]
      BY <2>1 DEF VoidCommit
    <3> QED BY <2>1, <3>1
  <2>2. CASE CloseCommit(c)
    <3>1. session' = [session EXCEPT ![s].status = "closed"] /\ ~ VoidCommit(c)
      BY <2>2 DEF CloseCommit, VoidCommit, Finish
    <3> QED BY <3>1
  <2>3. CASE MarkPaidCommit(c)
    <3>1. session' = [session EXCEPT ![s] = Settled(@)] /\ ~ VoidCommit(c)
      BY <2>3 DEF MarkPaidCommit, VoidCommit, Finish
    <3> QED BY <3>1 DEF Settled
  <2> QED BY <2>1, <2>2, <2>3 DEF Ends
<1> QED BY <1>1, <1>2, <1>3

\* What a step may do to the session of a table.
LEMMA SessionEffect ==
  ASSUME Linked, WriteStep
  PROVE  \/ \E t \in Tables : Open(t)
         \/ /\ \A s \in Sessions : session'[s].table = session[s].table
            /\ \A s \in Sessions : NonClosed(s)' => NonClosed(s)
            /\ \A t \in Tables : table'[t].current \in {table[t].current, None}
            /\ \A s \in Sessions :
                 NonClosed(s) /\ ~ NonClosed(s)'
                   => table'[TableOf(s)].current = None
<1> DEFINE Goal ==
      /\ \A s \in Sessions : session'[s].table = session[s].table
      /\ \A s \in Sessions : NonClosed(s)' => NonClosed(s)
      /\ \A t \in Tables : table'[t].current \in {table[t].current, None}
      /\ \A s \in Sessions :
           NonClosed(s) /\ ~ NonClosed(s)' => table'[TableOf(s)].current = None
<1>1. SameShown => Goal
  BY DEF SameShown, NonClosed
<1>2. ASSUME NEW c \in Callers, Ends(c)
      PROVE  Goal
  BY <1>2, EndEffect DEF NonClosed, FreeTable, Linked, TypeOK
<1> QED BY <1>1, <1>2, OpenOrEnd

\* A table keeps one live session.
LEMMA OneActiveSessionKept ==
  ASSUME Linked, OneActiveSession, WriteStep
  PROVE  OneActiveSession'
<1>1. CASE \E t \in Tables : Open(t)
  <2>1. PICK t \in Tables, s \in Sessions :
          /\ ~ HasNonClosed(t)
          /\ session' = [session EXCEPT ![s] =
                           [@ EXCEPT !.status = "open", !.table = t]]
    BY <1>1 DEF Open
  <2>2. \A x \in Sessions \ {s} : session'[x] = session[x]
    BY <2>1 DEF Linked, TypeOK
  <2>3. session'[s].table = t
    BY <2>1 DEF Linked, TypeOK, SessionRow
  <2>4. \A x \in Sessions \ {s} : NonClosed(x)' => TableOf(x)' # t
    BY <2>1, <2>2 DEF HasNonClosed, NonClosed, TableOf
  <2> QED BY <2>2, <2>3, <2>4 DEF OneActiveSession, NonClosed, TableOf
<1>2. CASE /\ \A s \in Sessions : session'[s].table = session[s].table
           /\ \A s \in Sessions : NonClosed(s)' => NonClosed(s)
  BY <1>2 DEF OneActiveSession, TableOf
<1> QED BY <1>1, <1>2, SessionEffect

\* The session a table shows stays live.
LEMMA CurrentIsLiveKept ==
  ASSUME Linked, CurrentIsLive, WriteStep
  PROVE  CurrentIsLive'
<1> SUFFICES ASSUME NEW t \in Tables, table'[t].current # None
             PROVE  TableOf(table[t].current)' = t /\ NonClosed(table[t].current)'
  BY DEF CurrentIsLive
<1>0. /\ table[t].current \in Sessions \cup {None}
      /\ table[t].current # None => /\ TableOf(table[t].current) = t
                                    /\ NonClosed(table[t].current)
  BY DEF CurrentIsLive, Linked, TypeOK, TableRow
<1>1. CASE \E u \in Tables : Open(u)
  <2>1. PICK u \in Tables, s \in Sessions :
          /\ session[s].status = "none"
          /\ session' = [session EXCEPT ![s] =
                           [@ EXCEPT !.status = "open", !.table = u]]
          /\ table' = [table EXCEPT ![u] = OnSessionOpened(@, s)]
    BY <1>1 DEF Open
  <2>2. session'[s].status = "open" /\ session'[s].table = u
        /\ \A x \in Sessions \ {s} : session'[x] = session[x]
    BY <2>1 DEF Linked, TypeOK, SessionRow
  <2>3. CASE t = u
    <3>1. table'[t].current = s
      BY <2>1, <2>3 DEF OnSessionOpened, Linked, TypeOK, TableRow
    <3> QED BY <2>2, <2>3, <3>1 DEF TableOf, NonClosed
  <2>4. CASE t # u
    <3>1. table'[t] = table[t]
      BY <2>1, <2>4 DEF Linked, TypeOK
    <3>2. table[t].current # s
      BY <1>0, <2>1, ConstantsAssumption DEF NonClosed
    <3> QED BY <1>0, <2>2, <3>1, <3>2 DEF TableOf, NonClosed
  <2> QED BY <2>3, <2>4
<1>2. CASE /\ \A s \in Sessions : session'[s].table = session[s].table
           /\ table'[t].current \in {table[t].current, None}
           /\ \A s \in Sessions : NonClosed(s) /\ ~ NonClosed(s)'
                                    => table'[TableOf(s)].current = None
  <2>1. table'[t].current = table[t].current /\ table[t].current \in Sessions
    BY <1>0, <1>2
  <2>2. NonClosed(table[t].current)'
    BY <1>0, <1>2, <2>1 DEF NonClosed
  <2> QED BY <1>0, <1>2, <2>1, <2>2 DEF TableOf
<1> QED BY <1>1, <1>2, SessionEffect

(***************************************************************************)
(* What a transaction does to the bill lines.                              *)
(***************************************************************************)
PlainLine(line) == /\ line.type \in {"adjustment", "partial_payment"}
                   /\ line.order = None
                   /\ line.reverses = None
                   /\ ~ line.reversed

\* What a step may do to the lines of a bill.
LEMMA EntryEffect ==
  ASSUME Linked, WriteStep
  PROVE  \/ entry' = entry
         \/ \E e \in Entries, line \in EntryRow :
              /\ Unused(e)
              /\ entry' = [entry EXCEPT ![e] = line]
              /\ PlainLine(line)
              /\ UNCHANGED <<request, order>>
         \/ \E c \in Callers : RefundCommit(c)
         \/ \E r \in Requests : Deliver(r)
<1>1. ASSUME NEW c \in Callers, AdjustCommit(c) \/ PartialPaymentCommit(c)
      PROVE  \E e \in Entries, line \in EntryRow :
               /\ Unused(e)
               /\ entry' = [entry EXCEPT ![e] = line]
               /\ PlainLine(line)
               /\ UNCHANGED <<request, order>>
  <2> DEFINE s == call[c].id
  <2>1. SessionExists(s) /\ call[c].amt \in Int /\ - call[c].amt \in Int
    BY <1>1 DEF AdjustCommit, PartialPaymentCommit, Finish, Linked, TypeOK,
                CallState, CallsLinked, CallLinked, SessionSteps, RequestSteps,
                Steps
  <2>2. PICK type \in {"adjustment", "partial_payment"}, a \in Int, e \in Entries :
          /\ Unused(e)
          /\ entry' = [entry EXCEPT ![e] = Line(type, s, None, a, None)]
          /\ UNCHANGED <<request, order>>
    <3>1. CASE AdjustCommit(c)
      BY <2>1, <3>1 DEF AdjustCommit
    <3>2. CASE PartialPaymentCommit(c)
      BY <2>1, <3>2 DEF PartialPaymentCommit
    <3> QED BY <1>1, <3>1, <3>2
  <2>3. Line(type, s, None, a, None) \in EntryRow
    BY <2>1, TableOfSession DEF Line, EntryRow, EntryTypes
  <2>4. PlainLine(Line(type, s, None, a, None))
    BY DEF PlainLine, Line
  <2> QED BY <2>2, <2>3, <2>4
<1>2. ASSUME NEW c \in Callers,
             \/ CloseCommit(c) \/ RequestPaymentCommit(c)
             \/ CancelPaymentCommit(c) \/ VoidCommit(c) \/ MarkPaidCommit(c)
             \/ CreateCommit(c) \/ AcceptCommit(c) \/ QuickAddCommit(c)
             \/ UpdateItemsCommit(c)
      PROVE  entry' = entry
  BY <1>2 DEF CloseCommit, RequestPaymentCommit, CancelPaymentCommit,
              VoidCommit, MarkPaidCommit, CreateCommit, AcceptCommit,
              QuickAddCommit, UpdateItemsCommit
<1>3. ASSUME NEW r \in Requests,
             \/ Reject(r) \/ CancelByCustomer(r)
             \/ Prepare(r) \/ MarkReady(r) \/ CancelOrder(r)
      PROVE  entry' = entry
  BY <1>3 DEF Reject, CancelByCustomer, TerminateRequest, Prepare, MarkReady,
              Advance, CancelOrder
<1>4. ASSUME NEW t \in Tables,
             Open(t) \/ \E st \in TableStatuses : UpdateStatus(t, st)
      PROVE  entry' = entry
  BY <1>4 DEF Open, UpdateStatus
<1> QED BY <1>1, <1>2, <1>3, <1>4 DEF WriteStep

\* A line stays refunded once.
LEMMA RefundedOnceKept ==
  ASSUME Linked, OrderIffAccepted, RefundedOnce, WriteStep
  PROVE  RefundedOnce'
<1>0. \A x \in Entries :
        entry[x].reverses # None => Refundable(entry[x].reverses)
  BY DEF Linked, RowsLinked
<1>1. CASE entry' = entry
  BY <1>1 DEF RefundedOnce, RefundsOf
<1>2. ASSUME NEW e \in Entries, NEW line \in EntryRow, Unused(e),
             entry' = [entry EXCEPT ![e] = line],
             line.reverses = None, ~ line.reversed,
             line.type # "refund"
      PROVE  RefundedOnce'
  <2>1. entry'[e] = line /\ \A x \in Entries \ {e} : entry'[x] = entry[x]
    BY <1>2 DEF Linked, TypeOK
  <2>2. entry[e] = NoEntry
    BY <1>2 DEF Unused, Linked, RowsLinked
  <2>3. entry[e].reverses = None /\ entry[e].type = "none" /\ ~ entry[e].reversed
    BY <2>2 DEF NoEntry
  <2>4. \A x \in Entries : RefundsOf(x)' = RefundsOf(x)
    BY <1>2, <2>1, <2>3, ConstantsAssumption DEF RefundsOf
  <2>5. RefundsOf(e) = {}
    BY <2>3 DEF RefundedOnce
  <2>6. ASSUME NEW x \in Entries, x # e
        PROVE  IF entry'[x].reversed
                 THEN \E f \in Entries : /\ RefundsOf(x)' = {f}
                                         /\ entry'[f].type = "refund"
                                         /\ entry'[f].amount = - entry'[x].amount
                                         /\ entry'[f].session = entry'[x].session
                 ELSE RefundsOf(x)' = {}
    BY <2>1, <2>3, <2>4, <2>6 DEF RefundedOnce
  <2> QED BY <1>2, <2>1, <2>4, <2>5, <2>6 DEF RefundedOnce
<1>3. ASSUME NEW c \in Callers, RefundCommit(c)
      PROVE  RefundedOnce'
  <2>1. PICK e \in Entries :
          /\ e = call[c].id
          /\ Refundable(e)
          /\ entry[e] \in EntryRow
          /\ ~ entry[e].reversed
    BY <1>3 DEF RefundCommit, Finish, NotReversed, Refundable, Linked, TypeOK,
                CallsLinked, CallLinked
  <2>2. PICK f \in Entries :
          /\ Unused(f)
          /\ entry' = [entry EXCEPT ![e].reversed = TRUE, ![f] = RefundLine(e)]
    BY <1>3, <2>1 DEF RefundCommit
  <2>3. e # f /\ ~ Refundable(f)
    BY <2>1, <2>2 DEF Unused, Refundable
  <2>4. entry[f].reverses = None /\ ~ entry[f].reversed
    BY <2>2 DEF Unused, Linked, RowsLinked, NoEntry
  <2>5. /\ entry'[f] = RefundLine(e)
        /\ entry'[e] = [entry[e] EXCEPT !.reversed = TRUE]
        /\ \A x \in Entries \ {e, f} : entry'[x] = entry[x]
    BY <2>1, <2>2, <2>3 DEF Linked, TypeOK
  <2>6. /\ entry'[f].type = "refund"
        /\ entry'[f].reverses = e
        /\ ~ entry'[f].reversed
        /\ entry'[f].amount = - entry[e].amount
        /\ entry'[f].session = entry[e].session
    BY <2>5 DEF RefundLine, Line
  <2>7. /\ entry'[e].reversed
        /\ entry'[e].reverses = entry[e].reverses
        /\ entry'[e].amount = entry[e].amount
        /\ entry'[e].session = entry[e].session
        /\ entry'[e].type = entry[e].type
    BY <2>1, <2>5 DEF EntryRow
  <2>8. RefundsOf(e) = {} /\ RefundsOf(f) = {}
    BY <2>1, <2>4 DEF RefundedOnce
  <2>9. RefundsOf(e)' = {f}
    <3>1. \A x \in Entries : entry[x].reverses # e
      BY <2>8 DEF RefundsOf
    <3>2. \A x \in Entries \ {e, f} : entry'[x].reverses # e
      BY <2>5, <3>1
    <3>3. entry'[e].reverses # e
      BY <2>7, <3>1
    <3>4. \A x \in Entries : entry'[x].reverses = e <=> x = f
      BY <2>6, <3>2, <3>3
    <3> QED BY <3>4 DEF RefundsOf
  <2>10. \A x \in Entries \ {e} : RefundsOf(x)' = RefundsOf(x)
    <3>1. \A y \in Entries \ {f} : entry'[y].reverses = entry[y].reverses
      BY <2>5, <2>7
    <3>2. \A x \in Entries \ {e} : entry'[f].reverses # x /\ entry[f].reverses # x
      BY <2>4, <2>6, ConstantsAssumption
    <3>3. \A x \in Entries \ {e}, y \in Entries :
            entry'[y].reverses = x <=> entry[y].reverses = x
      BY <3>1, <3>2
    <3> QED BY <3>3 DEF RefundsOf
  <2>11. ASSUME NEW x \in Entries \ {e, f}
         PROVE  IF entry'[x].reversed
                  THEN \E g \in Entries : /\ RefundsOf(x)' = {g}
                                          /\ entry'[g].type = "refund"
                                          /\ entry'[g].amount = - entry'[x].amount
                                          /\ entry'[g].session = entry'[x].session
                  ELSE RefundsOf(x)' = {}
    <3>1. CASE ~ entry[x].reversed
      BY <2>5, <2>10, <3>1 DEF RefundedOnce
    <3>2. CASE entry[x].reversed
      <4>1. PICK g \in Entries : /\ RefundsOf(x) = {g}
                                 /\ entry[g].type = "refund"
                                 /\ entry[g].amount = - entry[x].amount
                                 /\ entry[g].session = entry[x].session
        BY <3>2 DEF RefundedOnce
      <4>2. g # f /\ g # e
        BY <2>1, <2>2, <4>1 DEF Unused, Refundable
      <4> QED BY <2>5, <2>10, <3>2, <4>1, <4>2
    <3> QED BY <3>1, <3>2
  <2> QED BY <2>1, <2>3, <2>6, <2>7, <2>8, <2>9, <2>10, <2>11 DEF RefundedOnce
<1>4. ASSUME NEW r \in Requests, Deliver(r)
      PROVE  RefundedOnce'
  <2>1. PICK e \in Entries : Unused(e) /\ entry' = [entry EXCEPT ![e] = ProductLine(r)]
    BY <1>4 DEF Deliver
  <2>2. /\ ProductLine(r).reverses = None
        /\ ~ ProductLine(r).reversed
        /\ ProductLine(r).type # "refund"
    BY DEF ProductLine, Line
  <2>3. entry' \in [Entries -> EntryRow]
    BY <1>4, OrderStepLinked DEF Linked, TypeOK
  <2>4. ProductLine(r) \in EntryRow
    BY <2>1, <2>3 DEF Linked, TypeOK
  <2> QED BY <1>2, <2>1, <2>2, <2>4
<1> QED BY <1>1, <1>2, <1>3, <1>4, EntryEffect DEF PlainLine

\* The bill lines a delivery wrote for an order.
ProductLines(r) == {e \in LinesOfOrder(r) : entry[e].type = "product"}

\* A delivered order stays billed once.
LEMMA BilledOnDeliveryKept ==
  ASSUME Linked, OrderIffAccepted, BilledOnDelivery, WriteStep
  PROVE  BilledOnDelivery'
<1> DEFINE Billed(r) ==
      IF order[r].status = "delivered"
        THEN \E e \in ProductLines(r) :
               /\ ProductLines(r) = {e}
               /\ entry[e].amount = order[r].items
               /\ entry[e].session = request[r].session
        ELSE ProductLines(r) = {}
<1> SUFFICES ASSUME NEW r \in Requests PROVE Billed(r)'
  BY DEF BilledOnDelivery, ProductLines
<1>0. Billed(r)
  BY DEF BilledOnDelivery, ProductLines
<1>1. order'[r].status = "delivered" =>
        \/ /\ order[r].status = "delivered"
           /\ order'[r].items = order[r].items
           /\ request'[r].session = request[r].session
        \/ Deliver(r)
  <2>1. order[r].status = "delivered" => request[r].status = "accepted"
    BY DEF OrderIffAccepted
  <2> QED BY <2>1, RequestEffect DEF Untouched, Decidable, ActiveOrderStatuses
<1>2. order[r].status = "delivered" => order'[r].status = "delivered"
  <2>1. order[r].status = "delivered" => request[r].status = "accepted"
    BY DEF OrderIffAccepted
  <2> QED BY <2>1, RequestEffect DEF Untouched, Decidable, ActiveOrderStatuses
<1>3. ASSUME ~ Deliver(r),
             ProductLines(r)' = ProductLines(r),
             \A e \in ProductLines(r) : /\ entry'[e].amount = entry[e].amount
                                        /\ entry'[e].session = entry[e].session
      PROVE  Billed(r)'
  BY <1>0, <1>1, <1>2, <1>3
<1>4. CASE ~ Deliver(r) /\ entry' = entry
  BY <1>3, <1>4 DEF ProductLines, LinesOfOrder
<1>5. ASSUME NEW e \in Entries, NEW line \in EntryRow, ~ Deliver(r), Unused(e),
             entry' = [entry EXCEPT ![e] = line],
             line.order # r
      PROVE  Billed(r)'
  <2>1. entry'[e] = line /\ \A x \in Entries \ {e} : entry'[x] = entry[x]
    BY <1>5 DEF Linked, TypeOK
  <2>2. e \notin ProductLines(r)
    BY <1>5 DEF Unused, ProductLines
  <2>3. ProductLines(r)' = ProductLines(r)
    BY <1>5, <2>1, <2>2 DEF ProductLines, LinesOfOrder
  <2> QED BY <1>3, <1>5, <2>1, <2>2, <2>3 DEF ProductLines, LinesOfOrder
<1>6. CASE /\ ~ Deliver(r)
           /\ \E e \in Entries, line \in EntryRow :
                /\ Unused(e)
                /\ entry' = [entry EXCEPT ![e] = line]
                /\ PlainLine(line)
  BY <1>5, <1>6, ConstantsAssumption DEF PlainLine
<1>7. ASSUME NEW c \in Callers, RefundCommit(c), ~ Deliver(r)
      PROVE  Billed(r)'
  <2>1. PICK e \in Entries :
          /\ e = call[c].id
          /\ Refundable(e)
          /\ entry[e] \in EntryRow
    BY <1>7 DEF RefundCommit, Finish, Refundable, Linked, TypeOK, CallsLinked,
                CallLinked
  <2>2. PICK f \in Entries :
          /\ Unused(f)
          /\ entry' = [entry EXCEPT ![e].reversed = TRUE, ![f] = RefundLine(e)]
    BY <1>7, <2>1 DEF RefundCommit
  <2>3. e # f
    BY <2>1, <2>2 DEF Unused, Refundable
  <2>4. /\ entry'[f] = RefundLine(e)
        /\ entry'[e] = [entry[e] EXCEPT !.reversed = TRUE]
        /\ \A x \in Entries \ {e, f} : entry'[x] = entry[x]
    BY <2>1, <2>2, <2>3 DEF Linked, TypeOK
  <2>5. entry'[f].type = "refund" /\ entry[f].type = "none"
    BY <2>2, <2>4 DEF RefundLine, Line, Unused
  <2>6. /\ entry'[e].order = entry[e].order
        /\ entry'[e].amount = entry[e].amount
        /\ entry'[e].session = entry[e].session
        /\ entry'[e].type = entry[e].type
    BY <2>1, <2>4 DEF EntryRow
  <2>7. \A x \in Entries : x \in ProductLines(r)' <=> x \in ProductLines(r)
    BY <2>4, <2>5, <2>6 DEF ProductLines, LinesOfOrder
  <2>8. ProductLines(r)' = ProductLines(r)
    BY <2>7 DEF ProductLines, LinesOfOrder
  <2>9. \A x \in ProductLines(r) : /\ entry'[x].amount = entry[x].amount
                                   /\ entry'[x].session = entry[x].session
    BY <2>4, <2>5, <2>6 DEF ProductLines, LinesOfOrder
  <2> QED BY <1>3, <1>7, <2>8, <2>9
<1>8. ASSUME NEW q \in Requests, Deliver(q)
      PROVE  Billed(r)'
  <2> DEFINE line == ProductLine(q)
  <2>1. PICK e \in Entries : Unused(e) /\ entry' = [entry EXCEPT ![e] = line]
    BY <1>8 DEF Deliver
  <2>2. /\ line.type = "product"
        /\ line.order = q
        /\ line.amount = order[q].items
        /\ line.session = request[q].session
    BY DEF ProductLine, Line
  <2>3. entry'[e] = line /\ \A x \in Entries \ {e} : entry'[x] = entry[x]
    BY <2>1 DEF Linked, TypeOK
  <2>4. line \in EntryRow
    BY <1>8, <2>3, OrderStepLinked DEF Linked, TypeOK
  <2>5. CASE q # r
    <3>1. ~ Deliver(r)
      BY <1>8, <2>5 DEF Deliver, Linked, TypeOK, OrderRow, Transitions
    <3> QED BY <1>5, <2>1, <2>2, <2>4, <2>5, <3>1
  <2>6. CASE q = r
    <3>1. order[r].status # "delivered" /\ order'[r].status = "delivered"
          /\ order'[r].items = order[r].items /\ request' = request
      BY <1>8, <2>6 DEF Deliver, Transitions, Linked, TypeOK, OrderRow
    <3>2. ProductLines(r) = {}
      BY <1>0, <3>1
    <3>3. \A x \in Entries : x \in ProductLines(r)' <=> x = e
      BY <2>2, <2>3, <2>6, <3>2 DEF ProductLines, LinesOfOrder
    <3>4. ProductLines(r)' = {e}
      BY <3>3 DEF ProductLines, LinesOfOrder
    <3> QED BY <2>2, <2>3, <2>6, <3>1, <3>4
  <2> QED BY <2>5, <2>6
<1>9. CASE \E q \in Requests : Deliver(q)
  BY <1>8, <1>9
<1>10. CASE \A q \in Requests : ~ Deliver(q)
  BY <1>4, <1>6, <1>7, <1>10, EntryEffect
<1> QED BY <1>9, <1>10

(***************************************************************************)
(* The theorems.                                                           *)
(***************************************************************************)
\* Everything a handler relies on, together: no part is inductive alone.
Consistent ==
  /\ Linked
  /\ OrderIffAccepted
  /\ OneActiveSession
  /\ CurrentIsLive
  /\ RefundedOnce
  /\ BilledOnDelivery

\* The invariant holds at the start.
LEMMA InitConsistent == Init => Consistent
<1> SUFFICES ASSUME Init PROVE Consistent
  OBVIOUS
<1>1. Linked
  BY InitLinked
<1>2. OrderIffAccepted /\ OneActiveSession /\ CurrentIsLive
  BY DEF Init, OrderIffAccepted, OneActiveSession, NonClosed, CurrentIsLive,
         FreeTable
<1>3. RefundedOnce
  BY ConstantsAssumption DEF Init, RefundedOnce, RefundsOf, NoEntry
<1>4. BilledOnDelivery
  BY ConstantsAssumption DEF Init, BilledOnDelivery, LinesOfOrder, NoEntry
<1> QED BY <1>1, <1>2, <1>3, <1>4 DEF Consistent

\* Steps that change no row keep the invariant.
LEMMA RowsKeptConsistent ==
  ASSUME Consistent, UNCHANGED rows, Linked'
  PROVE  Consistent'
  BY DEF Consistent, rows, OrderIffAccepted, OneActiveSession, NonClosed,
         TableOf, CurrentIsLive, RefundedOnce, RefundsOf, BilledOnDelivery,
         LinesOfOrder

\* Every step keeps the invariant.
LEMMA NextConsistent ==
  ASSUME Consistent, [Next]_vars
  PROVE  Consistent'
<1> USE DEF Consistent
<1>1. CASE ReadStep
  BY <1>1, ReadStepLinked, RowsKeptConsistent
<1>2. CASE WriteStep
  BY <1>2, WriteStepLinked, OrderIffAcceptedKept, OneActiveSessionKept,
     CurrentIsLiveKept, RefundedOnceKept, BilledOnDeliveryKept
<1>3. CASE UNCHANGED vars
  <2>1. Linked'
    BY <1>3 DEF vars, Linked, TypeOK, RowsLinked, CallsLinked, CallLinked,
                SessionExists, RequestExists, Refundable, TableOf
  <2> QED BY <1>3, <2>1, RowsKeptConsistent DEF vars, rows
<1> QED BY <1>1, <1>2, <1>3, NextSplit

\* Whatever calls are served at once, in whatever order their steps are
\* taken: rows and the calls' unfinished work stay well typed and linked;
\* TypeOK and the other invariants follow.
THEOREM ConsistentAlways == Spec => []Consistent
  BY InitConsistent, NextConsistent, PTL DEF Spec

\* The rows keep their types and the references between rows and calls hold
\* (every write of the four services).
THEOREM LinkedAlways == Spec => []Linked
  BY ConsistentAlways, PTL DEF Consistent

\* No table ever has two open sessions (TableSessionsService.open).
THEOREM OneActiveSessionAlways == Spec => []OneActiveSession
  BY ConsistentAlways, PTL DEF Consistent

\* A table never points at a session that is over, or at another table's
\* (TableProjectionService, close, markPaid, voidSession).
THEOREM CurrentIsLiveAlways == Spec => []CurrentIsLive
  BY ConsistentAlways, PTL DEF Consistent

\* An order exists for exactly the accepted requests (accept and
\* createAndAccept).
THEOREM OrderIffAcceptedAlways == Spec => []OrderIffAccepted
  BY ConsistentAlways, PTL DEF Consistent

\* A delivered order is on the bill exactly once, at its price (updateStatus).
THEOREM BilledOnDeliveryAlways == Spec => []BilledOnDelivery
  BY ConsistentAlways, PTL DEF Consistent

\* A bill line is refunded at most once, by its exact amount
\* (refundConsumption).
THEOREM RefundedOnceAlways == Spec => []RefundedOnce
  BY ConsistentAlways, PTL DEF Consistent

\* Decided requests and finished orders never change (guarded updates of
\* accept, updateItems, terminateRequest and updateStatus).
THEOREM DecisionsAreFinalAlways == Spec => DecisionsAreFinal
<1> DEFINE Final ==
      \A r \in Requests :
        /\ request[r].status \in {"accepted", "rejected", "cancelled"}
             => request'[r] = request[r]
        /\ order[r].status \in {"delivered", "cancelled"}
             => order'[r] = order[r]
<1>1. ASSUME Consistent, [Next]_vars PROVE [Final]_vars
  <2>1. CASE WriteStep
    <3> SUFFICES ASSUME NEW r \in Requests
                 PROVE  /\ request[r].status \in {"accepted", "rejected", "cancelled"}
                             => request'[r] = request[r]
                        /\ order[r].status \in {"delivered", "cancelled"}
                             => order'[r] = order[r]
      OBVIOUS
    <3>1. order[r].status \in {"delivered", "cancelled"} => ~ Decidable(r)
      BY <1>1 DEF Consistent, OrderIffAccepted, Decidable
    <3> QED BY <1>1, <2>1, <3>1, RequestEffect
            DEF Consistent, Untouched, Decidable, ActiveOrderStatuses
  <2>2. CASE ReadStep
    BY <1>1, <2>2, ReadStepLinked DEF Consistent, rows
  <2> QED BY <1>1, <2>1, <2>2, NextSplit
<1> QED BY <1>1, ConsistentAlways, PTL DEF Spec, DecisionsAreFinal

(***************************************************************************)
(* Totals.  Every transaction that moves a session's total writes one line *)
(* of that amount on its bill, and the other way round.                    *)
(***************************************************************************)
UsedLines == {e \in Entries : entry[e].type # "none"}
UsedRequests == {r \in Requests : request[r].status # "none"}

\* There are finitely many rows at any time, however large the pools are.
FinitelyMany == IsFiniteSet(UsedLines) /\ IsFiniteSet(UsedRequests)

SameTotals == \A s \in Sessions : session'[s].total = session[s].total
SameLines == \A e \in Entries : /\ entry'[e].type = entry[e].type
                                /\ entry'[e].session = entry[e].session
                                /\ entry'[e].order = entry[e].order
                                /\ entry'[e].amount = entry[e].amount
                                /\ entry'[e].reverses = entry[e].reverses

\* A line that names an order bills it or takes back one that does.
Named(line) ==
  /\ line.order # None => line.type \in {"product", "refund"}
  /\ line.type = "refund" => /\ Refundable(line.reverses)
                             /\ entry[line.reverses].order = line.order
LinesNamed == \A e \in Entries : Named(entry[e])

\* line is written in the unused row e and added to its session's total; the
\* others keep what they say, if not whether they were reversed.
LineAdded(e, line) ==
  /\ entry[e].type = "none"
  /\ line \in EntryRow
  /\ line.type # "none"
  /\ SessionExists(line.session)
  /\ Named(line)
  /\ entry'[e] = line
  /\ \A x \in Entries \ {e} : /\ entry'[x].type = entry[x].type
                              /\ entry'[x].session = entry[x].session
                              /\ entry'[x].order = entry[x].order
                              /\ entry'[x].amount = entry[x].amount
                              /\ entry'[x].reverses = entry[x].reverses
  /\ session'[line.session].total = session[line.session].total + line.amount
  /\ \A s \in Sessions \ {line.session} : session'[s].total = session[s].total

\* AddToBill moves the total of one session.
LEMMA AddToBillTotals ==
  ASSUME Linked, NEW s, SessionExists(s), NEW a, AddToBill(s, a)
  PROVE  /\ session'[s].total = session[s].total + a
         /\ \A x \in Sessions \ {s} : session'[x].total = session[x].total
  BY DEF AddToBill, Linked, TypeOK, SessionExists, SessionRow

\* A line written into an unused row leaves the others as they are.
LEMMA LineInserted ==
  ASSUME Linked, NEW e \in Entries, Unused(e), NEW line \in EntryRow,
         line.type # "none", SessionExists(line.session), Named(line),
         entry' = [entry EXCEPT ![e] = line],
         session'[line.session].total = session[line.session].total + line.amount,
         \A s \in Sessions \ {line.session} : session'[s].total = session[s].total
  PROVE  LineAdded(e, line)
  BY DEF LineAdded, Unused, Linked, TypeOK

\* What a transaction does to the bills.
LEMMA BillEffect ==
  ASSUME Linked, OrderIffAccepted, WriteStep
  PROVE  \/ SameTotals /\ SameLines
         \/ \E e \in Entries, line \in EntryRow : LineAdded(e, line)
<1>1. ASSUME NEW c \in Callers, AdjustCommit(c) \/ PartialPaymentCommit(c)
      PROVE  \E e \in Entries, line \in EntryRow : LineAdded(e, line)
  <2> DEFINE s == call[c].id
  <2>1. SessionExists(s) /\ call[c].amt \in Int /\ - call[c].amt \in Int
    BY <1>1 DEF AdjustCommit, PartialPaymentCommit, Finish, Linked, TypeOK,
                CallState, CallsLinked, CallLinked, SessionSteps, RequestSteps,
                Steps
  <2>2. PICK type \in {"adjustment", "partial_payment"}, a \in Int, e \in Entries :
          /\ Unused(e)
          /\ entry' = [entry EXCEPT ![e] = Line(type, s, None, a, None)]
          /\ AddToBill(s, a)
    <3>1. CASE AdjustCommit(c)
      BY <2>1, <3>1 DEF AdjustCommit
    <3>2. CASE PartialPaymentCommit(c)
      BY <2>1, <3>2 DEF PartialPaymentCommit
    <3> QED BY <1>1, <3>1, <3>2
  <2> DEFINE line == Line(type, s, None, a, None)
  <2>3. /\ line \in EntryRow
        /\ line.type # "none"
        /\ line.session = s
        /\ line.amount = a
        /\ Named(line)
    BY <2>1, TableOfSession DEF Line, EntryRow, EntryTypes, Named
  <2> HIDE DEF line
  <2>4. entry' = [entry EXCEPT ![e] = line]
    BY <2>2 DEF line
  <2>5. /\ session'[line.session].total = session[line.session].total + line.amount
        /\ \A x \in Sessions \ {line.session} : session'[x].total = session[x].total
    BY <2>1, <2>2, <2>3, AddToBillTotals
  <2>6. LineAdded(e, line)
    BY <2>1, <2>2, <2>3, <2>4, <2>5, LineInserted
  <2> QED BY <2>3, <2>6
<1>2. ASSUME NEW c \in Callers, RefundCommit(c)
      PROVE  \E e \in Entries, line \in EntryRow : LineAdded(e, line)
  <2>1. PICK e \in Entries :
          /\ e = call[c].id
          /\ Refundable(e)
          /\ entry[e] \in EntryRow
          /\ SessionExists(entry[e].session)
    BY <1>2 DEF RefundCommit, Finish, Refundable, Linked, TypeOK, RowsLinked,
                CallsLinked, CallLinked
  <2>2. PICK f \in Entries :
          /\ Unused(f)
          /\ entry' = [entry EXCEPT ![e].reversed = TRUE, ![f] = RefundLine(e)]
          /\ AddToBill(entry[e].session, - entry[e].amount)
    BY <1>2, <2>1 DEF RefundCommit
  <2>3. e # f
    BY <2>1, <2>2 DEF Unused, Refundable
  <2>4. /\ entry'[f] = RefundLine(e)
        /\ entry'[e] = [entry[e] EXCEPT !.reversed = TRUE]
        /\ \A x \in Entries \ {e, f} : entry'[x] = entry[x]
    BY <2>1, <2>2, <2>3 DEF Linked, TypeOK
  <2>5. /\ RefundLine(e) \in EntryRow
        /\ RefundLine(e).type # "none"
        /\ RefundLine(e).session = entry[e].session
        /\ RefundLine(e).amount = - entry[e].amount
        /\ Named(RefundLine(e))
    BY <2>1 DEF RefundLine, Line, EntryRow, EntryTypes, Named
  <2>6. /\ entry'[e].type = entry[e].type
        /\ entry'[e].session = entry[e].session
        /\ entry'[e].order = entry[e].order
        /\ entry'[e].amount = entry[e].amount
        /\ entry'[e].reverses = entry[e].reverses
    BY <2>1, <2>4 DEF EntryRow
  <2>7. - entry[e].amount \in Int
    BY <2>1 DEF EntryRow
  <2>8. /\ session'[entry[e].session].total
             = session[entry[e].session].total + RefundLine(e).amount
        /\ \A x \in Sessions \ {entry[e].session} :
             session'[x].total = session[x].total
    BY <2>1, <2>2, <2>5, <2>7, AddToBillTotals
  <2>9. LineAdded(f, RefundLine(e))
    BY <2>1, <2>2, <2>4, <2>5, <2>6, <2>8 DEF LineAdded, Unused
  <2> QED BY <2>5, <2>9
<1>3. ASSUME NEW r \in Requests, Deliver(r)
      PROVE  \E e \in Entries, line \in EntryRow : LineAdded(e, line)
  <2> DEFINE s == request[r].session
             line == ProductLine(r)
  <2>1. SessionExists(s) /\ order[r].items \in Int
    <3>1. order[r].status # "none"
      BY <1>3 DEF Deliver, Transitions
    <3>2. request[r].status # "none"
      BY <3>1 DEF OrderIffAccepted
    <3>3. SessionExists(s)
      BY <3>2 DEF Linked, RowsLinked
    <3>4. order[r].items \in Amounts \cup {0}
      BY DEF Linked, TypeOK, OrderRow
    <3>5. \A a \in Amounts \cup {0} : a \in Int
      BY ConstantsAssumption
    <3> QED BY <3>3, <3>4, <3>5
  <2>2. PICK e \in Entries : Unused(e) /\ entry' = [entry EXCEPT ![e] = line]
    BY <1>3 DEF Deliver
  <2>3. /\ line \in EntryRow
        /\ line.type # "none"
        /\ line.session = s
        /\ line.amount = order[r].items
        /\ Named(line)
    BY <2>1, TableOfSession DEF ProductLine, Line, EntryRow, EntryTypes, Named
  <2>4. /\ session'[s].total = session[s].total + order[r].items
        /\ \A x \in Sessions \ {s} : session'[x].total = session[x].total
    BY <1>3, <2>1 DEF Deliver, Linked, TypeOK, SessionExists, SessionRow
  <2> HIDE DEF line
  <2> QED BY <2>1, <2>2, <2>3, <2>4, LineInserted
<1>4. ASSUME NEW c \in Callers,
             \/ CloseCommit(c) \/ RequestPaymentCommit(c)
             \/ CancelPaymentCommit(c) \/ VoidCommit(c) \/ MarkPaidCommit(c)
             \/ CreateCommit(c) \/ AcceptCommit(c) \/ QuickAddCommit(c)
             \/ UpdateItemsCommit(c)
      PROVE  SameTotals /\ entry' = entry
  <2> USE DEF SameTotals, Linked, TypeOK, SessionRow
  <2>1. CASE CloseCommit(c)
    BY <2>1 DEF CloseCommit
  <2>2. CASE RequestPaymentCommit(c)
    BY <2>2 DEF RequestPaymentCommit
  <2>3. CASE CancelPaymentCommit(c)
    BY <2>3 DEF CancelPaymentCommit
  <2>4. CASE VoidCommit(c)
    BY <2>4 DEF VoidCommit
  <2>5. CASE MarkPaidCommit(c)
    BY <2>5 DEF MarkPaidCommit, Settled
  <2>6. CASE \/ CreateCommit(c) \/ AcceptCommit(c) \/ QuickAddCommit(c)
             \/ UpdateItemsCommit(c)
    BY <2>6 DEF CreateCommit, AcceptCommit, QuickAddCommit, UpdateItemsCommit
  <2> QED BY <1>4, <2>1, <2>2, <2>3, <2>4, <2>5, <2>6
<1>5. ASSUME NEW r \in Requests,
             \/ Reject(r) \/ CancelByCustomer(r)
             \/ Prepare(r) \/ MarkReady(r) \/ CancelOrder(r)
      PROVE  SameTotals /\ entry' = entry
  BY <1>5 DEF SameTotals, Reject, CancelByCustomer, TerminateRequest, Prepare,
              MarkReady, Advance, CancelOrder
<1>6. ASSUME NEW t \in Tables,
             Open(t) \/ \E st \in TableStatuses : UpdateStatus(t, st)
      PROVE  SameTotals /\ entry' = entry
  <2>1. CASE Open(t)
    BY <2>1 DEF Open, SameTotals, Linked, TypeOK, SessionRow
  <2>2. CASE \E st \in TableStatuses : UpdateStatus(t, st)
    BY <2>2 DEF UpdateStatus, SameTotals
  <2> QED BY <1>6, <2>1, <2>2
<1> QED BY <1>1, <1>2, <1>3, <1>4, <1>5, <1>6 DEF WriteStep, SameLines

\* The values a bill adds up.
LineAmounts == [e \in Entries |-> entry[e].amount]

\* They are integers, and the lines of a bill are among the used ones.
LEMMA BillSums ==
  ASSUME Linked, FinitelyMany, NEW lines \in SUBSET UsedLines
  PROVE  /\ IsFiniteSet(lines)
         /\ \A e \in lines : LineAmounts[e] \in Int
         /\ Balance(lines) = SumOver(LineAmounts, lines)
         /\ Balance(lines) \in Int
<1>1. IsFiniteSet(lines)
  BY FS_Subset DEF FinitelyMany
<1>2. \A e \in lines : LineAmounts[e] \in Int
  BY DEF UsedLines, LineAmounts, Linked, TypeOK, EntryRow
<1> QED BY <1>1, <1>2, SumType DEF Balance, LineAmounts

\* Lines that keep their amounts keep their balance.
LEMMA BalanceKept ==
  ASSUME Linked, FinitelyMany, NEW lines \in SUBSET UsedLines,
         \A e \in lines : entry'[e].amount = entry[e].amount
  PROVE  SumOver(LineAmounts', lines) = Balance(lines)
<1>1. \A e \in lines : LineAmounts'[e] = LineAmounts[e]
  BY DEF LineAmounts, UsedLines
<1> QED BY <1>1, BillSums, SumSame

\* A new line changes the balance by its amount.
LEMMA BalanceAdded ==
  ASSUME Linked, FinitelyMany, NEW lines \in SUBSET UsedLines,
         NEW e \in Entries, NEW line \in EntryRow, LineAdded(e, line)
  PROVE  SumOver(LineAmounts', lines \cup {e}) = Balance(lines) + line.amount
<1>1. e \notin lines /\ line.amount \in Int
  BY DEF LineAdded, UsedLines, EntryRow
<1>2. \A x \in lines : entry'[x].amount = entry[x].amount
  BY <1>1 DEF LineAdded, UsedLines
<1>3. LineAmounts'[e] = line.amount
  BY DEF LineAmounts, LineAdded
<1>4. \A x \in lines \cup {e} : LineAmounts'[x] \in Int
  BY <1>1, <1>2, <1>3, BillSums DEF LineAmounts, UsedLines
<1>5. SumOver(LineAmounts', lines \cup {e})
        = LineAmounts'[e] + SumOver(LineAmounts', lines)
  BY <1>1, <1>4, BillSums, SumAdd
<1>6. SumOver(LineAmounts', lines) = Balance(lines)
  BY <1>2, BalanceKept
<1> QED BY <1>1, <1>3, <1>5, <1>6, BillSums

\* At most one request is new after a step.
LEMMA RequestsWritten ==
  ASSUME Linked, WriteStep
  PROVE  \/ \E r \in Requests : \A x \in Requests \ {r} : request'[x] = request[x]
         \/ \A r \in Requests : RequestExists(r)' => RequestExists(r)
<1>1. ASSUME NEW c \in Callers, CreateCommit(c) \/ QuickAddCommit(c)
      PROVE  \E r \in Requests : \A x \in Requests \ {r} : request'[x] = request[x]
  BY <1>1 DEF CreateCommit, QuickAddCommit, Linked, TypeOK
<1>2. ASSUME NEW c \in Callers, AcceptCommit(c)
      PROVE  \A r \in Requests : RequestExists(r)' => RequestExists(r)
  BY <1>2 DEF AcceptCommit, StillPending, RequestExists, Linked, TypeOK
<1>3. ASSUME NEW c \in Callers, UpdateItemsCommit(c)
      PROVE  \A r \in Requests : RequestExists(r)' => RequestExists(r)
  BY <1>3 DEF UpdateItemsCommit, StillPending, RequestExists, Linked, TypeOK
<1>4. ASSUME NEW r \in Requests, Reject(r) \/ CancelByCustomer(r)
      PROVE  \E q \in Requests : \A x \in Requests \ {q} : request'[x] = request[x]
  BY <1>4 DEF Reject, CancelByCustomer, TerminateRequest, Linked, TypeOK
<1>5. ASSUME request' = request
      PROVE  \A r \in Requests : RequestExists(r)' => RequestExists(r)
  BY <1>5 DEF RequestExists
<1>6. ASSUME NEW c \in Callers,
             \/ CloseCommit(c) \/ RequestPaymentCommit(c)
             \/ CancelPaymentCommit(c) \/ VoidCommit(c) \/ MarkPaidCommit(c)
             \/ AdjustCommit(c) \/ PartialPaymentCommit(c) \/ RefundCommit(c)
      PROVE  request' = request
  BY <1>6 DEF CloseCommit, RequestPaymentCommit, CancelPaymentCommit,
              VoidCommit, MarkPaidCommit, AdjustCommit, PartialPaymentCommit,
              RefundCommit
<1>7. ASSUME NEW r \in Requests,
             Prepare(r) \/ MarkReady(r) \/ Deliver(r) \/ CancelOrder(r)
      PROVE  request' = request
  BY <1>7 DEF Prepare, MarkReady, Advance, Deliver, CancelOrder
<1>8. ASSUME NEW t \in Tables,
             Open(t) \/ \E st \in TableStatuses : UpdateStatus(t, st)
      PROVE  request' = request
  BY <1>8 DEF Open, UpdateStatus
<1> QED BY <1>1, <1>2, <1>3, <1>4, <1>5, <1>6, <1>7, <1>8 DEF WriteStep

\* A step writes at most one row of each kind.
LEMMA FinitelyManyKept ==
  ASSUME Linked, OrderIffAccepted, FinitelyMany, WriteStep
  PROVE  FinitelyMany'
<1>1. IsFiniteSet(UsedLines')
  <2>1. CASE SameLines
    BY <2>1 DEF SameLines, UsedLines, FinitelyMany
  <2>2. ASSUME NEW e \in Entries, NEW line \in EntryRow, LineAdded(e, line)
        PROVE  IsFiniteSet(UsedLines')
    <3>1. UsedLines' = UsedLines \cup {e}
      BY <2>2 DEF LineAdded, UsedLines
    <3> QED BY <3>1, FS_AddElement DEF FinitelyMany
  <2> QED BY <2>1, <2>2, BillEffect
<1>2. IsFiniteSet(UsedRequests')
  <2>1. CASE \E r \in Requests : \A x \in Requests \ {r} : request'[x] = request[x]
    <3>1. PICK r \in Requests : \A x \in Requests \ {r} : request'[x] = request[x]
      BY <2>1
    <3>2. UsedRequests' \subseteq UsedRequests \cup {r}
      BY <3>1 DEF UsedRequests
    <3> QED BY <3>2, FS_AddElement, FS_Subset DEF FinitelyMany
  <2>2. CASE \A r \in Requests : RequestExists(r)' => RequestExists(r)
    <3>1. UsedRequests' \subseteq UsedRequests
      BY <2>2 DEF UsedRequests, RequestExists
    <3> QED BY <3>1, FS_Subset DEF FinitelyMany
  <2> QED BY <2>1, <2>2, RequestsWritten
<1> QED BY <1>1, <1>2 DEF FinitelyMany

\* The total of a session stays the balance of its bill.
LEMMA TotalIsBillKept ==
  ASSUME Linked, OrderIffAccepted, FinitelyMany, TotalIsBill, WriteStep
  PROVE  TotalIsBill'
<1> SUFFICES ASSUME NEW s \in Sessions
             PROVE  session'[s].total = SumOver(LineAmounts', LinesOfSession(s)')
  BY DEF TotalIsBill, Balance, LineAmounts
<1>1. LinesOfSession(s) \subseteq UsedLines
  BY DEF LinesOfSession, UsedLines
<1>2. session[s].total = Balance(LinesOfSession(s))
  BY DEF TotalIsBill
<1>3. CASE SameTotals /\ SameLines
  <2>1. LinesOfSession(s)' = LinesOfSession(s)
    BY <1>3 DEF SameLines, LinesOfSession
  <2>2. \A e \in LinesOfSession(s) : entry'[e].amount = entry[e].amount
    BY <1>3 DEF SameLines, LinesOfSession
  <2> QED BY <1>1, <1>2, <1>3, <2>1, <2>2, BalanceKept DEF SameTotals
<1>4. ASSUME NEW e \in Entries, NEW line \in EntryRow, LineAdded(e, line)
      PROVE  session'[s].total = SumOver(LineAmounts', LinesOfSession(s)')
  <2>1. CASE line.session = s
    <3>1. LinesOfSession(s)' = LinesOfSession(s) \cup {e}
      BY <1>4, <2>1 DEF LineAdded, LinesOfSession
    <3>2. session'[s].total = session[s].total + line.amount
      BY <1>4, <2>1 DEF LineAdded
    <3> QED BY <1>1, <1>2, <1>4, <3>1, <3>2, BalanceAdded
  <2>2. CASE line.session # s
    <3>1. LinesOfSession(s)' = LinesOfSession(s)
      BY <1>4, <2>2 DEF LineAdded, LinesOfSession
    <3>2. \A x \in LinesOfSession(s) : entry'[x].amount = entry[x].amount
      BY <1>4 DEF LineAdded, LinesOfSession
    <3>3. session'[s].total = session[s].total
      BY <1>4, <2>2 DEF LineAdded
    <3> QED BY <1>1, <1>2, <3>1, <3>2, <3>3, BalanceKept
  <2> QED BY <2>1, <2>2
<1> QED BY <1>3, <1>4, BillEffect

\* The lines that name an order stay those that bill it or take it back.
LEMMA LinesNamedKept ==
  ASSUME Linked, OrderIffAccepted, LinesNamed, WriteStep
  PROVE  LinesNamed'
<1>1. CASE SameLines
  <2> SUFFICES ASSUME NEW x \in Entries PROVE Named(entry[x])'
    BY DEF LinesNamed
  <2>1. Named(entry[x])
    BY DEF LinesNamed
  <2> QED BY <1>1, <2>1 DEF SameLines, Named, Refundable
<1>2. ASSUME NEW e \in Entries, NEW line \in EntryRow, LineAdded(e, line)
      PROVE  LinesNamed'
  <2> SUFFICES ASSUME NEW x \in Entries PROVE Named(entry[x])'
    BY DEF LinesNamed
  <2>1. \A y : Refundable(y) => /\ Refundable(y)'
                                /\ entry'[y].order = entry[y].order
    BY <1>2 DEF Refundable, LineAdded
  <2>2. CASE x = e
    BY <1>2, <2>1, <2>2 DEF LineAdded, Named
  <2>3. CASE x # e
    BY <1>2, <2>1, <2>3 DEF LineAdded, LinesNamed, Named
  <2> QED BY <2>2, <2>3
<1> QED BY <1>1, <1>2, BillEffect

(***************************************************************************)
(* The books: rows, totals and the lines of every order.                   *)
(***************************************************************************)
Accounted ==
  /\ Consistent
  /\ FinitelyMany
  /\ TotalIsBill
  /\ LinesNamed

\* Nothing is on any bill at the start.
LEMMA InitAccounted == Init => Accounted
<1> SUFFICES ASSUME Init PROVE Accounted
  OBVIOUS
<1>1. UsedLines = {} /\ UsedRequests = {}
  BY DEF Init, NoEntry, UsedLines, UsedRequests
<1>2. FinitelyMany
  BY <1>1, FS_EmptySet DEF FinitelyMany
<1>3. TotalIsBill
  <2> SUFFICES ASSUME NEW s \in Sessions
               PROVE  session[s].total = Balance(LinesOfSession(s))
    BY DEF TotalIsBill
  <2>1. LinesOfSession(s) = {}
    BY <1>1 DEF LinesOfSession, UsedLines
  <2>2. Balance({}) = 0
    BY SumEmpty DEF Balance
  <2> QED BY <2>1, <2>2 DEF Init
<1>4. LinesNamed
  BY DEF Init, NoEntry, LinesNamed, Named
<1> QED BY <1>2, <1>3, <1>4, InitConsistent DEF Accounted

\* Every step keeps the books.
LEMMA NextAccounted ==
  ASSUME Accounted, [Next]_vars
  PROVE  Accounted'
<1> USE DEF Accounted
<1>1. Consistent'
  BY NextConsistent
<1>2. ASSUME UNCHANGED rows PROVE Accounted'
  <2>1. UNCHANGED <<UsedLines, UsedRequests>>
    BY <1>2 DEF rows, UsedLines, UsedRequests
  <2>2. TotalIsBill'
    BY <1>2 DEF rows, TotalIsBill, LinesOfSession, Balance
  <2>3. LinesNamed'
    BY <1>2 DEF rows, LinesNamed, Named, Refundable
  <2> QED BY <1>1, <2>1, <2>2, <2>3 DEF FinitelyMany
<1>3. CASE ReadStep
  BY <1>2, <1>3, ReadStepLinked DEF Consistent
<1>4. CASE WriteStep
  BY <1>1, <1>4, FinitelyManyKept, TotalIsBillKept, LinesNamedKept DEF Consistent
<1>5. CASE UNCHANGED vars
  BY <1>2, <1>5 DEF vars, rows
<1> QED BY <1>3, <1>4, <1>5, NextSplit

\* However calls overlap, the books are in order.
THEOREM AccountedAlways == Spec => []Accounted
  BY InitAccounted, NextAccounted, PTL DEF Spec

\* The cached total of a session is the sum of its bill lines at all times
\* (every transaction of ConsumptionsService and of a delivery).
THEOREM TotalIsBillAlways == Spec => []TotalIsBill
  BY AccountedAlways, PTL DEF Accounted

(***************************************************************************)
(* The order flow implements OrderPromise: what the lines of an order add  *)
(* up to is a function of how far it has come.                             *)
(***************************************************************************)
Reversed(r) == \E e \in LinesOfOrder(r) : entry[e].reversed

\* Only an order that was delivered is named on a bill.
LEMMA LinesOfUndelivered ==
  ASSUME Accounted, NEW r \in Requests, order[r].status # "delivered"
  PROVE  LinesOfOrder(r) = {}
<1> SUFFICES ASSUME NEW e \in Entries, entry[e].order = r PROVE FALSE
  BY DEF LinesOfOrder
<1>1. r # None
  BY ConstantsAssumption
<1>2. \A x \in Entries : entry[x].order = r => entry[x].type # "product"
  BY DEF Accounted, Consistent, BilledOnDelivery, LinesOfOrder
<1>3. \A x \in Entries : entry[x].order = r => entry[x].type = "refund"
  BY <1>1, <1>2 DEF Accounted, LinesNamed, Named
<1>4. /\ Refundable(entry[e].reverses)
      /\ entry[entry[e].reverses].order = r
  BY <1>3 DEF Accounted, LinesNamed, Named
<1> QED BY <1>3, <1>4 DEF Refundable

\* A delivered order is named by the line that bills it and by its refund.
LEMMA LinesOfDelivered ==
  ASSUME Accounted, NEW r \in Requests, order[r].status = "delivered"
  PROVE  \E e \in Entries :
           /\ entry[e].type = "product"
           /\ entry[e].amount = order[r].items
           /\ entry[e].order = r
           /\ LinesOfOrder(r) = {e} \cup RefundsOf(e)
           /\ Reversed(r) <=> entry[e].reversed
<1>1. r # None
  BY ConstantsAssumption
<1>2. PICK e \in ProductLines(r) : ProductLines(r) = {e}
                                   /\ entry[e].amount = order[r].items
  BY DEF Accounted, Consistent, BilledOnDelivery, ProductLines
<1>3. e \in Entries /\ entry[e].type = "product" /\ entry[e].order = r
  BY DEF ProductLines, LinesOfOrder
<1>4. \A x \in LinesOfOrder(r) : entry[x].type = "product" => x = e
  BY <1>2 DEF ProductLines
<1>5. ASSUME NEW x \in LinesOfOrder(r), x # e
      PROVE  entry[x].type = "refund" /\ x \in RefundsOf(e)
  <2>1. x \in Entries /\ entry[x].order = r
    BY DEF LinesOfOrder
  <2>2. entry[x].type = "refund"
    BY <1>1, <1>4, <1>5, <2>1 DEF Accounted, LinesNamed, Named
  <2>3. Refundable(entry[x].reverses) /\ entry[entry[x].reverses].order = r
    BY <2>1, <2>2 DEF Accounted, LinesNamed, Named
  <2>4. entry[x].reverses \in LinesOfOrder(r)
        /\ entry[entry[x].reverses].type = "product"
    BY <1>1, <2>3 DEF Accounted, LinesNamed, Named, LinesOfOrder, Refundable
  <2>5. entry[x].reverses = e
    BY <1>4, <2>4
  <2> QED BY <2>1, <2>2, <2>5 DEF RefundsOf
<1>6. ASSUME NEW x \in RefundsOf(e) PROVE x \in LinesOfOrder(r)
  <2>1. x \in Entries /\ entry[x].reverses = e /\ e # None
    BY <1>3, ConstantsAssumption DEF RefundsOf
  <2>2. entry[x].type = "refund"
    BY <2>1 DEF Accounted, Consistent, Linked, RowsLinked
  <2> QED BY <1>3, <2>1, <2>2 DEF Accounted, LinesNamed, Named, LinesOfOrder
<1>7. LinesOfOrder(r) = {e} \cup RefundsOf(e)
  BY <1>3, <1>5, <1>6 DEF LinesOfOrder
<1>8. ASSUME NEW x \in Entries, entry[x].type = "refund" PROVE ~ entry[x].reversed
  <2>1. SUFFICES ASSUME NEW f \in RefundsOf(x) PROVE FALSE
    BY DEF Accounted, Consistent, RefundedOnce
  <2>2. f \in Entries /\ entry[f].reverses = x /\ x # None
    BY ConstantsAssumption DEF RefundsOf
  <2> QED BY <1>8, <2>2 DEF Accounted, Consistent, Linked, RowsLinked, Refundable
<1>9. Reversed(r) <=> entry[e].reversed
  <2>1. e \in LinesOfOrder(r)
    BY <1>3 DEF LinesOfOrder
  <2>2. \A x \in LinesOfOrder(r) : x # e => ~ entry[x].reversed
    BY <1>5, <1>8 DEF LinesOfOrder
  <2> QED BY <2>1, <2>2 DEF Reversed
<1> QED BY <1>2, <1>3, <1>7, <1>9

\* What an order's lines add up to.
LEMMA BilledValue ==
  ASSUME Accounted, NEW r \in Requests
  PROVE  Balance(LinesOfOrder(r)) =
           IF order[r].status = "delivered" /\ ~ Reversed(r)
             THEN order[r].items ELSE 0
<1>0. Linked /\ FinitelyMany
  BY DEF Accounted, Consistent
<1>1. CASE order[r].status # "delivered"
  <2>1. LinesOfOrder(r) = {}
    BY <1>1, LinesOfUndelivered
  <2>2. Balance({}) = 0
    BY SumEmpty DEF Balance
  <2> QED BY <1>1, <2>1, <2>2
<1>2. CASE order[r].status = "delivered"
  <2>1. PICK e \in Entries :
           /\ entry[e].type = "product"
           /\ entry[e].amount = order[r].items
           /\ LinesOfOrder(r) = {e} \cup RefundsOf(e)
           /\ Reversed(r) <=> entry[e].reversed
    BY <1>2, LinesOfDelivered
  <2>2. {} \in SUBSET UsedLines /\ {e} \in SUBSET UsedLines
    BY <2>1 DEF UsedLines
  <2>3. LineAmounts[e] = order[r].items /\ order[r].items \in Int
    BY <1>0, <2>1 DEF LineAmounts, Linked, TypeOK, EntryRow
  <2>4. SumOver(LineAmounts, {e}) = order[r].items
    <3>1. SumOver(LineAmounts, {} \cup {e}) = LineAmounts[e] + SumOver(LineAmounts, {})
      BY <2>3, SumAdd, FS_EmptySet
    <3> QED BY <2>3, <3>1, SumEmpty
  <2>5. CASE ~ entry[e].reversed
    <3>1. LinesOfOrder(r) = {e}
      BY <2>1, <2>5 DEF Accounted, Consistent, RefundedOnce
    <3> QED BY <1>0, <1>2, <2>1, <2>2, <2>4, <2>5, <3>1, BillSums
  <2>6. CASE entry[e].reversed
    <3>1. PICK f \in Entries : /\ RefundsOf(e) = {f}
                               /\ entry[f].type = "refund"
                               /\ entry[f].amount = - entry[e].amount
      BY <2>6 DEF Accounted, Consistent, RefundedOnce
    <3>2. LinesOfOrder(r) = {e} \cup {f} /\ f \notin {e}
      BY <2>1, <3>1
    <3>3. LineAmounts[f] = - order[r].items
      BY <2>1, <3>1 DEF LineAmounts
    <3>4. \A x \in {e} \cup {f} : LineAmounts[x] \in Int
      BY <2>3, <3>3
    <3>5. SumOver(LineAmounts, {e} \cup {f}) = LineAmounts[f] + SumOver(LineAmounts, {e})
      BY <3>2, <3>4, SumAdd, FS_Singleton
    <3>6. LinesOfOrder(r) \in SUBSET UsedLines
      BY <2>1, <3>1, <3>2 DEF UsedLines
    <3>7. Balance(LinesOfOrder(r)) = SumOver(LineAmounts, {e} \cup {f})
      BY <1>0, <3>2, <3>6, BillSums
    <3>8. Balance(LinesOfOrder(r)) = (- order[r].items) + order[r].items
      BY <2>4, <3>3, <3>5, <3>7
    <3>9. (- order[r].items) + order[r].items = 0
      BY <2>3
    <3> QED BY <2>1, <2>6, <3>8, <3>9
  <2> QED BY <2>5, <2>6
<1> QED BY <1>1, <1>2

\* A step that leaves the decisions, the orders and the reversals as they are
\* is not seen by the promise.
SameOrder(r) == /\ request'[r].status = request[r].status
                /\ order'[r] = order[r]
                /\ Reversed(r)' = Reversed(r)

\* Its stage is then the same.
LEMMA SameStage ==
  ASSUME NEW r, SameOrder(r)
  PROVE  StageOf(r)' = StageOf(r)
  BY DEF SameOrder, StageOf, Reversed

\* The stages, one by one.  In the books their conditions exclude each other.
StageTable ==
  \A r \in Requests :
    /\ request[r].status \in {"none", "pending"} => StageOf(r) = request[r].status
    /\ request[r].status \in {"rejected", "cancelled"} => StageOf(r) = "declined"
    /\ request[r].status = "accepted" =>
         /\ order[r].status \in ActiveOrderStatuses => StageOf(r) = "inProgress"
         /\ order[r].status = "cancelled" => StageOf(r) = "cancelled"
         /\ order[r].status = "delivered" =>
              StageOf(r) = IF Reversed(r) THEN "refunded" ELSE "delivered"

\* Its stage is the one of the table.
LEMMA StageKnown == Accounted => StageTable
<1> SUFFICES ASSUME Accounted, NEW r \in Requests
             PROVE
    /\ request[r].status \in {"none", "pending"} => StageOf(r) = request[r].status
    /\ request[r].status \in {"rejected", "cancelled"} => StageOf(r) = "declined"
    /\ request[r].status = "accepted" =>
         /\ order[r].status \in ActiveOrderStatuses => StageOf(r) = "inProgress"
         /\ order[r].status = "cancelled" => StageOf(r) = "cancelled"
         /\ order[r].status = "delivered" =>
              StageOf(r) = IF Reversed(r) THEN "refunded" ELSE "delivered"
  BY DEF StageTable
<1> DEFINE gone == \E e \in LinesOfOrder(r) : entry[e].reversed
<1>0. /\ order[r].status # "none" <=> request[r].status = "accepted"
      /\ gone => order[r].status = "delivered"
  BY LinesOfUndelivered DEF Accounted, Consistent, OrderIffAccepted
<1>1. gone <=> Reversed(r)
  BY DEF Reversed
<1>2. StageOf(r) =
        CASE request[r].status \in {"none", "pending"} -> request[r].status
          [] request[r].status \in {"rejected", "cancelled"} -> "declined"
          [] order[r].status \in ActiveOrderStatuses -> "inProgress"
          [] order[r].status = "cancelled" -> "cancelled"
          [] gone -> "refunded"
          [] OTHER -> "delivered"
  BY DEF StageOf
<1> HIDE DEF gone
<1>3. ASSUME request[r].status \in {"none", "pending"}
      PROVE  StageOf(r) = request[r].status
  BY <1>0, <1>2, <1>3 DEF ActiveOrderStatuses
<1>4. ASSUME request[r].status \in {"rejected", "cancelled"}
      PROVE  StageOf(r) = "declined"
  BY <1>0, <1>2, <1>4 DEF ActiveOrderStatuses
<1>5. ASSUME request[r].status = "accepted", order[r].status \in ActiveOrderStatuses
      PROVE  StageOf(r) = "inProgress"
  BY <1>0, <1>2, <1>5 DEF ActiveOrderStatuses
<1>6. ASSUME request[r].status = "accepted", order[r].status = "cancelled"
      PROVE  StageOf(r) = "cancelled"
  BY <1>0, <1>2, <1>6 DEF ActiveOrderStatuses
<1>7. ASSUME request[r].status = "accepted", order[r].status = "delivered"
      PROVE  StageOf(r) = IF Reversed(r) THEN "refunded" ELSE "delivered"
  BY <1>0, <1>1, <1>2, <1>7 DEF ActiveOrderStatuses
<1> QED BY <1>3, <1>4, <1>5, <1>6, <1>7

\* They are the same reading after a step.
LEMMA StageKnownNext == Accounted' => StageTable'
  BY StageKnown, PTL

\* A step of the promise, or one it does not see.
PromiseStep == [Promise!PNext]_(Promise!pvars)

\* In the books the balances follow from stages and prices.
StageBills ==
  \A r \in Requests :
    Balance(LinesOfOrder(r)) =
      IF StageOf(r) = "delivered" THEN order[r].items ELSE 0

\* BilledValue, told in stages.
LEMMA BilledByStage == Accounted => StageBills
<1> SUFFICES ASSUME Accounted, NEW r \in Requests
             PROVE  Balance(LinesOfOrder(r)) =
                      IF StageOf(r) = "delivered" THEN order[r].items ELSE 0
  BY DEF StageBills
<1>1. Balance(LinesOfOrder(r)) =
        IF order[r].status = "delivered" /\ ~ Reversed(r)
          THEN order[r].items ELSE 0
  BY BilledValue
<1>2. StageOf(r) = "delivered" <=> order[r].status = "delivered" /\ ~ Reversed(r)
  <2>1. /\ request[r].status \in RequestStatuses
        /\ order[r].status \in OrderStatuses
        /\ order[r].status # "none" <=> request[r].status = "accepted"
    BY DEF Accounted, Consistent, Linked, TypeOK, OrderIffAccepted, RequestRow,
           OrderRow
  <2> QED BY <2>1 DEF StageOf, Reversed, RequestStatuses, OrderStatuses,
                      ActiveOrderStatuses
<1> QED BY <1>1, <1>2

\* So they do after a step.
LEMMA BilledByStageNext == Accounted' => StageBills'
  BY BilledByStage, PTL

\* Nothing the promise speaks of changes.
LEMMA StagesStutter ==
  ASSUME Accounted, Accounted',
         \A r \in Requests : StageOf(r)' = StageOf(r)
                              /\ order'[r].items = order[r].items
  PROVE  PromiseStep
<1>1. ASSUME NEW r \in Requests
      PROVE  Balance(LinesOfOrder(r))' = Balance(LinesOfOrder(r))
  <2>1. Balance(LinesOfOrder(r))' =
          IF StageOf(r)' = "delivered" THEN order'[r].items ELSE 0
    BY BilledByStageNext DEF StageBills
  <2> QED BY <2>1, BilledByStage DEF StageBills
<1> QED BY <1>1 DEF PromiseStep, Promise!pvars

\* Nothing happened to any order.
LEMMA PromiseStutters ==
  ASSUME Accounted, Accounted', \A r \in Requests : SameOrder(r)
  PROVE  PromiseStep
  BY SameStage, StagesStutter DEF SameOrder

\* The moves of the promise that keep the price.
Forward(from, to) ==
  \/ from = "none" /\ to = "pending"
  \/ from = "pending" /\ to = "declined"
  \/ from = "inProgress" /\ to = "cancelled"
  \/ from = "inProgress" /\ to = "delivered"
  \/ from = "delivered" /\ to = "refunded"

\* One order moves on, at the price it has or, when it starts, gets.
LEMMA PromiseMoves ==
  ASSUME Accounted, Accounted', NEW r \in Requests,
         \A x \in Requests \ {r} : SameOrder(x),
         \/ /\ order'[r].items = order[r].items
            /\ Forward(StageOf(r), StageOf(r)')
         \/ /\ order'[r].items \in Amounts
            /\ StageOf(r) \in {"none", "pending"}
            /\ StageOf(r)' = "inProgress"
  PROVE  PromiseStep
<1> DEFINE stage == [x \in Requests |-> StageOf(x)]
           price == [x \in Requests |-> order[x].items]
           billed == [x \in Requests |-> Balance(LinesOfOrder(x))]
           Billed(x) == IF StageOf(x) = "delivered" THEN order[x].items ELSE 0
<1>1. \A x \in Requests \ {r} : /\ StageOf(x)' = StageOf(x)
                                /\ order'[x].items = order[x].items
  BY SameStage DEF SameOrder
<1>2. /\ stage' = [stage EXCEPT ![r] = StageOf(r)']
      /\ price' = [price EXCEPT ![r] = order'[r].items]
  BY <1>1
<1>3. \A x \in Requests : billed[x] = Billed(x)
  BY BilledByStage DEF StageBills
<1>4. \A x \in Requests : billed'[x] = Billed(x)'
  <2> TAKE x \in Requests
  <2>1. Balance(LinesOfOrder(x))' =
          IF StageOf(x)' = "delivered" THEN order'[x].items ELSE 0
    BY BilledByStageNext DEF StageBills
  <2> QED BY <2>1
<1>5. billed' = [billed EXCEPT ![r] = Billed(r)']
  <2>1. \A x \in Requests \ {r} : billed'[x] = billed[x]
    BY <1>1, <1>3, <1>4
  <2>2. billed'[r] = Billed(r)'
    BY <1>4
  <2> QED BY <2>1, <2>2
<1>6. Billed(r)' = Billed(r) => UNCHANGED billed
  BY <1>3, <1>5
<1>7. order'[r].items = order[r].items => UNCHANGED price
  BY <1>2
<1>8. stage[r] = StageOf(r) /\ price[r] = order[r].items
  OBVIOUS
<1> HIDE DEF stage, price, billed
<1>9. ASSUME NEW from, NEW to, StageOf(r) = from, StageOf(r)' = to
      PROVE  Promise!Move(r, from, to)
  BY <1>2, <1>8, <1>9 DEF Promise!Move, stage
<1>10. CASE /\ order'[r].items = order[r].items
            /\ StageOf(r) = "none" /\ StageOf(r)' = "pending"
  <2>1. Promise!Ask(r)
    BY <1>6, <1>7, <1>9, <1>10 DEF Promise!Ask, price, billed
  <2> QED BY <2>1 DEF PromiseStep, Promise!PNext
<1>11. CASE /\ order'[r].items = order[r].items
            /\ StageOf(r) = "pending" /\ StageOf(r)' = "declined"
  <2>1. Promise!Decline(r)
    BY <1>6, <1>7, <1>9, <1>11 DEF Promise!Decline, price, billed
  <2> QED BY <2>1 DEF PromiseStep, Promise!PNext
<1>12. CASE /\ order'[r].items = order[r].items
            /\ StageOf(r) = "inProgress" /\ StageOf(r)' = "cancelled"
  <2>1. Promise!CallOff(r)
    BY <1>6, <1>7, <1>9, <1>12 DEF Promise!CallOff, price, billed
  <2> QED BY <2>1 DEF PromiseStep, Promise!PNext
<1>13. CASE /\ order'[r].items = order[r].items
            /\ StageOf(r) = "inProgress" /\ StageOf(r)' = "delivered"
  <2>1. billed' = [billed EXCEPT ![r] = price[r]]
    BY <1>5, <1>8, <1>13
  <2>2. Promise!HandOver(r)
    BY <1>7, <1>9, <1>13, <2>1 DEF Promise!HandOver, price, billed
  <2> QED BY <2>2 DEF PromiseStep, Promise!PNext
<1>14. CASE /\ order'[r].items = order[r].items
            /\ StageOf(r) = "delivered" /\ StageOf(r)' = "refunded"
  <2>1. billed' = [billed EXCEPT ![r] = 0]
    BY <1>5, <1>14
  <2>2. Promise!GiveBack(r)
    BY <1>7, <1>9, <1>14, <2>1 DEF Promise!GiveBack, price, billed
  <2> QED BY <2>2 DEF PromiseStep, Promise!PNext
<1>15. CASE /\ order'[r].items \in Amounts
            /\ StageOf(r) \in {"none", "pending"}
            /\ StageOf(r)' = "inProgress"
  <2>1. PICK a \in Amounts : order'[r].items = a
    BY <1>15
  <2>2. Promise!Start(r, a)
    BY <1>2, <1>6, <1>9, <1>15, <2>1 DEF Promise!Start, price, billed
  <2> QED BY <2>2 DEF PromiseStep, Promise!PNext
<1> QED BY <1>10, <1>11, <1>12, <1>13, <1>14, <1>15 DEF Forward

\* Lines that keep their order and their reversal keep what is reversed.
LEMMA SameReversals ==
  ASSUME \A e \in Entries : entry'[e].order = entry[e].order
                           /\ entry'[e].reversed = entry[e].reversed
  PROVE  \A r \in Requests : Reversed(r)' = Reversed(r)
  BY DEF Reversed, LinesOfOrder

\* Requests: asked for, declined, accepted.
LEMMA RequestPromised ==
  ASSUME Accounted, Accounted', NEW c \in Callers,
         \/ CreateCommit(c) \/ AcceptCommit(c) \/ QuickAddCommit(c)
         \/ UpdateItemsCommit(c)
  PROVE  PromiseStep
<1> USE DEF Accounted, Consistent, Linked, TypeOK
<1>0. entry' = entry
  BY DEF CreateCommit, AcceptCommit, QuickAddCommit, UpdateItemsCommit
<1>1. \A r \in Requests : Reversed(r)' = Reversed(r)
  BY <1>0, SameReversals
<1>2. CASE CreateCommit(c)
  <2>1. PICK r \in Requests :
          /\ request[r].status = "none"
          /\ request' = [request EXCEPT ![r] = [status |-> "pending",
                           session |-> call[c].id, items |-> call[c].amt]]
          /\ order' = order
    BY <1>2 DEF CreateCommit
  <2>2. \A x \in Requests \ {r} : SameOrder(x)
    BY <1>1, <2>1 DEF SameOrder
  <2>3. StageOf(r) = "none" /\ StageOf(r)' = "pending"
    BY <2>1, StageKnown, StageKnownNext DEF StageTable
  <2> QED BY <2>1, <2>2, <2>3, PromiseMoves DEF Forward
<1>3. CASE AcceptCommit(c) \/ QuickAddCommit(c)
  <2>1. call[c].amt \in Amounts
    BY <1>3 DEF AcceptCommit, QuickAddCommit, Finish, CallsLinked, CallLinked,
                ItemSteps, RequestSteps
  <2>2. PICK r \in Requests :
          /\ request[r].status \in {"none", "pending"}
          /\ \A x \in Requests \ {r} : request'[x] = request[x]
          /\ request'[r].status = "accepted"
          /\ order' = [order EXCEPT ![r] = NewOrder(call[c].amt)]
    <3>1. CASE AcceptCommit(c)
      <4>1. call[c].id \in Requests
        BY <3>1 DEF AcceptCommit, Finish, CallsLinked, CallLinked, RequestSteps,
                    RequestExists
      <4>2. /\ request[call[c].id].status = "pending"
            /\ request' = [request EXCEPT ![call[c].id].status = "accepted"]
            /\ order' = [order EXCEPT ![call[c].id] = NewOrder(call[c].amt)]
        BY <3>1 DEF AcceptCommit, StillPending
      <4>3. PICK r \in Requests : r = call[c].id
        BY <4>1
      <4>4. /\ request[r].status = "pending"
            /\ request' = [request EXCEPT ![r].status = "accepted"]
            /\ order' = [order EXCEPT ![r] = NewOrder(call[c].amt)]
        BY <4>2, <4>3
      <4>5. request'[r].status = "accepted"
        BY <4>4 DEF RequestRow
      <4>6. \A x \in Requests \ {r} : request'[x] = request[x]
        BY <4>4
      <4> QED BY <4>4, <4>5, <4>6
    <3>2. CASE QuickAddCommit(c)
      <4>1. PICK r \in Requests :
              /\ request[r].status = "none"
              /\ request' = [request EXCEPT ![r] = [status |-> "accepted",
                               session |-> call[c].id, items |-> call[c].amt]]
              /\ order' = [order EXCEPT ![r] = NewOrder(call[c].amt)]
        BY <3>2 DEF QuickAddCommit
      <4>2. /\ request'[r].status = "accepted"
            /\ \A x \in Requests \ {r} : request'[x] = request[x]
        BY <4>1
      <4> QED BY <4>1, <4>2
    <3> QED BY <1>3, <3>1, <3>2
  <2>3. order'[r] = NewOrder(call[c].amt)
        /\ \A x \in Requests \ {r} : order'[x] = order[x]
    BY <2>2
  <2>4. order'[r].items = call[c].amt /\ order'[r].status = "accepted"
    BY <2>3 DEF NewOrder
  <2>5. \A x \in Requests \ {r} : SameOrder(x)
    BY <1>1, <2>2, <2>3 DEF SameOrder
  <2>6. StageOf(r) \in {"none", "pending"} /\ StageOf(r)' = "inProgress"
    BY <2>2, <2>4, StageKnown, StageKnownNext DEF StageTable, ActiveOrderStatuses
  <2> QED BY <2>1, <2>4, <2>5, <2>6, PromiseMoves DEF Forward
<1>4. CASE UpdateItemsCommit(c)
  <2>1. \A x \in Requests : SameOrder(x)
    BY <1>1, <1>4 DEF UpdateItemsCommit, SameOrder, RequestRow
  <2> QED BY <2>1, PromiseStutters
<1> QED BY <1>2, <1>3, <1>4

\* A request ends without an order.
LEMMA TerminationPromised ==
  ASSUME Accounted, Accounted', NEW r \in Requests,
         Reject(r) \/ CancelByCustomer(r)
  PROVE  PromiseStep
<1> USE DEF Accounted, Consistent, Linked, TypeOK
<1>1. /\ entry' = entry
      /\ order' = order
      /\ request[r].status = "pending"
  BY DEF Reject, CancelByCustomer, TerminateRequest, StillPending
<1>2. PICK target \in {"rejected", "cancelled"} :
        request' = [request EXCEPT ![r].status = target]
  BY DEF Reject, CancelByCustomer, TerminateRequest
<1>3. \A x \in Requests : Reversed(x)' = Reversed(x)
  BY <1>1, SameReversals
<1>4. \A x \in Requests \ {r} : SameOrder(x)
  BY <1>1, <1>2, <1>3 DEF SameOrder
<1>5. request'[r].status = target
  BY <1>2 DEF RequestRow
<1>6. StageOf(r) = "pending" /\ StageOf(r)' = "declined"
  BY <1>1, <1>5, StageKnown, StageKnownNext DEF StageTable
<1> QED BY <1>1, <1>4, <1>6, PromiseMoves DEF Forward

\* Orders: prepared, handed over, called off.
LEMMA OrderPromised ==
  ASSUME Accounted, Accounted', NEW r \in Requests,
         Prepare(r) \/ MarkReady(r) \/ Deliver(r) \/ CancelOrder(r)
  PROVE  PromiseStep
<1> USE DEF Accounted, Consistent, Linked, TypeOK
<1>1. /\ request' = request
      /\ order[r].status \in ActiveOrderStatuses
      /\ \E st \in {"preparing", "ready", "delivered", "cancelled"} :
           order' = [order EXCEPT ![r].status = st]
  BY DEF Prepare, MarkReady, Advance, Deliver, CancelOrder, Transitions,
         ActiveOrderStatuses
<1>2. /\ order'[r].items = order[r].items
      /\ \A x \in Requests \ {r} : order'[x] = order[x]
  BY <1>1 DEF OrderRow
<1>3. request[r].status = "accepted"
  BY <1>1 DEF OrderIffAccepted, ActiveOrderStatuses
<1>4. StageOf(r) = "inProgress"
  BY <1>1, <1>3, StageKnown, StageKnownNext DEF StageTable
<1>5. CASE Prepare(r) \/ MarkReady(r) \/ CancelOrder(r)
  <2>1. entry' = entry
    BY <1>5 DEF Prepare, MarkReady, Advance, CancelOrder
  <2>2. \A x \in Requests : Reversed(x)' = Reversed(x)
    BY <2>1, SameReversals
  <2>3. \A x \in Requests \ {r} : SameOrder(x)
    BY <1>1, <1>2, <2>2 DEF SameOrder
  <2>4. order'[r].status \in {"preparing", "ready", "cancelled"}
    BY <1>5 DEF Prepare, MarkReady, Advance, CancelOrder, OrderRow
  <2>5. CASE order'[r].status = "cancelled"
    <3>1. StageOf(r)' = "cancelled"
      BY <1>1, <1>3, <2>5, StageKnown, StageKnownNext DEF StageTable, ActiveOrderStatuses
    <3> QED BY <1>2, <1>4, <2>3, <3>1, PromiseMoves DEF Forward
  <2>6. CASE order'[r].status # "cancelled"
    <3>1. StageOf(r)' = "inProgress"
      BY <1>1, <1>3, <2>4, <2>6, StageKnown, StageKnownNext DEF StageTable, ActiveOrderStatuses
    <3>2. \A x \in Requests : StageOf(x)' = StageOf(x)
                              /\ order'[x].items = order[x].items
      BY <1>2, <1>4, <2>3, <3>1, SameStage
    <3> QED BY <3>2, StagesStutter
  <2> QED BY <2>5, <2>6
<1>6. CASE Deliver(r)
  <2>1. PICK e \in Entries : Unused(e) /\ entry' = [entry EXCEPT ![e] = ProductLine(r)]
    BY <1>6 DEF Deliver
  <2>2. /\ entry'[e].order = r
        /\ ~ entry'[e].reversed
        /\ \A x \in Entries \ {e} : entry'[x] = entry[x]
    BY <2>1 DEF ProductLine, Line
  <2>3. entry[e].order = None /\ None \notin Requests
    BY <2>1, ConstantsAssumption DEF Unused, RowsLinked, NoEntry
  <2>4. \A x \in Requests : Reversed(x)' = Reversed(x)
    <3>1. \A x \in Requests, y \in Entries :
            (entry'[y].order = x /\ entry'[y].reversed)
              <=> (entry[y].order = x /\ entry[y].reversed)
      BY <2>2, <2>3
    <3> QED BY <3>1 DEF Reversed, LinesOfOrder
  <2>5. \A x \in Requests \ {r} : SameOrder(x)
    BY <1>1, <1>2, <2>4 DEF SameOrder
  <2>6. ~ Reversed(r)
    <3>1. order[r].status # "delivered"
      BY <1>1 DEF ActiveOrderStatuses
    <3> QED BY <3>1, LinesOfUndelivered DEF Reversed
  <2>7. order'[r].status = "delivered"
    BY <1>6 DEF Deliver, OrderRow
  <2>8. StageOf(r)' = "delivered"
    BY <1>1, <1>3, <2>4, <2>6, <2>7, StageKnown, StageKnownNext DEF StageTable, ActiveOrderStatuses
  <2> QED BY <1>2, <1>4, <2>5, <2>8, PromiseMoves DEF Forward
<1> QED BY <1>5, <1>6

\* Lines: a refund gives an order back; a line for no order is not seen.
LEMMA BillPromised ==
  ASSUME Accounted, Accounted', NEW c \in Callers,
         AdjustCommit(c) \/ PartialPaymentCommit(c) \/ RefundCommit(c)
  PROVE  PromiseStep
<1> USE DEF Accounted, Consistent, Linked, TypeOK
<1>1. UNCHANGED <<request, order>>
  BY DEF AdjustCommit, PartialPaymentCommit, RefundCommit
<1>2. None \notin Requests
  BY ConstantsAssumption
<1>3. CASE AdjustCommit(c) \/ PartialPaymentCommit(c)
  <2>1. PICK e \in Entries :
          /\ Unused(e)
          /\ \E type, amt :
               entry' = [entry EXCEPT ![e] = Line(type, call[c].id, None, amt, None)]
    BY <1>3 DEF AdjustCommit, PartialPaymentCommit
  <2>2. /\ entry'[e].order = None
        /\ \A x \in Entries \ {e} : entry'[x] = entry[x]
    BY <2>1 DEF Line
  <2>3. entry[e].order = None
    BY <2>1 DEF Unused, RowsLinked, NoEntry
  <2>4. \A x \in Requests : Reversed(x)' = Reversed(x)
    BY <1>2, <2>2, <2>3 DEF Reversed, LinesOfOrder
  <2>5. \A x \in Requests : SameOrder(x)
    BY <1>1, <2>4 DEF SameOrder
  <2> QED BY <2>5, PromiseStutters
<1>4. CASE RefundCommit(c)
  <2>1. PICK e \in Entries :
          /\ e = call[c].id
          /\ Refundable(e)
          /\ ~ entry[e].reversed
    BY <1>4 DEF RefundCommit, Finish, NotReversed, Refundable, CallsLinked,
                CallLinked
  <2>2. PICK f \in Entries :
          /\ Unused(f)
          /\ entry' = [entry EXCEPT ![e].reversed = TRUE, ![f] = RefundLine(e)]
    BY <1>4, <2>1 DEF RefundCommit
  <2>3. e # f
    BY <2>1, <2>2 DEF Unused, Refundable
  <2>4. /\ entry'[f] = RefundLine(e)
        /\ entry'[e] = [entry[e] EXCEPT !.reversed = TRUE]
        /\ \A x \in Entries \ {e, f} : entry'[x] = entry[x]
    BY <2>1, <2>2, <2>3
  <2>5. entry'[f].order = entry[e].order /\ ~ entry'[f].reversed
    BY <2>4 DEF RefundLine, Line
  <2>6. entry'[e].order = entry[e].order /\ entry'[e].reversed
    BY <2>4 DEF EntryRow
  <2>7. entry[f].order = None
    BY <2>2 DEF Unused, RowsLinked, NoEntry
  <2>8. \A x \in Requests \ {entry[e].order} : Reversed(x)' = Reversed(x)
    <3>1. \A x \in Requests \ {entry[e].order}, y \in Entries :
            (entry'[y].order = x /\ entry'[y].reversed)
              <=> (entry[y].order = x /\ entry[y].reversed)
      BY <1>2, <2>4, <2>5, <2>6, <2>7
    <3> QED BY <3>1 DEF Reversed, LinesOfOrder
  <2>9. CASE entry[e].order \notin Requests
    <3>1. \A x \in Requests : SameOrder(x)
      BY <1>1, <2>8, <2>9 DEF SameOrder
    <3> QED BY <3>1, PromiseStutters
  <2>10. CASE entry[e].order \in Requests
    <3> PICK r \in Requests : r = entry[e].order
      BY <2>10
    <3>1. \A x \in Requests \ {r} : SameOrder(x)
      BY <1>1, <2>8 DEF SameOrder
    <3>2. e \in LinesOfOrder(r)
      BY DEF LinesOfOrder
    <3>3. order[r].status = "delivered"
      BY <2>10, <3>2, LinesOfUndelivered
    <3>4. request[r].status = "accepted"
      BY <2>10, <3>3 DEF OrderIffAccepted
    <3>5. Reversed(r)'
      BY <2>6 DEF Reversed, LinesOfOrder
    <3>6. ~ Reversed(r)
      <4>1. PICK p \in Entries :
              /\ LinesOfOrder(r) = {p} \cup RefundsOf(p)
              /\ Reversed(r) <=> entry[p].reversed
        BY <2>10, <3>3, LinesOfDelivered
      <4>2. e \notin RefundsOf(p)
        <5>1. \A x \in RefundsOf(p) : entry[x].type = "refund"
          BY ConstantsAssumption DEF RefundsOf, RowsLinked
        <5> QED BY <2>1, <5>1 DEF Refundable
      <4> QED BY <2>1, <3>2, <4>1, <4>2
    <3>7. StageOf(r) = "delivered" /\ StageOf(r)' = "refunded"
      BY <1>1, <3>3, <3>4, <3>5, <3>6, StageKnown, StageKnownNext DEF StageTable, ActiveOrderStatuses
    <3> QED BY <1>1, <2>10, <3>1, <3>7, PromiseMoves DEF Forward
  <2> QED BY <2>9, <2>10
<1> QED BY <1>3, <1>4

\* Sessions and tables: the promise does not speak of them.
LEMMA SessionsUnseen ==
  ASSUME Accounted, Accounted', UNCHANGED <<request, order, entry>>
  PROVE  PromiseStep
<1>1. \A r \in Requests : Reversed(r)' = Reversed(r)
  BY SameReversals
<1>2. \A r \in Requests : SameOrder(r)
  BY <1>1 DEF SameOrder
<1> QED BY <1>2, PromiseStutters

\* Every step of the table service is a step of the promise or none.
LEMMA NextPromised ==
  ASSUME Accounted, Accounted', [Next]_vars
  PROVE  PromiseStep
<1>1. CASE ReadStep
  BY <1>1, ReadStepLinked, SessionsUnseen DEF rows, Accounted, Consistent
<1>2. CASE UNCHANGED vars
  BY <1>2, SessionsUnseen DEF vars
<1>3. CASE WriteStep
  <2>1. ASSUME NEW t \in Tables,
               Open(t) \/ \E st \in TableStatuses : UpdateStatus(t, st)
        PROVE  PromiseStep
    BY <2>1, SessionsUnseen DEF Open, UpdateStatus
  <2>2. ASSUME NEW c \in Callers,
               \/ CloseCommit(c) \/ RequestPaymentCommit(c)
               \/ CancelPaymentCommit(c) \/ VoidCommit(c) \/ MarkPaidCommit(c)
        PROVE  PromiseStep
    BY <2>2, SessionsUnseen
    DEF CloseCommit, RequestPaymentCommit, CancelPaymentCommit, VoidCommit,
        MarkPaidCommit
  <2> QED BY <1>3, <2>1, <2>2, RequestPromised, BillPromised,
             TerminationPromised, OrderPromised DEF WriteStep
<1> QED BY <1>1, <1>2, <1>3, NextSplit

\* No request, no order and no line at the start.
LEMMA InitPromised == Init => Promise!PInit
<1> SUFFICES ASSUME Init PROVE Promise!PInit
  OBVIOUS
<1>1. \A r \in Requests : StageOf(r) = "none" /\ order[r].items = 0
  BY InitAccounted, StageKnown DEF Init, StageTable
<1>2. \A r \in Requests : Balance(LinesOfOrder(r)) = 0
  <2> TAKE r \in Requests
  <2>1. LinesOfOrder(r) = {}
    BY ConstantsAssumption DEF Init, LinesOfOrder, NoEntry
  <2>2. Balance({}) = 0
    BY SumEmpty DEF Balance
  <2> QED BY <2>1, <2>2
<1> QED BY <1>1, <1>2 DEF Promise!PInit

\* The order flow, whatever calls overlap and however many sessions, requests
\* and bill lines there are, implements OrderPromise: an order moves forward
\* only, is billed when it is delivered, at the price it was accepted for, and
\* is taken back at most once and whole (accept to refundConsumption).
THEOREM KeepsPromiseAlways == Spec => KeepsPromise
<1>1. Init => Promise!PInit
  BY InitPromised
<1>2. Accounted /\ Accounted' /\ [Next]_vars => PromiseStep
  BY NextPromised
<1>3. Spec => []Accounted
  BY AccountedAlways
<1> QED BY <1>1, <1>2, <1>3, PTL DEF Spec, KeepsPromise, Promise!PSpec, PromiseStep

(***************************************************************************)
(* The projection.  As long as sessions are only opened, each session that *)
(* is open is the one its table shows, and both are moved by the same      *)
(* transactions; a quick-add moves the pending count without a request.    *)
(***************************************************************************)
\* Watched calls are calls.
LEMMA OverlapIsSpec == OverlapSpec => Spec
<1>1. OverlapInit => Init
  BY DEF OverlapInit
<1>2. [Next /\ Observe]_ovars => [Next]_vars
  BY DEF ovars
<1> QED BY <1>1, <1>2, PTL DEF OverlapSpec, Spec

\* What createAndAccept has made is accepted, and remembered as it is made.
QuickKnown == \A r \in quick : r \in Requests /\ request[r].status = "accepted"

QuickFollows ==
  \A r \in Requests :
    r \in quick' <=> \/ r \in quick
                    \/ /\ request[r].status = "none"
                       /\ request'[r].status = "accepted"

LEMMA QuickFollowed == [Next /\ Observe]_ovars => QuickFollows
  BY DEF Observe, ovars, vars, QuickFollows

\* An accepted request stays accepted.
LEMMA QuickKnownKept ==
  ASSUME Linked, QuickKnown, [Next /\ Observe]_ovars
  PROVE  QuickKnown'
<1>1. CASE UNCHANGED ovars
  BY <1>1 DEF ovars, vars, QuickKnown
<1>2. CASE Next /\ Observe
  <2>1. ASSUME NEW r \in Requests, request[r].status = "accepted"
        PROVE  request'[r].status = "accepted"
    <3>1. CASE ReadStep
      BY <2>1, <3>1, ReadStepLinked DEF rows
    <3>2. CASE WriteStep
      BY <2>1, <3>2, RequestEffect DEF Untouched, Decidable
    <3> QED BY <1>2, <3>1, <3>2, NextSplit
  <2> QED BY <1>2, <2>1 DEF Observe, QuickKnown
<1> QED BY <1>1, <1>2

VisitSteps == Steps \ {"closeCount", "closeCommit", "voidCommit", "markPaidCount",
                       "markPaidCommit"}

\* What a table shows of the requests of its session.
PendingShown(s) == Cardinality(PendingRequestsOf(s)) - Cardinality(QuickAddsOf(s))

\* The row of a session's table tells what its rows say.
Mirrors(s) ==
  LET row == table[TableOf(s)] IN
  /\ row.active = Cardinality(ActiveOrdersOf(s))
  /\ row.pending = PendingShown(s)
  /\ row.total = session[s].total

Visiting ==
  /\ \A c \in Callers : call[c].step \in VisitSteps
  /\ \A s \in Sessions : session[s].status \in {"none", "open"}
  /\ \A s \in Sessions : NonClosed(s) => table[TableOf(s)].current = s /\ Mirrors(s)
  /\ \A t \in Tables :
       table[t].current = None => /\ table[t].active = 0
                                  /\ table[t].pending = 0
                                  /\ table[t].total = 0

VisitOnly == Endpoints \cap {"close", "markPaid", "void"} = {}

\* The calls in flight stay those of a visit.
LEMMA VisitCalls ==
  ASSUME VisitOnly, TypeOK, ReadStep, \A c \in Callers : call[c].step \in VisitSteps
  PROVE  \A c \in Callers : call'[c].step \in VisitSteps
<1>1. ASSUME NEW c \in Callers, NEW k, call' = [call EXCEPT ![c] = k],
             k.step \in VisitSteps
      PROVE  \A x \in Callers : call'[x].step \in VisitSteps
  BY <1>1 DEF TypeOK
<1>2. PICK c \in Callers :
    \/ \E s \in Sessions :
         \/ CloseRead(c, s) \/ RequestPaymentRead(c, s)
         \/ CancelPaymentRead(c, s) \/ VoidRead(c, s) \/ MarkPaidRead(c, s)
         \/ \E a \in Amounts : \/ CreateRead(c, s, a) \/ QuickAddRead(c, s, a)
                               \/ AdjustRead(c, s, a) \/ AdjustRead(c, s, - a)
                               \/ PartialPaymentRead(c, s, a)
    \/ \E r \in Requests : \/ AcceptRead(c, r)
                           \/ \E a \in Amounts : UpdateItemsRead(c, r, a)
    \/ \E e \in Entries : RefundRead(c, e)
    \/ CloseCount(c) \/ RequestPaymentCount(c) \/ MarkPaidCount(c)
    \/ Fail(c)
  BY DEF ReadStep
<1>3. ASSUME NEW endpoint \in Endpoints, NEW step, NEW id, NEW amt,
             Begin(c, endpoint, step, id, amt), step \in VisitSteps
      PROVE  \A x \in Callers : call'[x].step \in VisitSteps
  BY <1>1, <1>3 DEF Begin
<1>4. CASE \E s \in Sessions :
             CloseRead(c, s) \/ VoidRead(c, s) \/ MarkPaidRead(c, s)
  BY <1>4 DEF CloseRead, VoidRead, MarkPaidRead, Begin, VisitOnly
<1>5. CASE \/ \E s \in Sessions : RequestPaymentRead(c, s) \/ CancelPaymentRead(c, s)
           \/ \E r \in Requests : \/ AcceptRead(c, r)
                                  \/ \E a \in Amounts : UpdateItemsRead(c, r, a)
           \/ \E e \in Entries : RefundRead(c, e)
           \/ \E s \in Sessions, a \in Amounts :
                \/ CreateRead(c, s, a) \/ QuickAddRead(c, s, a)
                \/ AdjustRead(c, s, a) \/ AdjustRead(c, s, - a)
                \/ PartialPaymentRead(c, s, a)
  BY <1>1, <1>5
  DEF RequestPaymentRead, CancelPaymentRead, AcceptRead, UpdateItemsRead,
      RefundRead, CreateRead, QuickAddRead, AdjustRead, PartialPaymentRead, Begin,
      VisitSteps, Steps
<1>6. CASE CloseCount(c) \/ MarkPaidCount(c)
  BY <1>6 DEF CloseCount, MarkPaidCount, Continue, VisitSteps
<1>7. CASE RequestPaymentCount(c)
  <2>1. PICK to \in VisitSteps : call' = [call EXCEPT ![c].step = to]
    BY <1>7 DEF RequestPaymentCount, CountActive, CountPending, Continue,
                VisitSteps, Steps
  <2> QED BY <2>1 DEF TypeOK, CallState
<1>8. CASE Fail(c)
  BY <1>1, <1>8 DEF Fail, Idle, VisitSteps, Steps
<1> QED BY <1>2, <1>4, <1>5, <1>6, <1>7, <1>8

\* Adding or removing one member changes the size of a set by one.
LEMMA CountMoved ==
  ASSUME NEW S, NEW T, NEW r, IsFiniteSet(S), T \ {r} = S \ {r}
  PROVE  /\ Cardinality(S) \in Int
         /\ Cardinality(T) = Cardinality(S) + (IF r \in T THEN 1 ELSE 0)
                                            - (IF r \in S THEN 1 ELSE 0)
<1>1. Cardinality(S) \in Nat
  BY FS_CardinalityType
<1>2. CASE r \in S /\ r \notin T
  <2>1. T = S \ {r}
    BY <1>2
  <2>2. Cardinality(T) = Cardinality(S) - 1
    BY <1>2, <2>1, FS_RemoveElement
  <2> QED BY <1>1, <1>2, <2>2
<1>3. CASE r \notin S /\ r \in T
  <2>1. T = S \cup {r}
    BY <1>3
  <2>2. Cardinality(T) = Cardinality(S) + 1
    BY <1>3, <2>1, FS_AddElement
  <2> QED BY <1>1, <1>3, <2>2
<1>4. CASE r \in S <=> r \in T
  <2>1. T = S
    BY <1>4
  <2> QED BY <1>1, <1>4, <2>1
<1> QED BY <1>2, <1>3, <1>4, <1>1

\* The counts of session s move by da active orders and dp pending requests.
CountsMoved(s, da, dp) ==
  /\ \A x \in Sessions \ {s} : /\ ActiveOrdersOf(x)' = ActiveOrdersOf(x)
                               /\ PendingShown(x)' = PendingShown(x)
  /\ Cardinality(ActiveOrdersOf(s)') = Cardinality(ActiveOrdersOf(s)) + da
  /\ PendingShown(s)' = PendingShown(s) + dp

\* The row of its table moves by as much, and its total by dt.
RowMoved(s, da, dp, dt) ==
  /\ \A t \in Tables : table'[t].current = table[t].current
  /\ \A t \in Tables \ {TableOf(s)} : /\ table'[t].active = table[t].active
                                      /\ table'[t].pending = table[t].pending
                                      /\ table'[t].total = table[t].total
  /\ table'[TableOf(s)].active = table[TableOf(s)].active + da
  /\ table'[TableOf(s)].pending = table[TableOf(s)].pending + dp
  /\ table'[TableOf(s)].total = table[TableOf(s)].total + dt

SessionsStand == \A s \in Sessions : /\ session'[s].status = session[s].status
                                     /\ session'[s].table = session[s].table

\* So does the total of the session.
TotalMoved(s, dt) ==
  /\ SessionsStand
  /\ \A x \in Sessions \ {s} : session'[x].total = session[x].total
  /\ session'[s].total = session[s].total + dt

\* Rows that move together keep mirroring each other.
LEMMA MovedTogether ==
  ASSUME Consistent, Visiting, NEW s, SessionExists(s), NEW da, NEW dp, NEW dt,
         CountsMoved(s, da, dp), RowMoved(s, da, dp, dt), TotalMoved(s, dt),
         \A c \in Callers : call'[c].step \in VisitSteps
  PROVE  Visiting'
<1>1. s \in Sessions /\ NonClosed(s) /\ table[TableOf(s)].current = s /\ Mirrors(s)
  BY DEF SessionExists, Visiting, NonClosed
<1>2. \A x \in Sessions : /\ session'[x].status \in {"none", "open"}
                          /\ NonClosed(x)' = NonClosed(x)
                          /\ TableOf(x)' = TableOf(x)
  BY DEF Visiting, TotalMoved, SessionsStand, NonClosed, TableOf
<1>3. Mirrors(s)'
  BY <1>1, <1>2 DEF Mirrors, CountsMoved, RowMoved, TotalMoved
<1>4. ASSUME NEW x \in Sessions \ {s}, NonClosed(x)
      PROVE  Mirrors(x)'
  <2>1. TableOf(x) # TableOf(s)
    BY <1>1, <1>4 DEF Consistent, OneActiveSession
  <2>2. Mirrors(x) /\ TableOf(x) \in Tables
    BY <1>4, TableOfSession DEF Visiting, Consistent, NonClosed, SessionExists
  <2> QED BY <1>2, <2>1, <2>2 DEF Mirrors, CountsMoved, RowMoved, TotalMoved
<1>5. \A x \in Sessions : NonClosed(x)' => table'[TableOf(x)'].current = x /\ Mirrors(x)'
  <2>1. \A x \in Sessions : NonClosed(x) => TableOf(x) \in Tables
    BY TableOfSession DEF Consistent, NonClosed, SessionExists
  <2> QED BY <1>2, <1>3, <1>4, <2>1 DEF Visiting, RowMoved
<1>6. \A t \in Tables :
        table'[t].current = None => /\ table'[t].active = 0
                                    /\ table'[t].pending = 0
                                    /\ table'[t].total = 0
  BY <1>1, ConstantsAssumption DEF Visiting, RowMoved
<1> QED BY <1>2, <1>5, <1>6 DEF Visiting

\* Nothing the projection tells moves.
LEMMA NothingMoved ==
  ASSUME Consistent, Visiting, SessionsStand, SameTotals,
         \A s \in Sessions : /\ ActiveOrdersOf(s)' = ActiveOrdersOf(s)
                             /\ PendingShown(s)' = PendingShown(s),
         \A t \in Tables : /\ table'[t].current = table[t].current
                           /\ table'[t].active = table[t].active
                           /\ table'[t].pending = table[t].pending
                           /\ table'[t].total = table[t].total,
         \A c \in Callers : call'[c].step \in VisitSteps
  PROVE  Visiting'
<1>1. \A x \in Sessions : /\ session'[x].status \in {"none", "open"}
                          /\ NonClosed(x)' = NonClosed(x)
                          /\ TableOf(x)' = TableOf(x)
  BY DEF Visiting, SessionsStand, NonClosed, TableOf
<1>2. \A x \in Sessions : NonClosed(x) => /\ TableOf(x) \in Tables
                                          /\ table[TableOf(x)].current = x
                                          /\ Mirrors(x)
  BY TableOfSession DEF Visiting, Consistent, NonClosed, SessionExists
<1>3. \A x \in Sessions : NonClosed(x)' => table'[TableOf(x)'].current = x /\ Mirrors(x)'
  BY <1>1, <1>2 DEF Mirrors, SameTotals
<1> QED BY <1>1, <1>3 DEF Visiting

\* What one request and its order add to the counts of its session.
ActiveOne(r) == IF order[r].status \in ActiveOrderStatuses THEN 1 ELSE 0
PendingOne(r) == IF request[r].status = "pending" THEN 1 ELSE 0
QuickOne(r) == IF r \in quick THEN 1 ELSE 0

\* The counts of a session move by what one request adds to them.
LEMMA RequestCounts ==
  ASSUME Accounted, QuickKnown, QuickKnown', QuickFollows,
         NEW r \in Requests, NEW s, request'[r].session = s,
         request[r].status = "none" \/ request[r].session = s,
         \A x \in Requests \ {r} : request'[x] = request[x] /\ order'[x] = order[x],
         NEW da, da = ActiveOne(r)' - ActiveOne(r),
         NEW dp, dp = PendingOne(r)' - PendingOne(r) - (QuickOne(r)' - QuickOne(r))
  PROVE  CountsMoved(s, da, dp)
<1>1. /\ ActiveOne(r) = 1 => request[r].status = "accepted"
      /\ \A x \in Requests : order[x].status \in ActiveOrderStatuses
                               => request[x].status # "none"
  BY DEF Accounted, Consistent, OrderIffAccepted, ActiveOne, ActiveOrderStatuses
<1>2. /\ IsFiniteSet(ActiveOrdersOf(s))
      /\ IsFiniteSet(PendingRequestsOf(s))
      /\ IsFiniteSet(QuickAddsOf(s))
  <2>1. /\ ActiveOrdersOf(s) \in SUBSET UsedRequests
        /\ PendingRequestsOf(s) \in SUBSET UsedRequests
        /\ QuickAddsOf(s) \in SUBSET UsedRequests
    BY <1>1 DEF ActiveOrdersOf, PendingRequestsOf, QuickAddsOf, QuickKnown, UsedRequests
  <2> QED BY <2>1, FS_Subset DEF Accounted, FinitelyMany
<1>3. /\ ActiveOrdersOf(s)' \ {r} = ActiveOrdersOf(s) \ {r}
      /\ PendingRequestsOf(s)' \ {r} = PendingRequestsOf(s) \ {r}
  BY DEF ActiveOrdersOf, PendingRequestsOf
<1>4. \A x \in Requests \ {r} : x \in quick' <=> x \in quick
  BY DEF QuickFollows
<1>5. QuickAddsOf(s)' \ {r} = QuickAddsOf(s) \ {r}
  BY <1>4 DEF QuickAddsOf, QuickKnown
<1>6. /\ ActiveOne(r) = IF r \in ActiveOrdersOf(s) THEN 1 ELSE 0
      /\ PendingOne(r) = IF r \in PendingRequestsOf(s) THEN 1 ELSE 0
      /\ ActiveOne(r)' = IF r \in ActiveOrdersOf(s)' THEN 1 ELSE 0
      /\ PendingOne(r)' = IF r \in PendingRequestsOf(s)' THEN 1 ELSE 0
  BY <1>1 DEF ActiveOrdersOf, PendingRequestsOf, ActiveOne, PendingOne
<1>7. /\ QuickOne(r) = IF r \in QuickAddsOf(s) THEN 1 ELSE 0
      /\ QuickOne(r)' = IF r \in QuickAddsOf(s)' THEN 1 ELSE 0
  BY DEF QuickAddsOf, QuickOne, QuickKnown
<1>8. \A x \in Sessions \ {s} : /\ ActiveOrdersOf(x)' = ActiveOrdersOf(x)
                                /\ PendingRequestsOf(x)' = PendingRequestsOf(x)
  BY <1>1 DEF ActiveOrdersOf, PendingRequestsOf, ActiveOne
<1>9. \A x \in Sessions \ {s} : QuickAddsOf(x)' = QuickAddsOf(x)
  BY <1>4 DEF QuickAddsOf, QuickKnown
<1>10. Cardinality(ActiveOrdersOf(s)') = Cardinality(ActiveOrdersOf(s)) + da
  BY <1>2, <1>3, <1>6, CountMoved
<1>11. /\ Cardinality(PendingRequestsOf(s)') = Cardinality(PendingRequestsOf(s))
                                                + PendingOne(r)' - PendingOne(r)
       /\ Cardinality(PendingRequestsOf(s)) \in Int
  BY <1>2, <1>3, <1>6, CountMoved
<1>12. /\ Cardinality(QuickAddsOf(s)') = Cardinality(QuickAddsOf(s))
                                          + QuickOne(r)' - QuickOne(r)
       /\ Cardinality(QuickAddsOf(s)) \in Int
  BY <1>2, <1>5, <1>7, CountMoved
<1>13. PendingShown(s)' = PendingShown(s) + dp
  <2>1. /\ PendingOne(r) \in Int /\ PendingOne(r)' \in Int
        /\ QuickOne(r) \in Int /\ QuickOne(r)' \in Int
    BY DEF PendingOne, QuickOne
  <2> QED BY <1>11, <1>12, <2>1 DEF PendingShown
<1> QED BY <1>8, <1>9, <1>10, <1>13 DEF CountsMoved, PendingShown

\* The projection service on the row of a session's table.
LEMMA RowChanged ==
  ASSUME Linked, NEW s, SessionExists(s), NEW row, NEW da, NEW dp, NEW dt,
         table' = [table EXCEPT ![TableOf(s)] = row],
         row.current = table[TableOf(s)].current,
         row.active = table[TableOf(s)].active + da,
         row.pending = table[TableOf(s)].pending + dp,
         row.total = table[TableOf(s)].total + dt
  PROVE  RowMoved(s, da, dp, dt)
  BY TableOfSession DEF RowMoved, Linked, TypeOK

\* An amount to instantiate Projections with.
LEMMA ZeroInt == 0 \in Int
  OBVIOUS

\* What its functions add to a row.
LEMMA Projections ==
  ASSUME NEW row \in TableRow, NEW a \in Int
  PROVE  /\ OnOrderRequestCreated(row) = [row EXCEPT !.pending = row.pending + 1]
         /\ OnOrderRequestAccepted(row) = [row EXCEPT !.pending = row.pending - 1,
                                                      !.active = row.active + 1]
         /\ OnOrderRequestRejected(row) = [row EXCEPT !.pending = row.pending - 1]
         /\ OnOrderLeftActive(row) = [row EXCEPT !.active = row.active - 1]
         /\ OnLine(row, a) = [row EXCEPT !.total = row.total + a]
<1>1. OnLine(row, a) = [row EXCEPT !.total = row.total + a]
  <2>1. row.total \in Int
    BY DEF TableRow
  <2>2. row.total - (- a) = row.total + a
    BY <2>1
  <2> QED BY <2>2 DEF OnLine, OnConsumptionCreated, OnConsumptionReversed
<1> QED BY <1>1 DEF OnOrderRequestCreated, OnOrderRequestAccepted,
                    OnOrderRequestRejected, OnOrderLeftActive

\* Requests asked for, decided; orders on their way: one request moves.
LEMMA OneRequestMoved ==
  ASSUME Accounted, Visiting, QuickKnown, QuickKnown', QuickFollows,
         NEW r \in Requests, NEW s, SessionExists(s), request'[r].session = s,
         request[r].status = "none" \/ request[r].session = s,
         \A x \in Requests \ {r} : request'[x] = request[x] /\ order'[x] = order[x],
         NEW da, da = ActiveOne(r)' - ActiveOne(r),
         NEW dp, dp = PendingOne(r)' - PendingOne(r) - (QuickOne(r)' - QuickOne(r)),
         NEW dt, TotalMoved(s, dt), RowMoved(s, da, dp, dt),
         \A c \in Callers : call'[c].step \in VisitSteps
  PROVE  Visiting'
<1>1. CountsMoved(s, da, dp)
  BY RequestCounts
<1> QED BY <1>1, MovedTogether DEF Accounted

\* A transaction that leaves the sessions alone.
LEMMA SessionsKept ==
  ASSUME Linked, NEW s, SessionExists(s), session' = session
  PROVE  TotalMoved(s, 0)
  BY TableOfSession DEF TotalMoved, SessionsStand, SessionRow

\* A pending request counts as one, any other as none; so for orders; and a
\* request that was accepted as it came as one less.
LEMMA RequestVisiting ==
  ASSUME Accounted, Visiting, QuickKnown, QuickKnown', QuickFollows,
         \A c \in Callers : call'[c].step \in VisitSteps,
         \/ \E c \in Callers : CreateCommit(c) \/ AcceptCommit(c) \/ QuickAddCommit(c)
         \/ \E r \in Requests : Reject(r) \/ CancelByCustomer(r)
  PROVE  Visiting'
<1>0. Linked /\ TypeOK /\ OrderIffAccepted
  BY DEF Accounted, Consistent, Linked
<1>1. ASSUME NEW c \in Callers, CreateCommit(c)
      PROVE  Visiting'
  <2>1. PICK s \in Sessions : s = call[c].id /\ SessionExists(s)
    BY <1>0, <1>1 DEF CreateCommit, Finish, Linked, CallsLinked, CallLinked,
                      SessionSteps, RequestSteps, Steps, SessionExists
  <2>2. PICK r \in Requests :
          /\ request[r].status = "none"
          /\ request' = [request EXCEPT ![r] = [status |-> "pending",
                           session |-> s, items |-> call[c].amt]]
    BY <1>1, <2>1 DEF CreateCommit
  <2>3. /\ request'[r].session = s
        /\ request'[r].status = "pending"
        /\ order' = order
        /\ session' = session
        /\ \A x \in Requests \ {r} : request'[x] = request[x] /\ order'[x] = order[x]
    BY <1>0, <1>1, <2>2 DEF CreateCommit, TypeOK
  <2>4. /\ 0 = ActiveOne(r)' - ActiveOne(r)
        /\ 1 = PendingOne(r)' - PendingOne(r) - (QuickOne(r)' - QuickOne(r))
    BY <2>2, <2>3 DEF ActiveOne, PendingOne, QuickOne, QuickKnown, QuickFollows
  <2>5. RowMoved(s, 0, 1, 0)
    <3>1. table[TableOf(s)] \in TableRow
      BY <1>0, <2>1, TableOfSession
    <3>2. table' = [table EXCEPT ![TableOf(s)] =
                      [table[TableOf(s)] EXCEPT !.pending = table[TableOf(s)].pending + 1]]
      BY <1>1, <2>1, <3>1, Projections, ZeroInt DEF CreateCommit, ProjectOn
    <3>3. /\ table[TableOf(s)].active \in Int
          /\ table[TableOf(s)].total \in Int
      BY <3>1 DEF TableRow
    <3>4. /\ table[TableOf(s)].active = table[TableOf(s)].active + 0
          /\ table[TableOf(s)].total = table[TableOf(s)].total + 0
      BY <3>3
    <3> QED BY <1>0, <2>1, <3>1, <3>2, <3>4, RowChanged DEF TableRow
  <2> QED BY <1>0, <2>1, <2>2, <2>3, <2>4, <2>5, SessionsKept, OneRequestMoved
<1>2. ASSUME NEW c \in Callers, AcceptCommit(c)
      PROVE  Visiting'
  <2>1. PICK r \in Requests : r = call[c].id /\ request[r].status = "pending"
    BY <1>0, <1>2 DEF AcceptCommit, Finish, Linked, CallsLinked, CallLinked,
                      RequestSteps, RequestExists, StillPending
  <2>2. PICK s \in Sessions : s = request[r].session /\ SessionExists(s)
    BY <1>0, <2>1 DEF Linked, RowsLinked, SessionExists
  <2>3. /\ request' = [request EXCEPT ![r].status = "accepted"]
        /\ order' = [order EXCEPT ![r] = NewOrder(call[c].amt)]
        /\ session' = session
    BY <1>2, <2>1 DEF AcceptCommit
  <2>4. /\ request'[r].session = s
        /\ request'[r].status = "accepted"
        /\ order'[r].status = "accepted"
        /\ order[r].status = "none"
        /\ \A x \in Requests \ {r} : request'[x] = request[x] /\ order'[x] = order[x]
    BY <1>0, <2>1, <2>2, <2>3 DEF TypeOK, RequestRow, NewOrder, OrderIffAccepted
  <2>5. /\ 1 = ActiveOne(r)' - ActiveOne(r)
        /\ - 1 = PendingOne(r)' - PendingOne(r) - (QuickOne(r)' - QuickOne(r))
    BY <2>1, <2>4 DEF ActiveOne, PendingOne, QuickOne, QuickKnown, QuickFollows,
                      ActiveOrderStatuses
  <2>6. RowMoved(s, 1, - 1, 0)
    <3>1. table[TableOf(s)] \in TableRow
      BY <1>0, <2>2, TableOfSession
    <3>2. table' = [table EXCEPT ![TableOf(s)] =
                      [table[TableOf(s)] EXCEPT !.pending = table[TableOf(s)].pending - 1,
                                                !.active = table[TableOf(s)].active + 1]]
      BY <1>2, <2>1, <2>2, <3>1, Projections, ZeroInt DEF AcceptCommit, ProjectOn
    <3>3. /\ table[TableOf(s)].pending \in Int
          /\ table[TableOf(s)].total \in Int
      BY <3>1 DEF TableRow
    <3>4. /\ table[TableOf(s)].pending - 1 = table[TableOf(s)].pending + (- 1)
          /\ table[TableOf(s)].total = table[TableOf(s)].total + 0
      BY <3>3
    <3> QED BY <1>0, <2>2, <3>1, <3>2, <3>4, RowChanged DEF TableRow
  <2> QED BY <1>0, <2>1, <2>2, <2>4, <2>3, <2>5, <2>6, SessionsKept, OneRequestMoved
<1>3. ASSUME NEW c \in Callers, QuickAddCommit(c)
      PROVE  Visiting'
  <2>1. PICK s \in Sessions : s = call[c].id /\ SessionExists(s)
    BY <1>0, <1>3 DEF QuickAddCommit, Finish, Linked, CallsLinked, CallLinked,
                      SessionSteps, RequestSteps, Steps, SessionExists
  <2>2. PICK r \in Requests :
          /\ request[r].status = "none"
          /\ request' = [request EXCEPT ![r] = [status |-> "accepted",
                           session |-> s, items |-> call[c].amt]]
          /\ order' = [order EXCEPT ![r] = NewOrder(call[c].amt)]
          /\ session' = session
    BY <1>3, <2>1 DEF QuickAddCommit
  <2>3. /\ request'[r].session = s
        /\ request'[r].status = "accepted"
        /\ order'[r].status = "accepted"
        /\ order[r].status = "none"
        /\ \A x \in Requests \ {r} : request'[x] = request[x] /\ order'[x] = order[x]
    BY <1>0, <2>2 DEF TypeOK, NewOrder, OrderIffAccepted
  <2>4. /\ 1 = ActiveOne(r)' - ActiveOne(r)
        /\ - 1 = PendingOne(r)' - PendingOne(r) - (QuickOne(r)' - QuickOne(r))
    BY <2>2, <2>3 DEF ActiveOne, PendingOne, QuickOne, QuickKnown, QuickFollows,
                      ActiveOrderStatuses
  <2>5. RowMoved(s, 1, - 1, 0)
    <3>1. table[TableOf(s)] \in TableRow
      BY <1>0, <2>1, TableOfSession
    <3>2. table' = [table EXCEPT ![TableOf(s)] =
                      [table[TableOf(s)] EXCEPT !.pending = table[TableOf(s)].pending - 1,
                                                !.active = table[TableOf(s)].active + 1]]
      BY <1>3, <2>1, <3>1, Projections, ZeroInt DEF QuickAddCommit, ProjectOn
    <3>3. /\ table[TableOf(s)].pending \in Int
          /\ table[TableOf(s)].total \in Int
      BY <3>1 DEF TableRow
    <3>4. /\ table[TableOf(s)].pending - 1 = table[TableOf(s)].pending + (- 1)
          /\ table[TableOf(s)].total = table[TableOf(s)].total + 0
      BY <3>3
    <3> QED BY <1>0, <2>1, <3>1, <3>2, <3>4, RowChanged DEF TableRow
  <2> QED BY <1>0, <2>1, <2>2, <2>3, <2>4, <2>5, SessionsKept, OneRequestMoved
<1>4. ASSUME NEW r \in Requests, Reject(r) \/ CancelByCustomer(r)
      PROVE  Visiting'
  <2>1. request[r].status = "pending"
    BY <1>4 DEF Reject, CancelByCustomer, TerminateRequest, StillPending
  <2>2. PICK s \in Sessions : s = request[r].session /\ SessionExists(s)
    BY <1>0, <2>1 DEF Linked, RowsLinked, SessionExists
  <2>3. PICK target \in {"rejected", "cancelled"} :
          /\ request' = [request EXCEPT ![r].status = target]
          /\ order' = order
          /\ session' = session
    BY <1>4 DEF Reject, CancelByCustomer, TerminateRequest
  <2>4. /\ request'[r].session = s
        /\ request'[r].status = target
        /\ \A x \in Requests \ {r} : request'[x] = request[x] /\ order'[x] = order[x]
    BY <1>0, <2>2, <2>3 DEF TypeOK, RequestRow
  <2>5. /\ 0 = ActiveOne(r)' - ActiveOne(r)
        /\ - 1 = PendingOne(r)' - PendingOne(r) - (QuickOne(r)' - QuickOne(r))
    BY <2>1, <2>3, <2>4 DEF ActiveOne, PendingOne, QuickOne, QuickKnown, QuickFollows
  <2>6. RowMoved(s, 0, - 1, 0)
    <3>1. table[TableOf(s)] \in TableRow
      BY <1>0, <2>2, TableOfSession
    <3>2. table' = [table EXCEPT ![TableOf(s)] =
                      [table[TableOf(s)] EXCEPT !.pending = table[TableOf(s)].pending - 1]]
      BY <1>4, <2>2, <3>1, Projections, ZeroInt
      DEF Reject, CancelByCustomer, TerminateRequest, ProjectOn
    <3>3. /\ table[TableOf(s)].pending \in Int
          /\ table[TableOf(s)].active \in Int
          /\ table[TableOf(s)].total \in Int
      BY <3>1 DEF TableRow
    <3>4. /\ table[TableOf(s)].pending - 1 = table[TableOf(s)].pending + (- 1)
          /\ table[TableOf(s)].active = table[TableOf(s)].active + 0
          /\ table[TableOf(s)].total = table[TableOf(s)].total + 0
      BY <3>3
    <3> QED BY <1>0, <2>2, <3>1, <3>2, <3>4, RowChanged DEF TableRow
  <2> QED BY <1>0, <2>2, <2>3, <2>4, <2>5, <2>6, SessionsKept, OneRequestMoved
<1> QED BY <1>1, <1>2, <1>3, <1>4

\* An order leaves the kitchen, and is billed when it was delivered.
LEMMA OrderVisiting ==
  ASSUME Accounted, Visiting, QuickKnown, QuickKnown', QuickFollows,
         \A c \in Callers : call'[c].step \in VisitSteps,
         NEW r \in Requests, CancelOrder(r) \/ Deliver(r)
  PROVE  Visiting'
<1>0. Linked /\ TypeOK /\ OrderIffAccepted
  BY DEF Accounted, Consistent, Linked
<1>1. order[r].status \in ActiveOrderStatuses
  BY DEF CancelOrder, Deliver, Transitions, ActiveOrderStatuses
<1>2. request[r].status = "accepted"
  BY <1>0, <1>1 DEF OrderIffAccepted, ActiveOrderStatuses
<1>3. PICK s \in Sessions : s = request[r].session /\ SessionExists(s)
  BY <1>0, <1>2 DEF Linked, RowsLinked, SessionExists
<1>4. request' = request /\ \E st \in {"cancelled", "delivered"} :
                              order' = [order EXCEPT ![r].status = st]
  BY DEF CancelOrder, Deliver
<1>5. /\ order'[r].status \notin ActiveOrderStatuses
      /\ \A x \in Requests \ {r} : request'[x] = request[x] /\ order'[x] = order[x]
  BY <1>0, <1>4 DEF TypeOK, OrderRow, ActiveOrderStatuses
<1>6. /\ - 1 = ActiveOne(r)' - ActiveOne(r)
      /\ 0 = PendingOne(r)' - PendingOne(r) - (QuickOne(r)' - QuickOne(r))
  BY <1>1, <1>4, <1>5 DEF ActiveOne, PendingOne, QuickOne, QuickFollows
<1> DEFINE row == table[TableOf(s)]
<1>7. /\ row \in TableRow
      /\ row.active \in Int
      /\ row.pending \in Int
      /\ row.total \in Int
      /\ TableOf(s) \in Tables
  BY <1>0, <1>3, TableOfSession DEF TableRow
<1>8. /\ row.active - 1 = row.active + (- 1)
      /\ row.pending = row.pending + 0
      /\ row.total = row.total + 0
  <2> HIDE DEF row
  <2> QED BY <1>7
<1>9. CASE CancelOrder(r)
  <2>1. table' = [table EXCEPT ![TableOf(s)] = [row EXCEPT !.active = row.active - 1]]
    BY <1>3, <1>7, <1>9 DEF CancelOrder, LeaveActive, OnOrderLeftActive
  <2>2. RowMoved(s, - 1, 0, 0)
    BY <1>0, <1>3, <1>7, <1>8, <2>1, RowChanged DEF TableRow
  <2>3. TotalMoved(s, 0)
    BY <1>0, <1>3, <1>9, SessionsKept DEF CancelOrder
  <2> QED BY <1>3, <1>4, <1>5, <1>6, <2>2, <2>3, OneRequestMoved
<1>10. CASE Deliver(r)
  <2>1. table' = [table EXCEPT ![TableOf(s)] =
                    [row EXCEPT !.total = row.total + order[r].items,
                                !.active = row.active - 1]]
    <3>1. OnOrderLeftActive(OnConsumptionCreated(row, order[r].items))
            = [row EXCEPT !.total = row.total + order[r].items,
                          !.active = row.active - 1]
      BY <1>7 DEF OnOrderLeftActive, OnConsumptionCreated, TableRow
    <3> HIDE DEF row
    <3> QED BY <1>3, <1>7, <1>10, <3>1 DEF Deliver, row
  <2>2. RowMoved(s, - 1, 0, order[r].items)
    BY <1>0, <1>3, <1>7, <1>8, <2>1, RowChanged DEF TableRow
  <2>3. TotalMoved(s, order[r].items)
    BY <1>0, <1>3, <1>10, TableOfSession
    DEF Deliver, TotalMoved, SessionsStand, TypeOK, SessionRow
  <2> QED BY <1>3, <1>4, <1>5, <1>6, <2>2, <2>3, OneRequestMoved
<1> QED BY <1>9, <1>10

\* Requests that keep their session and status are shown as they were.
LEMMA ShownAlike ==
  ASSUME QuickKnown, QuickKnown', QuickFollows,
         \A r \in Requests : /\ request'[r].session = request[r].session
                             /\ request'[r].status = request[r].status
  PROVE  \A s \in Sessions : PendingShown(s)' = PendingShown(s)
<1>1. \A r \in Requests : r \in quick' <=> r \in quick
  BY DEF QuickFollows
<1>2. ASSUME NEW s \in Sessions
      PROVE  /\ PendingRequestsOf(s)' = PendingRequestsOf(s)
             /\ QuickAddsOf(s)' = QuickAddsOf(s)
  BY <1>1 DEF PendingRequestsOf, QuickAddsOf, QuickKnown
<1> QED BY <1>2 DEF PendingShown

\* A line moves the totals only.
LEMMA BillVisiting ==
  ASSUME Accounted, Visiting, QuickKnown, QuickKnown', QuickFollows,
         \A c \in Callers : call'[c].step \in VisitSteps,
         NEW c \in Callers,
         AdjustCommit(c) \/ PartialPaymentCommit(c) \/ RefundCommit(c)
  PROVE  Visiting'
<1>0. Linked /\ TypeOK
  BY DEF Accounted, Consistent, Linked
<1>1. PICK s \in Sessions, a \in Int : SessionExists(s) /\ AddToBill(s, a)
  <2>1. CASE AdjustCommit(c) \/ PartialPaymentCommit(c)
    <3>1. SessionExists(call[c].id) /\ call[c].amt \in Int
      BY <1>0, <2>1 DEF AdjustCommit, PartialPaymentCommit, Finish, Linked,
                        TypeOK, CallState, CallsLinked, CallLinked,
                        SessionSteps, RequestSteps, Steps
    <3>2. - call[c].amt \in Int
      BY <3>1
    <3> QED BY <2>1, <3>1, <3>2 DEF AdjustCommit, PartialPaymentCommit, SessionExists
  <2>2. CASE RefundCommit(c)
    <3>1. PICK e \in Entries : e = call[c].id /\ Refundable(e)
      BY <1>0, <2>2 DEF RefundCommit, Finish, Linked, CallsLinked, CallLinked,
                        Refundable
    <3>2. SessionExists(entry[e].session) /\ entry[e].amount \in Int
      BY <1>0, <3>1 DEF Linked, RowsLinked, Refundable, TypeOK, EntryRow
    <3>3. - entry[e].amount \in Int
      BY <3>2
    <3> QED BY <2>2, <3>1, <3>2, <3>3 DEF RefundCommit, SessionExists
  <2> QED BY <2>1, <2>2
<1>2. UNCHANGED <<request, order>>
  BY DEF AdjustCommit, PartialPaymentCommit, RefundCommit
<1>3. CountsMoved(s, 0, 0)
  <2>1. \A x \in Sessions : /\ ActiveOrdersOf(x)' = ActiveOrdersOf(x)
                            /\ PendingShown(x)' = PendingShown(x)
    BY <1>2, ShownAlike DEF ActiveOrdersOf
  <2>2. /\ table[TableOf(s)].active \in Int
        /\ table[TableOf(s)].pending \in Int
    BY <1>0, <1>1, TableOfSession DEF TableRow
  <2>3. Mirrors(s)
    BY <1>1 DEF Visiting, NonClosed, SessionExists
  <2> QED BY <2>1, <2>2, <2>3 DEF CountsMoved, Mirrors
<1> DEFINE row == table[TableOf(s)]
<1>4. /\ row \in TableRow
      /\ row.active \in Int
      /\ row.pending \in Int
  BY <1>0, <1>1, TableOfSession DEF TableRow
<1>5. table' = [table EXCEPT ![TableOf(s)] = [row EXCEPT !.total = row.total + a]]
  BY <1>1, <1>4, Projections DEF AddToBill
<1>6. RowMoved(s, 0, 0, a)
  <2>1. row.active = row.active + 0 /\ row.pending = row.pending + 0
    <3> HIDE DEF row
    <3> QED BY <1>4
  <2> QED BY <1>0, <1>1, <1>4, <1>5, <2>1, RowChanged DEF TableRow
<1>7. TotalMoved(s, a)
  BY <1>0, <1>1, TableOfSession
  DEF AddToBill, TotalMoved, SessionsStand, TypeOK, SessionRow
<1> QED BY <1>1, <1>3, <1>6, <1>7, MovedTogether DEF Accounted

\* What else happens during a visit is nothing to the projection.
LEMMA StillVisiting ==
  ASSUME Accounted, Visiting, QuickKnown, QuickKnown', QuickFollows,
         \A c \in Callers : call'[c].step \in VisitSteps,
         \/ UNCHANGED rows
         \/ \E c \in Callers : \/ RequestPaymentCommit(c) \/ CancelPaymentCommit(c)
                               \/ UpdateItemsCommit(c)
         \/ \E r \in Requests : Prepare(r) \/ MarkReady(r)
         \/ \E t \in Tables, st \in TableStatuses : UpdateStatus(t, st)
  PROVE  Visiting'
<1>0. Linked /\ TypeOK
  BY DEF Accounted, Consistent, Linked
<1>1. SessionsStand /\ SameTotals
  <2>1. \A s \in Sessions : /\ session'[s].status = session[s].status
                            /\ session'[s].table = session[s].table
                            /\ session'[s].total = session[s].total
    <3>1. CASE session' = session
      BY <3>1
    <3>2. ASSUME NEW c \in Callers, RequestPaymentCommit(c) \/ CancelPaymentCommit(c)
          PROVE  \A s \in Sessions : /\ session'[s].status = session[s].status
                                     /\ session'[s].table = session[s].table
                                     /\ session'[s].total = session[s].total
      BY <1>0, <3>2 DEF RequestPaymentCommit, CancelPaymentCommit, TypeOK, SessionRow
    <3> QED BY <3>1, <3>2 DEF rows, UpdateItemsCommit, Prepare, MarkReady, Advance,
                              UpdateStatus
  <2> QED BY <2>1 DEF SessionsStand, SameTotals
<1>2. \A t \in Tables : /\ table'[t].current = table[t].current
                        /\ table'[t].active = table[t].active
                        /\ table'[t].pending = table[t].pending
                        /\ table'[t].total = table[t].total
  <2>1. CASE table' = table
    BY <2>1
  <2>2. ASSUME NEW t \in Tables, NEW st \in TableStatuses, UpdateStatus(t, st)
        PROVE  \A x \in Tables : /\ table'[x].current = table[x].current
                                 /\ table'[x].active = table[x].active
                                 /\ table'[x].pending = table[x].pending
                                 /\ table'[x].total = table[x].total
    BY <1>0, <2>2 DEF UpdateStatus, TypeOK, TableRow
  <2> QED BY <2>1, <2>2 DEF rows, RequestPaymentCommit, CancelPaymentCommit,
                            UpdateItemsCommit, Prepare, MarkReady, Advance
<1>3. \A r \in Requests : /\ request'[r].session = request[r].session
                          /\ request'[r].status = request[r].status
  <2>1. ASSUME NEW c \in Callers, UpdateItemsCommit(c)
        PROVE  \A r \in Requests : /\ request'[r].session = request[r].session
                                   /\ request'[r].status = request[r].status
    BY <1>0, <2>1 DEF UpdateItemsCommit, TypeOK, RequestRow
  <2>2. CASE request' = request
    BY <2>2
  <2> QED BY <2>1, <2>2 DEF rows, RequestPaymentCommit, CancelPaymentCommit,
                            Prepare, MarkReady, Advance, UpdateStatus
<1>4. \A r \in Requests : order'[r].status \in ActiveOrderStatuses
                            <=> order[r].status \in ActiveOrderStatuses
  <2>1. ASSUME NEW r \in Requests, Prepare(r) \/ MarkReady(r)
        PROVE  \A x \in Requests : order'[x].status \in ActiveOrderStatuses
                                     <=> order[x].status \in ActiveOrderStatuses
    <3>1. PICK st \in {"preparing", "ready"} : order' = [order EXCEPT ![r].status = st]
      BY <2>1 DEF Prepare, MarkReady, Advance
    <3>2. order[r].status \in ActiveOrderStatuses
      BY <2>1 DEF Prepare, MarkReady, Advance, Transitions, ActiveOrderStatuses
    <3> QED BY <1>0, <3>1, <3>2 DEF TypeOK, OrderRow, ActiveOrderStatuses
  <2>2. CASE order' = order
    BY <2>2
  <2> QED BY <2>1, <2>2 DEF rows, RequestPaymentCommit, CancelPaymentCommit,
                            UpdateItemsCommit, UpdateStatus
<1>5. \A s \in Sessions : /\ ActiveOrdersOf(s)' = ActiveOrdersOf(s)
                          /\ PendingShown(s)' = PendingShown(s)
  BY <1>3, <1>4, ShownAlike DEF ActiveOrdersOf
<1> QED BY <1>1, <1>2, <1>5, NothingMoved DEF Accounted

\* A new session has nothing, and its table shows nothing before.
LEMMA OpenVisiting ==
  ASSUME Accounted, Visiting, QuickKnown, QuickKnown', QuickFollows,
         NEW t \in Tables, Open(t)
  PROVE  Visiting'
<1>0. Linked /\ TypeOK /\ RowsLinked /\ OrderIffAccepted /\ CurrentIsLive
  BY DEF Accounted, Consistent, Linked
<1>1. PICK s \in Sessions :
        /\ session[s].status = "none"
        /\ session' = [session EXCEPT ![s] =
                         [@ EXCEPT !.status = "open", !.table = t]]
        /\ table' = [table EXCEPT ![t] = OnSessionOpened(@, s)]
        /\ UNCHANGED <<request, order, entry, call>>
  BY DEF Open
<1>2. table[t].current = None
  <2>1. SUFFICES ASSUME table[t].current # None PROVE FALSE
    OBVIOUS
  <2>2. PICK x \in Sessions : x = table[t].current
    BY <1>0, <2>1 DEF TypeOK, TableRow
  <2>3. session[x].table = t /\ NonClosed(x)
    BY <1>0, <2>1, <2>2 DEF CurrentIsLive, TableOf
  <2> QED BY <2>3 DEF Open, HasNonClosed
<1>3. /\ table'[t].current = s
      /\ table'[t].active = 0
      /\ table'[t].pending = 0
      /\ table'[t].total = 0
      /\ \A x \in Tables \ {t} : table'[x] = table[x]
  <2>1. table[t].active = 0 /\ table[t].pending = 0 /\ table[t].total = 0
    BY <1>2 DEF Visiting
  <2> QED BY <1>0, <1>1, <2>1 DEF OnSessionOpened, TypeOK, TableRow
<1>4. /\ session'[s].status = "open"
      /\ session'[s].table = t
      /\ session'[s].total = session[s].total
      /\ \A x \in Sessions \ {s} : session'[x] = session[x]
  BY <1>0, <1>1 DEF TypeOK, SessionRow
<1>5. session[s].total = 0
  <2>1. LinesOfSession(s) = {}
    BY <1>0, <1>1 DEF LinesOfSession, RowsLinked, SessionExists
  <2>2. Balance({}) = 0
    BY SumEmpty DEF Balance
  <2> QED BY <2>1, <2>2 DEF Accounted, TotalIsBill
<1>6. /\ \A x \in Sessions : /\ ActiveOrdersOf(x)' = ActiveOrdersOf(x)
                             /\ PendingShown(x)' = PendingShown(x)
      /\ ActiveOrdersOf(s) = {}
      /\ PendingRequestsOf(s) = {}
      /\ QuickAddsOf(s) = {}
  <2>1. \A r \in Requests : request[r].status # "none" => request[r].session # s
    BY <1>0, <1>1 DEF RowsLinked, SessionExists
  <2>2. \A r \in Requests : order[r].status \in ActiveOrderStatuses
                              => request[r].status # "none"
    BY <1>0 DEF OrderIffAccepted, ActiveOrderStatuses
  <2>3. QuickAddsOf(s) = {}
    BY <2>1 DEF QuickAddsOf, QuickKnown
  <2>4. \A x \in Sessions : PendingShown(x)' = PendingShown(x)
    BY <1>1, ShownAlike
  <2> QED BY <1>1, <2>1, <2>2, <2>3, <2>4 DEF ActiveOrdersOf, PendingRequestsOf
<1>7. Mirrors(s)'
  <2>1. Cardinality({}) = 0 /\ PendingShown(s) = 0
    BY <1>6, FS_EmptySet DEF PendingShown
  <2> QED BY <1>3, <1>4, <1>5, <1>6, <2>1 DEF Mirrors, TableOf
<1>8. ASSUME NEW x \in Sessions \ {s}, NonClosed(x)'
      PROVE  table'[TableOf(x)'].current = x /\ Mirrors(x)'
  <2>1. NonClosed(x) /\ TableOf(x)' = TableOf(x)
    BY <1>4, <1>8 DEF NonClosed, TableOf
  <2>2. TableOf(x) \in Tables \ {t}
    <3>1. TableOf(x) # t
      BY <2>1 DEF Open, HasNonClosed, TableOf
    <3> QED BY <1>0, <2>1, <3>1, TableOfSession DEF NonClosed, SessionExists
  <2>3. table[TableOf(x)].current = x /\ Mirrors(x)
    BY <2>1 DEF Visiting
  <2> QED BY <1>3, <1>4, <1>6, <2>1, <2>2, <2>3 DEF Mirrors
<1>9. \A x \in Sessions : NonClosed(x)' => table'[TableOf(x)'].current = x /\ Mirrors(x)'
  BY <1>3, <1>4, <1>7, <1>8 DEF TableOf
<1>10. \A x \in Tables : table'[x].current = None => /\ table'[x].active = 0
                                                     /\ table'[x].pending = 0
                                                     /\ table'[x].total = 0
  BY <1>3 DEF Visiting
<1>11. \A x \in Sessions : session'[x].status \in {"none", "open"}
  BY <1>4 DEF Visiting
<1>12. \A c \in Callers : call'[c].step \in VisitSteps
  BY <1>1 DEF Visiting
<1> QED BY <1>9, <1>10, <1>11, <1>12 DEF Visiting

\* Every step of a visit.
LEMMA NextVisiting ==
  ASSUME VisitOnly, Accounted, Visiting, QuickKnown, QuickKnown',
         [Next /\ Observe]_ovars
  PROVE  Visiting'
<1>0. Linked /\ TypeOK /\ QuickFollows /\ [Next]_vars
  BY QuickFollowed DEF Accounted, Consistent, Linked, ovars
<1>1. CASE ReadStep
  <2>1. \A c \in Callers : call'[c].step \in VisitSteps
    BY <1>0, <1>1, VisitCalls DEF Visiting
  <2> QED BY <1>0, <1>1, <2>1, ReadStepLinked, StillVisiting
<1>2. CASE UNCHANGED vars
  <2>1. UNCHANGED rows /\ \A c \in Callers : call'[c].step \in VisitSteps
    BY <1>2 DEF vars, rows, Visiting
  <2> QED BY <1>0, <2>1, StillVisiting
<1>3. ASSUME NEW c \in Callers,
             \/ CloseCommit(c) \/ RequestPaymentCommit(c) \/ CancelPaymentCommit(c)
             \/ VoidCommit(c) \/ MarkPaidCommit(c)
             \/ CreateCommit(c) \/ AcceptCommit(c) \/ QuickAddCommit(c)
             \/ UpdateItemsCommit(c)
             \/ AdjustCommit(c) \/ PartialPaymentCommit(c) \/ RefundCommit(c)
      PROVE  Visiting'
  <2>1. ~ CloseCommit(c) /\ ~ VoidCommit(c) /\ ~ MarkPaidCommit(c)
    BY DEF CloseCommit, VoidCommit, MarkPaidCommit, Finish, Visiting, VisitSteps
  <2>2. call' = [call EXCEPT ![c] = Idle]
    BY <1>3
    DEF CloseCommit, RequestPaymentCommit, CancelPaymentCommit, VoidCommit,
        MarkPaidCommit, CreateCommit, AcceptCommit, QuickAddCommit,
        UpdateItemsCommit, AdjustCommit, PartialPaymentCommit, RefundCommit,
        Finish
  <2>3. \A x \in Callers : call'[x].step \in VisitSteps
    BY <1>0, <2>2 DEF TypeOK, Idle, Visiting, VisitSteps, Steps
  <2> QED BY <1>0, <1>3, <2>1, <2>3, RequestVisiting, BillVisiting, StillVisiting
<1>4. ASSUME NEW r \in Requests,
             \/ Reject(r) \/ CancelByCustomer(r)
             \/ Prepare(r) \/ MarkReady(r) \/ Deliver(r) \/ CancelOrder(r)
      PROVE  Visiting'
  <2>1. call' = call
    BY <1>4 DEF Reject, CancelByCustomer, TerminateRequest, Prepare, MarkReady,
                Advance, Deliver, CancelOrder
  <2>2. \A x \in Callers : call'[x].step \in VisitSteps
    BY <2>1 DEF Visiting
  <2> QED BY <1>0, <1>4, <2>2, RequestVisiting, OrderVisiting, StillVisiting
<1>5. ASSUME NEW t \in Tables,
             Open(t) \/ \E st \in TableStatuses : UpdateStatus(t, st)
      PROVE  Visiting'
  <2>1. CASE \E st \in TableStatuses : UpdateStatus(t, st)
    <3>1. \A x \in Callers : call'[x].step \in VisitSteps
      BY <2>1 DEF UpdateStatus, Visiting
    <3> QED BY <1>0, <2>1, <3>1, StillVisiting
  <2> QED BY <1>0, <1>5, <2>1, OpenVisiting
<1> QED BY <1>0, <1>1, <1>2, <1>3, <1>4, <1>5, NextSplit DEF WriteStep

\* Every table is free at the start.
LEMMA InitVisiting == Init => Visiting
  BY DEF Init, Visiting, FreeTable, NonClosed, Idle, VisitSteps, Steps

\* The projection tells what is there.
LEMMA VisitingMirrors == Consistent /\ Visiting => ProjectionMirrorsSession
<1> SUFFICES ASSUME Consistent, Visiting, NEW t \in Tables, NEW s,
                    s = table[t].current, s # None
             PROVE  /\ table[t].active = Cardinality(ActiveOrdersOf(s))
                    /\ table[t].pending = Cardinality(PendingRequestsOf(s))
                                            - Cardinality(QuickAddsOf(s))
                    /\ table[t].total = session[s].total
  BY DEF ProjectionMirrorsSession
<1>1. s \in Sessions /\ TableOf(s) = t /\ NonClosed(s)
  BY DEF Consistent, Linked, TypeOK, TableRow, CurrentIsLive
<1> QED BY <1>1 DEF Visiting, Mirrors, PendingShown

\* As long as sessions are opened and served but not ended, the counters and the
\* total of a table are those of the session it shows, however the calls overlap,
\* but for one request pending less with each quick-add (TableProjectionService).
THEOREM ProjectionMirrorsSessionAlways ==
  Endpoints \cap {"close", "markPaid", "void"} = {}
    => (OverlapSpec => []ProjectionMirrorsSession)
<1> SUFFICES ASSUME VisitOnly PROVE OverlapSpec => []ProjectionMirrorsSession
  BY DEF VisitOnly
<1>1. OverlapInit => Visiting /\ QuickKnown
  BY InitVisiting DEF OverlapInit, QuickKnown
<1>2. Accounted /\ QuickKnown /\ [Next /\ Observe]_ovars => QuickKnown'
  BY QuickKnownKept DEF Accounted, Consistent
<1>3. Accounted /\ Visiting /\ QuickKnown /\ QuickKnown' /\ [Next /\ Observe]_ovars
        => Visiting'
  BY NextVisiting
<1>4. Accounted /\ Visiting => ProjectionMirrorsSession
  BY VisitingMirrors DEF Accounted
<1>5. OverlapSpec => []Accounted
  BY OverlapIsSpec, AccountedAlways, PTL
<1> QED BY <1>1, <1>2, <1>3, <1>4, <1>5, PTL DEF OverlapSpec

(***************************************************************************)
(* Calls that overlap.  A call knows what it has read until something      *)
(* upsets it; if it writes all the same, the write is recorded as late.    *)
(***************************************************************************)
\* What a call has found out by the time it stands at a step still holds, but
\* for what has happened since (w).
Knows(k, w) ==
  /\ k.step \in {"closeCount", "closeCommit"} =>
       "raised" \in w \/ session[k.id].paid \/ session[k.id].total <= 0
  /\ k.step \in {"closeCommit", "markPaidCommit"} =>
       "started" \in w \/ ActiveOrdersOf(k.id) = {}
  /\ k.step \in {"closeCount", "closeCommit", "markPaidCount", "markPaidCommit"} =>
       "left" \in w \/ NonClosed(k.id) \/ session[k.id].voided
  /\ k.step \in {"requestPaymentActive", "requestPaymentCommit"} =>
       "requested" \in w \/ PendingRequestsOf(k.id) = {}
  /\ k.step = "voidCommit" => /\ "left" \in w \/ NonClosed(k.id)
                              /\ "paid" \in w \/ ~ session[k.id].paid
  /\ k.step = "createCommit" => "asked" \in w \/ ~ session[k.id].payReq
  /\ k.step \in {"acceptCommit", "quickAddCommit", "adjustCommit", "refundCommit"} =>
       "ended" \in w \/ session[SessionOf(k)].status # "closed"
  /\ k.step = "acceptCommit" => "edited" \in w \/ k.amt = request[k.id].items
  /\ k.step = "partialPaymentCommit" =>
       k.amt \in Amounts /\ ("lowered" \in w \/ k.amt <= session[k.id].total)

\* A voided session says so (close and markPaid leave the mark).
VoidMarked == \A s \in Sessions : session[s].status = "void" => session[s].voided

Checked == VoidMarked /\ \A c \in Callers : Knows(call[c], since[c])

\* A payment and a voiding are never taken back.
LEMMA MarksLast ==
  ASSUME Linked, VoidMarked, WriteStep
  PROVE  /\ \A s \in Sessions : /\ session[s].paid => session'[s].paid
                                /\ session[s].voided => session'[s].voided
         /\ VoidMarked'
<1> DEFINE Kept == \A s \in Sessions : /\ session[s].paid => session'[s].paid
                                       /\ session[s].voided => session'[s].voided
                                       /\ session'[s].status = "void" =>
                                            \/ session[s].status = "void"
                                            \/ session'[s].voided
<1> USE DEF Linked, TypeOK, SessionRow
<1>1. ASSUME session' = session PROVE Kept
  BY <1>1
<1>2. ASSUME NEW t \in Tables, Open(t) PROVE Kept
  BY <1>2 DEF Open
<1>3. ASSUME NEW c \in Callers, CloseCommit(c) PROVE Kept
  BY <1>3 DEF CloseCommit
<1>4. ASSUME NEW c \in Callers, RequestPaymentCommit(c) \/ CancelPaymentCommit(c)
      PROVE  Kept
  BY <1>4 DEF RequestPaymentCommit, CancelPaymentCommit
<1>5. ASSUME NEW c \in Callers, VoidCommit(c) PROVE Kept
  BY <1>5 DEF VoidCommit
<1>6. ASSUME NEW c \in Callers, MarkPaidCommit(c) PROVE Kept
  BY <1>6 DEF MarkPaidCommit, Settled
<1>7. ASSUME NEW c \in Callers,
             AdjustCommit(c) \/ PartialPaymentCommit(c) \/ RefundCommit(c)
      PROVE  Kept
  <2>1. PICK s, a : AddToBill(s, a)
    BY <1>7 DEF AdjustCommit, PartialPaymentCommit, RefundCommit
  <2> QED BY <2>1 DEF AddToBill
<1>8. ASSUME NEW r \in Requests, Deliver(r) PROVE Kept
  BY <1>8 DEF Deliver
<1>9. ASSUME NEW c \in Callers, \/ CreateCommit(c) \/ AcceptCommit(c)
                                \/ QuickAddCommit(c) \/ UpdateItemsCommit(c)
      PROVE  session' = session
  BY <1>9 DEF CreateCommit, AcceptCommit, QuickAddCommit, UpdateItemsCommit
<1>10. ASSUME NEW r \in Requests, \/ Reject(r) \/ CancelByCustomer(r)
                                  \/ Prepare(r) \/ MarkReady(r) \/ CancelOrder(r)
       PROVE  session' = session
  BY <1>10 DEF Reject, CancelByCustomer, TerminateRequest, Prepare, MarkReady,
               Advance, CancelOrder
<1>11. ASSUME NEW t \in Tables, NEW st \in TableStatuses, UpdateStatus(t, st)
       PROVE  session' = session
  BY <1>11 DEF UpdateStatus
<1> HIDE DEF Kept
<1>12. Kept
  BY <1>1, <1>2, <1>3, <1>4, <1>5, <1>6, <1>7, <1>8, <1>9, <1>10, <1>11 DEF WriteStep
<1> QED BY <1>12 DEF Kept, VoidMarked

\* A request and a line stay with their session, and an order with its items.
LEMMA OwnersLast ==
  ASSUME Linked, OrderIffAccepted, WriteStep
  PROVE  /\ \A r \in Requests : RequestExists(r) =>
              RequestExists(r)' /\ request'[r].session = request[r].session
         /\ \A e \in Entries : entry[e].type # "none" =>
              entry'[e].type # "none" /\ entry'[e].session = entry[e].session
<1>1. ASSUME NEW e \in Entries, entry[e].type # "none"
      PROVE  entry'[e].type # "none" /\ entry'[e].session = entry[e].session
  BY <1>1, BillEffect DEF SameLines, LineAdded
<1>2. ASSUME NEW r \in Requests, RequestExists(r)
      PROVE  RequestExists(r)' /\ request'[r].session = request[r].session
  <2> USE DEF Linked, TypeOK, RequestRow, RequestExists
  <2>1. CASE request'[r] = request[r]
    BY <1>2, <2>1
  <2>2. ASSUME NEW c \in Callers, CreateCommit(c) \/ QuickAddCommit(c)
        PROVE  request'[r] = request[r]
    BY <1>2, <2>2 DEF CreateCommit, QuickAddCommit
  <2>3. ASSUME NEW q \in Requests, NEW st \in {"accepted", "rejected", "cancelled"},
               request' = [request EXCEPT ![q].status = st]
        PROVE  RequestExists(r)' /\ request'[r].session = request[r].session
    BY <1>2, <2>3
  <2>4. ASSUME NEW c \in Callers, AcceptCommit(c)
        PROVE  request' = [request EXCEPT ![call[c].id].status = "accepted"]
               /\ call[c].id \in Requests
    BY <2>4 DEF AcceptCommit, Finish, CallsLinked, CallLinked, RequestSteps
  <2>5. ASSUME NEW c \in Callers, UpdateItemsCommit(c)
        PROVE  RequestExists(r)' /\ request'[r].session = request[r].session
    BY <1>2, <2>5 DEF UpdateItemsCommit
  <2>6. ASSUME NEW q \in Requests, Reject(q) \/ CancelByCustomer(q)
        PROVE  \E st \in {"rejected", "cancelled"} :
                 request' = [request EXCEPT ![q].status = st]
    BY <2>6 DEF Reject, CancelByCustomer, TerminateRequest
  <2>7. ASSUME NEW c \in Callers,
               \/ CloseCommit(c) \/ RequestPaymentCommit(c)
               \/ CancelPaymentCommit(c) \/ VoidCommit(c) \/ MarkPaidCommit(c)
               \/ AdjustCommit(c) \/ PartialPaymentCommit(c) \/ RefundCommit(c)
        PROVE  request'[r] = request[r]
    BY <2>7 DEF CloseCommit, RequestPaymentCommit, CancelPaymentCommit,
                VoidCommit, MarkPaidCommit, AdjustCommit, PartialPaymentCommit,
                RefundCommit
  <2>8. ASSUME NEW q \in Requests,
               Prepare(q) \/ MarkReady(q) \/ Deliver(q) \/ CancelOrder(q)
        PROVE  request'[r] = request[r]
    BY <2>8 DEF Prepare, MarkReady, Advance, Deliver, CancelOrder
  <2>9. ASSUME NEW t \in Tables,
               Open(t) \/ \E st \in TableStatuses : UpdateStatus(t, st)
        PROVE  request'[r] = request[r]
    BY <2>9 DEF Open, UpdateStatus
  <2> QED BY <2>1, <2>2, <2>3, <2>4, <2>5, <2>6, <2>7, <2>8, <2>9 DEF WriteStep
<1> QED BY <1>1, <1>2

\* A call that goes on waiting knows what nobody has upset.
LEMMA StillKnows ==
  ASSUME Linked, Linked', NEW k \in CallState, CallLinked(k),
         NEW w, Knows(k, w), NEW u, w \subseteq u,
         \A x \in Upsets(k.step) : Happens(x, k) => x \in u,
         \A s \in Sessions : /\ session[s].paid => session'[s].paid
                             /\ session[s].voided => session'[s].voided,
         \A r \in Requests : RequestExists(r) =>
           request'[r].session = request[r].session,
         \A e \in Entries : entry[e].type # "none" =>
           entry'[e].session = entry[e].session
  PROVE  Knows(k, u)'
<1>1. \A x : x \notin u => x \notin w /\ (x \in Upsets(k.step) => ~ Happens(x, k))
  OBVIOUS
<1>2. CASE k.step \in {"closeCount", "closeCommit", "markPaidCount", "markPaidCommit",
                       "requestPaymentActive", "requestPaymentCommit", "voidCommit",
                       "createCommit", "quickAddCommit", "adjustCommit",
                       "partialPaymentCommit"}
  <2>1. k.id \in Sessions /\ SessionOf(k) = k.id /\ SessionOf(k)' = k.id
    BY <1>2 DEF CallLinked, SessionSteps, RequestSteps, Steps, SessionExists,
                SessionOf
  <2>2. /\ session[k.id].total \in Int
        /\ session'[k.id].total \in Int
        /\ k.amt \in Int
    BY <2>1 DEF Linked, TypeOK, SessionRow, CallState
  <2>3. CASE k.step \in {"closeCount", "closeCommit", "markPaidCount",
                         "markPaidCommit"}
    <3>1. k.step \in {"closeCount", "closeCommit"} /\ "raised" \notin u
            => ~ session'[k.id].total > session[k.id].total
      BY <1>1, <2>1 DEF Upsets, Happens
    <3>2. k.step \in {"closeCount", "closeCommit"} =>
            "raised" \in u \/ session'[k.id].paid \/ session'[k.id].total <= 0
      <4>1. ASSUME k.step \in {"closeCount", "closeCommit"}, "raised" \notin u
            PROVE  session[k.id].paid \/ session[k.id].total <= 0
        BY <1>1, <4>1 DEF Knows
      <4> QED BY <2>1, <2>2, <3>1, <4>1
    <3>3. k.step \in {"closeCommit", "markPaidCommit"} =>
            "started" \in u \/ ActiveOrdersOf(k.id)' = {}
      BY <1>1, <2>1 DEF Knows, Upsets, Happens
    <3>4. "left" \in u \/ NonClosed(k.id)' \/ session'[k.id].voided
      BY <1>1, <2>1, <2>3 DEF Knows, Upsets, Happens, NonClosed
    <3> QED BY <2>3, <3>2, <3>3, <3>4 DEF Knows
  <2>4. CASE k.step \in {"requestPaymentActive", "requestPaymentCommit"}
    BY <1>1, <2>1, <2>4 DEF Knows, Upsets, Happens
  <2>5. CASE k.step \in {"voidCommit", "createCommit"}
    BY <1>1, <2>1, <2>5 DEF Knows, Upsets, Happens, NonClosed
  <2>6. CASE k.step \in {"quickAddCommit", "adjustCommit", "partialPaymentCommit"}
    <3>1. k.step = "partialPaymentCommit" /\ "lowered" \notin u
            => ~ session'[k.id].total < session[k.id].total
      BY <1>1, <2>1 DEF Upsets, Happens
    <3>2. k.step = "partialPaymentCommit" =>
            k.amt \in Amounts /\ ("lowered" \in u \/ k.amt <= session'[k.id].total)
      <4>1. ASSUME k.step = "partialPaymentCommit"
            PROVE  k.amt \in Amounts /\ ("lowered" \in w \/ k.amt <= session[k.id].total)
        BY <4>1 DEF Knows
      <4> QED BY <1>1, <2>2, <3>1, <4>1
    <3>3. k.step \in {"quickAddCommit", "adjustCommit"} =>
            "ended" \in u \/ session'[k.id].status # "closed"
      BY <1>1, <2>1 DEF Knows, Upsets, Happens
    <3> QED BY <2>1, <2>6, <3>2, <3>3 DEF Knows
  <2> QED BY <1>2, <2>3, <2>4, <2>5, <2>6
<1>3. CASE k.step \in {"acceptCommit", "refundCommit"}
  <2>1. SessionOf(k) \in Sessions /\ SessionOf(k)' = SessionOf(k)
    BY <1>3 DEF CallLinked, RequestSteps, RequestExists, Refundable, SessionOf,
                Linked, RowsLinked, SessionExists
  <2> QED BY <1>1, <1>3, <2>1 DEF Knows, Upsets, Happens
<1>4. CASE k.step \notin {"closeCount", "closeCommit", "markPaidCount",
                          "markPaidCommit", "requestPaymentActive",
                          "requestPaymentCommit", "voidCommit", "createCommit",
                          "quickAddCommit", "adjustCommit",
                          "partialPaymentCommit", "acceptCommit", "refundCommit"}
  BY <1>4 DEF Knows
<1> QED BY <1>2, <1>3, <1>4

\* A call that goes on to its next statement has found out what it says there.
LEMMA ReadStepKnows ==
  ASSUME Linked, Checked, ReadStep
  PROVE  \E c \in Callers, k \in CallState :
           /\ call' = [call EXCEPT ![c] = k]
           /\ k # Idle => Knows(k, IF call[c] = Idle THEN {} ELSE since[c])
<1> PICK c \in Callers :
    \/ \E s \in Sessions :
         \/ CloseRead(c, s) \/ RequestPaymentRead(c, s)
         \/ CancelPaymentRead(c, s) \/ VoidRead(c, s) \/ MarkPaidRead(c, s)
         \/ \E a \in Amounts : \/ CreateRead(c, s, a) \/ QuickAddRead(c, s, a)
                               \/ AdjustRead(c, s, a) \/ AdjustRead(c, s, - a)
                               \/ PartialPaymentRead(c, s, a)
    \/ \E r \in Requests : \/ AcceptRead(c, r)
                           \/ \E a \in Amounts : UpdateItemsRead(c, r, a)
    \/ \E e \in Entries : RefundRead(c, e)
    \/ CloseCount(c) \/ RequestPaymentCount(c) \/ MarkPaidCount(c)
    \/ Fail(c)
  BY DEF ReadStep
<1> DEFINE Known ==
      \E k \in CallState :
        /\ call' = [call EXCEPT ![c] = k]
        /\ k # Idle => Knows(k, IF call[c] = Idle THEN {} ELSE since[c])
<1> SUFFICES Known
  OBVIOUS
<1>1. ASSUME NEW endpoint, NEW step \in Steps,
             NEW id \in Sessions \cup Requests \cup Entries, NEW amt \in Int,
             Begin(c, endpoint, step, id, amt),
             Knows([step |-> step, id |-> id, amt |-> amt], {})
      PROVE  Known
  BY <1>1 DEF Begin, CallState
<1>2. ASSUME NEW a \in Amounts
      PROVE  a \in Int /\ - a \in Int
  BY ConstantsAssumption
<1>3. call[c] \in CallState /\ CallLinked(call[c]) /\ Knows(call[c], since[c])
  BY DEF Linked, TypeOK, CallsLinked, Checked
<1>4. \A s \in Sessions : NotClosed(s) => NonClosed(s) \/ session[s].voided
  BY DEF NotClosed, NonClosed, Checked, VoidMarked, Linked, TypeOK, SessionRow,
         SessionStatuses
<1>5. ASSUME NEW s \in Sessions,
             \/ CloseRead(c, s) \/ RequestPaymentRead(c, s)
             \/ CancelPaymentRead(c, s) \/ VoidRead(c, s) \/ MarkPaidRead(c, s)
      PROVE  Known
  <2> USE DEF Knows, Steps
  <2> HIDE DEF Known
  <2>0. 0 \in Int
    OBVIOUS
  <2>1. CASE CloseRead(c, s)
    BY <1>1, <1>4, <2>0, <2>1 DEF CloseRead
  <2>2. CASE RequestPaymentRead(c, s)
    BY <1>1, <2>0, <2>2 DEF RequestPaymentRead
  <2>3. CASE CancelPaymentRead(c, s)
    BY <1>1, <2>0, <2>3 DEF CancelPaymentRead
  <2>4. CASE VoidRead(c, s)
    BY <1>1, <1>4, <2>0, <2>4 DEF VoidRead
  <2>5. CASE MarkPaidRead(c, s)
    BY <1>1, <1>4, <2>0, <2>5 DEF MarkPaidRead
  <2> QED BY <1>5, <2>1, <2>2, <2>3, <2>4, <2>5
<1>6. ASSUME NEW s \in Sessions, NEW a \in Amounts,
             \/ CreateRead(c, s, a) \/ QuickAddRead(c, s, a)
             \/ AdjustRead(c, s, a) \/ AdjustRead(c, s, - a)
             \/ PartialPaymentRead(c, s, a)
      PROVE  Known
  <2> USE <1>2 DEF Knows, Steps
  <2> HIDE DEF Known
  <2>1. CASE CreateRead(c, s, a)
    BY <1>1, <2>1 DEF CreateRead, TakesOrders
  <2>2. CASE QuickAddRead(c, s, a)
    BY <1>1, <2>2 DEF QuickAddRead, NotClosed, SessionOf, RequestSteps
  <2>3. CASE AdjustRead(c, s, a)
    BY <1>1, <2>3 DEF AdjustRead, NotClosed, SessionOf, RequestSteps
  <2>4. CASE AdjustRead(c, s, - a)
    BY <1>1, <2>4 DEF AdjustRead, NotClosed, SessionOf, RequestSteps
  <2>5. CASE PartialPaymentRead(c, s, a)
    BY <1>1, <2>5 DEF PartialPaymentRead
  <2> QED BY <1>6, <2>1, <2>2, <2>3, <2>4, <2>5
<1>7. ASSUME NEW r \in Requests,
             AcceptRead(c, r) \/ \E a \in Amounts : UpdateItemsRead(c, r, a)
      PROVE  Known
  <2> USE <1>2 DEF Knows, Steps
  <2> HIDE DEF Known
  <2>1. CASE AcceptRead(c, r)
    <3>1. request[r].items \in Int
      BY <1>2, <2>1 DEF AcceptRead, StillPending, Linked, RowsLinked
    <3> QED BY <1>1, <2>1, <3>1 DEF AcceptRead, NotClosed, SessionOf, RequestSteps
  <2>2. ASSUME NEW a \in Amounts, UpdateItemsRead(c, r, a)
        PROVE  Known
    BY <1>1, <2>2 DEF UpdateItemsRead
  <2> QED BY <1>7, <2>1, <2>2
<1>8. ASSUME NEW e \in Entries, RefundRead(c, e)
      PROVE  Known
  <2>1. 0 \in Int
    OBVIOUS
  <2> QED BY <1>1, <1>8, <2>1 DEF RefundRead, Knows, Steps, NotClosed, SessionOf,
                                  RequestSteps
<1>9. ASSUME NEW from \in Steps \ {"idle"}, NEW to \in Steps, Continue(c, from, to),
             Knows([call[c] EXCEPT !.step = to], since[c])
      PROVE  Known
  <2>1. [call[c] EXCEPT !.step = to] \in CallState
    BY <1>3 DEF CallState
  <2>2. call' = [call EXCEPT ![c] = [call[c] EXCEPT !.step = to]]
    BY <1>9 DEF Continue
  <2>3. call[c] # Idle
    BY <1>9 DEF Continue, Idle
  <2> QED BY <1>9, <2>1, <2>2, <2>3
<1>10. CASE CloseCount(c)
  <2>1. SessionExists(call[c].id)
    BY <1>3, <1>10 DEF CloseCount, Continue, CallLinked, SessionSteps,
                       RequestSteps, Steps
  <2>2. ActiveOrdersOf(call[c].id) = {}
    BY <1>10, <2>1 DEF CloseCount, SessionExists
  <2>3. Knows([call[c] EXCEPT !.step = "closeCommit"], since[c])
    BY <1>3, <1>10, <2>2 DEF CloseCount, Continue, Knows, CallState
  <2> HIDE DEF Known
  <2> QED BY <1>9, <1>10, <2>3 DEF CloseCount, Steps
<1>11. CASE MarkPaidCount(c)
  <2>1. Knows([call[c] EXCEPT !.step = "markPaidCommit"], since[c])
    BY <1>3, <1>11 DEF MarkPaidCount, Continue, Knows, CallState
  <2> HIDE DEF Known
  <2> QED BY <1>9, <1>11, <2>1 DEF MarkPaidCount, Steps
<1>12. CASE RequestPaymentCount(c)
  <2>1. \E from \in {"requestPaymentCounts", "requestPaymentActive",
                     "requestPaymentPending"},
           to \in {"requestPaymentActive", "requestPaymentPending",
                   "requestPaymentCommit"} :
          /\ Continue(c, from, to)
          /\ to # "requestPaymentPending" =>
               "requested" \in since[c] \/ PendingRequestsOf(call[c].id) = {}
    <3>1. CASE CountActive(c, "requestPaymentCounts", "requestPaymentPending")
      BY <3>1 DEF CountActive
    <3>2. CASE CountPending(c, "requestPaymentCounts", "requestPaymentActive")
      BY <3>2 DEF CountPending
    <3>3. CASE CountPending(c, "requestPaymentPending", "requestPaymentCommit")
      BY <3>3 DEF CountPending
    <3>4. CASE CountActive(c, "requestPaymentActive", "requestPaymentCommit")
      BY <1>3, <3>4 DEF CountActive, Continue, Knows
    <3> QED BY <1>12, <3>1, <3>2, <3>3, <3>4 DEF RequestPaymentCount
  <2>2. PICK from \in {"requestPaymentCounts", "requestPaymentActive",
                       "requestPaymentPending"} :
          \E to \in {"requestPaymentActive", "requestPaymentPending",
                     "requestPaymentCommit"} :
            /\ Continue(c, from, to)
            /\ to # "requestPaymentPending" =>
                 "requested" \in since[c] \/ PendingRequestsOf(call[c].id) = {}
    BY <2>1
  <2>3. PICK to \in {"requestPaymentActive", "requestPaymentPending",
                     "requestPaymentCommit"} :
          /\ Continue(c, from, to)
          /\ to # "requestPaymentPending" =>
               "requested" \in since[c] \/ PendingRequestsOf(call[c].id) = {}
    BY <2>2
  <2>4. Knows([call[c] EXCEPT !.step = to], since[c])
    BY <1>3, <2>3 DEF Knows, CallState
  <2>5. from \in Steps \ {"idle"} /\ to \in Steps
    BY DEF Steps
  <2> HIDE DEF Known
  <2> QED BY <1>9, <2>3, <2>4, <2>5
<1>13. CASE Fail(c)
  <2>1. Idle \in CallState
    BY DEF Idle, CallState, Steps
  <2> QED BY <1>13, <2>1 DEF Fail
<1> HIDE DEF Known
<1> QED BY <1>5, <1>6, <1>7, <1>8, <1>10, <1>11, <1>12, <1>13

\* A transaction ends its call and leaves the others waiting.
LEMMA WriteCalls ==
  ASSUME WriteStep
  PROVE  call' = call \/ \E c \in Callers : call' = [call EXCEPT ![c] = Idle]
<1>1. ASSUME NEW c \in Callers,
             \/ CloseCommit(c) \/ RequestPaymentCommit(c) \/ CancelPaymentCommit(c)
             \/ VoidCommit(c) \/ MarkPaidCommit(c)
             \/ CreateCommit(c) \/ AcceptCommit(c) \/ QuickAddCommit(c)
             \/ UpdateItemsCommit(c)
             \/ AdjustCommit(c) \/ PartialPaymentCommit(c) \/ RefundCommit(c)
      PROVE  call' = [call EXCEPT ![c] = Idle]
  BY <1>1
  DEF CloseCommit, RequestPaymentCommit, CancelPaymentCommit, VoidCommit,
      MarkPaidCommit, CreateCommit, AcceptCommit, QuickAddCommit,
      UpdateItemsCommit, AdjustCommit, PartialPaymentCommit, RefundCommit, Finish
<1>2. ASSUME NEW r \in Requests,
             \/ Reject(r) \/ CancelByCustomer(r)
             \/ Prepare(r) \/ MarkReady(r) \/ Deliver(r) \/ CancelOrder(r)
      PROVE  call' = call
  BY <1>2 DEF Reject, CancelByCustomer, TerminateRequest, Prepare, MarkReady,
              Advance, Deliver, CancelOrder
<1>3. ASSUME NEW t \in Tables,
             Open(t) \/ \E st \in TableStatuses : UpdateStatus(t, st)
      PROVE  call' = call
  BY <1>3 DEF Open, UpdateStatus
<1> QED BY <1>1, <1>2, <1>3 DEF WriteStep

\* What a call that stays in flight has behind it.
LEMMA Watched ==
  ASSUME Observe, NEW c \in Callers
  PROVE  since'[c] = Watch(c)
  BY DEF Observe

\* A step that writes no row upsets nothing.
LEMMA NothingHappens ==
  ASSUME Linked, UNCHANGED rows, NEW c \in Callers
  PROVE  Watch(c) = IF call[c] = Idle \/ call'[c] = Idle THEN {} ELSE since[c]
<1>1. UNCHANGED <<session, request, order>>
  BY DEF rows
<1>2. ASSUME NEW x \in Upsets(call[c].step) PROVE ~ Happens(x, call[c])
  <2>1. SUFFICES ASSUME NEW k, k = call[c], Happens(x, k) PROVE FALSE
    OBVIOUS
  <2>2. PICK s \in Sessions : s = SessionOf(k)
    BY <2>1 DEF Happens
  <2>3. /\ NonClosed(s)' <=> NonClosed(s)
        /\ PendingRequestsOf(s)' = PendingRequestsOf(s)
        /\ ActiveOrdersOf(s)' = ActiveOrdersOf(s)
    BY <1>1 DEF NonClosed, PendingRequestsOf, ActiveOrdersOf
  <2>4. session[s].total \in Int
    BY DEF Linked, TypeOK, SessionRow
  <2>5. x \in {"left", "ended", "paid", "asked", "requested", "started", "raised",
               "lowered", "edited"}
    BY DEF Upsets
  <2>6. ~ (session[s].total > session[s].total)
        /\ ~ (session[s].total < session[s].total)
    BY <2>4
  <2>7. ASSUME NEW y \in Sessions, y = SessionOf(k) PROVE y = s
    BY <2>2, <2>7
  <2>8. CASE x \in {"raised", "lowered"}
    BY <1>1, <2>1, <2>6, <2>7, <2>8 DEF Happens
  <2>9. CASE x \notin {"raised", "lowered"}
    BY <1>1, <2>1, <2>3, <2>5, <2>7, <2>9 DEF Happens
  <2> QED BY <2>8, <2>9
<1> QED BY <1>2 DEF Watch

\* Every step leaves every call with what it knows.
LEMMA CheckedKept ==
  ASSUME Linked, Linked', OrderIffAccepted, Checked, [Next /\ Observe]_ovars
  PROVE  Checked'
<1>1. CASE UNCHANGED ovars
  BY <1>1 DEF ovars, vars, Checked, VoidMarked, Knows, NonClosed, ActiveOrdersOf,
              PendingRequestsOf, SessionOf
<1>2. CASE ReadStep /\ Observe
  <2>1. UNCHANGED rows
    BY <1>2, ReadStepLinked
  <2>2. PICK c \in Callers :
          \E k \in CallState :
            /\ call' = [call EXCEPT ![c] = k]
            /\ k # Idle => Knows(k, IF call[c] = Idle THEN {} ELSE since[c])
    BY <1>2, ReadStepKnows
  <2>3. PICK k \in CallState :
          /\ call' = [call EXCEPT ![c] = k]
          /\ k # Idle => Knows(k, IF call[c] = Idle THEN {} ELSE since[c])
    BY <2>2
  <2>4. ASSUME NEW d \in Callers PROVE Knows(call'[d], since'[d])
    <3>1. since'[d] = IF call[d] = Idle \/ call'[d] = Idle THEN {} ELSE since[d]
      BY <1>2, <2>1, Watched, NothingHappens
    <3>2. CASE call'[d] = Idle
      BY <3>2 DEF Idle, Knows
    <3>3. CASE call'[d] # Idle /\ d = c
      <4>1. call'[d] = k
        BY <2>3, <3>3 DEF Linked, TypeOK
      <4> QED BY <2>3, <3>1, <3>3, <4>1
    <3>4. CASE call'[d] # Idle /\ d # c
      <4>1. call'[d] = call[d]
        BY <2>3, <3>4 DEF Linked, TypeOK
      <4> QED BY <3>1, <3>4, <4>1 DEF Checked
    <3> QED BY <3>2, <3>3, <3>4
  <2>5. ASSUME NEW d \in Callers PROVE Knows(call[d], since[d])'
    <3>1. Knows(call'[d], since'[d])
      BY <2>4
    <3> QED BY <2>1, <3>1 DEF rows, Knows, NonClosed, ActiveOrdersOf,
                              PendingRequestsOf, SessionOf
  <2> QED BY <2>1, <2>5 DEF Checked, VoidMarked, rows
<1>3. CASE WriteStep /\ Observe
  <2>1. /\ \A s \in Sessions : /\ session[s].paid => session'[s].paid
                               /\ session[s].voided => session'[s].voided
        /\ VoidMarked'
    BY <1>3, MarksLast DEF Checked
  <2>2. call' = call \/ \E c \in Callers : call' = [call EXCEPT ![c] = Idle]
    BY <1>3, WriteCalls
  <2>3. ASSUME NEW d \in Callers PROVE Knows(call[d], since[d])'
    <3>1. CASE call'[d] = Idle
      BY <3>1 DEF Idle, Knows
    <3>2. CASE call'[d] # Idle
      <4>1. call'[d] = call[d]
        BY <2>2, <3>2 DEF Linked, TypeOK
      <4>2. since'[d] = since[d] \cup {x \in Upsets(call[d].step) : Happens(x, call[d])}
        BY <1>3, <3>2, <4>1, Watched DEF Watch
      <4>3. /\ call[d] \in CallState
            /\ CallLinked(call[d])
            /\ Knows(call[d], since[d])
        BY DEF Linked, TypeOK, CallsLinked, Checked
      <4>4. ASSUME NEW k, k = call[d], NEW u, u = since'[d] PROVE Knows(k, u)'
        BY <1>3, <2>1, <4>2, <4>3, <4>4, StillKnows, OwnersLast
      <4> QED BY <4>1, <4>4 DEF Knows
    <3> QED BY <3>1, <3>2
  <2> QED BY <2>1, <2>3 DEF Checked
<1> QED BY <1>1, <1>2, <1>3, NextSplit

\* Calls may overlap; each knows what it has read or what has upset it.
THEOREM CheckedAlways == OverlapSpec => []Checked
<1>1. OverlapInit => Checked
  BY DEF OverlapInit, Init, Checked, VoidMarked, Knows, Idle
<1>2. Accounted /\ Accounted' /\ Checked /\ [Next /\ Observe]_ovars => Checked'
  BY CheckedKept DEF Accounted, Consistent
<1>3. OverlapSpec => []Accounted
  BY OverlapIsSpec, AccountedAlways, PTL
<1> QED BY <1>1, <1>2, <1>3, PTL DEF OverlapSpec

(***************************************************************************)
(* Late writes.                                                            *)
(***************************************************************************)
\* They are remembered.
LEMMA LateStays ==
  ASSUME Observe, NEW steps, NEW whats, NEW i, Late(steps, whats, i)
  PROVE  Late(steps, whats, i)'
  BY DEF Observe, Late

\* A call that writes in spite of what has happened is recorded.
LEMMA Recorded ==
  ASSUME Observe, NEW c \in Callers, call[c] # Idle, call'[c] = Idle,
         ~ UNCHANGED rows, NEW steps, call[c].step \in steps,
         NEW whats, NEW x \in whats, x \in since[c], NEW i, i \in LaidAt(x, c)
  PROVE  Late(steps, whats, i)'
<1>1. Writes(c)
  BY DEF Writes
<1>2. <<call[c].step, x, i>> \in LateWrites(c)
  BY DEF LateWrites
<1>3. <<call[c].step, x, i>> \in late'
  BY <1>1, <1>2 DEF Observe
<1> QED BY <1>3 DEF Late

(***************************************************************************)
(* Closing and paying.                                                     *)
(***************************************************************************)
LateAccept(s) == Late({"acceptCommit", "quickAddCommit"}, {"ended"}, s)
LateClose(s) == Late({"closeCommit"}, {"raised", "started"}, s)
LateLine(s) == Late({"adjustCommit", "refundCommit"}, {"ended"}, s)
LateMark(s) == Late({"markPaidCommit"}, {"started"}, s)
LateVoid(s) == Late({"voidCommit"}, {"paid"}, s)
LateCreate(s) == Late({"createCommit"}, {"asked"}, s)
LateRequest(s) == Late({"requestPaymentCommit"}, {"requested"}, s)

\* A session ends with nothing being prepared, and paid or with nothing to pay;
\* only a session that ended is paid; nothing is pending while the bill is asked
\* for.  Each of these takes a late write to go wrong.
SessionSound(s) ==
  /\ session[s].status = "closed" /\ ~ session[s].paid =>
       \/ ActiveOrdersOf(s) = {}
       \/ LateClose(s) \/ LateAccept(s)
  /\ session[s].status = "closed" /\ ~ session[s].paid =>
       \/ session[s].total <= 0
       \/ LateClose(s) \/ LateAccept(s) \/ LateLine(s)
  /\ session[s].paid =>
       \/ session[s].status = "closed" /\ ActiveOrdersOf(s) = {}
       \/ LateMark(s) \/ LateAccept(s) \/ LateVoid(s)
  /\ session[s].payReq =>
       \/ PendingRequestsOf(s) = {}
       \/ LateCreate(s) \/ LateRequest(s)

SessionsSound == \A s \in Sessions : SessionSound(s)

\* What went wrong with a session stays wrong.
LEMMA ExcusesStay ==
  ASSUME Observe, NEW s
  PROVE  /\ LateAccept(s) => LateAccept(s)'
         /\ LateClose(s) => LateClose(s)'
         /\ LateLine(s) => LateLine(s)'
         /\ LateMark(s) => LateMark(s)'
         /\ LateVoid(s) => LateVoid(s)'
         /\ LateCreate(s) => LateCreate(s)'
         /\ LateRequest(s) => LateRequest(s)'
  BY LateStays DEF LateAccept, LateClose, LateLine, LateMark, LateVoid, LateCreate,
                   LateRequest

\* A session that is left alone, or loses lines, orders or requests, is as sound
\* as it was.
LEMMA LeftSound ==
  ASSUME Linked, Linked', Observe, NEW s \in Sessions, SessionSound(s),
         session'[s].status = session[s].status,
         session'[s].paid = session[s].paid,
         session'[s].payReq => session[s].payReq,
         session'[s].total <= session[s].total \/ session[s].status # "closed",
         ActiveOrdersOf(s)' \subseteq ActiveOrdersOf(s),
         PendingRequestsOf(s)' \subseteq PendingRequestsOf(s)
  PROVE  SessionSound(s)'
<1>1. session[s].total \in Int /\ session'[s].total \in Int
  BY DEF Linked, TypeOK, SessionRow
<1>2. session'[s].total <= session[s].total /\ session[s].total <= 0
        => session'[s].total <= 0
  BY <1>1
<1> QED BY <1>2, ExcusesStay DEF SessionSound

\* A transaction that changes one session, and gives no other anything to
\* prepare, to decide or to pay.
LEMMA OneSessionSound ==
  ASSUME Linked, Linked', Observe, SessionsSound, NEW s \in Sessions,
         SessionSound(s)',
         \A x \in Sessions \ {s} :
           /\ session'[x].status = session[x].status
           /\ session'[x].paid = session[x].paid
           /\ session'[x].payReq = session[x].payReq
           /\ session'[x].total = session[x].total
           /\ ActiveOrdersOf(x)' \subseteq ActiveOrdersOf(x)
           /\ PendingRequestsOf(x)' \subseteq PendingRequestsOf(x)
  PROVE  SessionsSound'
<1> SUFFICES ASSUME NEW x \in Sessions PROVE SessionSound(x)'
  BY DEF SessionsSound
<1>1. CASE x = s
  BY <1>1
<1>2. CASE x # s
  <2>1. session'[x].total <= session[x].total
    BY <1>2 DEF Linked, TypeOK, SessionRow
  <2> QED BY <1>2, <2>1, LeftSound DEF SessionsSound
<1> QED BY <1>1, <1>2

\* A transaction of a call about a session.
LEMMA CommitOf ==
  ASSUME Linked, Checked, NEW c \in Callers, NEW step \in Steps \ {"idle"},
         Finish(c, step)
  PROVE  /\ call[c].step = step
         /\ call[c] # Idle
         /\ call'[c] = Idle
         /\ CallLinked(call[c])
         /\ Knows(call[c], since[c])
         /\ SessionExists(SessionOf(call[c]))
         /\ step \in SessionSteps => SessionOf(call[c]) = call[c].id
<1>1. /\ call[c].step = step
      /\ call'[c] = Idle
      /\ CallLinked(call[c])
      /\ Knows(call[c], since[c])
  BY DEF Finish, Linked, TypeOK, CallsLinked, Checked
<1>2. call[c] # Idle
  BY <1>1 DEF Idle
<1>3. /\ SessionExists(SessionOf(call[c]))
      /\ step \in SessionSteps => SessionOf(call[c]) = call[c].id
  BY <1>1 DEF CallLinked, SessionSteps, RequestSteps, Steps, RequestExists,
              Refundable, Linked, RowsLinked, SessionOf
<1> QED BY <1>1, <1>2, <1>3

\* One that writes no order and no request, but the row of a session.
LEMMA SessionRowSound ==
  ASSUME Linked, Linked', Observe, SessionsSound, UNCHANGED <<request, order>>,
         NEW s \in Sessions, NEW row, session' = [session EXCEPT ![s] = row],
         row.status = "closed" /\ ~ row.paid =>
           /\ ActiveOrdersOf(s) = {} \/ LateClose(s)' \/ LateAccept(s)'
           /\ row.total <= 0 \/ LateClose(s)' \/ LateAccept(s)' \/ LateLine(s)',
         row.paid =>
           \/ row.status = "closed" /\ ActiveOrdersOf(s) = {}
           \/ LateMark(s)' \/ LateAccept(s)' \/ LateVoid(s)',
         row.payReq => PendingRequestsOf(s) = {} \/ LateCreate(s)' \/ LateRequest(s)'
  PROVE  SessionsSound'
<1>1. session'[s] = row /\ \A x \in Sessions \ {s} : session'[x] = session[x]
  BY DEF Linked, TypeOK
<1>2. \A x \in Sessions : /\ ActiveOrdersOf(x)' = ActiveOrdersOf(x)
                          /\ PendingRequestsOf(x)' = PendingRequestsOf(x)
  BY DEF ActiveOrdersOf, PendingRequestsOf
<1>3. SessionSound(s)'
  BY <1>1, <1>2 DEF SessionSound
<1> QED BY <1>1, <1>2, <1>3, OneSessionSound

\* Opening, closing and paying.
LEMMA SoundSessions ==
  ASSUME Linked, Linked', Checked, Observe, SessionsSound,
         \/ \E t \in Tables : Open(t)
         \/ \E c \in Callers :
              \/ CloseCommit(c) \/ RequestPaymentCommit(c) \/ CancelPaymentCommit(c)
              \/ VoidCommit(c) \/ MarkPaidCommit(c)
  PROVE  SessionsSound'
<1>1. ASSUME NEW t \in Tables, Open(t) PROVE SessionsSound'
  <2>1. PICK s \in Sessions :
          /\ session[s].status = "none"
          /\ session' = [session EXCEPT ![s] =
                           [session[s] EXCEPT !.status = "open", !.table = t]]
          /\ UNCHANGED <<request, order>>
    BY <1>1 DEF Open
  <2> DEFINE row == [session[s] EXCEPT !.status = "open", !.table = t]
  <2>2. /\ row.status = "open"
        /\ row.paid = session[s].paid
        /\ row.payReq = session[s].payReq
    BY DEF Linked, TypeOK, SessionRow
  <2>3. SessionSound(s)
    BY DEF SessionsSound
  <2>4. session[s].paid => LateMark(s)' \/ LateAccept(s)' \/ LateVoid(s)'
    BY <2>1, <2>3, ExcusesStay DEF SessionSound
  <2>5. session[s].payReq => PendingRequestsOf(s) = {} \/ LateCreate(s)' \/ LateRequest(s)'
    BY <2>3, ExcusesStay DEF SessionSound
  <2> HIDE DEF row
  <2>6. session' = [session EXCEPT ![s] = row]
    BY <2>1 DEF row
  <2> QED BY <2>1, <2>2, <2>4, <2>5, <2>6, SessionRowSound
<1>2. ASSUME NEW c \in Callers, NEW step \in SessionSteps, step # "idle",
             Finish(c, step), UNCHANGED <<request, order>>,
             NEW s \in Sessions, s = call[c].id,
             NEW row, session' = [session EXCEPT ![s] = row],
             row.status = "closed" /\ ~ row.paid =>
               /\ \/ ActiveOrdersOf(s) = {}
                  \/ LateClose(s) \/ LateAccept(s) \/ LateClose(s)'
               /\ \/ row.total <= 0
                  \/ LateClose(s) \/ LateAccept(s) \/ LateLine(s) \/ LateClose(s)',
             row.paid =>
               \/ row.status = "closed" /\ ActiveOrdersOf(s) = {}
               \/ LateMark(s) \/ LateAccept(s) \/ LateVoid(s)
               \/ LateMark(s)' \/ LateVoid(s)',
             row.payReq =>
               \/ PendingRequestsOf(s) = {}
               \/ LateCreate(s) \/ LateRequest(s) \/ LateRequest(s)'
      PROVE  SessionsSound'
  BY <1>2, ExcusesStay, SessionRowSound
<1>3. ASSUME NEW c \in Callers,
             \/ CloseCommit(c) \/ RequestPaymentCommit(c) \/ CancelPaymentCommit(c)
             \/ VoidCommit(c) \/ MarkPaidCommit(c)
      PROVE  SessionsSound'
  <2>1. PICK step \in {"closeCommit", "requestPaymentCommit", "cancelPaymentCommit",
                       "voidCommit", "markPaidCommit"} : Finish(c, step)
    BY <1>3 DEF CloseCommit, RequestPaymentCommit, CancelPaymentCommit, VoidCommit,
                MarkPaidCommit
  <2>2. step \in SessionSteps /\ step # "idle" /\ step \in Steps \ {"idle"}
    BY DEF SessionSteps, RequestSteps, Steps
  <2>3. PICK s \in Sessions : s = call[c].id /\ s = SessionOf(call[c])
    BY <2>1, <2>2, CommitOf DEF SessionExists
  <2>4. /\ call[c].step = step
        /\ call[c] # Idle
        /\ call'[c] = Idle
        /\ Knows(call[c], since[c])
    BY <2>1, <2>2, CommitOf
  <2>5. session[s] \in SessionRow /\ SessionSound(s)
    BY DEF Linked, TypeOK, SessionsSound
  <2>6. UNCHANGED <<request, order>>
    BY <1>3 DEF CloseCommit, RequestPaymentCommit, CancelPaymentCommit, VoidCommit,
                MarkPaidCommit
  <2>7. ASSUME session' # session, NEW x, x \in since[c], x \notin {"edited", "lowered"},
               NEW steps, step \in steps, NEW whats, x \in whats
        PROVE  Late(steps, whats, s)'
    <3>1. ~ UNCHANGED rows
      BY <2>7 DEF rows
    <3>2. s \in LaidAt(x, c)
      BY <2>3, <2>7 DEF LaidAt
    <3> QED BY <2>4, <2>7, <3>1, <3>2, Recorded
  <2>8. CASE session' = session
    <3>1. \A x \in Sessions : session[x].total <= session[x].total
      BY DEF Linked, TypeOK, SessionRow
    <3> QED BY <2>5, <2>6, <2>8, <3>1, LeftSound
            DEF SessionsSound, ActiveOrdersOf, PendingRequestsOf
  <2>9. CASE session' # session /\ CloseCommit(c)
    <3> DEFINE row == [session[s] EXCEPT !.status = "closed"]
    <3>1. /\ row.status = "closed"
          /\ row.paid = session[s].paid
          /\ row.total = session[s].total
          /\ row.payReq = session[s].payReq
      BY <2>5 DEF SessionRow
    <3>2. session' = [session EXCEPT ![s] = row]
      BY <2>3, <2>9 DEF CloseCommit
    <3>3. step = "closeCommit"
      BY <2>4, <2>9 DEF CloseCommit, Finish
    <3>4. ActiveOrdersOf(s) = {} \/ LateClose(s)'
      BY <2>3, <2>4, <2>7, <2>9, <3>3 DEF Knows, LateClose
    <3>5. session[s].paid \/ session[s].total <= 0 \/ LateClose(s)'
      BY <2>3, <2>4, <2>7, <2>9, <3>3 DEF Knows, LateClose
    <3> HIDE DEF row
    <3> QED BY <1>2, <2>1, <2>2, <2>3, <2>5, <2>6, <3>1, <3>2, <3>4, <3>5
            DEF SessionSound
  <2>10. CASE session' # session /\ RequestPaymentCommit(c)
    <3> DEFINE row == [session[s] EXCEPT !.payReq = TRUE]
    <3>1. /\ row.status = session[s].status
          /\ row.paid = session[s].paid
          /\ row.total = session[s].total
      BY <2>5 DEF SessionRow
    <3>2. session' = [session EXCEPT ![s] = row]
      BY <2>3, <2>10 DEF RequestPaymentCommit
    <3>3. step = "requestPaymentCommit"
      BY <2>4, <2>10 DEF RequestPaymentCommit, Finish
    <3>4. PendingRequestsOf(s) = {} \/ LateRequest(s)'
      BY <2>3, <2>4, <2>7, <2>10, <3>3 DEF Knows, LateRequest
    <3> HIDE DEF row
    <3> QED BY <1>2, <2>1, <2>2, <2>3, <2>5, <2>6, <3>1, <3>2, <3>4 DEF SessionSound
  <2>11. CASE session' # session /\ CancelPaymentCommit(c)
    <3> DEFINE row == [session[s] EXCEPT !.payReq = FALSE]
    <3>1. /\ row.status = session[s].status
          /\ row.paid = session[s].paid
          /\ row.total = session[s].total
          /\ ~ row.payReq
      BY <2>5 DEF SessionRow
    <3>2. session' = [session EXCEPT ![s] = row]
      BY <2>3, <2>11 DEF CancelPaymentCommit
    <3> HIDE DEF row
    <3> QED BY <1>2, <2>1, <2>2, <2>3, <2>5, <2>6, <3>1, <3>2 DEF SessionSound
  <2>12. CASE session' # session /\ VoidCommit(c)
    <3> DEFINE row == [session[s] EXCEPT !.status = "void", !.voided = TRUE,
                                         !.payReq = FALSE]
    <3>1. /\ row.status = "void"
          /\ row.paid = session[s].paid
          /\ ~ row.payReq
      BY <2>5 DEF SessionRow
    <3>2. session' = [session EXCEPT ![s] = row]
      BY <2>3, <2>12 DEF VoidCommit
    <3>3. step = "voidCommit"
      BY <2>4, <2>12 DEF VoidCommit, Finish
    <3>4. ~ session[s].paid \/ LateVoid(s)'
      BY <2>3, <2>4, <2>7, <2>12, <3>3 DEF Knows, LateVoid
    <3> HIDE DEF row
    <3> QED BY <1>2, <2>1, <2>2, <2>3, <2>6, <3>1, <3>2, <3>4
  <2>13. CASE session' # session /\ MarkPaidCommit(c)
    <3> DEFINE row == Settled(session[s])
    <3>1. row.status = "closed" /\ row.paid /\ ~ row.payReq
      BY <2>5 DEF SessionRow, Settled
    <3>2. session' = [session EXCEPT ![s] = row]
      BY <2>3, <2>13 DEF MarkPaidCommit
    <3>3. step = "markPaidCommit"
      BY <2>4, <2>13 DEF MarkPaidCommit, Finish
    <3>4. ActiveOrdersOf(s) = {} \/ LateMark(s)'
      BY <2>3, <2>4, <2>7, <2>13, <3>3 DEF Knows, LateMark
    <3> HIDE DEF row
    <3> QED BY <1>2, <2>1, <2>2, <2>3, <2>6, <3>1, <3>2, <3>4
  <2> QED BY <1>3, <2>8, <2>9, <2>10, <2>11, <2>12, <2>13
<1> QED BY <1>1, <1>3

\* Requests, decided or not: what is to prepare goes on a session that is not
\* over, what is to decide on one whose bill is not asked for.
LEMMA SoundRequests ==
  ASSUME Linked, Linked', OrderIffAccepted, Checked, Observe, SessionsSound,
         \/ \E c \in Callers : \/ CreateCommit(c) \/ AcceptCommit(c)
                               \/ QuickAddCommit(c) \/ UpdateItemsCommit(c)
         \/ \E r \in Requests : Reject(r) \/ CancelByCustomer(r)
  PROVE  SessionsSound'
<1>1. session' = session
  BY DEF CreateCommit, AcceptCommit, QuickAddCommit, UpdateItemsCommit, Reject,
         CancelByCustomer, TerminateRequest
<1>2. ASSUME NEW s \in Sessions,
             \A x \in Sessions \ {s} : /\ ActiveOrdersOf(x)' \subseteq ActiveOrdersOf(x)
                                       /\ PendingRequestsOf(x)' \subseteq PendingRequestsOf(x),
             \/ session[s].status # "closed" /\ ~ session[s].paid
             \/ LateAccept(s)'
             \/ ActiveOrdersOf(s)' \subseteq ActiveOrdersOf(s),
             \/ ~ session[s].payReq
             \/ LateCreate(s)'
             \/ PendingRequestsOf(s)' \subseteq PendingRequestsOf(s)
      PROVE  SessionsSound'
  <2>1. SessionSound(s)
    BY DEF SessionsSound
  <2>2. SessionSound(s)'
    BY <1>1, <1>2, <2>1, ExcusesStay DEF SessionSound
  <2> QED BY <1>1, <1>2, <2>2, OneSessionSound
<1>3. ASSUME \A s \in Sessions : /\ ActiveOrdersOf(s)' \subseteq ActiveOrdersOf(s)
                                 /\ PendingRequestsOf(s)' \subseteq PendingRequestsOf(s)
      PROVE  SessionsSound'
  <2> SUFFICES ASSUME NEW s \in Sessions PROVE SessionSound(s)'
    BY DEF SessionsSound
  <2>1. session'[s].total <= session[s].total
    BY <1>1 DEF Linked, TypeOK, SessionRow
  <2> QED BY <1>1, <1>3, <2>1, LeftSound DEF SessionsSound
\* A paid session that is not closed was voided late.
<1>4. ASSUME NEW s \in Sessions, session[s].paid, session[s].status # "closed"
      PROVE  LateMark(s)' \/ LateAccept(s)' \/ LateVoid(s)'
  BY <1>4, ExcusesStay DEF SessionsSound, SessionSound
\* A call that gives a session something to prepare.
<1>5. ASSUME NEW s \in Sessions,
             \A x \in Sessions \ {s} : /\ ActiveOrdersOf(x)' \subseteq ActiveOrdersOf(x)
                                       /\ PendingRequestsOf(x)' \subseteq PendingRequestsOf(x),
             PendingRequestsOf(s)' \subseteq PendingRequestsOf(s),
             session[s].status # "closed" \/ LateAccept(s)'
      PROVE  SessionsSound'
  <2>1. SessionSound(s)
    BY DEF SessionsSound
  <2>2. SessionSound(s)'
    BY <1>1, <1>4, <1>5, <2>1, ExcusesStay DEF SessionSound
  <2> QED BY <1>1, <1>5, <2>2, OneSessionSound
<1>6. ASSUME NEW c \in Callers, NEW step \in Steps \ {"idle"}, Finish(c, step),
             request' # request, NEW x, x \in since[c], x \notin {"edited", "lowered"},
             NEW steps, step \in steps, NEW whats, x \in whats,
             NEW s, s = SessionOf(call[c])
      PROVE  Late(steps, whats, s)'
  <2>1. ~ UNCHANGED rows
    BY <1>6 DEF rows
  <2>2. s \in LaidAt(x, c)
    BY <1>6 DEF LaidAt
  <2>3. call[c].step = step /\ call[c] # Idle /\ call'[c] = Idle
    BY <1>6, CommitOf
  <2> QED BY <1>6, <2>1, <2>2, <2>3, Recorded
<1>7. ASSUME NEW c \in Callers, CreateCommit(c) PROVE SessionsSound'
  <2>0. "createCommit" \in Steps \ {"idle"} /\ "createCommit" \in SessionSteps
    BY DEF Steps, SessionSteps, RequestSteps
  <2>1. PICK s \in Sessions : /\ s = call[c].id
                              /\ s = SessionOf(call[c])
                              /\ Finish(c, "createCommit")
    BY <1>7, <2>0, CommitOf DEF CreateCommit, SessionExists
  <2>2. PICK r \in Requests :
          /\ request[r].status = "none"
          /\ request' = [request EXCEPT ![r] = [status |-> "pending",
                           session |-> s, items |-> call[c].amt]]
          /\ order' = order
    BY <1>7, <2>1 DEF CreateCommit
  <2>3. /\ request'[r].session = s
        /\ request'[r].status = "pending"
        /\ order'[r].status = "none"
        /\ \A x \in Requests \ {r} : request'[x] = request[x] /\ order'[x] = order[x]
    BY <2>2 DEF Linked, TypeOK, OrderIffAccepted
  <2>4. ~ session[s].payReq \/ LateCreate(s)'
    <3>1. "asked" \in since[c] \/ ~ session[s].payReq
      BY <2>0, <2>1, CommitOf DEF Knows
    <3>2. request' # request
      BY <2>1, <2>2, <2>3
    <3>3. "asked" \in since[c] => Late({"createCommit"}, {"asked"}, s)'
      BY <1>6, <2>0, <2>1, <2>2, <3>2
    <3> QED BY <3>1, <3>3 DEF LateCreate
  <2>5. /\ \A x \in Sessions : ActiveOrdersOf(x)' \subseteq ActiveOrdersOf(x)
        /\ \A x \in Sessions \ {s} : PendingRequestsOf(x)' \subseteq PendingRequestsOf(x)
    BY <2>3 DEF ActiveOrdersOf, PendingRequestsOf, ActiveOrderStatuses
  <2> QED BY <1>2, <2>4, <2>5
<1>8. ASSUME NEW c \in Callers, AcceptCommit(c) PROVE SessionsSound'
  <2>0. "acceptCommit" \in Steps \ {"idle"}
    BY DEF Steps
  <2>1. PICK r \in Requests : /\ r = call[c].id
                              /\ request[r].status = "pending"
                              /\ Finish(c, "acceptCommit")
                              /\ SessionOf(call[c]) = request[r].session
    BY <1>8, <2>0, CommitOf DEF AcceptCommit, CallLinked, RequestSteps,
                                RequestExists, StillPending, SessionOf
  <2>2. PICK s \in Sessions : s = request[r].session
    BY <2>1 DEF Linked, RowsLinked, SessionExists
  <2>3. /\ request' = [request EXCEPT ![r].status = "accepted"]
        /\ order' = [order EXCEPT ![r] = NewOrder(call[c].amt)]
    BY <1>8, <2>1 DEF AcceptCommit
  <2>4. /\ request'[r].session = s
        /\ request'[r].status = "accepted"
        /\ \A x \in Requests \ {r} : request'[x] = request[x] /\ order'[x] = order[x]
    BY <2>2, <2>3 DEF Linked, TypeOK, RequestRow
  <2>5. session[s].status # "closed" \/ LateAccept(s)'
    <3>1. "ended" \in since[c] \/ session[s].status # "closed"
      BY <2>0, <2>1, <2>2, CommitOf DEF Knows
    <3>2. request' # request
      BY <2>1, <2>2, <2>4
    <3>3. "ended" \in since[c] => Late({"acceptCommit", "quickAddCommit"}, {"ended"}, s)'
      BY <1>6, <2>0, <2>1, <2>2, <3>2
    <3> QED BY <3>1, <3>3 DEF LateAccept
  <2>6. /\ \A x \in Sessions \ {s} : ActiveOrdersOf(x)' \subseteq ActiveOrdersOf(x)
        /\ \A x \in Sessions : PendingRequestsOf(x)' \subseteq PendingRequestsOf(x)
    BY <2>4 DEF ActiveOrdersOf, PendingRequestsOf
  <2> QED BY <1>5, <2>5, <2>6
<1>9. ASSUME NEW c \in Callers, QuickAddCommit(c) PROVE SessionsSound'
  <2>0. "quickAddCommit" \in Steps \ {"idle"} /\ "quickAddCommit" \in SessionSteps
    BY DEF Steps, SessionSteps, RequestSteps
  <2>1. PICK s \in Sessions : /\ s = call[c].id
                              /\ s = SessionOf(call[c])
                              /\ Finish(c, "quickAddCommit")
    BY <1>9, <2>0, CommitOf DEF QuickAddCommit, SessionExists
  <2>2. PICK r \in Requests :
          /\ request[r].status = "none"
          /\ request' = [request EXCEPT ![r] = [status |-> "accepted",
                           session |-> s, items |-> call[c].amt]]
          /\ order' = [order EXCEPT ![r] = NewOrder(call[c].amt)]
    BY <1>9, <2>1 DEF QuickAddCommit
  <2>3. /\ request'[r].session = s
        /\ request'[r].status = "accepted"
        /\ \A x \in Requests \ {r} : request'[x] = request[x] /\ order'[x] = order[x]
    BY <2>2 DEF Linked, TypeOK
  <2>4. session[s].status # "closed" \/ LateAccept(s)'
    <3>1. "ended" \in since[c] \/ session[s].status # "closed"
      BY <2>0, <2>1, CommitOf DEF Knows
    <3>2. request' # request
      BY <2>1, <2>2, <2>3
    <3>3. "ended" \in since[c] => Late({"acceptCommit", "quickAddCommit"}, {"ended"}, s)'
      BY <1>6, <2>0, <2>1, <2>2, <3>2
    <3> QED BY <3>1, <3>3 DEF LateAccept
  <2>5. /\ \A x \in Sessions \ {s} : ActiveOrdersOf(x)' \subseteq ActiveOrdersOf(x)
        /\ \A x \in Sessions : PendingRequestsOf(x)' \subseteq PendingRequestsOf(x)
    BY <2>3 DEF ActiveOrdersOf, PendingRequestsOf
  <2> QED BY <1>5, <2>4, <2>5
<1>10. ASSUME NEW c \in Callers, UpdateItemsCommit(c) PROVE SessionsSound'
  <2>1. order' = order /\ \A r \in Requests : /\ request'[r].status = request[r].status
                                              /\ request'[r].session = request[r].session
    BY <1>10 DEF UpdateItemsCommit, Linked, TypeOK, RequestRow
  <2> QED BY <1>3, <2>1 DEF ActiveOrdersOf, PendingRequestsOf
<1>11. ASSUME NEW r \in Requests, Reject(r) \/ CancelByCustomer(r)
       PROVE  SessionsSound'
  <2>1. PICK target \in {"rejected", "cancelled"} :
          request' = [request EXCEPT ![r].status = target] /\ order' = order
    BY <1>11 DEF Reject, CancelByCustomer, TerminateRequest
  <2>2. \A x \in Requests : /\ request'[x].session = request[x].session
                            /\ request'[x].status \in {request[x].status, target}
    BY <2>1 DEF Linked, TypeOK, RequestRow
  <2> QED BY <1>3, <2>1, <2>2 DEF ActiveOrdersOf, PendingRequestsOf
<1> QED BY <1>7, <1>8, <1>9, <1>10, <1>11

\* Orders: one that is handed over after its session was closed was started
\* late, or missed by the close.
LEMMA SoundOrders ==
  ASSUME Linked, Linked', OrderIffAccepted, Observe, SessionsSound, NEW r \in Requests,
         Prepare(r) \/ MarkReady(r) \/ Deliver(r) \/ CancelOrder(r)
  PROVE  SessionsSound'
<1>1. /\ request' = request
      /\ order[r].status \in ActiveOrderStatuses
      /\ \E st \in OrderStatuses : order' = [order EXCEPT ![r].status = st]
  BY DEF Prepare, MarkReady, Advance, Deliver, CancelOrder, Transitions,
         ActiveOrderStatuses, OrderStatuses
<1>2. \A x \in Sessions : /\ ActiveOrdersOf(x)' \subseteq ActiveOrdersOf(x)
                          /\ PendingRequestsOf(x)' \subseteq PendingRequestsOf(x)
  BY <1>1 DEF ActiveOrdersOf, PendingRequestsOf, Linked, TypeOK
<1>3. CASE session' = session
  <2> SUFFICES ASSUME NEW s \in Sessions PROVE SessionSound(s)'
    BY DEF SessionsSound
  <2>1. session'[s].total <= session[s].total
    BY <1>3 DEF Linked, TypeOK, SessionRow
  <2> QED BY <1>2, <1>3, <2>1, LeftSound DEF SessionsSound
<1>4. CASE Deliver(r)
  <2>1. PICK s \in Sessions : s = request[r].session
    BY <1>1 DEF Linked, RowsLinked, OrderIffAccepted, ActiveOrderStatuses,
                SessionExists
  <2>2. SessionSound(s) /\ ActiveOrdersOf(s) # {}
    BY <1>1, <2>1 DEF SessionsSound, ActiveOrdersOf
  <2>3. /\ \A x \in Sessions : /\ session'[x].status = session[x].status
                               /\ session'[x].paid = session[x].paid
                               /\ session'[x].payReq = session[x].payReq
        /\ \A x \in Sessions \ {s} : session'[x] = session[x]
    BY <1>4, <2>1 DEF Deliver, Linked, TypeOK, SessionRow
  <2>4. SessionSound(s)'
    BY <1>2, <2>2, <2>3, ExcusesStay DEF SessionSound
  <2> QED BY <1>2, <2>3, <2>4, OneSessionSound
<1> QED BY <1>3, <1>4 DEF Prepare, MarkReady, Advance, CancelOrder

\* Lines go on the bills of sessions that are not over.
LEMMA SoundBill ==
  ASSUME Linked, Linked', Checked, Observe, SessionsSound, NEW c \in Callers,
         AdjustCommit(c) \/ PartialPaymentCommit(c) \/ RefundCommit(c)
  PROVE  SessionsSound'
<1>1. PICK step \in {"adjustCommit", "partialPaymentCommit", "refundCommit"} :
        Finish(c, step)
  BY DEF AdjustCommit, PartialPaymentCommit, RefundCommit
<1>2. step \in Steps \ {"idle"}
  BY DEF Steps
<1>3. PICK s \in Sessions : s = SessionOf(call[c])
  BY <1>1, <1>2, CommitOf DEF SessionExists
<1>4. /\ call[c].step = step
      /\ call[c] # Idle
      /\ call'[c] = Idle
      /\ Knows(call[c], since[c])
  BY <1>1, <1>2, CommitOf
<1>5. \E a : AddToBill(s, a) /\ (step = "partialPaymentCommit" => a = - call[c].amt)
  <2>1. CASE AdjustCommit(c) \/ PartialPaymentCommit(c)
    BY <1>3, <1>4, <2>1 DEF AdjustCommit, PartialPaymentCommit, Finish, SessionOf,
                            RequestSteps
  <2>2. CASE RefundCommit(c)
    BY <1>3, <1>4, <2>2 DEF RefundCommit, Finish, SessionOf, RequestSteps
  <2> QED BY <2>1, <2>2
<1>6. /\ \A x \in Sessions : /\ session'[x].status = session[x].status
                             /\ session'[x].paid = session[x].paid
                             /\ session'[x].payReq = session[x].payReq
      /\ \A x \in Sessions \ {s} : session'[x] = session[x]
  BY <1>5 DEF AddToBill, Linked, TypeOK, SessionRow
<1>7. \A x \in Sessions : /\ ActiveOrdersOf(x)' = ActiveOrdersOf(x)
                          /\ PendingRequestsOf(x)' = PendingRequestsOf(x)
  BY DEF AdjustCommit, PartialPaymentCommit, RefundCommit, ActiveOrdersOf,
         PendingRequestsOf
<1>8. SessionSound(s)
  BY DEF SessionsSound
<1>9. CASE step = "partialPaymentCommit"
  <2>1. session'[s].total = session[s].total + (- call[c].amt)
    BY <1>5, <1>9 DEF AddToBill, Linked, TypeOK, SessionRow
  <2>2. call[c].amt \in Amounts
    BY <1>4, <1>9 DEF Knows
  <2>3. call[c].amt \in Nat
    BY <2>2, ConstantsAssumption
  <2>4. session[s].total \in Int
    BY DEF Linked, TypeOK, SessionRow
  <2>5. session'[s].total <= session[s].total
    BY <2>1, <2>3, <2>4
  <2>6. SessionSound(s)'
    BY <1>6, <1>7, <1>8, <2>5, LeftSound
  <2> QED BY <1>6, <1>7, <2>6, OneSessionSound
<1>10. CASE step # "partialPaymentCommit" /\ session' # session
  <2>1. session[s].status # "closed" \/ LateLine(s)'
    <3>1. "ended" \in since[c] \/ session[s].status # "closed"
      BY <1>3, <1>4, <1>10 DEF Knows
    <3>2. ~ UNCHANGED rows
      BY <1>10 DEF rows
    <3>3. s \in LaidAt("ended", c)
      BY <1>3 DEF LaidAt
    <3> QED BY <1>4, <1>10, <3>1, <3>2, <3>3, Recorded DEF LateLine
  <2>2. SessionSound(s)'
    BY <1>6, <1>7, <1>8, <2>1, ExcusesStay DEF SessionSound
  <2> QED BY <1>6, <1>7, <2>2, OneSessionSound
<1>11. CASE session' = session
  <2>1. session'[s].total <= session[s].total
    BY <1>11 DEF Linked, TypeOK, SessionRow
  <2>2. SessionSound(s)'
    BY <1>7, <1>8, <1>11, <2>1, LeftSound
  <2> QED BY <1>6, <1>7, <2>2, OneSessionSound
<1> QED BY <1>9, <1>10, <1>11

\* Every step, however calls overlap.
LEMMA SoundKept ==
  ASSUME Linked, Linked', OrderIffAccepted, Checked, SessionsSound,
         [Next /\ Observe]_ovars
  PROVE  SessionsSound'
<1>1. CASE UNCHANGED ovars
  BY <1>1 DEF ovars, vars, SessionsSound, SessionSound, ActiveOrdersOf,
              PendingRequestsOf, LateAccept, LateClose, LateLine, LateMark, LateVoid,
              LateCreate, LateRequest, Late
<1>2. ASSUME Observe, UNCHANGED <<session, request, order>> PROVE SessionsSound'
  <2> SUFFICES ASSUME NEW s \in Sessions PROVE SessionSound(s)'
    BY DEF SessionsSound
  <2>1. session'[s].total <= session[s].total
    BY <1>2 DEF Linked, TypeOK, SessionRow
  <2>2. /\ ActiveOrdersOf(s)' = ActiveOrdersOf(s)
        /\ PendingRequestsOf(s)' = PendingRequestsOf(s)
    BY <1>2 DEF ActiveOrdersOf, PendingRequestsOf
  <2> QED BY <1>2, <2>1, <2>2, LeftSound DEF SessionsSound
<1>3. CASE ReadStep /\ Observe
  <2>1. UNCHANGED rows
    BY <1>3, ReadStepLinked
  <2> QED BY <1>2, <1>3, <2>1 DEF rows
<1>4. CASE WriteStep /\ Observe
  <2>1. ASSUME NEW t \in Tables, NEW st \in TableStatuses, UpdateStatus(t, st)
        PROVE  SessionsSound'
    BY <1>2, <1>4, <2>1 DEF UpdateStatus
  <2> QED BY <1>4, <2>1, SoundSessions, SoundRequests, SoundOrders, SoundBill
          DEF WriteStep
<1> QED BY <1>1, <1>3, <1>4, NextSplit

\* No session is closed and none is paid at the start.
LEMMA InitSound == Init => SessionsSound
  BY DEF Init, SessionsSound, SessionSound

\* However calls overlap, it takes a late write to make a session unsound
\* (the validations of TableSessionsService, OrderRequestsService and
\* ConsumptionsService).
THEOREM SessionsSoundAlways == OverlapSpec => []SessionsSound
<1>1. OverlapInit => SessionsSound
  BY InitSound DEF OverlapInit
<1>2. Accounted /\ Accounted' /\ Checked /\ SessionsSound /\ [Next /\ Observe]_ovars
        => SessionsSound'
  BY SoundKept DEF Accounted, Consistent
<1>3. OverlapSpec => []Accounted
  BY OverlapIsSpec, AccountedAlways, PTL
<1> QED BY <1>1, <1>2, <1>3, CheckedAlways, PTL DEF OverlapSpec

\* A session closed with something to pay was closed late, or given an order or
\* a line late (close, accept, createAndAccept, ConsumptionsService).
THEOREM NoLimboSessionAlways == OverlapSpec => []NoLimboSession
<1>1. Linked /\ SessionsSound => NoLimboSession
  <2> SUFFICES ASSUME Linked, SessionsSound, NEW s \in Sessions,
                      session[s].status = "closed", ~ session[s].paid,
                      session[s].total > 0
               PROVE  \/ Late({"closeCommit"}, {"raised", "started"}, s)
                      \/ Late({"acceptCommit", "quickAddCommit", "adjustCommit",
                               "refundCommit"}, {"ended"}, s)
    BY DEF NoLimboSession
  <2>1. session[s].total \in Int
    BY DEF Linked, TypeOK, SessionRow
  <2>2. ~ (session[s].total <= 0)
    BY <2>1
  <2>3. LateClose(s) \/ LateAccept(s) \/ LateLine(s)
    BY <2>2 DEF SessionsSound, SessionSound
  <2> QED BY <2>3 DEF LateClose, LateAccept, LateLine, Late
<1>2. OverlapSpec => []Linked
  BY OverlapIsSpec, LinkedAlways, PTL
<1> QED BY <1>1, <1>2, SessionsSoundAlways, PTL

\* What is pending while the bill is asked for was missed by requestPayment, or
\* missed it (requestPayment, create).
THEOREM NothingPendingWhileAskedAlways == OverlapSpec => []NothingPendingWhileAsked
<1>1. SessionsSound => NothingPendingWhileAsked
  BY DEF SessionsSound, SessionSound, NothingPendingWhileAsked, LateCreate,
         LateRequest
<1> QED BY <1>1, SessionsSoundAlways, PTL

\* What is prepared for a paid session was missed by markPaid, or missed its
\* end, or the session was voided late (markPaid, accept, voidSession).
THEOREM NoActiveOrderWhenPaidAlways == OverlapSpec => []NoActiveOrderWhenPaid
<1>1. SessionsSound => NoActiveOrderWhenPaid
  BY DEF SessionsSound, SessionSound, NoActiveOrderWhenPaid, LateMark, LateAccept,
         LateVoid
<1> QED BY <1>1, SessionsSoundAlways, PTL

(***************************************************************************)
(* The tables.  An open session that its table does not show was hidden by *)
(* the second end of another one.                                          *)
(***************************************************************************)
EndedTwice(x) ==
  \/ Late({"closeCommit", "markPaidCommit", "voidCommit"}, {"left"}, x)
  \/ session[x].voided /\ session[x].status = "closed"

Hidden(s) == \E x \in Sessions \ {s} : /\ SessionExists(x)
                                       /\ TableOf(x) = TableOf(s)
                                       /\ EndedTwice(x)

Shown == \A s \in Sessions :
           NonClosed(s) /\ table[TableOf(s)].current # s => Hidden(s)

\* A session that ends for the second time is recorded, or was voided first.
LEMMA SecondEnd ==
  ASSUME Linked, Checked, Observe, NEW c \in Callers, Ends(c),
         NEW s \in Sessions, s = call[c].id, ~ NonClosed(s),
         session[s].voided => session'[s].voided,
         session'[s].status = IF VoidCommit(c) THEN "void" ELSE "closed",
         ~ UNCHANGED rows
  PROVE  EndedTwice(s)'
<1>1. PICK step \in {"closeCommit", "markPaidCommit", "voidCommit"} :
        Finish(c, step) /\ (step = "voidCommit" <=> VoidCommit(c))
  BY DEF Ends, CloseCommit, MarkPaidCommit, VoidCommit, Finish
<1>2. step \in Steps \ {"idle"} /\ step \in SessionSteps
  BY DEF Steps, SessionSteps, RequestSteps
<1>3. /\ call[c].step = step
      /\ call[c] # Idle
      /\ call'[c] = Idle
      /\ Knows(call[c], since[c])
      /\ SessionOf(call[c]) = s
  BY <1>1, <1>2, CommitOf
<1>4. "left" \in since[c] \/ (session[s].voided /\ step # "voidCommit")
  BY <1>3 DEF Knows
<1>5. CASE "left" \in since[c]
  <2>1. s \in LaidAt("left", c)
    BY <1>3 DEF LaidAt
  <2> QED BY <1>3, <1>5, <2>1, Recorded DEF EndedTwice
<1>6. CASE session[s].voided /\ step # "voidCommit"
  BY <1>1, <1>6 DEF EndedTwice
<1> QED BY <1>4, <1>5, <1>6

\* A session that ended twice has done so for good.
LEMMA EndedTwiceStays ==
  ASSUME Linked, Checked, Observe, WriteStep, NEW x \in Sessions,
         SessionExists(x), EndedTwice(x)
  PROVE  SessionExists(x)' /\ TableOf(x)' = TableOf(x) /\ EndedTwice(x)'
<1>1. session[x].voided => session'[x].voided
  BY MarksLast DEF Checked
<1>2. Late({"closeCommit", "markPaidCommit", "voidCommit"}, {"left"}, x) =>
        Late({"closeCommit", "markPaidCommit", "voidCommit"}, {"left"}, x)'
  BY LateStays
<1>3. CASE SameShown
  BY <1>1, <1>2, <1>3 DEF SameShown, SessionExists, TableOf, EndedTwice
<1>4. ASSUME NEW t \in Tables, Open(t)
      PROVE  session'[x] = session[x]
  <2>1. PICK s \in Sessions :
          /\ session[s].status = "none"
          /\ session' = [session EXCEPT ![s] =
                           [@ EXCEPT !.status = "open", !.table = t]]
    BY <1>4 DEF Open
  <2> QED BY <2>1 DEF SessionExists, Linked, TypeOK
<1>5. ASSUME NEW c \in Callers, Ends(c)
      PROVE  SessionExists(x)' /\ TableOf(x)' = TableOf(x) /\ EndedTwice(x)'
  <2>1. PICK s \in Sessions :
          /\ s = call[c].id
          /\ \A y \in Sessions : session'[y].table = session[y].table
          /\ \A y \in Sessions \ {s} : session'[y] = session[y]
          /\ session'[s].status = IF VoidCommit(c) THEN "void" ELSE "closed"
    BY <1>5, EndEffect
  <2>2. CASE x # s
    BY <1>2, <2>1, <2>2 DEF SessionExists, TableOf, EndedTwice
  <2>3. CASE x = s
    <3>1. SessionExists(x)' /\ TableOf(x)' = TableOf(x)
      BY <2>1, <2>3 DEF SessionExists, TableOf
    <3>2. CASE session' = session
      BY <1>2, <3>1, <3>2 DEF EndedTwice
    <3>3. CASE session' # session /\ session[x].voided /\ session[x].status = "closed"
      <4>1. ~ NonClosed(s) /\ ~ UNCHANGED rows
        BY <2>3, <3>3 DEF NonClosed, rows
      <4>2. EndedTwice(s)'
        BY <1>1, <1>5, <2>1, <2>3, <4>1, SecondEnd
      <4> QED BY <2>3, <3>1, <4>2
    <3> QED BY <1>2, <3>1, <3>2, <3>3 DEF EndedTwice
  <2> QED BY <2>2, <2>3
<1> QED BY <1>2, <1>3, <1>4, <1>5, OpenOrEnd DEF SessionExists, TableOf, EndedTwice

\* Every step hides a session that way only.
LEMMA ShownKept ==
  ASSUME Linked, Checked, OneActiveSession, Shown, [Next /\ Observe]_ovars
  PROVE  Shown'
<1>1. CASE UNCHANGED ovars
  BY <1>1 DEF ovars, vars, Shown, Hidden, EndedTwice, NonClosed, TableOf,
              SessionExists, Late
<1>2. CASE ReadStep /\ Observe
  <2>1. UNCHANGED rows
    BY <1>2, ReadStepLinked
  <2>2. \A x : EndedTwice(x) => EndedTwice(x)'
    BY <1>2, <2>1, LateStays DEF rows, EndedTwice
  <2> QED BY <2>1, <2>2 DEF rows, Shown, Hidden, NonClosed, TableOf, SessionExists
<1>3. CASE WriteStep /\ Observe
  <2> SUFFICES ASSUME NEW s \in Sessions, NonClosed(s)',
                      table'[TableOf(s)'].current # s
               PROVE  Hidden(s)'
    BY DEF Shown
  <2>1. ASSUME SessionExists(s), TableOf(s)' = TableOf(s), Hidden(s)
        PROVE  Hidden(s)'
    BY <1>3, <2>1, EndedTwiceStays DEF Hidden
  <2>2. CASE SameShown
    BY <2>1, <2>2 DEF SameShown, Shown, NonClosed, TableOf, SessionExists,
                      Linked, RowsLinked
  <2>3. ASSUME NEW t \in Tables, Open(t) PROVE Hidden(s)'
    <3>1. PICK n \in Sessions :
            /\ session[n].status = "none"
            /\ session' = [session EXCEPT ![n] =
                             [@ EXCEPT !.status = "open", !.table = t]]
            /\ table' = [table EXCEPT ![t] = OnSessionOpened(@, n)]
            /\ ~ HasNonClosed(t)
      BY <2>3 DEF Open
    <3>2. s # n
      BY <3>1 DEF TableOf, OnSessionOpened, Linked, TypeOK, SessionRow, TableRow
    <3>3. session'[s] = session[s]
      BY <3>1, <3>2 DEF Linked, TypeOK
    <3>4. NonClosed(s) /\ SessionExists(s) /\ TableOf(s)' = TableOf(s)
          /\ TableOf(s) \in Tables
      BY <3>3 DEF NonClosed, SessionExists, TableOf, Linked, RowsLinked
    <3>5. TableOf(s) # t
      BY <3>1, <3>4 DEF HasNonClosed, TableOf
    <3>6. table'[TableOf(s)] = table[TableOf(s)]
      BY <3>1, <3>4, <3>5 DEF Linked, TypeOK
    <3> QED BY <2>1, <3>4, <3>6 DEF Shown
  <2>4. ASSUME NEW c \in Callers, Ends(c) PROVE Hidden(s)'
    <3>1. PICK x \in Sessions :
            /\ x = call[c].id
            /\ TableOf(x) \in Tables
            /\ \A y \in Sessions : session'[y].table = session[y].table
            /\ \A y \in Sessions \ {x} : session'[y] = session[y]
            /\ session'[x].status = IF VoidCommit(c) THEN "void" ELSE "closed"
            /\ table' = [table EXCEPT ![TableOf(x)] = FreeTable]
      BY <2>4, EndEffect
    <3>2. s # x
      BY <3>1 DEF NonClosed
    <3>3. NonClosed(s) /\ SessionExists(s) /\ TableOf(s)' = TableOf(s)
          /\ TableOf(s) \in Tables
      BY <3>1, <3>2 DEF NonClosed, SessionExists, TableOf, Linked, RowsLinked
    <3>4. CASE table[TableOf(s)].current # s
      BY <2>1, <3>3, <3>4 DEF Shown
    <3>5. CASE table[TableOf(s)].current = s
      <4>1. TableOf(x) = TableOf(s) /\ ~ UNCHANGED rows
        BY <3>1, <3>3, <3>5 DEF rows, Linked, TypeOK
      <4>2. ~ NonClosed(x)
        BY <3>2, <3>3, <4>1 DEF OneActiveSession
      <4>3. session[x].voided => session'[x].voided
        BY <1>3, MarksLast DEF Checked
      <4>4. EndedTwice(x)'
        BY <1>3, <2>4, <3>1, <4>1, <4>2, <4>3, SecondEnd
      <4>5. SessionExists(x)' /\ TableOf(x)' = TableOf(s)'
        BY <3>1, <3>3, <4>1 DEF SessionExists, TableOf
      <4> QED BY <3>2, <4>4, <4>5 DEF Hidden
    <3> QED BY <3>4, <3>5
  <2> QED BY <1>3, <2>2, <2>3, <2>4, OpenOrEnd
<1> QED BY <1>1, <1>2, <1>3, NextSplit

\* A table shows its open session, unless another session of the table ended
\* twice (TableProjectionService.onSessionClosed resets the table both times).
THEOREM OpenIsShownAlways == OverlapSpec => []OpenIsShown
<1>1. OverlapInit => Shown
  BY DEF OverlapInit, Init, Shown, NonClosed
<1>2. Accounted /\ Checked /\ Shown /\ [Next /\ Observe]_ovars => Shown'
  BY ShownKept DEF Accounted, Consistent
<1>3. Shown => OpenIsShown
  BY DEF Shown, Hidden, EndedTwice, OpenIsShown
<1>4. OverlapSpec => []Accounted
  BY OverlapIsSpec, AccountedAlways, PTL
<1> QED BY <1>1, <1>2, <1>3, <1>4, CheckedAlways, PTL DEF OverlapSpec

(***************************************************************************)
(* Payments.  One that was checked in time leaves the total at zero or     *)
(* above; everything else that takes a total down is counted.              *)
(***************************************************************************)
LatePayment(e) == Late({"partialPaymentCommit"}, {"lowered"}, e)

\* A line that is there was written in time, or late, once and for all.
LEMMA PaymentSettled ==
  ASSUME Observe, NEW e, ~ Unused(e)
  PROVE  LatePayment(e)' <=> LatePayment(e)
<1>1. LatePayment(e) => LatePayment(e)'
  BY LateStays DEF LatePayment
<1>2. ASSUME NEW c, <<"partialPaymentCommit", "lowered", e>> \in LateWrites(c)
      PROVE  FALSE
  <2>1. PICK x \in since[c] :
          <<"partialPaymentCommit", "lowered", e>> \in {call[c].step} \X {x} \X LaidAt(x, c)
    BY <1>2 DEF LateWrites
  <2>2. e \in LaidAt("lowered", c)
    BY <2>1
  <2> QED BY <2>2 DEF LaidAt
<1>3. <<"partialPaymentCommit", "lowered", e>> \in late'
        => <<"partialPaymentCommit", "lowered", e>> \in late
  BY <1>2 DEF Observe
<1> QED BY <1>1, <1>3 DEF LatePayment, Late

\* Only recordPartialPayment writes such a line, and if in time of the amount
\* it has read to be left.
LEMMA PaymentWithinTotal ==
  ASSUME Linked, Checked, Observe, WriteStep, NEW e \in Entries,
         Unused(e), entry'[e].type = "partial_payment", ~ LatePayment(e)'
  PROVE  session'[entry'[e].session].total >= 0
<1>0. TypeOK /\ entry[e].type = "none"
  BY DEF Linked, Unused
<1>1. PICK c \in Callers : PartialPaymentCommit(c)
  <2>1. ASSUME NEW c \in Callers, AdjustCommit(c) PROVE FALSE
    BY <1>0, <2>1 DEF AdjustCommit, TypeOK, Line
  <2>2. ASSUME NEW c \in Callers, RefundCommit(c) PROVE FALSE
    <3>1. PICK f \in Entries :
            entry' = [entry EXCEPT ![call[c].id].reversed = TRUE,
                                   ![f] = RefundLine(call[c].id)]
      BY <2>2 DEF RefundCommit
    <3>2. RefundLine(call[c].id).type = "refund"
      BY DEF RefundLine, Line
    <3> QED BY <1>0, <3>1, <3>2 DEF TypeOK, EntryRow
  <2>3. ASSUME NEW r \in Requests, Deliver(r) PROVE FALSE
    BY <1>0, <2>3 DEF Deliver, TypeOK, ProductLine, Line
  <2>4. ASSUME entry' = entry PROVE FALSE
    BY <1>0, <2>4
  <2>5. ASSUME NEW c \in Callers,
               \/ CloseCommit(c) \/ RequestPaymentCommit(c)
               \/ CancelPaymentCommit(c) \/ VoidCommit(c) \/ MarkPaidCommit(c)
               \/ CreateCommit(c) \/ AcceptCommit(c) \/ QuickAddCommit(c)
               \/ UpdateItemsCommit(c)
        PROVE  FALSE
    BY <2>4, <2>5
    DEF CloseCommit, RequestPaymentCommit, CancelPaymentCommit, VoidCommit,
        MarkPaidCommit, CreateCommit, AcceptCommit, QuickAddCommit,
        UpdateItemsCommit
  <2>6. ASSUME NEW r \in Requests,
               \/ Reject(r) \/ CancelByCustomer(r)
               \/ Prepare(r) \/ MarkReady(r) \/ CancelOrder(r)
        PROVE  FALSE
    BY <2>4, <2>6 DEF Reject, CancelByCustomer, TerminateRequest, Prepare,
                      MarkReady, Advance, CancelOrder
  <2>7. ASSUME NEW t \in Tables,
               Open(t) \/ \E st \in TableStatuses : UpdateStatus(t, st)
        PROVE  FALSE
    BY <2>4, <2>7 DEF Open, UpdateStatus
  <2> QED BY <2>1, <2>2, <2>3, <2>5, <2>6, <2>7 DEF WriteStep
<1>2. "partialPaymentCommit" \in Steps \ {"idle"}
      /\ "partialPaymentCommit" \in SessionSteps
  BY DEF Steps, SessionSteps, RequestSteps
<1>3. Finish(c, "partialPaymentCommit")
  BY <1>1 DEF PartialPaymentCommit
<1>4. /\ call[c].step = "partialPaymentCommit"
      /\ call[c] # Idle
      /\ call'[c] = Idle
      /\ Knows(call[c], since[c])
      /\ SessionExists(SessionOf(call[c]))
      /\ SessionOf(call[c]) = call[c].id
  BY <1>2, <1>3, CommitOf
<1>5. PICK s \in Sessions : s = call[c].id /\ SessionExists(s)
  BY <1>4 DEF SessionExists
<1>6. entry'[e].session = s /\ ~ Unused(e)'
  <2>1. PICK x \in Entries :
          entry' = [entry EXCEPT ![x] =
                      Line("partial_payment", s, None, - call[c].amt, None)]
    BY <1>1, <1>5 DEF PartialPaymentCommit
  <2> QED BY <1>0, <2>1 DEF TypeOK, Line, Unused
<1>7. "lowered" \notin since[c]
  <2>1. SUFFICES ASSUME "lowered" \in since[c] PROVE LatePayment(e)'
    OBVIOUS
  <2>2. e \in LaidAt("lowered", c)
    BY <1>6 DEF LaidAt
  <2>3. ~ UNCHANGED rows
    BY <1>0, <1>6 DEF rows, Unused
  <2> QED BY <1>4, <2>1, <2>2, <2>3, Recorded DEF LatePayment
<1>8. call[c].amt <= session[s].total
  BY <1>4, <1>5, <1>7 DEF Knows
<1>9. session'[s].total = session[s].total + (- call[c].amt)
  BY <1>1, <1>5, AddToBillTotals DEF PartialPaymentCommit
<1>10. call[c].amt \in Int /\ session[s].total \in Int
  BY <1>0 DEF TypeOK, CallState, SessionRow
<1> QED BY <1>6, <1>8, <1>9, <1>10

\* What a bill is below zero was taken off by what TakenOff counts.
PaidWithin == \A s \in Sessions : /\ Balance(TakenOff(s)) <= 0
                                  /\ session[s].total >= Balance(TakenOff(s))

\* A line that stays what it is stays taken off, or not.
LEMMA TakenOffKept ==
  ASSUME Linked, Observe, NEW s \in Sessions, NEW x \in Entries,
         entry'[x].type = entry[x].type,
         entry'[x].session = entry[x].session,
         entry'[x].amount = entry[x].amount
  PROVE  x \in TakenOff(s)' <=> x \in TakenOff(s)
<1>1. CASE Unused(x)
  BY <1>1 DEF Unused, TakenOff, LinesOfSession
<1>2. CASE ~ Unused(x)
  <2>1. LatePayment(x)' <=> LatePayment(x)
    BY <1>2, PaymentSettled
  <2> QED BY <2>1 DEF TakenOff, LinesOfSession, LatePayment
<1> QED BY <1>1, <1>2

\* Every line that is written is counted, or is covered.
LEMMA PaidWithinKept ==
  ASSUME Accounted, Accounted', Checked, Observe, PaidWithin, WriteStep
  PROVE  PaidWithin'
<1> SUFFICES ASSUME NEW s \in Sessions
             PROVE  /\ SumOver(LineAmounts', TakenOff(s)') <= 0
                    /\ session'[s].total >= SumOver(LineAmounts', TakenOff(s)')
  BY DEF PaidWithin, Balance, LineAmounts
<1>0. Linked /\ Linked' /\ OrderIffAccepted /\ FinitelyMany
  BY DEF Accounted, Consistent
<1>1. /\ TakenOff(s) \in SUBSET UsedLines
      /\ TakenOff(s) \subseteq Entries
      /\ TakenOff(s)' \subseteq Entries
  BY DEF TakenOff, LinesOfSession, UsedLines
<1>2. /\ Balance(TakenOff(s)) \in Int
      /\ Balance(TakenOff(s)) <= 0
      /\ session[s].total >= Balance(TakenOff(s))
      /\ session[s].total \in Int /\ session'[s].total \in Int
  BY <1>0, <1>1, BillSums DEF PaidWithin, Linked, TypeOK, SessionRow
<1>3. CASE SameTotals /\ SameLines
  <2>1. \A x \in Entries : x \in TakenOff(s)' <=> x \in TakenOff(s)
    BY <1>0, <1>3, TakenOffKept DEF SameLines
  <2>2. TakenOff(s)' = TakenOff(s)
    BY <1>1, <2>1
  <2>3. SumOver(LineAmounts', TakenOff(s)) = Balance(TakenOff(s))
    BY <1>0, <1>1, <1>3, BalanceKept DEF SameLines
  <2> QED BY <1>2, <1>3, <2>2, <2>3 DEF SameTotals
<1>4. ASSUME NEW e \in Entries, NEW line \in EntryRow, LineAdded(e, line)
      PROVE  /\ SumOver(LineAmounts', TakenOff(s)') <= 0
             /\ session'[s].total >= SumOver(LineAmounts', TakenOff(s)')
  <2>1. \A x \in Entries \ {e} : x \in TakenOff(s)' <=> x \in TakenOff(s)
    BY <1>0, <1>4, TakenOffKept DEF LineAdded
  <2>2. e \notin TakenOff(s) /\ Unused(e) /\ line.amount \in Int
    BY <1>4 DEF LineAdded, TakenOff, LinesOfSession, Unused, EntryRow
  <2>3. CASE e \in TakenOff(s)'
    <3>1. TakenOff(s)' = TakenOff(s) \cup {e}
      BY <1>1, <2>1, <2>3
    <3>2. SumOver(LineAmounts', TakenOff(s) \cup {e}) = Balance(TakenOff(s)) + line.amount
      BY <1>0, <1>1, <1>4, BalanceAdded
    <3>3. line.session = s /\ line.amount < 0
      BY <1>4, <2>3 DEF TakenOff, LinesOfSession, LineAdded
    <3>4. session'[s].total = session[s].total + line.amount
      BY <1>4, <3>3 DEF LineAdded
    <3> QED BY <1>2, <2>2, <3>1, <3>2, <3>3, <3>4
  <2>4. CASE e \notin TakenOff(s)'
    <3>1. TakenOff(s)' = TakenOff(s)
      BY <1>1, <2>1, <2>2, <2>4
    <3>2. SumOver(LineAmounts', TakenOff(s)) = Balance(TakenOff(s))
      BY <1>0, <1>1, <1>4, <2>2, BalanceKept DEF LineAdded
    <3>3. session'[s].total >= Balance(TakenOff(s))
      <4>1. CASE line.session # s
        BY <1>2, <1>4, <4>1 DEF LineAdded
      <4>2. CASE line.session = s /\ line.amount >= 0
        <5>1. session'[s].total = session[s].total + line.amount
          BY <1>4, <4>2 DEF LineAdded
        <5> QED BY <1>2, <2>2, <4>2, <5>1
      <4>3. CASE line.session = s /\ ~ (line.amount >= 0)
        <5>1. line.amount < 0
          BY <2>2, <4>3
        <5>2. line.type = "partial_payment" /\ ~ LatePayment(e)'
          BY <1>4, <2>4, <4>3, <5>1 DEF TakenOff, LinesOfSession, LineAdded,
                                        LatePayment
        <5>3. session'[s].total >= 0
          BY <1>0, <1>4, <2>2, <4>3, <5>2, PaymentWithinTotal DEF LineAdded
        <5> QED BY <1>2, <5>3
      <4> QED BY <4>1, <4>2, <4>3
    <3> QED BY <1>2, <3>1, <3>2, <3>3
  <2> QED BY <2>3, <2>4
<1> QED BY <1>0, <1>3, <1>4, BillEffect

\* Whoever pays when, a bill is below zero by discounts, refunds and late
\* payments only (recordPartialPayment).
THEOREM NoOverPaymentAlways == OverlapSpec => []NoOverPayment
<1>1. OverlapInit => PaidWithin
  <2> SUFFICES ASSUME OverlapInit, NEW s \in Sessions
               PROVE  /\ Balance(TakenOff(s)) <= 0
                      /\ session[s].total >= Balance(TakenOff(s))
    BY DEF PaidWithin
  <2>1. TakenOff(s) = {} /\ session[s].total = 0
    BY DEF OverlapInit, Init, NoEntry, TakenOff, LinesOfSession
  <2>2. Balance({}) = 0
    BY SumEmpty DEF Balance
  <2> QED BY <2>1, <2>2
<1>2. ASSUME Accounted, Accounted', Checked, PaidWithin, [Next /\ Observe]_ovars
      PROVE  PaidWithin'
  <2>1. ASSUME UNCHANGED rows,
               \A x : ~ Unused(x) => (LatePayment(x)' <=> LatePayment(x))
        PROVE  PaidWithin'
    <3>1. ASSUME NEW s \in Sessions PROVE TakenOff(s)' = TakenOff(s)
      BY <2>1 DEF rows, TakenOff, LinesOfSession, LatePayment, Unused
    <3>2. ASSUME NEW s \in Sessions
          PROVE  Balance(TakenOff(s))' = Balance(TakenOff(s))
      BY <2>1, <3>1 DEF rows, Balance
    <3> QED BY <1>2, <2>1, <3>2 DEF rows, PaidWithin
  <2>2. CASE UNCHANGED ovars
    <3>1. UNCHANGED rows /\ late' = late
      BY <2>2 DEF ovars, vars, rows
    <3> QED BY <2>1, <3>1 DEF LatePayment, Late
  <2>3. CASE ReadStep /\ Observe
    <3>1. UNCHANGED rows
      BY <1>2, <2>3, ReadStepLinked DEF Accounted, Consistent
    <3> QED BY <2>1, <2>3, <3>1, PaymentSettled
  <2>4. CASE WriteStep /\ Observe
    BY <1>2, <2>4, PaidWithinKept
  <2> QED BY <1>2, <2>2, <2>3, <2>4, NextSplit
<1>3. PaidWithin => NoOverPayment
  BY DEF PaidWithin, NoOverPayment
<1>4. OverlapSpec => []Accounted
  BY OverlapIsSpec, AccountedAlways, PTL
<1> QED BY <1>1, <1>2, <1>3, <1>4, CheckedAlways, PTL DEF OverlapSpec

(***************************************************************************)
(* Items.                                                                  *)
(***************************************************************************)
\* An order is of the items its customer asked for last, unless its acceptance
\* missed an edit (accept, updateItems).
THEOREM AcceptedAsAskedAlways == OverlapSpec => []AcceptedAsAsked
<1> DEFINE AsAsked(r) ==
      request[r].status = "accepted" /\ order[r].items # request[r].items
        => Late({"acceptCommit"}, {"edited"}, r)
<1>1. OverlapInit => AcceptedAsAsked
  BY DEF OverlapInit, Init, AcceptedAsAsked
<1>2. ASSUME Linked, OrderIffAccepted, Checked, AcceptedAsAsked,
             [Next /\ Observe]_ovars
      PROVE  AcceptedAsAsked'
  <2> SUFFICES ASSUME NEW r \in Requests PROVE AsAsked(r)'
    BY DEF AcceptedAsAsked
  <2>1. AsAsked(r)
    BY <1>2 DEF AcceptedAsAsked
  <2>2. CASE UNCHANGED ovars
    BY <2>1, <2>2 DEF ovars, vars, Late
  <2>3. ASSUME Observe,
               request'[r].status # "accepted" \/
                 (request'[r] = request[r] /\ order'[r].items = order[r].items)
        PROVE  AsAsked(r)'
    BY <2>1, <2>3, LateStays
  <2>4. CASE ReadStep /\ Observe
    <3>1. UNCHANGED rows
      BY <1>2, <2>4, ReadStepLinked
    <3> QED BY <2>3, <2>4, <3>1 DEF rows
  <2>5. ASSUME NEW c \in Callers, AcceptCommit(c), Observe PROVE AsAsked(r)'
    <3>0. "acceptCommit" \in Steps \ {"idle"}
      BY DEF Steps
    <3>1. /\ Finish(c, "acceptCommit")
          /\ StillPending(call[c].id)
          /\ call[c].id \in Requests
          /\ request' = [request EXCEPT ![call[c].id].status = "accepted"]
          /\ order' = [order EXCEPT ![call[c].id] = NewOrder(call[c].amt)]
      BY <1>2, <2>5, <3>0, CommitOf DEF AcceptCommit, CallLinked, RequestSteps,
                                        RequestExists
    <3>2. CASE r # call[c].id
      BY <1>2, <2>3, <2>5, <3>1, <3>2 DEF Linked, TypeOK
    <3>3. CASE r = call[c].id
      <4>1. /\ request'[r].items = request[r].items
            /\ order'[r].items = call[c].amt
            /\ request' # request
        BY <1>2, <3>1, <3>3 DEF Linked, TypeOK, RequestRow, NewOrder, StillPending
      <4>2. /\ call[c].step = "acceptCommit"
            /\ call[c] # Idle
            /\ call'[c] = Idle
            /\ "edited" \in since[c] \/ call[c].amt = request[r].items
        BY <1>2, <3>0, <3>1, <3>3, CommitOf DEF Knows
      <4>3. r \in LaidAt("edited", c) /\ ~ UNCHANGED rows
        BY <3>3, <4>1 DEF LaidAt, rows
      <4>4. "edited" \in since[c] => Late({"acceptCommit"}, {"edited"}, r)'
        BY <2>5, <4>2, <4>3, Recorded
      <4> QED BY <4>1, <4>2, <4>4
    <3> QED BY <3>2, <3>3
  <2>6. ASSUME NEW c \in Callers, QuickAddCommit(c), Observe PROVE AsAsked(r)'
    <3>1. PICK q \in Requests :
            /\ request' = [request EXCEPT ![q] = [status |-> "accepted",
                             session |-> call[c].id, items |-> call[c].amt]]
            /\ order' = [order EXCEPT ![q] = NewOrder(call[c].amt)]
      BY <2>6 DEF QuickAddCommit
    <3>2. CASE r # q
      BY <1>2, <2>3, <2>6, <3>1, <3>2 DEF Linked, TypeOK
    <3>3. CASE r = q
      BY <1>2, <3>1, <3>3 DEF Linked, TypeOK, NewOrder
    <3> QED BY <3>2, <3>3
  <2>7. ASSUME NEW q \in Requests,
               \/ Reject(q) \/ CancelByCustomer(q)
               \/ Prepare(q) \/ MarkReady(q) \/ Deliver(q) \/ CancelOrder(q),
               Observe
        PROVE  AsAsked(r)'
    <3>1. CASE Reject(q) \/ CancelByCustomer(q)
      BY <1>2, <2>3, <2>7, <3>1 DEF Reject, CancelByCustomer, TerminateRequest,
                                    Linked, TypeOK, RequestRow
    <3>2. CASE Prepare(q) \/ MarkReady(q) \/ Deliver(q) \/ CancelOrder(q)
      BY <1>2, <2>3, <2>7, <3>2 DEF Prepare, MarkReady, Advance, Deliver,
                                    CancelOrder, Linked, TypeOK, OrderRow
    <3> QED BY <2>7, <3>1, <3>2
  <2>8. ASSUME NEW c \in Callers, CreateCommit(c) \/ UpdateItemsCommit(c), Observe
        PROVE  AsAsked(r)'
    BY <1>2, <2>3, <2>8 DEF CreateCommit, UpdateItemsCommit, StillPending, Linked,
                            TypeOK, RequestRow
  <2>9. ASSUME NEW c \in Callers, Observe,
               \/ Ends(c) \/ RequestPaymentCommit(c) \/ CancelPaymentCommit(c)
               \/ AdjustCommit(c) \/ PartialPaymentCommit(c) \/ RefundCommit(c)
        PROVE  AsAsked(r)'
    BY <2>3, <2>9 DEF Ends, CloseCommit, VoidCommit, MarkPaidCommit,
                      RequestPaymentCommit, CancelPaymentCommit, AdjustCommit,
                      PartialPaymentCommit, RefundCommit
  <2>10. ASSUME NEW t \in Tables, Observe,
                Open(t) \/ \E st \in TableStatuses : UpdateStatus(t, st)
         PROVE  AsAsked(r)'
    BY <2>3, <2>10 DEF Open, UpdateStatus
  <2> HIDE DEF AsAsked
  <2>11. CASE WriteStep /\ Observe
    BY <2>5, <2>6, <2>7, <2>8, <2>9, <2>10, <2>11 DEF WriteStep, Ends
  <2> QED BY <1>2, <2>2, <2>4, <2>11, NextSplit
<1>3. OverlapSpec => [](Linked /\ OrderIffAccepted)
  BY OverlapIsSpec, ConsistentAlways, PTL DEF Consistent
<1> QED BY <1>1, <1>2, <1>3, CheckedAlways, PTL DEF OverlapSpec
=============================================================================
