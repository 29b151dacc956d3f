---------------------------- MODULE Consumptions ----------------------------
(***************************************************************************)
(* ConsumptionsService: the lines of a bill.  A line is never edited; it   *)
(* is refunded by a second line of the opposite amount.  Every method      *)
(* writes the line, the total of its session and the total of its table in *)
(* one transaction.                                                        *)
(***************************************************************************)
EXTENDS BarState

Unused(e) == entry[e].type = "none"

\* A Consumption row as it is inserted.
Line(type, s, r, amt, e) ==
  [type |-> type, session |-> s, order |-> r, amount |-> amt,
   reversed |-> FALSE, reverses |-> e]

\* The projection is told the amount of a negative line without its sign.
OnLine(row, amt) == IF amt >= 0 THEN OnConsumptionCreated(row, amt)
                                ELSE OnConsumptionReversed(row, - amt)

\* The session and table totals move with a new line.
AddToBill(s, amt) ==
  /\ session' = [session EXCEPT ![s].total = @ + amt]
  /\ table' = [table EXCEPT ![TableOf(s)] = OnLine(@, amt)]

(***************************************************************************)
(* createAdjustment(): a correction of either sign (a discount is          *)
(* negative).                                                              *)
(***************************************************************************)
AdjustRead(c, s, amt) ==
  /\ NotClosed(s)
  /\ Begin(c, "adjust", "adjustCommit", s, amt)

AdjustCommit(c) ==
  LET s == call[c].id IN
  /\ Finish(c, "adjustCommit")
  /\ \E e \in Entries :
       /\ Unused(e)
       /\ entry' = [entry EXCEPT ![e] =
                       Line("adjustment", s, None, call[c].amt, None)]
  /\ AddToBill(s, call[c].amt)
  /\ UNCHANGED <<request, order>>

(***************************************************************************)
(* recordPartialPayment(): at most what is left to pay, as read before the *)
(* transaction; stored as a negative line.                                 *)
(***************************************************************************)
PartialPaymentRead_AnyAmount(c, s, amt) ==
  /\ NotClosed(s)
  /\ Begin(c, "partialPayment", "partialPaymentCommit", s, amt)

PartialPaymentRead(c, s, amt) ==
  /\ NotClosed(s)
  /\ amt <= session[s].total
  /\ Begin(c, "partialPayment", "partialPaymentCommit", s, amt)

PartialPaymentCommit(c) ==
  LET s == call[c].id IN
  /\ Finish(c, "partialPaymentCommit")
  /\ \E e \in Entries :
       /\ Unused(e)
       /\ entry' = [entry EXCEPT ![e] =
                       Line("partial_payment", s, None, - call[c].amt, None)]
  /\ AddToBill(s, - call[c].amt)
  /\ UNCHANGED <<request, order>>

(***************************************************************************)
(* refundConsumption(): of any line but a refund, once.                    *)
(***************************************************************************)
\* The guarded updateMany that marks the line as reversed.
NotReversed_Unchecked(e) == TRUE
NotReversed(e) == ~ entry[e].reversed

RefundRead_OfRefunds(c, e) ==
  /\ entry[e].type # "none"
  /\ ~ entry[e].reversed
  /\ NotClosed(entry[e].session)
  /\ Begin(c, "refund", "refundCommit", e, 0)

RefundRead(c, e) ==
  /\ entry[e].type \notin {"none", "refund"}
  /\ ~ entry[e].reversed
  /\ NotClosed(entry[e].session)
  /\ Begin(c, "refund", "refundCommit", e, 0)

RefundLine_OffOrder(e) ==
  Line("refund", entry[e].session, None, - entry[e].amount, e)
RefundLine_SameSign(e) ==
  Line("refund", entry[e].session, entry[e].order, entry[e].amount, e)
RefundLine(e) ==
  Line("refund", entry[e].session, entry[e].order, - entry[e].amount, e)

RefundCommit(c) ==
  LET e == call[c].id
      s == entry[e].session
  IN
  /\ Finish(c, "refundCommit")
  /\ NotReversed(e)
  /\ \E f \in Entries :
       /\ Unused(f)
       /\ entry' = [entry EXCEPT ![e].reversed = TRUE, ![f] = RefundLine(e)]
  /\ AddToBill(s, - entry[e].amount)
  /\ UNCHANGED <<request, order>>

BillNext ==
  \E c \in Callers :
    \/ \E s \in Sessions, a \in Amounts : \/ AdjustRead(c, s, a)
                                          \/ AdjustRead(c, s, - a)
                                          \/ PartialPaymentRead(c, s, a)
    \/ \E e \in Entries : RefundRead(c, e)
    \/ AdjustCommit(c)
    \/ PartialPaymentCommit(c)
    \/ RefundCommit(c)
=============================================================================
