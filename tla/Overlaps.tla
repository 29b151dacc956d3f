------------------------------ MODULE Overlaps ------------------------------
(***************************************************************************)
(* What the checks of the handlers achieve when calls overlap.  A handler  *)
(* validates what it has read and writes later, unguarded for the most     *)
(* part.  Two history variables follow each call: what has happened since  *)
(* to what it read, and where it wrote all the same.  A third remembers    *)
(* the requests that were accepted as they came.  The properties then say  *)
(* that nothing goes wrong with a session but by such a write or such a    *)
(* request, and by which ones.                                             *)
(***************************************************************************)
EXTENDS Ledger

VARIABLES
  since,       \* by caller: what has happened to what its call has read
  late,        \* <<step, what, row>>: a call wrote to the row in spite of it
  quick        \* the requests that createAndAccept has made

ovars == <<vars, since, late, quick>>

\* What may happen to a session, or to a request, behind the back of a call.
Happenings == {"left", "ended", "paid", "asked", "requested", "started",
               "raised", "lowered", "edited"}

\* The session a call is about.
SessionOf(k) == CASE k.step \in RequestSteps -> request[k.id].session
                  [] k.step = "refundCommit" -> entry[k.id].session
                  [] OTHER -> k.id

\* What would make untrue what a call has read by the time it stands at a step.
Upsets(step) ==
  CASE step = "closeCount" -> {"left", "raised"}
    [] step = "closeCommit" -> {"left", "raised", "started"}
    [] step = "markPaidCount" -> {"left"}
    [] step = "markPaidCommit" -> {"left", "started"}
    [] step \in {"requestPaymentActive", "requestPaymentCommit"} -> {"requested"}
    [] step = "voidCommit" -> {"left", "paid"}
    [] step = "createCommit" -> {"asked"}
    [] step = "acceptCommit" -> {"ended", "edited"}
    [] step \in {"quickAddCommit", "adjustCommit", "refundCommit"} -> {"ended"}
    [] step = "partialPaymentCommit" -> {"lowered"}
    [] OTHER -> {}

\* A step does this to the session of a call, or to its request.
Happens(what, k) ==
  \E s \in Sessions :
    /\ s = SessionOf(k)
    /\ CASE what = "left" -> NonClosed(s) /\ ~ NonClosed(s)'
         [] what = "ended" -> session[s].status # "closed"
                                /\ session'[s].status = "closed"
         [] what = "paid" -> ~ session[s].paid /\ session'[s].paid
         [] what = "asked" -> ~ session[s].payReq /\ session'[s].payReq
         [] what = "requested" ->
              ~ (PendingRequestsOf(s)' \subseteq PendingRequestsOf(s))
         [] what = "started" -> ~ (ActiveOrdersOf(s)' \subseteq ActiveOrdersOf(s))
         [] what = "raised" -> session'[s].total > session[s].total
         [] what = "lowered" -> session'[s].total < session[s].total
         [] what = "edited" -> request'[k.id].items # request[k.id].items

Watch(c) ==
  IF call[c] = Idle \/ call'[c] = Idle
    THEN {}
    ELSE since[c] \cup {x \in Upsets(call[c].step) : Happens(x, call[c])}

\* The transaction of a call writes (a call that fails writes nothing).
Writes(c) == call[c] # Idle /\ call'[c] = Idle /\ ~ UNCHANGED rows

\* The row the write is laid at: of an edit the request, of a payment its line.
LaidAt(x, c) ==
  CASE x = "edited" -> {call[c].id}
    [] x = "lowered" -> {e \in Entries : Unused(e) /\ ~ Unused(e)'}
    [] OTHER -> {SessionOf(call[c])}

LateWrites(c) == UNION {{call[c].step} \X {x} \X LaidAt(x, c) : x \in since[c]}

Observe ==
  /\ since' = [c \in Callers |-> Watch(c)]
  /\ late' = late \cup UNION {LateWrites(c) : c \in {d \in Callers : Writes(d)}}
  /\ quick' = quick \cup {r \in Requests : /\ request[r].status = "none"
                                           /\ request'[r].status = "accepted"}

OverlapInit ==
  /\ Init
  /\ since = [c \in Callers |-> {}]
  /\ late = {}
  /\ quick = {}

OverlapSpec == OverlapInit /\ [][Next /\ Observe]_ovars

Late(steps, whats, i) ==
  \E step \in steps, what \in whats : <<step, what, i>> \in late

(***************************************************************************)
(* Invariants.                                                             *)
(***************************************************************************)
\* A session that was closed without a payment had nothing to pay: a limbo
\* session (the policy comment in close) takes a close that missed a bill line
\* or an order, or an order or a line for a session that was closed meanwhile.
NoLimboSession ==
  \A s \in Sessions :
    session[s].status = "closed" /\ ~ session[s].paid /\ session[s].total > 0
      => \/ Late({"closeCommit"}, {"raised", "started"}, s)
         \/ Late({"acceptCommit", "quickAddCommit", "adjustCommit",
                  "refundCommit"}, {"ended"}, s)

\* While the bill is asked for nothing waits for the staff, unless a request
\* and requestPayment missed each other: editing a request, accepting, voiding
\* and taking the request for the bill back do no harm, however they overlap.
NothingPendingWhileAsked ==
  \A s \in Sessions :
    session[s].payReq /\ PendingRequestsOf(s) # {}
      => \/ Late({"createCommit"}, {"asked"}, s)
         \/ Late({"requestPaymentCommit"}, {"requested"}, s)

\* A paid session has no order still being prepared, unless markPaid missed one
\* that was accepted meanwhile, one was accepted for the session it had just
\* closed, or the session was voided by someone who saw it unpaid.
NoActiveOrderWhenPaid ==
  \A s \in Sessions :
    session[s].paid /\ ActiveOrdersOf(s) # {}
      => \/ Late({"markPaidCommit"}, {"started"}, s)
         \/ Late({"acceptCommit", "quickAddCommit"}, {"ended"}, s)
         \/ Late({"voidCommit"}, {"paid"}, s)

\* A table shows its open session, unless it was reset for another session of
\* the table: one that was ended twice, by calls that overlapped, or one that
\* was voided first and closed or paid afterwards, which is not refused
\* (onSessionClosed resets a table whatever session it shows).
OpenIsShown ==
  \A s \in Sessions :
    NonClosed(s) /\ table[TableOf(s)].current # s
      => \E x \in Sessions \ {s} :
           /\ TableOf(x) = TableOf(s)
           /\ \/ Late({"closeCommit", "markPaidCommit", "voidCommit"}, {"left"}, x)
              \/ session[x].voided /\ session[x].status = "closed"

QuickAddsOf(s) == {r \in quick : request[r].session = s}

\* While nobody ends sessions, a table's counters and total are those of the
\* session it shows, except that each quick-add of the staff has left the pending
\* count one too low: it decrements what nothing incremented (createAndAccept;
\* TableProjectionService).  No other operation, and no overlap, makes them drift.
ProjectionMirrorsSession ==
  \A t \in Tables :
    LET s == table[t].current IN
    s # None =>
      /\ table[t].active = Cardinality(ActiveOrdersOf(s))
      /\ table[t].pending = Cardinality(PendingRequestsOf(s))
                              - Cardinality(QuickAddsOf(s))
      /\ table[t].total = session[s].total

\* What takes a bill down: discounts, refunds, and payments that were checked
\* before something else took it down.
TakenOff(s) ==
  {e \in LinesOfSession(s) :
     /\ entry[e].amount < 0
     /\ entry[e].type = "partial_payment"
          => Late({"partialPaymentCommit"}, {"lowered"}, e)}

\* A bill is never further below zero than discounts, refunds and payments that
\* missed each other have taken it: whatever was paid on a check that still
\* held was there to pay, however many cashiers there are
\* (recordPartialPayment).
NoOverPayment ==
  \A s \in Sessions : session[s].total >= Balance(TakenOff(s))

\* An order is of the items its customer asked for last, unless they were
\* edited while it was being accepted (accept takes the items it read before
\* its transaction; updateItems).
AcceptedAsAsked ==
  \A r \in Requests :
    request[r].status = "accepted" /\ order[r].items # request[r].items
      => Late({"acceptCommit"}, {"edited"}, r)
=============================================================================
