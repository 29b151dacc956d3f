------------------------------ MODULE Luggage ------------------------------
(***************************************************************************)
(* LuggageService: pieces of luggage are kept under a numbered token, paid *)
(* for, and given back or written off.  Each operation on a ticket reads   *)
(* it, checks it and then writes it in a statement of its own, without a   *)
(* transaction; operations of the staff overlap.                           *)
(***************************************************************************)
CONSTANTS
  Tickets,   \* pool of LuggageTicket rows
  Numbers,   \* LUGGAGE_TICKET_MIN .. LUGGAGE_TICKET_MAX
  Callers,
  None

ASSUME LuggageAssumption == None \notin Tickets \cup Numbers

VARIABLES
  ticket,  \* LuggageTicket
  call     \* the operation of each caller that has read its ticket

vars == <<ticket, call>>

NoTicket == [status |-> "none", paid |-> FALSE, number |-> None]

\* `repaid` is history: the payment of the ticket was changed since the read.
Idle == [op |-> "none", id |-> None, pay |-> FALSE, repaid |-> FALSE]

Init ==
  /\ ticket = [i \in Tickets |-> NoTicket]
  /\ call = [c \in Callers |-> Idle]

Over == {"delivered", "incident"}
Active(i) == ticket[i].status = "active"

\* The partial unique index LuggageTicket_ticket_number_active_uniq.
NumberFree_OnlyPaid(n) ==
  ~ \E i \in Tickets : Active(i) /\ ticket[i].paid /\ ticket[i].number = n
NumberFree(n) == ~ \E i \in Tickets : Active(i) /\ ticket[i].number = n

Create(i, n, paid) ==
  /\ ticket[i] = NoTicket
  /\ NumberFree(n)
  /\ ticket' = [ticket EXCEPT ![i] =
       [status |-> "active", paid |-> paid, number |-> n]]
  /\ UNCHANGED call

Begin(c, op, i, pay) ==
  /\ call[c] = Idle
  /\ Active(i)
  /\ call' = [call EXCEPT ![c] =
       [op |-> op, id |-> i, pay |-> pay, repaid |-> FALSE]]
  /\ UNCHANGED ticket

\* deliver: only what is paid for.
DeliverRead_Unpaid(c, i) == Begin(c, "delivered", i, FALSE)
DeliverRead(c, i) == ticket[i].paid /\ Begin(c, "delivered", i, FALSE)
IncidentRead(c, i) == Begin(c, "incident", i, FALSE)
PaymentRead(c, i, pay) == Begin(c, "payment", i, pay)

\* deliver and incident: the update tests the status again and nothing else;
\* if it finds no row the call fails (LUGGAGE_RACE).
StillActive_Unguarded(i) == TRUE
StillActive(i) == Active(i)

EndTicket(c) ==
  LET i == call[c].id IN
  /\ call[c].op \in Over
  /\ ticket' = IF StillActive(i)
                 THEN [ticket EXCEPT ![i].status = call[c].op]
                 ELSE ticket
  /\ call' = [call EXCEPT ![c] = Idle]

\* updatePayment: the update tests nothing.
PaymentWrite(c) ==
  LET i == call[c].id IN
  /\ call[c].op = "payment"
  /\ ticket' = [ticket EXCEPT ![i].paid = call[c].pay]
  /\ call' = [d \in Callers |->
       CASE d = c -> Idle
         [] call[d].id = i /\ d # c -> [call[d] EXCEPT !.repaid = TRUE]
         [] OTHER -> call[d]]

Fail(c) ==
  /\ call[c] # Idle
  /\ call' = [call EXCEPT ![c] = Idle]
  /\ UNCHANGED ticket

Next ==
  \/ \E i \in Tickets, n \in Numbers, paid \in BOOLEAN : Create(i, n, paid)
  \/ \E c \in Callers :
       \/ \E i \in Tickets :
            \/ DeliverRead(c, i)
            \/ IncidentRead(c, i)
            \/ \E pay \in BOOLEAN : PaymentRead(c, i, pay)
       \/ EndTicket(c)
       \/ PaymentWrite(c)
       \/ Fail(c)

Spec == Init /\ [][Next]_vars

(***************************************************************************)
(* Properties.                                                             *)
(***************************************************************************)
TicketRow == [status: {"none", "active"} \cup Over, paid: BOOLEAN,
              number: Numbers \cup {None}]
Call == [op: {"none", "payment"} \cup Over, id: Tickets \cup {None},
         pay: BOOLEAN, repaid: BOOLEAN]

\* Rows and calls are of their types, and a call is on a ticket that exists.
TypeOK ==
  /\ ticket \in [Tickets -> TicketRow]
  /\ call \in [Callers -> Call]
  /\ \A c \in Callers : call[c].op # "none" =>
       call[c].id \in Tickets /\ ticket[call[c].id].status # "none"

\* A token in a customer's hand stands for one piece of luggage, although a
\* token goes round and its old tickets stay (create, the partial index).
OneTicketPerToken ==
  \A i, j \in Tickets :
    Active(i) /\ Active(j) /\ ticket[i].number = ticket[j].number => i = j

\* What has been given back or written off stays so, and is not given back and
\* written off by two people at once (the guard of the updates).
EndsOnce ==
  [][\A i \in Tickets : ticket[i].status \in Over
                          => ticket'[i].status = ticket[i].status]_vars

\* Luggage leaves unpaid only if somebody changed its payment between the check
\* of deliver and its update, which does not test the payment again.
LeavesPaid ==
  [][\A i \in Tickets :
       /\ Active(i) /\ ~ ticket[i].paid
       /\ ticket'[i].status = "delivered"
       => \E c \in Callers : /\ call[c].op = "delivered" /\ call[c].id = i
                             /\ call[c].repaid]_vars
=============================================================================
