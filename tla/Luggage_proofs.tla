--------------------------- MODULE Luggage_proofs ---------------------------
(***************************************************************************)
(* The properties of Luggage for any number of tickets, tokens and staff.  *)
(* What makes LeavesPaid inductive is DeliverChecked: the payment a        *)
(* delivery has tested still holds unless it was changed meanwhile.        *)
(***************************************************************************)
EXTENDS Luggage, TLAPS

DeliverChecked ==
  \A c \in Callers :
    call[c].op = "delivered" /\ ~ call[c].repaid => ticket[call[c].id].paid

\* The cloakroom opens well typed.
LEMMA TypeInit == Init => TypeOK
  <1> SUFFICES ASSUME Init PROVE TypeOK
    OBVIOUS
  <1>1. NoTicket \in TicketRow
    BY DEF NoTicket, TicketRow
  <1>2. Idle \in Call
    BY DEF Idle, Call
  <1>3. Idle.op = "none"
    BY DEF Idle
  <1> QED
    BY <1>1, <1>2, <1>3 DEF Init, TypeOK

\* A call that has read an active ticket is of its type.
LEMMA BeginType ==
  ASSUME TypeOK, NEW c \in Callers, NEW i \in Tickets, NEW pay \in BOOLEAN,
         NEW op \in {"payment"} \cup Over, Begin(c, op, i, pay)
  PROVE  TypeOK'
  <1>1. [op |-> op, id |-> i, pay |-> pay, repaid |-> FALSE] \in Call
    BY DEF Call
  <1>2. call' \in [Callers -> Call]
    BY <1>1 DEF Begin, TypeOK
  <1>3. ticket[i].status # "none"
    BY DEF Begin, Active
  <1>4. \A d \in Callers : call'[d].op # "none" =>
          call'[d].id \in Tickets /\ ticket'[call'[d].id].status # "none"
    BY <1>3 DEF Begin, TypeOK
  <1> QED
    BY <1>2, <1>4 DEF Begin, TypeOK

\* A caller without a request is of its type.
LEMMA IdleType == Idle \in Call /\ Idle.op = "none"
  BY DEF Idle, Call

\* A caller that has finished is of its type, if no ticket has disappeared.
LEMMA FinishType ==
  ASSUME TypeOK, NEW c \in Callers, call' = [call EXCEPT ![c] = Idle],
         ticket' \in [Tickets -> TicketRow],
         \A i \in Tickets : ticket[i].status # "none" => ticket'[i].status # "none"
  PROVE  TypeOK'
  <1>1. call' \in [Callers -> Call]
    BY IdleType DEF TypeOK
  <1>2. \A d \in Callers : call'[d].op # "none" =>
          call'[d].id \in Tickets /\ ticket'[call'[d].id].status # "none"
    BY IdleType DEF TypeOK
  <1> QED
    BY <1>1, <1>2 DEF TypeOK

\* Every step keeps the rows and the requests in flight of their types.
LEMMA TypeNext == TypeOK /\ [Next]_vars => TypeOK'
  <1> SUFFICES ASSUME TypeOK, [Next]_vars PROVE TypeOK'
    OBVIOUS
  <1>1. ASSUME NEW i \in Tickets, NEW n \in Numbers, NEW paid \in BOOLEAN,
               Create(i, n, paid)
        PROVE  TypeOK'
    <2>1. [status |-> "active", paid |-> paid, number |-> n] \in TicketRow
      BY DEF TicketRow
    <2> QED
      BY <1>1, <2>1 DEF Create, TypeOK
  <1>2. ASSUME NEW c \in Callers, NEW i \in Tickets, DeliverRead(c, i)
        PROVE  TypeOK'
    BY <1>2, BeginType DEF DeliverRead, Over
  <1>3. ASSUME NEW c \in Callers, NEW i \in Tickets, IncidentRead(c, i)
        PROVE  TypeOK'
    BY <1>3, BeginType DEF IncidentRead, Over
  <1>4. ASSUME NEW c \in Callers, NEW i \in Tickets, NEW pay \in BOOLEAN,
               PaymentRead(c, i, pay)
        PROVE  TypeOK'
    BY <1>4, BeginType DEF PaymentRead
  <1>5. ASSUME NEW c \in Callers, EndTicket(c) PROVE TypeOK'
    <2>1. call[c].op \in Over /\ call[c].op # "none" /\ call[c].id \in Tickets
      BY <1>5 DEF EndTicket, Over, TypeOK
    <2>2. ticket' \in [Tickets -> TicketRow]
      BY <1>5, <2>1 DEF EndTicket, TypeOK, TicketRow
    <2>3. \A i \in Tickets : ticket[i].status # "none" => ticket'[i].status # "none"
      BY <1>5, <2>1 DEF EndTicket, TypeOK, TicketRow, Over
    <2> QED
      BY <1>5, <2>2, <2>3, FinishType DEF EndTicket
  <1>6. ASSUME NEW c \in Callers, PaymentWrite(c) PROVE TypeOK'
    <2>1. call[c].id \in Tickets /\ call[c].pay \in BOOLEAN
      BY <1>6 DEF PaymentWrite, TypeOK, Call
    <2>2. ticket' \in [Tickets -> TicketRow]
      BY <1>6, <2>1 DEF PaymentWrite, TypeOK, TicketRow
    <2>3. \A i \in Tickets : ticket'[i].status = ticket[i].status
      BY <1>6, <2>1 DEF PaymentWrite, TypeOK, TicketRow
    <2>4. \A d \in Callers : [call[d] EXCEPT !.repaid = TRUE] \in Call
      BY DEF TypeOK, Call
    <2>5. call' \in [Callers -> Call]
      BY <1>6, <2>4, IdleType DEF PaymentWrite, TypeOK
    <2>6. ASSUME NEW d \in Callers, call'[d].op # "none"
          PROVE  call[d].op # "none" /\ call'[d].id = call[d].id
      BY <1>6, <2>6, IdleType DEF PaymentWrite, TypeOK, Call
    <2> QED
      BY <2>2, <2>3, <2>5, <2>6 DEF TypeOK
  <1>7. ASSUME NEW c \in Callers, Fail(c) PROVE TypeOK'
    BY <1>7, FinishType DEF Fail, TypeOK
  <1>8. CASE UNCHANGED vars
    BY <1>8 DEF vars, TypeOK
  <1> QED
    BY <1>1, <1>2, <1>3, <1>4, <1>5, <1>6, <1>7, <1>8 DEF Next

\* Tickets and calls are of their types, for any pools.
THEOREM TypeCorrect == Spec => []TypeOK
  BY TypeInit, TypeNext, PTL DEF Spec

\* What a step does to one ticket: it is created with a free number, keeps its
\* number otherwise, and is active afterwards only if it was before.
Created(i) ==
  /\ ticket[i] = NoTicket
  /\ \E n \in Numbers :
       /\ NumberFree(n)
       /\ ticket'[i].number = n
       /\ \A j \in Tickets \ {i} : ticket'[j] = ticket[j]

Kept(i) ==
  /\ ticket'[i].number = ticket[i].number
  /\ ticket'[i].status = "active" => Active(i)
  /\ ticket[i].status \in Over => ticket'[i].status = ticket[i].status

\* What a step does to a ticket: it is made, or it keeps its number and moves as its
\* status allows.
LEMMA TicketSteps ==
  ASSUME TypeOK, Next, NEW i \in Tickets
  PROVE  Created(i) \/ Kept(i)
  <1>1. ASSUME NEW k \in Tickets, NEW n \in Numbers, NEW paid \in BOOLEAN,
               Create(k, n, paid)
        PROVE  Created(i) \/ Kept(i)
    <2>1. ticket' = [ticket EXCEPT ![k] =
                       [status |-> "active", paid |-> paid, number |-> n]]
      BY <1>1 DEF Create
    <2>2. CASE k = i
      BY <1>1, <2>1, <2>2 DEF Create, Created, TypeOK
    <2>3. CASE k # i
      BY <2>1, <2>3 DEF TypeOK, Active, Kept
    <2> QED
      BY <2>2, <2>3
  <1>2. ASSUME ticket' = ticket PROVE Created(i) \/ Kept(i)
    BY <1>2 DEF Active, Kept
  <1>3. ASSUME NEW c \in Callers, EndTicket(c) PROVE Created(i) \/ Kept(i)
    <2>1. call[c].id \in Tickets /\ call[c].op \in Over
      BY <1>3 DEF EndTicket, Over, TypeOK
    <2> QED
      BY <1>3, <2>1 
         DEF EndTicket, StillActive, Active, Kept, Over, TypeOK, TicketRow
  <1>4. ASSUME NEW c \in Callers, PaymentWrite(c) PROVE Created(i) \/ Kept(i)
    BY <1>4 DEF PaymentWrite, Active, Kept, TypeOK, TicketRow
  <1> QED
    BY <1>1, <1>2, <1>3, <1>4
       DEF Next, DeliverRead, IncidentRead, PaymentRead, Begin, Fail

\* A token in circulation stands for one piece of luggage.
THEOREM TokensAreUnique == Spec => []OneTicketPerToken
  <1>1. Init => OneTicketPerToken
    BY DEF Init, OneTicketPerToken, Active, NoTicket
  <1>2. TypeOK /\ OneTicketPerToken /\ [Next]_vars => OneTicketPerToken'
    <2> SUFFICES ASSUME TypeOK, OneTicketPerToken, [Next]_vars,
                        NEW i \in Tickets, NEW j \in Tickets,
                        Active(i)', Active(j)',
                        ticket'[i].number = ticket'[j].number
                 PROVE  i = j
      BY DEF OneTicketPerToken
    <2>1. CASE UNCHANGED vars
      BY <2>1 DEF vars, OneTicketPerToken, Active
    <2>2. CASE Next
      <3>1. CASE ticket[i] = NoTicket \/ ticket[j] = NoTicket
        BY <2>2, <3>1, TicketSteps DEF Created, Kept, Active, NumberFree, NoTicket
      <3>2. CASE ticket[i] # NoTicket /\ ticket[j] # NoTicket
        <4>1. /\ Active(i) /\ ticket'[i].number = ticket[i].number
              /\ Active(j) /\ ticket'[j].number = ticket[j].number
          BY <2>2, <3>2, TicketSteps DEF Created, Kept, Active
        <4> QED
          BY <4>1 DEF OneTicketPerToken
      <3> QED
        BY <3>1, <3>2
    <2> QED
      BY <2>1, <2>2
  <1> QED
    BY <1>1, <1>2, TypeCorrect, PTL DEF Spec

\* What has left stays as it left.
THEOREM LuggageEndsOnce == Spec => EndsOnce
  <1>1. TypeOK /\ [Next]_vars =>
          [\A i \in Tickets : ticket[i].status \in Over
                                => ticket'[i].status = ticket[i].status]_vars
    <2> SUFFICES ASSUME TypeOK, Next, NEW i \in Tickets, ticket[i].status \in Over
                 PROVE  ticket'[i].status = ticket[i].status
      OBVIOUS
    <2>1. ticket[i] # NoTicket
      BY DEF NoTicket, Over
    <2> QED
      BY <2>1, TicketSteps DEF Created, Kept
  <1> QED
    BY <1>1, TypeCorrect, PTL DEF Spec, EndsOnce

\* Every step keeps what a delivery has checked: the ticket it is about is paid, unless
\* updatePayment has touched it since.
LEMMA CheckedNext ==
  TypeOK /\ DeliverChecked /\ [Next]_vars => DeliverChecked'
  <1> SUFFICES ASSUME TypeOK, DeliverChecked, [Next]_vars, NEW d \in Callers,
                      call'[d].op = "delivered", ~ call'[d].repaid
               PROVE  ticket'[call'[d].id].paid
    BY DEF DeliverChecked
  <1>1. ASSUME NEW i \in Tickets, NEW n \in Numbers, NEW paid \in BOOLEAN,
               Create(i, n, paid)
        PROVE  ticket'[call'[d].id].paid
    <2>1. call'[d] = call[d] /\ call[d].id # i
      BY <1>1 DEF Create, TypeOK, NoTicket
    <2> QED
      BY <1>1, <2>1 DEF Create, DeliverChecked, TypeOK
  <1>2. ASSUME NEW c \in Callers, NEW i \in Tickets, NEW pay \in BOOLEAN,
               \/ DeliverRead(c, i)
               \/ IncidentRead(c, i)
               \/ PaymentRead(c, i, pay)
        PROVE  ticket'[call'[d].id].paid
    BY <1>2 DEF DeliverRead, IncidentRead, PaymentRead, Begin, DeliverChecked,
                TypeOK
  <1>3. ASSUME NEW c \in Callers, EndTicket(c) PROVE ticket'[call'[d].id].paid
    <2>1. call'[d] = call[d] /\ call[d].id \in Tickets
      BY <1>3, IdleType DEF EndTicket, TypeOK
    <2>2. \A i \in Tickets : ticket'[i].paid = ticket[i].paid
      BY <1>3 DEF EndTicket, TypeOK, TicketRow
    <2> QED
      BY <2>1, <2>2 DEF DeliverChecked
  <1>4. ASSUME NEW c \in Callers, PaymentWrite(c)
        PROVE  ticket'[call'[d].id].paid
    <2>1. d # c /\ call[d].id # call[c].id /\ call'[d] = call[d]
      BY <1>4, IdleType DEF PaymentWrite, TypeOK, Call
    <2>2. ticket'[call[d].id].paid = ticket[call[d].id].paid
      BY <1>4, <2>1 DEF PaymentWrite, TypeOK
    <2> QED
      BY <2>1, <2>2 DEF DeliverChecked
  <1>5. ASSUME NEW c \in Callers, Fail(c) PROVE ticket'[call'[d].id].paid
    BY <1>5, IdleType DEF Fail, DeliverChecked, TypeOK
  <1>6. CASE UNCHANGED vars
    BY <1>6 DEF vars, DeliverChecked
  <1> QED
    BY <1>1, <1>2, <1>3, <1>4, <1>5, <1>6 DEF Next

\* Luggage leaves unpaid only when its payment was changed under a delivery.
THEOREM LuggageLeavesPaid == Spec => LeavesPaid
  <1> DEFINE LeavesPaidStep ==
        \A i \in Tickets :
          /\ Active(i) /\ ~ ticket[i].paid
          /\ ticket'[i].status = "delivered"
          => \E c \in Callers : /\ call[c].op = "delivered" /\ call[c].id = i
                                /\ call[c].repaid
  <1>1. Init => DeliverChecked
    BY DEF Init, DeliverChecked, Idle
  <1>2. TypeOK /\ DeliverChecked /\ [Next]_vars => [LeavesPaidStep]_vars
    <2> SUFFICES ASSUME TypeOK, DeliverChecked, Next, NEW i \in Tickets,
                        Active(i), ~ ticket[i].paid,
                        ticket'[i].status = "delivered"
                 PROVE  \E c \in Callers :
                          /\ call[c].op = "delivered" /\ call[c].id = i
                          /\ call[c].repaid
      OBVIOUS
    <2>1. ticket'[i].status # ticket[i].status
      BY DEF Active
    <2>2. ASSUME NEW k \in Tickets, NEW n \in Numbers, NEW paid \in BOOLEAN,
                 Create(k, n, paid)
          PROVE  FALSE
      <3>1. ticket'[i] = ticket[i] \/ ticket'[i].status = "active"
        BY <2>2 DEF Create, TypeOK
      <3> QED
        BY <2>1, <3>1
    <2>3. ASSUME NEW c \in Callers, PaymentWrite(c) PROVE FALSE
      BY <2>1, <2>3 DEF PaymentWrite, TypeOK, TicketRow
    <2>4. PICK c \in Callers : EndTicket(c)
      BY <2>1, <2>2, <2>3
         DEF Next, DeliverRead, IncidentRead, PaymentRead, Begin, Fail
    <2>5. call[c].op = "delivered" /\ call[c].id = i
      BY <2>4 DEF EndTicket, Active, TypeOK, TicketRow, Over
    <2> QED
      BY <2>5 DEF DeliverChecked, TypeOK, Call
  <1> QED
    BY <1>1, <1>2, CheckedNext, TypeCorrect, PTL DEF Spec, LeavesPaid
=============================================================================
