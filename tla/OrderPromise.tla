---------------------------- MODULE OrderPromise ----------------------------
(***************************************************************************)
(* What the order flow promises to a customer and to the bar, one order at *)
(* a time: an order comes from one request that was decided once, it is    *)
(* billed when it is delivered and only then, at the price it was accepted *)
(* for, and a refund takes back exactly what was billed, once.             *)
(***************************************************************************)
EXTENDS Integers

CONSTANTS Requests, Amounts

VARIABLES
  stage,   \* how far the order of each request has come
  price,   \* what it was accepted for, 0 before
  billed   \* the balance of the bill lines that name it

pvars == <<stage, price, billed>>

Stages == {"none", "pending", "declined", "inProgress", "cancelled",
           "delivered", "refunded"}

PInit ==
  /\ stage = [r \in Requests |-> "none"]
  /\ price = [r \in Requests |-> 0]
  /\ billed = [r \in Requests |-> 0]

Move(r, from, to) ==
  /\ stage[r] = from
  /\ stage' = [stage EXCEPT ![r] = to]

Ask(r) == Move(r, "none", "pending") /\ UNCHANGED <<price, billed>>
Decline(r) == Move(r, "pending", "declined") /\ UNCHANGED <<price, billed>>

\* The staff accepts a request, or types the order itself.
Start(r, a) ==
  /\ Move(r, "pending", "inProgress") \/ Move(r, "none", "inProgress")
  /\ price' = [price EXCEPT ![r] = a]
  /\ UNCHANGED billed

CallOff(r) == Move(r, "inProgress", "cancelled") /\ UNCHANGED <<price, billed>>

HandOver(r) ==
  /\ Move(r, "inProgress", "delivered")
  /\ billed' = [billed EXCEPT ![r] = price[r]]
  /\ UNCHANGED price

GiveBack(r) ==
  /\ Move(r, "delivered", "refunded")
  /\ billed' = [billed EXCEPT ![r] = 0]
  /\ UNCHANGED price

PNext ==
  \E r \in Requests :
    \/ Ask(r) \/ Decline(r) \/ CallOff(r) \/ HandOver(r) \/ GiveBack(r)
    \/ \E a \in Amounts : Start(r, a)

PSpec == PInit /\ [][PNext]_pvars
=============================================================================
