----------------------------- MODULE TableVisit -----------------------------
(***************************************************************************)
(* What a dine-in session promises its guests, with rows, requests,       *)
(* payments and webhooks left out: the table orders, a bill is made of    *)
(* exactly what was served once nothing is outstanding, nothing is        *)
(* ordered or served on top of a bill, and the bill is settled once.      *)
(* DineInBilling implements it.                                           *)
(***************************************************************************)
CONSTANT Orders   \* names of orders

VARIABLES
  phase,    \* "dining", "billed", "paying" or "settled"
  ordered,  \* every order made so far
  waiting,  \* those not yet served, and not dropped either
  served,   \* those served
  bill      \* the orders on the bill

visit == <<phase, ordered, waiting, served, bill>>

Init ==
  /\ phase = "dining"
  /\ ordered = {} /\ waiting = {} /\ served = {}
  /\ bill = {}

Order(o) ==
  /\ phase = "dining" /\ o \notin ordered
  /\ ordered' = ordered \union {o}
  /\ waiting' = waiting \union {o}
  /\ UNCHANGED <<phase, served, bill>>

\* The customer cancels an order or the restaurant rejects it.
Drop(o) ==
  /\ phase = "dining" /\ o \in waiting
  /\ waiting' = waiting \ {o}
  /\ UNCHANGED <<phase, ordered, served, bill>>

Serve(o) ==
  /\ phase = "dining" /\ o \in waiting
  /\ waiting' = waiting \ {o}
  /\ served' = served \union {o}
  /\ UNCHANGED <<phase, ordered, bill>>

Bill ==
  /\ phase = "dining" /\ waiting = {} /\ served # {}
  /\ phase' = "billed" /\ bill' = served
  /\ UNCHANGED <<ordered, waiting, served>>

Reopen ==
  /\ phase = "billed"
  /\ phase' = "dining" /\ bill' = {}
  /\ UNCHANGED <<ordered, waiting, served>>

Agree ==
  /\ phase = "billed"
  /\ phase' = "paying"
  /\ UNCHANGED <<ordered, waiting, served, bill>>

Settle ==
  /\ phase = "paying"
  /\ phase' = "settled"
  /\ UNCHANGED <<ordered, waiting, served, bill>>

Next ==
  \/ \E o \in Orders : Order(o) \/ Drop(o) \/ Serve(o)
  \/ Bill
  \/ Reopen
  \/ Agree
  \/ Settle

Spec == Init /\ [][Next]_visit

-----------------------------------------------------------------------------

\* What follows from these rules: from the bill on, everything ordered was
\* served and billed or was dropped, and the bill is what was served.
BillIsTheVisit ==
  phase # "dining" => waiting = {} /\ bill = served /\ bill # {} /\ bill \subseteq ordered

=============================================================================
