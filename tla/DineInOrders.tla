---------------------------- MODULE DineInOrders ----------------------------
(***************************************************************************)
(* The orders of one dine-in session and their kitchen tickets            *)
(* (src/src/dine-in/dine-in-orders.service.ts).  Every operation is one   *)
(* transaction that locks the rows it changes before it reads them, so it *)
(* is one step.  Creating, cancelling and approving an order also lock    *)
(* the session and require it to be ACTIVE; rejecting and cooking do not  *)
(* look at the session.  DineInBilling changes the session's status.      *)
(*                                                                         *)
(* An order is named by its order number, which is made of the customer,  *)
(* the session and the idempotency key: a repetition finds the order and  *)
(* changes nothing, so it is not an action.                               *)
(***************************************************************************)
CONSTANT Orders   \* order numbers

VARIABLES
  session,  \* dine_in_sessions.status
  ord,      \* orders.dine_in_status, "none" before the order exists
  tickets   \* orders with a row in kitchen_tickets

dining == <<session, ord, tickets>>

\* DRAFT is never written.
OrderStatus == {"none", "PENDING_APPROVAL", "APPROVED", "PREPARING", "READY",
                "SERVED", "REJECTED", "CANCELLED"}

OrdersInit ==
  /\ session = "ACTIVE"
  /\ ord = [o \in Orders |-> "none"]
  /\ tickets = {}

Unfinished ==
  {o \in Orders : ord[o] \in {"PENDING_APPROVAL", "APPROVED", "PREPARING", "READY"}}
Served == {o \in Orders : ord[o] = "SERVED"}

\* aggregateSessionOrders: the orders in the total that the guests and the
\* restaurant are shown.
PayableOrders ==
  {o \in Orders : ord[o] \in {"APPROVED", "PREPARING", "READY", "SERVED"}}

\* Mutant: the session's status is not looked at.
CreateInAnySession(o) ==
  /\ ord[o] = "none"
  /\ ord' = [ord EXCEPT ![o] = "PENDING_APPROVAL"]
  /\ UNCHANGED <<session, tickets>>

\* Mutant: a new order starts as a draft.
CreateDraft(o) ==
  /\ session = "ACTIVE"
  /\ ord[o] = "none"
  /\ ord' = [ord EXCEPT ![o] = "DRAFT"]
  /\ UNCHANGED <<session, tickets>>

CreateOrder(o) ==
  /\ session = "ACTIVE"
  /\ ord[o] = "none"
  /\ ord' = [ord EXCEPT ![o] = "PENDING_APPROVAL"]
  /\ UNCHANGED <<session, tickets>>

\* Mutant: an order can be cancelled until it is served.
CancelUnfinished(o) ==
  /\ session = "ACTIVE"
  /\ o \in Unfinished
  /\ ord' = [ord EXCEPT ![o] = "CANCELLED"]
  /\ UNCHANGED <<session, tickets>>

CancelOrder(o) ==
  /\ session = "ACTIVE"
  /\ ord[o] = "PENDING_APPROVAL"
  /\ ord' = [ord EXCEPT ![o] = "CANCELLED"]
  /\ UNCHANGED <<session, tickets>>

ApproveOrder(o) ==
  /\ session = "ACTIVE"
  /\ ord[o] = "PENDING_APPROVAL"
  /\ ord' = [ord EXCEPT ![o] = "APPROVED"]
  /\ tickets' = tickets \union {o}
  /\ UNCHANGED session

RejectOrder(o) ==
  /\ ord[o] = "PENDING_APPROVAL"
  /\ ord' = [ord EXCEPT ![o] = "REJECTED"]
  /\ UNCHANGED <<session, tickets>>

AfterKitchen == [APPROVED |-> "PREPARING", PREPARING |-> "READY", READY |-> "SERVED"]

\* The ticket takes the order's status in the same transaction.
UpdateKitchenStatus(o) ==
  /\ ord[o] \in DOMAIN AfterKitchen
  /\ o \in tickets
  /\ ord' = [ord EXCEPT ![o] = AfterKitchen[ord[o]]]
  /\ UNCHANGED <<session, tickets>>

\* Requests of the guests' and of the restaurant's orders controller.
CustomerOrder(o) == CreateOrder(o) \/ CancelOrder(o)
ManagerOrder(o) == ApproveOrder(o) \/ RejectOrder(o) \/ UpdateKitchenStatus(o)

OrderStep == \E o \in Orders : CustomerOrder(o) \/ ManagerOrder(o)

OrdersTypeOK ==
  /\ session \in {"ACTIVE", "BILL_REQUESTED", "PAYMENT_PENDING", "COMPLETED"}
  /\ ord \in [Orders -> OrderStatus]
  /\ tickets \subseteq Orders

\* The kitchen works on exactly the approved orders: an order that a customer
\* cancels or a manager rejects while another approves it leaves no ticket.
TicketsMatch ==
  \A o \in Orders :
    o \in tickets <=> ord[o] \in {"APPROVED", "PREPARING", "READY", "SERVED"}

=============================================================================
