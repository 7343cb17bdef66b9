---------------------------- MODULE DineInBilling ----------------------------
(***************************************************************************)
(* The bill of one dine-in session and its payments                       *)
(* (src/src/dine-in/dine-in-invoices.service.ts and                       *)
(* dine-in-payments.service.ts), on top of its orders (DineInOrders).  An *)
(* action is one transaction or one gateway call: a transaction locks the *)
(* payment, the invoice and the session before it reads them, or reads    *)
(* only what those locks keep still.                                      *)
(*                                                                         *)
(* A session has one invoice (unique in the database).  A payment is      *)
(* named by its idempotency key, unique for the invoice.                  *)
(***************************************************************************)
EXTENDS Naturals, DineInOrders, SessionStatus

CONSTANTS
  Keys,      \* idempotency keys of payment attempts
  Handlers,  \* concurrently served HTTP requests
  NoKey,     \* null key
  KeepsKeyOrder,  \* whether the column of a snapshot keeps the order of its keys
  MaxLost    \* bound: requests lost to a crash or a failing dependency

ASSUME NoKeyAssumption == NoKey \notin Keys
ASSUME ColumnAssumption == KeepsKeyOrder \in BOOLEAN
ASSUME BoundsAssumption == MaxLost \in Nat

VARIABLES
  bill,      \* dine_in_invoices row: its status and the orders of its snapshot
  pay,       \* payments rows of the invoice
  req,       \* local state of each handler
  captured,  \* gateway: attempts whose money was captured
  declined,  \* gateway: attempts of which a try failed
  lost       \* number of requests lost so far

vars == <<session, ord, tickets, bill, pay, req, captured, declined, lost>>
gateway == <<captured, declined>>

Bills == [st : {"none", "REQUESTED", "PAYMENT_PENDING", "PAID", "CANCELLED"},
          orders : SUBSET Orders]

Payments == [st : {"none", "PROCESSING", "PENDING", "AWAITING_CASH_CONFIRMATION",
                   "SUCCESS", "FAILED", "CANCELLED"},
             method : {"none", "ONLINE", "CASH"}, gw : BOOLEAN]
NoPayment == [st |-> "none", method |-> "none", gw |-> FALSE]

Requests == [pc : {"idle", "gateway", "save", "reject", "query", "cancel", "complete"},
             key : Keys \union {NoKey}]
Idle == [pc |-> "idle", key |-> NoKey]

Init ==
  /\ OrdersInit
  /\ bill = [st |-> "none", orders |-> {}]
  /\ pay = [k \in Keys |-> NoPayment]
  /\ req = [h \in Handlers |-> Idle]
  /\ captured = {} /\ declined = {}
  /\ lost = 0

At(h, step) == req[h].pc = step
Goto(h, step, k) == req' = [req EXCEPT ![h] = [pc |-> step, key |-> k]]
Continue(h, step) == req' = [req EXCEPT ![h].pc = step]
Finish(h) == req' = [req EXCEPT ![h] = Idle]

Unused(k) == pay[k].st = "none"
Succeeded(k) == pay[k].st = "SUCCESS"
Online(k) == pay[k].method = "ONLINE"
IsOpen(k) == pay[k].st \in {"PROCESSING", "PENDING", "AWAITING_CASH_CONFIRMATION"}
Payable == bill.st = "PAYMENT_PENDING" /\ session = "PAYMENT_PENDING"

(***************************************************************************)
(* The bill: requestBill by a customer, confirm and cancelRequest by the  *)
(* restaurant.                                                            *)
(***************************************************************************)
\* buildSnapshot: an order is written down as its items and prices, which never
\* change once it is made.
Snapshot == Served

\* The stored snapshot and a new one are compared as JSON text, so even equal
\* ones differ when the column gives the keys of an order back in another order.
\* PostgreSQL's jsonb, which the schema uses, does; json does not.
MatchesFrozenInvoice == bill.orders = Snapshot /\ (KeepsKeyOrder \/ Snapshot = {})

\* Mutant: a cancelled bill is reopened with its old snapshot.
RequestBillAgain ==
  /\ session = "ACTIVE"
  /\ Unfinished = {} /\ Served # {}
  /\ bill.st \in {"none", "CANCELLED"}
  /\ bill' = [st |-> "REQUESTED",
              orders |-> IF bill.st = "none" THEN Snapshot ELSE bill.orders]
  /\ session' = "BILL_REQUESTED"
  /\ UNCHANGED <<ord, tickets, pay, req, gateway, lost>>

RequestBill ==
  /\ session = "ACTIVE"
  /\ Unfinished = {} /\ Served # {}
  /\ bill.st \in {"none", "CANCELLED"}
  /\ bill' = [st |-> "REQUESTED", orders |-> Snapshot]
  /\ session' = "BILL_REQUESTED"
  /\ UNCHANGED <<ord, tickets, pay, req, gateway, lost>>

ConfirmBill ==
  /\ bill.st = "REQUESTED" /\ session = "BILL_REQUESTED"
  /\ Unfinished = {} /\ MatchesFrozenInvoice
  /\ bill' = [bill EXCEPT !.st = "PAYMENT_PENDING"]
  /\ session' = "PAYMENT_PENDING"
  /\ UNCHANGED <<ord, tickets, pay, req, gateway, lost>>

CancelBillRequest ==
  /\ bill.st = "REQUESTED" /\ session = "BILL_REQUESTED"
  /\ bill' = [bill EXCEPT !.st = "CANCELLED"]
  /\ session' = "ACTIVE"
  /\ UNCHANGED <<ord, tickets, pay, req, gateway, lost>>

(***************************************************************************)
(* initiate: createAttempt, then for an online payment the gateway.       *)
(***************************************************************************)
\* Mutant: findOpenForInvoice is not asked.
MayAttemptTwice(k) ==
  /\ Unused(k) /\ Payable
  /\ ~ \E j \in Keys : Succeeded(j)

MayAttempt(k) ==
  /\ Unused(k) /\ Payable
  /\ ~ \E j \in Keys : Succeeded(j) \/ IsOpen(j)

InitiateCash(k) ==
  /\ MayAttempt(k)
  /\ pay' = [pay EXCEPT ![k] = [st |-> "AWAITING_CASH_CONFIRMATION",
                                method |-> "CASH", gw |-> FALSE]]
  /\ UNCHANGED <<dining, bill, req, gateway, lost>>

InitiateOnline(h, k) ==
  /\ At(h, "idle")
  /\ MayAttempt(k)
  /\ pay' = [pay EXCEPT ![k] = [st |-> "PROCESSING", method |-> "ONLINE", gw |-> FALSE]]
  /\ Goto(h, "gateway", k)
  /\ UNCHANGED <<dining, bill, gateway, lost>>

GatewayAccepts(h) ==
  /\ At(h, "gateway")
  /\ Continue(h, "save")
  /\ UNCHANGED <<dining, bill, pay, gateway, lost>>

\* The call fails, the amounts differ, or the answer cannot be stored.
GatewayFails(h) ==
  /\ At(h, "gateway") \/ At(h, "save")
  /\ Continue(h, "reject")
  /\ UNCHANGED <<dining, bill, pay, gateway, lost>>

\* Mutant: the status is not read again under the lock.
SaveGatewayBlindly(h) ==
  /\ At(h, "save")
  /\ pay' = [pay EXCEPT ![req[h].key].st = "PENDING", ![req[h].key].gw = TRUE]
  /\ Finish(h)
  /\ UNCHANGED <<dining, bill, gateway, lost>>

SaveGatewayOrder(h) ==
  LET k == req[h].key IN
  /\ At(h, "save")
  /\ IF pay[k].st = "PROCESSING"
     THEN pay' = [pay EXCEPT ![k].st = "PENDING", ![k].gw = TRUE]
     ELSE UNCHANGED pay
  /\ Finish(h)
  /\ UNCHANGED <<dining, bill, gateway, lost>>

(***************************************************************************)
(* recordGatewayFailure and completeVerifiedPayment.                      *)
(***************************************************************************)
RecordGatewayFailure(k) ==
  IF pay[k].st \in {"SUCCESS", "CANCELLED"}
  THEN UNCHANGED pay
  ELSE pay' = [pay EXCEPT ![k].st = "FAILED"]

FailAttempt(h) ==
  /\ At(h, "reject")
  /\ RecordGatewayFailure(req[h].key)
  /\ Finish(h)
  /\ UNCHANGED <<dining, bill, gateway, lost>>

Settle(k) ==
  /\ pay' = [pay EXCEPT ![k].st = "SUCCESS"]
  /\ bill' = [bill EXCEPT !.st = "PAID"]
  /\ session' = "COMPLETED"

\* Mutant: neither the other payments nor the bill are looked at.
CompleteUnchecked(k) == Settle(k)

\* Mutant: only an open payment can be completed.
CompleteOpenOnly(k) ==
  IF IsOpen(k) /\ Payable THEN Settle(k) ELSE UNCHANGED <<pay, bill, session>>

\* PAYMENT_ALREADY_SUCCESSFUL and the errors of ensurePaymentEligibility roll
\* back; a payment recorded as failed or cancelled is completed all the same.
CompletePayment(k) ==
  IF ~Succeeded(k) /\ Payable /\ ~ \E j \in Keys : Succeeded(j)
  THEN Settle(k)
  ELSE UNCHANGED <<pay, bill, session>>

CompleteVerified(h) ==
  /\ At(h, "complete")
  /\ CompletePayment(req[h].key)
  /\ Finish(h)
  /\ UNCHANGED <<ord, tickets, gateway, lost>>

(***************************************************************************)
(* verify and cancel read the payment and ask the gateway before they     *)
(* lock anything; confirmCash reads the payment.                          *)
(***************************************************************************)
\* The read and the gateway's answer are one step: money stays captured, and
\* the status is not used again.
Verify(h, k) ==
  /\ At(h, "idle")
  /\ Online(k) /\ pay[k].st = "PENDING" /\ pay[k].gw
  /\ k \in captured
  /\ Goto(h, "complete", k)
  /\ UNCHANGED <<dining, bill, pay, gateway, lost>>

RequestCancel(h, k) ==
  /\ At(h, "idle")
  /\ Online(k) /\ pay[k].st \in {"PROCESSING", "PENDING"}
  /\ Goto(h, IF pay[k].gw THEN "query" ELSE "cancel", k)
  /\ UNCHANGED <<dining, bill, pay, gateway, lost>>

\* Captured money is reconciled instead.
QueryGateway(h) ==
  /\ At(h, "query")
  /\ Continue(h, IF req[h].key \in captured THEN "complete" ELSE "cancel")
  /\ UNCHANGED <<dining, bill, pay, gateway, lost>>

\* The gateway does not answer, or holds money authorised but not captured.
QueryFails(h) ==
  /\ At(h, "query")
  /\ Finish(h)
  /\ UNCHANGED <<dining, bill, pay, gateway, lost>>

CancelPayment(h) ==
  LET k == req[h].key IN
  /\ At(h, "cancel")
  /\ IF pay[k].st \in {"PROCESSING", "PENDING"} /\ Payable
     THEN pay' = [pay EXCEPT ![k].st = "CANCELLED"]
     ELSE UNCHANGED pay
  /\ Finish(h)
  /\ UNCHANGED <<dining, bill, gateway, lost>>

ConfirmCash(h, k) ==
  /\ At(h, "idle")
  /\ pay[k].st = "AWAITING_CASH_CONFIRMATION"
  /\ Goto(h, "complete", k)
  /\ UNCHANGED <<dining, bill, pay, gateway, lost>>

\* One transaction, which locks the payment before it reads it.
RejectCash(k) ==
  /\ pay[k].st = "AWAITING_CASH_CONFIRMATION"
  /\ pay' = [pay EXCEPT ![k].st = "FAILED"]
  /\ UNCHANGED <<dining, bill, req, gateway, lost>>

(***************************************************************************)
(* The gateway: the customer may pay on any stored gateway order, those   *)
(* of failed and cancelled attempts included.                             *)
(***************************************************************************)
Capture(k) ==
  /\ pay[k].gw /\ k \notin captured
  /\ captured' = captured \union {k}
  /\ UNCHANGED <<dining, bill, pay, req, declined, lost>>

Decline(k) ==
  /\ pay[k].gw /\ k \notin captured \union declined
  /\ declined' = declined \union {k}
  /\ UNCHANGED <<dining, bill, pay, req, captured, lost>>

(***************************************************************************)
(* handleRazorpayWebhook.  Nothing that it reads before its transaction   *)
(* can change, so a delivery is one step.  Deliveries repeat and come in  *)
(* any order; payment.captured and order.paid are handled alike, and the  *)
(* events of other services find no payment of an invoice.  A payment     *)
(* that has the event's id is successful, so the event changes nothing.   *)
(***************************************************************************)
CaptureWebhook(k) ==
  /\ k \in captured
  /\ CompletePayment(k)
  /\ UNCHANGED <<ord, tickets, req, gateway, lost>>

FailureWebhook(k) ==
  /\ k \in declined
  /\ RecordGatewayFailure(k)
  /\ UNCHANGED <<dining, bill, req, gateway, lost>>

\* The process stops or the database connection fails: the handler ends
\* between two transactions, or in one, which rolls back.
LoseRequest(h) ==
  /\ ~At(h, "idle")
  /\ lost < MaxLost
  /\ lost' = lost + 1
  /\ Finish(h)
  /\ UNCHANGED <<dining, bill, pay, gateway>>

-----------------------------------------------------------------------------

Step(h) ==
  \/ GatewayAccepts(h)
  \/ GatewayFails(h)
  \/ SaveGatewayOrder(h)
  \/ FailAttempt(h)
  \/ QueryGateway(h)
  \/ QueryFails(h)
  \/ CancelPayment(h)
  \/ CompleteVerified(h)

\* Requests of the restaurant's invoices controller.
BillManagement == ConfirmBill \/ CancelBillRequest

\* Requests of the guests' payments controller.
PaymentRequest ==
  \/ \E k \in Keys : InitiateCash(k)
  \/ \E h \in Handlers, k \in Keys : InitiateOnline(h, k)
  \/ \E h \in Handlers, k \in Keys : Verify(h, k)
  \/ \E h \in Handlers, k \in Keys : RequestCancel(h, k)

\* Requests of the restaurant's payments controller.
CashDesk ==
  \/ \E h \in Handlers, k \in Keys : ConfirmCash(h, k)
  \/ \E k \in Keys : RejectCash(k)

Webhook ==
  \/ \E k \in Keys : CaptureWebhook(k)
  \/ \E k \in Keys : FailureWebhook(k)

Next ==
  \/ OrderStep /\ UNCHANGED <<bill, pay, req, gateway, lost>>
  \/ RequestBill
  \/ BillManagement
  \/ PaymentRequest
  \/ CashDesk
  \/ Webhook
  \/ \E h \in Handlers : Step(h)
  \/ \E h \in Handlers : LoseRequest(h)
  \/ \E k \in Keys : Capture(k)
  \/ \E k \in Keys : Decline(k)

Spec == Init /\ [][Next]_vars

(***************************************************************************)
(* A started handler keeps running, and the gateway delivers a capture    *)
(* again until it is answered.  Nothing is assumed of customers or staff. *)
(***************************************************************************)
Fairness ==
  /\ \A h \in Handlers : WF_vars(Step(h))
  /\ \A k \in Keys : WF_vars(CaptureWebhook(k))

FairSpec == Spec /\ Fairness

-----------------------------------------------------------------------------

TypeOK ==
  /\ OrdersTypeOK
  /\ bill \in Bills
  /\ pay \in [Keys -> Payments]
  /\ req \in [Handlers -> Requests]
  /\ captured \subseteq Keys
  /\ declined \subseteq Keys
  /\ lost \in 0..MaxLost

\* From the moment a bill is requested until it is paid it lists exactly the
\* orders that were served, and none is outstanding: the kitchen and the
\* rejection of orders, which never look at the session, have nothing to do.
BillMatchesOrders ==
  bill.st \in {"REQUESTED", "PAYMENT_PENDING", "PAID"} =>
    bill.orders = Served /\ Unfinished = {}

\* The total shown during the visit is kept by other code, which counts orders
\* from their approval: it has to be the one billed, and stay it.
ShownTotalIsBill ==
  bill.st \in {"REQUESTED", "PAYMENT_PENDING", "PAID"} => PayableOrders = bill.orders

\* A standing bill is of the served orders and of the total that is shown.
BillAsShown == BillMatchesOrders /\ ShownTotalIsBill

\* A claim the code does not keep.
\* dine-in-invoices-management.controller.ts:81, "Freeze and confirm a requested
\* bill for payment": nothing can change the served orders of a requested bill,
\* so the restaurant can always confirm it.
RequestedIsConfirmable == bill.st = "REQUESTED" => ENABLED ConfirmBill

\* However verification, cash confirmation, reconciliation and webhooks race,
\* a bill is paid by one payment, and then the session is over.
PaidOnce ==
  /\ \A j, k \in Keys : Succeeded(j) /\ Succeeded(k) => j = k
  /\ (\E k \in Keys : Succeeded(k)) <=> bill.st = "PAID"
  /\ bill.st = "PAID" <=> session = "COMPLETED"

\* An online payment succeeds only on money the gateway captured for it.
PaidIsCaptured == \A k \in Keys : Succeeded(k) /\ Online(k) => k \in captured

\* The bill is closed by exactly one payment, and an online one was captured.
PaidSound == PaidOnce /\ PaidIsCaptured

\* One payment of the bill is in progress at most: cash and online attempts
\* of all guests at the table exclude each other.
OneOpenAttempt == \A j, k \in Keys : IsOpen(j) /\ IsOpen(k) => j = k

\* A request that still has to bring an attempt to its gateway order or its end.
Tends(h, k) == req[h].key = k /\ req[h].pc \in {"gateway", "save", "reject"}

\* While no request is lost, no attempt stays PROCESSING after the request that
\* opened it is done with it: it would keep the whole table from paying.
OpenIsTended ==
  \A k \in Keys : pay[k].st = "PROCESSING" => lost > 0 \/ \E h \in Handlers : Tends(h, k)

\* Attempts exclude each other, and none excludes the others for nothing.
AttemptsInHand == OneOpenAttempt /\ OpenIsTended

\* A bill that somebody tried to pay is never taken back for changes.
AttemptsOnConfirmedBill ==
  \A k \in Keys : ~Unused(k) => bill.st \in {"PAYMENT_PENDING", "PAID"}

\* A finished attempt is never reopened by a late gateway answer; it can only
\* turn out to be paid, and a paid one never changes.
FinishedStaysFinished ==
  [][\A k \in Keys :
       /\ Succeeded(k) => Succeeded(k)'
       /\ pay[k].st \in {"FAILED", "CANCELLED"} => pay'[k].st \in {pay[k].st, "SUCCESS"}]_vars

\* The session's status moves only as DineInSessions supposes: what is shown
\* there of tables and guests holds with this bill and these payments.
SessionMovesKnown == [][session' \in AfterBilling(session)]_session

\* The session implements the abstract visit of a table.
Phase == [ACTIVE |-> "dining", BILL_REQUESTED |-> "billed",
          PAYMENT_PENDING |-> "paying", COMPLETED |-> "settled"]

Visit == INSTANCE TableVisit WITH
  phase <- Phase[session],
  ordered <- {o \in Orders : ord[o] # "none"},
  waiting <- Unfinished,
  served <- Served,
  bill <- IF session = "ACTIVE" THEN {} ELSE bill.orders

VisitSpec == Visit!Spec

\* Captured money settles the bill, even when its attempt was recorded as
\* failed or cancelled first and whichever handlers are lost, unless another
\* payment settled it.
CapturedSettles == \A k \in Keys : k \in captured ~> bill.st = "PAID"

\* An attempt does not stay PROCESSING, where it keeps the other guests from
\* paying, unless its request was lost.
AttemptsResolve ==
  \A k \in Keys : pay[k].st = "PROCESSING" ~> pay[k].st # "PROCESSING" \/ lost > 0

\* Attempts come to an end, and so does a bill for which money was taken.
PaymentsConclude == CapturedSettles /\ AttemptsResolve

=============================================================================
