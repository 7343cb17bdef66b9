-------------------------- MODULE DeliveryPayments --------------------------
(***************************************************************************)
(* Checkout, payment and payment webhooks of delivery orders for one      *)
(* customer (src/src/payments).  Each action is one database transaction, *)
(* one read or one gateway call of a request handler: between two of them *)
(* any other handler may run, and the process may stop.                   *)
(*                                                                         *)
(* A payment row is named by its idempotency key (unique per customer), a *)
(* delivery order by the key of the payment created with it.              *)
(***************************************************************************)
EXTENDS Naturals, FiniteSets

CONSTANTS
  Keys,          \* idempotency keys of the customer
  Handlers,      \* concurrently served HTTP requests
  NoKey,         \* null key
  Foreign,       \* gateway orders of the dine-in and room-booking services
  EventKinds,    \* webhook event kinds the gateway account is subscribed to
  MaxBaskets,    \* bound: how often the cart is filled
  MaxLost        \* bound: requests lost to a crash or a failing dependency

ASSUME NoKeyAssumption == NoKey \notin Keys
ASSUME ForeignAssumption == Foreign \intersect (Keys \union {NoKey}) = {}
ASSUME KindsAssumption ==
  EventKinds \subseteq {"payment.captured", "order.paid", "payment.failed"}
ASSUME BoundsAssumption == MaxBaskets \in Nat /\ MaxLost \in Nat

VARIABLES
  cart,      \* the basket in the customer's cart, 0 when the cart is empty
  baskets,   \* how many times the cart has been filled
  pay,       \* payments table
  ord,       \* orders table: payment status of each order and what it sells
  req,       \* local state of each handler
  captured,  \* gateway: attempts whose money was captured
  sent,      \* gateway: webhook events it delivers, again and again
  hook,      \* payment_webhook_events table
  lost       \* number of requests lost so far

vars == <<cart, baskets, pay, ord, req, captured, sent, hook, lost>>
gateway == <<captured, sent>>

CaptureKinds == EventKinds \ {"payment.failed"}
Events == [of : Keys \union Foreign, kind : EventKinds]
NoEvent == [of |-> NoKey, kind |-> "none"]

PaymentStatus == {"none", "PROCESSING", "PENDING", "SUCCESS", "FAILED"}
Payments == [st : PaymentStatus, method : {"none", "ONLINE", "COD"},
             order : Keys \union {NoKey}, gw : BOOLEAN]
NoPayment == [st |-> "none", method |-> "none", order |-> NoKey, gw |-> FALSE]

\* An order keeps the items it was made of and, as history, what was in the
\* cart when its transaction held the cart's lock.
Orders == [st : {"none", "PENDING", "SUCCESS", "FAILED"},
           basket : 0..MaxBaskets, filling : 0..MaxBaskets]
NoOrder == [st |-> "none", basket |-> 0, filling |-> 0]

\* Where a handler is: the next thing it does.
Steps == {"idle", "placeOnline", "placeCod", "gateway", "save", "reject",
          "lockOrder", "commitRetry", "fetch", "complete",
          "store", "dispatch", "mark"}
Requests == [pc : Steps, key : Keys \union {NoKey}, order : Keys \union {NoKey},
             ev : Events \union {NoEvent},
             basket : 0..MaxBaskets]  \* the cart items it read, 0 before
Idle == [pc |-> "idle", key |-> NoKey, order |-> NoKey, ev |-> NoEvent, basket |-> 0]

Init ==
  /\ cart = 0
  /\ baskets = 0
  /\ pay = [k \in Keys |-> NoPayment]
  /\ ord = [k \in Keys |-> NoOrder]
  /\ req = [h \in Handlers |-> Idle]
  /\ captured = {}
  /\ sent = {}
  /\ hook = [e \in Events |-> "none"]
  /\ lost = 0

At(h, step) == req[h].pc = step
Goto(h, step, k, o) ==
  req' = [req EXCEPT ![h] = [pc |-> step, key |-> k, order |-> o, ev |-> NoEvent,
                             basket |-> 0]]
Continue(h, step) == req' = [req EXCEPT ![h].pc = step]
Finish(h) == req' = [req EXCEPT ![h] = Idle]

(***************************************************************************)
(* Queries and row locks of the payments repository.                      *)
(***************************************************************************)
Unused(k) == pay[k].st = "none"

HasOpenPayment ==
  \E k \in Keys : pay[k].method = "ONLINE" /\ pay[k].st \in {"PROCESSING", "PENDING"}

HasSuccess(o) == \E k \in Keys : pay[k].order = o /\ pay[k].st = "SUCCESS"

\* Mutant: requireOrder reads the order without locking it.
LockedNever(o) == FALSE /\ o = NoKey

\* A retry holds the row lock of its order from its checks to its commit.
Locked(o) == \E h \in Handlers : At(h, "commitRetry") /\ req[h].order = o

(***************************************************************************)
(* Cart service.  One basket stands for whatever is in the cart until it  *)
(* is next emptied.                                                        *)
(***************************************************************************)
AddItems ==
  /\ cart = 0
  /\ baskets < MaxBaskets
  /\ baskets' = baskets + 1
  /\ cart' = baskets + 1
  /\ UNCHANGED <<pay, ord, req, gateway, hook, lost>>

ClearCart ==
  /\ cart # 0
  /\ cart' = 0
  /\ UNCHANGED <<baskets, pay, ord, req, gateway, hook, lost>>

(***************************************************************************)
(* Paying online: createRazorpayOrder, createDeliveryAttempt.  A request  *)
(* that reuses a stored key answers with the stored payment and changes   *)
(* nothing, so it is not an action.                                       *)
(***************************************************************************)
RequestOnline(h, k) ==
  /\ At(h, "idle")
  /\ Unused(k) /\ ~HasOpenPayment
  /\ Goto(h, "placeOnline", k, k)
  /\ UNCHANGED <<cart, baskets, pay, ord, gateway, hook, lost>>

\* lockCartForUser takes the cart and its items with one statement but locks
\* the cart's row only.  A request that waits for the row gets it as it is
\* after the wait, and the items as they were before.
ReadItems(h) ==
  /\ req[h].pc \in {"placeOnline", "placeCod"} /\ req[h].basket = 0
  /\ cart # 0
  /\ req' = [req EXCEPT ![h].basket = cart]
  /\ UNCHANGED <<cart, baskets, pay, ord, gateway, hook, lost>>

\* The request has its items, and the row it has locked names a restaurant.
HoldsCart(h) == req[h].basket # 0 /\ cart # 0

OrderOfCart(h) == [st |-> "PENDING", basket |-> req[h].basket, filling |-> cart]

\* The order and its first attempt are committed.
CreateAttempt(h) ==
  LET k == req[h].key IN
  /\ At(h, "placeOnline")
  /\ HoldsCart(h) /\ Unused(k)
  /\ pay' = [pay EXCEPT ![k] = [st |-> "PROCESSING", method |-> "ONLINE",
                                order |-> k, gw |-> FALSE]]
  /\ ord' = [ord EXCEPT ![k] = OrderOfCart(h)]
  /\ Goto(h, "gateway", k, k)
  /\ UNCHANGED <<cart, baskets, gateway, hook, lost>>

\* Empty cart, unavailable item, closed restaurant, minimum not met, or the
\* key was taken meanwhile: the transaction rolls back.
RefuseCheckout(h) ==
  /\ req[h].pc \in {"placeOnline", "placeCod"}
  /\ Finish(h)
  /\ UNCHANGED <<cart, baskets, pay, ord, gateway, hook, lost>>

(***************************************************************************)
(* Paying on delivery: placeCodOrder.                                     *)
(***************************************************************************)
RequestCod(h, k) ==
  /\ At(h, "idle")
  /\ Unused(k)
  /\ Goto(h, "placeCod", k, k)
  /\ UNCHANGED <<cart, baskets, pay, ord, gateway, hook, lost>>

\* Mutant: the cart is read without its lock.
PlaceCodUnlocked(h) ==
  LET k == req[h].key IN
  /\ At(h, "placeCod")
  /\ req[h].basket # 0 /\ Unused(k)
  /\ pay' = [pay EXCEPT ![k] = [st |-> "PENDING", method |-> "COD",
                                order |-> k, gw |-> FALSE]]
  /\ ord' = [ord EXCEPT ![k] = [OrderOfCart(h) EXCEPT !.filling = req[h].basket]]
  /\ cart' = 0
  /\ Finish(h)
  /\ UNCHANGED <<baskets, gateway, hook, lost>>

PlaceCodOrder(h) ==
  LET k == req[h].key IN
  /\ At(h, "placeCod")
  /\ HoldsCart(h) /\ Unused(k)
  /\ pay' = [pay EXCEPT ![k] = [st |-> "PENDING", method |-> "COD",
                                order |-> k, gw |-> FALSE]]
  /\ ord' = [ord EXCEPT ![k] = OrderOfCart(h)]
  /\ cart' = 0
  /\ Finish(h)
  /\ UNCHANGED <<baskets, gateway, hook, lost>>

(***************************************************************************)
(* Settling: completePayment and failPayment lock the payment, then its   *)
(* order, and write both.                                                 *)
(***************************************************************************)
\* Mutant: findSuccessfulForOrder is not asked.
CompleteUnchecked(k) ==
  /\ ~Locked(pay[k].order)
  /\ pay' = [pay EXCEPT ![k].st = "SUCCESS"]
  /\ ord' = [ord EXCEPT ![pay[k].order].st = "SUCCESS"]
  /\ cart' = 0

\* Mutant: a payment recorded as failed cannot be completed any more.
CompletePendingOnly(k) ==
  /\ ~Locked(pay[k].order)
  /\ pay[k].st = "PENDING" /\ ~HasSuccess(pay[k].order)
  /\ pay' = [pay EXCEPT ![k].st = "SUCCESS"]
  /\ ord' = [ord EXCEPT ![pay[k].order].st = "SUCCESS"]
  /\ cart' = 0

CompletePayment(k) ==
  LET o == pay[k].order IN
  /\ ~Locked(o)
  /\ \/ /\ pay[k].st = "SUCCESS"
        /\ UNCHANGED <<pay, ord, cart>>
     \/ /\ ~HasSuccess(o)
        /\ pay' = [pay EXCEPT ![k].st = "SUCCESS"]
        /\ ord' = [ord EXCEPT ![o].st = "SUCCESS"]
        /\ cart' = 0

\* completePayment throws ORDER_ALREADY_PAID.
AlreadyPaid(k) ==
  /\ ~Locked(pay[k].order)
  /\ pay[k].st # "SUCCESS" /\ HasSuccess(pay[k].order)

\* Mutant: the early return for successful payments is missing.
FailAnyPayment(k) ==
  /\ ~Locked(pay[k].order)
  /\ pay' = [pay EXCEPT ![k].st = "FAILED"]
  /\ ord' = [ord EXCEPT ![pay[k].order].st = "FAILED"]
  /\ UNCHANGED cart

\* Mutant: the order gets a status that orders do not have.
FailAsExpired(k) ==
  /\ ~Locked(pay[k].order)
  /\ pay[k].st # "SUCCESS"
  /\ pay' = [pay EXCEPT ![k].st = "FAILED"]
  /\ ord' = [ord EXCEPT ![pay[k].order].st = "EXPIRED"]
  /\ UNCHANGED cart

FailPayment(k) ==
  LET o == pay[k].order IN
  /\ ~Locked(o)
  /\ IF pay[k].st = "SUCCESS"
     THEN UNCHANGED <<pay, ord>>
     ELSE /\ pay' = [pay EXCEPT ![k].st = "FAILED"]
          /\ ord' = [ord EXCEPT ![o].st = "FAILED"]
  /\ UNCHANGED cart

(***************************************************************************)
(* createGatewayOrder: the gateway is asked for an order outside of any   *)
(* transaction, then its id is stored if the payment is still PROCESSING. *)
(***************************************************************************)
GatewayAccepts(h) ==
  /\ At(h, "gateway")
  /\ Continue(h, "save")
  /\ UNCHANGED <<cart, baskets, pay, ord, gateway, hook, lost>>

\* The call fails, or the gateway's amount differs.
GatewayRejects(h) ==
  /\ At(h, "gateway")
  /\ Continue(h, "reject")
  /\ UNCHANGED <<cart, baskets, pay, ord, gateway, hook, lost>>

SaveGatewayOrder(h) ==
  LET k == req[h].key IN
  /\ At(h, "save")
  /\ IF pay[k].st = "PROCESSING"
     THEN pay' = [pay EXCEPT ![k].st = "PENDING", ![k].gw = TRUE]
     ELSE UNCHANGED pay
  /\ Finish(h)
  /\ UNCHANGED <<cart, baskets, ord, gateway, hook, lost>>

\* Mutant: the catch block rethrows instead of failing the payment.
LeaveAttempt(h) ==
  /\ At(h, "reject")
  /\ Finish(h)
  /\ UNCHANGED <<cart, baskets, pay, ord, gateway, hook, lost>>

FailAttempt(h) ==
  /\ At(h, "reject")
  /\ FailPayment(req[h].key)
  /\ Finish(h)
  /\ UNCHANGED <<baskets, gateway, hook, lost>>

(***************************************************************************)
(* retry: reads the failed payment, then in one transaction locks its     *)
(* order, checks it and commits a new attempt for it.                     *)
(***************************************************************************)
RequestRetry(h, failed, k) ==
  /\ At(h, "idle")
  /\ pay[failed].st = "FAILED"
  /\ Goto(h, "lockOrder", k, pay[failed].order)
  /\ UNCHANGED <<cart, baskets, pay, ord, gateway, hook, lost>>

\* Mutant: the retry trusts the status it read before its transaction.
RetryUnpaidUnchecked(k, o) == Unused(k) /\ ~HasOpenPayment /\ o # NoKey

RetryAllowed(k, o) ==
  /\ Unused(k)
  /\ ord[o].st # "SUCCESS" /\ ~HasSuccess(o)
  /\ ~HasOpenPayment

LockForRetry(h) ==
  /\ At(h, "lockOrder")
  /\ ~Locked(req[h].order)
  /\ RetryAllowed(req[h].key, req[h].order)
  /\ Continue(h, "commitRetry")
  /\ UNCHANGED <<cart, baskets, pay, ord, gateway, hook, lost>>

RefuseRetry(h) ==
  /\ At(h, "lockOrder")
  /\ ~Locked(req[h].order)
  /\ ~RetryAllowed(req[h].key, req[h].order)
  /\ Finish(h)
  /\ UNCHANGED <<cart, baskets, pay, ord, gateway, hook, lost>>

CommitRetry(h) ==
  LET k == req[h].key IN
  /\ At(h, "commitRetry")
  /\ Unused(k)
  /\ pay' = [pay EXCEPT ![k] = [st |-> "PROCESSING", method |-> "ONLINE",
                                order |-> req[h].order, gw |-> FALSE]]
  /\ Continue(h, "gateway")
  /\ UNCHANGED <<cart, baskets, ord, gateway, hook, lost>>

\* The unique index on the key rejects the insert.
RetryKeyTaken(h) ==
  /\ At(h, "commitRetry")
  /\ ~Unused(req[h].key)
  /\ Finish(h)
  /\ UNCHANGED <<cart, baskets, pay, ord, gateway, hook, lost>>

(***************************************************************************)
(* verify: the payment is read, the gateway is asked, and the payment is  *)
(* completed, whatever happened to it in between.                         *)
(***************************************************************************)
RequestVerify(h, k) ==
  /\ At(h, "idle")
  /\ pay[k].method = "ONLINE" /\ pay[k].st = "PENDING" /\ pay[k].gw
  /\ Goto(h, "fetch", k, pay[k].order)
  /\ UNCHANGED <<cart, baskets, pay, ord, gateway, hook, lost>>

FetchPayment(h) ==
  /\ At(h, "fetch")
  /\ IF req[h].key \in captured THEN Continue(h, "complete") ELSE Finish(h)
  /\ UNCHANGED <<cart, baskets, pay, ord, gateway, hook, lost>>

CompleteVerified(h) ==
  /\ At(h, "complete")
  /\ \/ CompletePayment(req[h].key)
     \/ AlreadyPaid(req[h].key) /\ UNCHANGED <<pay, ord, cart>>
  /\ Finish(h)
  /\ UNCHANGED <<baskets, gateway, hook, lost>>

\* The customer's report that checkout failed, in one transaction.
RecordFailure(k) ==
  /\ ~Unused(k)
  /\ FailPayment(k)
  /\ UNCHANGED <<baskets, req, gateway, hook, lost>>

(***************************************************************************)
(* The gateway.  The customer pays on a gateway order the service stored: *)
(* a try is declined any number of times before one is captured.          *)
(***************************************************************************)
Capture(k) ==
  /\ pay[k].gw /\ k \notin captured
  /\ captured' = captured \union {k}
  /\ sent' = sent \union [of : {k}, kind : CaptureKinds]
  /\ UNCHANGED <<cart, baskets, pay, ord, req, hook, lost>>

Decline(k) ==
  /\ pay[k].gw /\ k \notin captured
  /\ sent' = sent \union [of : {k}, kind : EventKinds \ CaptureKinds]
  /\ UNCHANGED <<cart, baskets, pay, ord, req, captured, hook, lost>>

\* All three services share one gateway account and its webhooks.
ForeignEvent(e) ==
  /\ e.of \in Foreign /\ e \notin sent
  /\ sent' = sent \union {e}
  /\ UNCHANGED <<cart, baskets, pay, ord, req, captured, hook, lost>>

(***************************************************************************)
(* handleRazorpayWebhook.  Deliveries repeat, overlap and come in any     *)
(* order.  A delivery of a stored event is answered with 204 and changes  *)
(* nothing, so it is not an action.                                       *)
(***************************************************************************)
ReceiveWebhook(h, e) ==
  /\ e \in sent /\ At(h, "idle")
  /\ hook[e] = "none"
  /\ req' = [req EXCEPT ![h] = [Idle EXCEPT !.pc = "store", !.ev = e]]
  /\ UNCHANGED <<cart, baskets, pay, ord, gateway, hook, lost>>

\* The unique event id lets one of several concurrent deliveries through.
SaveWebhook(h) ==
  LET e == req[h].ev IN
  /\ At(h, "store")
  /\ IF hook[e] = "none"
     THEN hook' = [hook EXCEPT ![e] = "new"] /\ Continue(h, "dispatch")
     ELSE UNCHANGED hook /\ Finish(h)
  /\ UNCHANGED <<cart, baskets, pay, ord, gateway, lost>>

Known(e) == e.of \in Keys /\ pay[e.of].gw

\* Mutant: the handler returns without marking the event ignored.
DropForeign(h) ==
  /\ At(h, "dispatch")
  /\ ~Known(req[h].ev)
  /\ Finish(h)
  /\ UNCHANGED <<cart, baskets, pay, ord, gateway, hook, lost>>

IgnoreWebhook(h) ==
  LET e == req[h].ev IN
  /\ At(h, "dispatch")
  /\ ~Known(e)
  /\ hook' = [hook EXCEPT ![e] = "ignored"]
  /\ Finish(h)
  /\ UNCHANGED <<cart, baskets, pay, ord, gateway, lost>>

ApplyCapture(h) ==
  LET e == req[h].ev IN
  /\ At(h, "dispatch")
  /\ Known(e) /\ e.kind \in CaptureKinds
  /\ CompletePayment(e.of)
  /\ Continue(h, "mark")
  /\ UNCHANGED <<baskets, gateway, hook, lost>>

\* The exception leaves the stored event neither processed nor ignored.
CaptureConflicts(h) ==
  LET e == req[h].ev IN
  /\ At(h, "dispatch")
  /\ Known(e) /\ e.kind \in CaptureKinds
  /\ AlreadyPaid(e.of)
  /\ Finish(h)
  /\ UNCHANGED <<cart, baskets, pay, ord, gateway, hook, lost>>

ApplyFailure(h) ==
  LET e == req[h].ev IN
  /\ At(h, "dispatch")
  /\ Known(e) /\ e.kind = "payment.failed"
  /\ FailPayment(e.of)
  /\ Continue(h, "mark")
  /\ UNCHANGED <<baskets, gateway, hook, lost>>

MarkProcessed(h) ==
  LET e == req[h].ev IN
  /\ At(h, "mark")
  /\ hook' = [hook EXCEPT ![e] = "processed"]
  /\ Finish(h)
  /\ UNCHANGED <<cart, baskets, pay, ord, gateway, lost>>

\* The process stops, the database connection fails, or the gateway client
\* is not configured: the handler ends between two of its transactions, or
\* in one, which rolls back.
LoseRequest(h) ==
  /\ ~At(h, "idle")
  /\ lost < MaxLost
  /\ lost' = lost + 1
  /\ Finish(h)
  /\ UNCHANGED <<cart, baskets, pay, ord, gateway, hook>>

-----------------------------------------------------------------------------

\* handleRazorpayWebhook, once the event is taken.
WebhookStep(h) ==
  \/ SaveWebhook(h)
  \/ IgnoreWebhook(h)
  \/ ApplyCapture(h)
  \/ CaptureConflicts(h)
  \/ ApplyFailure(h)
  \/ MarkProcessed(h)

\* What a handler does once it has started.
Step(h) ==
  \/ ReadItems(h)
  \/ CreateAttempt(h)
  \/ RefuseCheckout(h)
  \/ PlaceCodOrder(h)
  \/ GatewayAccepts(h)
  \/ GatewayRejects(h)
  \/ SaveGatewayOrder(h)
  \/ FailAttempt(h)
  \/ LockForRetry(h)
  \/ RefuseRetry(h)
  \/ CommitRetry(h)
  \/ RetryKeyTaken(h)
  \/ FetchPayment(h)
  \/ CompleteVerified(h)
  \/ WebhookStep(h)

\* Cash on delivery has a controller of its own, and both kinds of order share
\* the compatibility endpoint.
CodRequest == \E h \in Handlers, k \in Keys : RequestCod(h, k)
OrderRequest == CodRequest \/ \E h \in Handlers, k \in Keys : RequestOnline(h, k)

\* Requests of the payments controller.
PaymentRequest ==
  \/ OrderRequest
  \/ \E h \in Handlers, failed, k \in Keys : RequestRetry(h, failed, k)
  \/ \E h \in Handlers, k \in Keys : RequestVerify(h, k)
  \/ \E k \in Keys : RecordFailure(k)

Next ==
  \/ AddItems
  \/ ClearCart
  \/ PaymentRequest
  \/ \E h \in Handlers, e \in Events : ReceiveWebhook(h, e)
  \/ \E h \in Handlers : Step(h)
  \/ \E h \in Handlers : LoseRequest(h)
  \/ \E k \in Keys : Capture(k)
  \/ \E k \in Keys : Decline(k)
  \/ \E e \in Events : ForeignEvent(e)

Spec == Init /\ [][Next]_vars

(***************************************************************************)
(* A started handler keeps running (the event loop and the database       *)
(* serve it), and the gateway delivers an event again until a handler     *)
(* takes it.  Nothing is assumed of customers, and nothing of replays.    *)
(***************************************************************************)
Fairness ==
  /\ \A h \in Handlers : WF_vars(Step(h))
  /\ \A e \in Events : SF_vars(\E h \in Handlers : ReceiveWebhook(h, e))

FairSpec == Spec /\ Fairness

-----------------------------------------------------------------------------

TypeOK ==
  /\ baskets \in 0..MaxBaskets
  /\ cart \in 0..baskets
  /\ pay \in [Keys -> Payments]
  /\ ord \in [Keys -> Orders]
  /\ req \in [Handlers -> Requests]
  /\ captured \subseteq Keys
  /\ sent \subseteq Events
  /\ hook \in [Events -> {"none", "new", "processed", "ignored"}]
  /\ lost \in 0..MaxLost

\* An order is never settled by two payments, however verification, webhooks
\* and retries of it interleave (completePayment, retry).
SettledOnce ==
  \A j, k \in Keys :
    pay[j].st = "SUCCESS" /\ pay[k].st = "SUCCESS" /\ pay[j].order = pay[k].order
      => j = k

\* A payment succeeds only on money the gateway captured for that payment:
\* neither a stale read, a replay nor a foreign event settles one.
PaidMeansCaptured ==
  \A k \in Keys : pay[k].st = "SUCCESS" => k \in captured

\* An order shown as paid has a payment that paid it.
OrderPaidHasPayment ==
  \A o \in Keys : ord[o].st = "SUCCESS" => HasSuccess(o)

\* Nothing is shown as paid that was not: behind every paid order stands a
\* payment, and behind every successful payment captured money.
PaidForReal == PaidMeansCaptured /\ OrderPaidHasPayment

\* Money and orders agree: one payment settles an order, on captured money, and
\* no order is shown as paid without it.
MoneySound == SettledOnce /\ PaidForReal

\* A capture event marked processed has settled its payment, whatever other
\* event of the same payment was handled before or since.
ProcessedMeansApplied ==
  \A e \in Events :
    e.kind \in CaptureKinds /\ hook[e] = "processed" =>
      e.of \in Keys /\ pay[e.of].st = "SUCCESS"

\* However often, and under however many keys, the customer taps, one filling of
\* the cart makes one cash-on-delivery order (placeCodOrder).  The items of an
\* order may be older than that filling: a request that waited sells what it
\* read before, and so can sell a basket once more, but only in place of what
\* the cart was filled with since.
CodOncePerFilling ==
  \A j \in Keys : pay[j].method = "COD" =>
    /\ ord[j].basket \in 1..ord[j].filling
    /\ \A k \in Keys \ {j} : pay[k].method = "COD" => ord[k].filling # ord[j].filling

\* A stored event is decided when it is marked, or when its capture came too
\* late for an order that is settled.
Decided(e) ==
  \/ hook[e] \in {"processed", "ignored"}
  \/ e.kind \in CaptureKinds /\ e.of \in Keys /\ HasSuccess(pay[e.of].order)

\* A request that still has to bring an attempt to its gateway order or its
\* end, or a stored event to its mark.
Tends(h, k) == req[h].key = k /\ req[h].pc \in {"gateway", "save", "reject"}
Applies(h, e) == req[h].ev = e /\ req[h].pc \in {"dispatch", "mark"}

Abandoned ==
  {k \in Keys : pay[k].st = "PROCESSING" /\ ~ \E h \in Handlers : Tends(h, k)}
Forgotten ==
  {e \in Events : hook[e] = "new" /\ ~Decided(e) /\ ~ \E h \in Handlers : Applies(h, e)}

\* No attempt is left PROCESSING, where it keeps its customer from paying, and
\* no stored event is left undecided, unless the request that had it in hand
\* was lost; and each lost request leaves one of them behind at most.
AbandonedByLossOnly == Cardinality(Abandoned) + Cardinality(Forgotten) <= lost

\* Payment statuses move only forward: a failed attempt is never reopened by
\* a late gateway answer, and a successful one never changes.
LegalMove(from, to) ==
  \/ from = to
  \/ from = "none" /\ to \in {"PROCESSING", "PENDING"}
  \/ from = "PROCESSING" /\ to \in {"PENDING", "FAILED"}
  \/ from = "PENDING" /\ to \in {"SUCCESS", "FAILED"}
  \/ from = "FAILED" /\ to = "SUCCESS"

LegalMoves == [][\A k \in Keys : LegalMove(pay[k].st, pay'[k].st)]_vars

\* An attempt is never opened on an order that is already paid, even when the
\* payment being retried succeeds after the retry read it as failed.
NoAttemptOnPaidOrder ==
  [][\A k \in Keys : Unused(k) /\ pay'[k].st # "none" => ~HasSuccess(pay'[k].order)]_vars

\* Attempts go forward, and none is opened where nothing is left to pay.
AttemptsSound == LegalMoves /\ NoAttemptOnPaidOrder

\* The service implements the abstract settlement of orders.
Settlement == INSTANCE OrderSettlement WITH
  attempt <- [k \in Keys |-> pay[k].order],
  captured <- captured,
  settled <- {k \in Keys : pay[k].st = "SUCCESS"}

SettlementSpec == Settlement!Spec

\* Captured money always ends up settling its order, even when the payment
\* was recorded as failed first; no other order is left unpaid by it.
CapturedSettles ==
  \A k \in Keys : k \in captured ~> HasSuccess(pay[k].order)

\* An attempt does not stay PROCESSING: until it resolves, the customer can
\* open no other (findOpenForCustomer).
AttemptsResolve ==
  \A k \in Keys : pay[k].st = "PROCESSING" ~> pay[k].st # "PROCESSING"

\* razorpay-delivery-webhook.controller.ts:33, a 204 means "Webhook processed
\* or ignored safely.": every delivery of a stored event is answered with 204,
\* so a stored event comes to be decided, or the order of its capture is
\* settled, by this payment or by another.  Only while no handler is lost.
AnsweredIsHandled == \A e \in Events : hook[e] = "new" ~> Decided(e)

\* A claim of the repository that the code does not keep.
\* payments.service.spec.ts:289, "marks captured payments successful and
\* updates the delivery order payment status".
SuccessKeepsOrderPaid ==
  \A k \in Keys : pay[k].st = "SUCCESS" => ord[pay[k].order].st = "SUCCESS"

\* What it does keep of it: an order that was paid at the first attempt shows
\* that it is paid, whatever arrives late.
PaidUnlessRetried ==
  \A k \in Keys :
    pay[k].st = "SUCCESS" /\ (\A j \in Keys \ {k} : pay[j].order # pay[k].order) =>
      ord[pay[k].order].st = "SUCCESS"

\* And the one way to lose it: a failure of another attempt is recorded.
UnpaidByFailureOnly ==
  [][\A o \in Keys : HasSuccess(o) /\ ord'[o] # ord[o] =>
       \E k \in Keys : pay[k].order = o /\ pay[k].st # "SUCCESS" /\ FailPayment(k)]_vars

=============================================================================
