---------------------------- MODULE RoomBooking ----------------------------
(***************************************************************************)
(* Bookings of one hotel room, the inventory they reserve, and their      *)
(* online payments (src/src/room-booking).  As in DeliveryPayments, an    *)
(* action is one database transaction or one gateway call.  The rows of a *)
(* transaction are locked to its end, so what it reads of reserved, of a  *)
(* booking and of its payments is current; only the checkout transaction, *)
(* which calls the gateway before it commits, takes two steps.            *)
(***************************************************************************)
EXTENDS Naturals, FiniteSets

CONSTANTS
  Bookings,      \* names of bookings
  Keys,          \* idempotency keys, which name the payment attempts
  Handlers,      \* concurrently served HTTP requests
  NoKey,         \* null key
  NoBooking,     \* null booking
  Foreign,       \* gateway orders of the delivery and dine-in services
  EventKinds,    \* webhook event kinds the gateway account is subscribed to
  LastNight,     \* bound: the nights on sale are 1..LastNight
  MaxRooms,      \* bound: the most rooms one booking takes
  Capacity,      \* total less blocked inventory of each night, 0 without a row
  MaxLost        \* bound: requests lost to a crash or a failing dependency

ASSUME NoKeyAssumption == NoKey \notin Keys
ASSUME NoBookingAssumption == NoBooking \notin Bookings
ASSUME ForeignAssumption == Foreign \intersect (Keys \union {NoKey}) = {}
ASSUME KindsAssumption ==
  EventKinds \subseteq {"payment.captured", "order.paid", "payment.failed"}
ASSUME BoundsAssumption ==
  LastNight \in Nat /\ MaxRooms \in Nat /\ MaxLost \in Nat
ASSUME CapacityAssumption == Capacity \in [1..LastNight -> Nat]

VARIABLES
  reserved,  \* room_inventory.reserved_inventory of each night
  book,      \* hotel_bookings table; latest is the newest payment of a booking
  pay,       \* hotel_booking_payments table
  req,       \* local state of each handler
  captured,  \* gateway: attempts whose money was captured
  sent,      \* gateway: webhook events it delivers, again and again
  hook,      \* hotel_booking_payment_webhook_events table
  lost       \* number of requests lost so far

vars == <<reserved, book, pay, req, captured, sent, hook, lost>>
gateway == <<captured, sent>>

Nights == 1..LastNight
Stays == {i..j : i, j \in Nights} \ {{}}

BookingRows ==
  [st : {"none", "PENDING", "CONFIRMED", "CANCELLED"},
   paid : {"none", "PENDING", "PAID", "PAY_AT_HOTEL"},
   nights : SUBSET Nights, rooms : 0..MaxRooms, latest : Keys \union {NoKey}]
NoRow == [st |-> "none", paid |-> "none", nights |-> {}, rooms |-> 0, latest |-> NoKey]

Payments == [st : {"none", "PENDING", "PAID", "FAILED"},
             booking : Bookings \union {NoBooking}, gw : BOOLEAN]
NoPayment == [st |-> "none", booking |-> NoBooking, gw |-> FALSE]

CaptureKinds == EventKinds \ {"payment.failed"}
Events == [of : Keys \union Foreign, kind : EventKinds]
NoEvent == [of |-> NoKey, kind |-> "none"]

Requests == [pc : {"idle", "checkout", "gateway", "reject", "complete", "dispatch", "mark"},
             key : Keys \union {NoKey}, ev : Events \union {NoEvent}]
Idle == [pc |-> "idle", key |-> NoKey, ev |-> NoEvent]

Init ==
  /\ reserved = [n \in Nights |-> 0]
  /\ book = [b \in Bookings |-> NoRow]
  /\ pay = [k \in Keys |-> NoPayment]
  /\ req = [h \in Handlers |-> Idle]
  /\ captured = {}
  /\ sent = {}
  /\ hook = [e \in Events |-> "none"]
  /\ lost = 0

At(h, step) == req[h].pc = step
Goto(h, step, k) == req' = [req EXCEPT ![h] = [Idle EXCEPT !.pc = step, !.key = k]]
Continue(h, step) == req' = [req EXCEPT ![h].pc = step]
Finish(h) == req' = [req EXCEPT ![h] = Idle]

Unused(k) == pay[k].st = "none"
HasPaid(b) == \E k \in Keys : pay[k].booking = b /\ pay[k].st = "PAID"
Active(b) == book[b].st \in {"PENDING", "CONFIRMED"}

\* A checkout holds the locks of its payment and booking while it waits for
\* the gateway.
Locked(b) == \E h \in Handlers : At(h, "gateway") /\ pay[req[h].key].booking = b

(***************************************************************************)
(* Availability: every night of the stay has a row with rooms left.       *)
(***************************************************************************)
\* Mutant: only the first night is looked at.
AvailableOnArrival(nights, rooms) ==
  \E n \in nights : (\A m \in nights : n <= m) /\ reserved[n] + rooms <= Capacity[n]

Available(nights, rooms) == \A n \in nights : reserved[n] + rooms <= Capacity[n]

\* The quote shown for a room: the same calculation, on rows it does not lock.
RoomAvailability(nights, rooms) ==
  [available |-> Available(nights, rooms),
   left |-> [n \in nights |-> Capacity[n] - reserved[n]]]

\* The hotel's rooms for these dates: those whose quote is available.
RoomListed(nights, rooms) == RoomAvailability(nights, rooms).available

\* The hotel search does not quote: it counts the nights with enough rooms.
NightsLeft(nights, rooms) == {n \in nights : reserved[n] + rooms <= Capacity[n]}
HotelFound(nights, rooms) == Cardinality(NightsLeft(nights, rooms)) = Cardinality(nights)

Reserve(nights, rooms) ==
  reserved' = [n \in Nights |-> IF n \in nights THEN reserved[n] + rooms ELSE reserved[n]]

(***************************************************************************)
(* createBooking.                                                         *)
(***************************************************************************)
BookAtHotel(b, nights, rooms) ==
  /\ book[b].st = "none"
  /\ Available(nights, rooms)
  /\ Reserve(nights, rooms)
  /\ book' = [book EXCEPT ![b] = [st |-> "CONFIRMED", paid |-> "PAY_AT_HOTEL",
                nights |-> nights, rooms |-> rooms, latest |-> NoKey]]
  /\ UNCHANGED <<pay, req, gateway, hook, lost>>

CreatePendingAttempt(k, b) ==
  pay' = [pay EXCEPT ![k] = [st |-> "PENDING", booking |-> b, gw |-> FALSE]]

\* The booking and its first payment are committed, then checked out.
BookOnline(h, k, b, nights, rooms) ==
  /\ At(h, "idle")
  /\ Unused(k) /\ book[b].st = "none"
  /\ Available(nights, rooms)
  /\ Reserve(nights, rooms)
  /\ book' = [book EXCEPT ![b] = [st |-> "PENDING", paid |-> "PENDING",
                nights |-> nights, rooms |-> rooms, latest |-> k]]
  /\ CreatePendingAttempt(k, b)
  /\ Goto(h, "checkout", k)
  /\ UNCHANGED <<gateway, hook, lost>>

\* createBooking or retry is repeated with a stored key.
ResumeCheckout(h, k) ==
  /\ At(h, "idle")
  /\ pay[k].st = "PENDING" /\ ~pay[k].gw
  /\ Goto(h, "checkout", k)
  /\ UNCHANGED <<reserved, book, pay, gateway, hook, lost>>

(***************************************************************************)
(* Settling: completePayment and failPayment lock the payment, then its   *)
(* booking.                                                               *)
(***************************************************************************)
Confirm(k) ==
  /\ pay' = [pay EXCEPT ![k].st = "PAID"]
  /\ book' = [book EXCEPT ![pay[k].booking].st = "CONFIRMED", ![pay[k].booking].paid = "PAID"]

\* Mutant: neither the booking nor its other payments are looked at.
CompleteUnchecked(k) == ~Locked(pay[k].booking) /\ Confirm(k)

\* Mutant: the booking's status is not looked at.
CompleteAnyBooking(k) ==
  /\ ~Locked(pay[k].booking)
  /\ \/ pay[k].st = "PAID" /\ UNCHANGED <<pay, book>>
     \/ ~HasPaid(pay[k].booking) /\ Confirm(k)

\* Mutant: a payment recorded as failed cannot be completed any more.
CompletePendingOnly(k) ==
  /\ ~Locked(pay[k].booking)
  /\ pay[k].st = "PENDING" /\ book[pay[k].booking].st = "PENDING"
  /\ Confirm(k)

CompletePayment(k) ==
  LET b == pay[k].booking IN
  /\ ~Locked(b)
  /\ \/ pay[k].st = "PAID" /\ UNCHANGED <<pay, book>>
     \/ /\ pay[k].st # "PAID"
        /\ book[b].st = "PENDING" /\ ~HasPaid(b)
        /\ Confirm(k)

\* completePayment throws ROOM_BOOKING_NOT_PENDING_PAYMENT or
\* ROOM_BOOKING_ALREADY_PAID.
TooLate(k) ==
  LET b == pay[k].booking IN
  pay[k].st # "PAID" /\ (book[b].st # "PENDING" \/ HasPaid(b))

CannotComplete(k) == ~Locked(pay[k].booking) /\ TooLate(k)

\* Mutant: the booking gets a payment status it never has here.
FailWithBooking(k) ==
  /\ ~Locked(pay[k].booking)
  /\ pay[k].st = "PENDING"
  /\ pay' = [pay EXCEPT ![k].st = "FAILED"]
  /\ book' = [book EXCEPT ![pay[k].booking].paid = "FAILED"]

FailPayment(k) ==
  /\ ~Locked(pay[k].booking)
  /\ IF pay[k].st = "PENDING"
     THEN pay' = [pay EXCEPT ![k].st = "FAILED"]
     ELSE UNCHANGED pay
  /\ UNCHANGED book

(***************************************************************************)
(* createCheckoutForPayment.                                              *)
(***************************************************************************)
OpenGatewayOrder(h) ==
  LET k == req[h].key IN
  /\ At(h, "checkout") /\ ~Locked(pay[k].booking)
  /\ pay[k].st = "PENDING" /\ ~pay[k].gw
  /\ IF book[pay[k].booking].st = "PENDING"
     THEN Continue(h, "gateway")
     ELSE Continue(h, "reject")
  /\ UNCHANGED <<reserved, book, pay, gateway, hook, lost>>

AlreadyOpened(h) ==
  LET k == req[h].key IN
  /\ At(h, "checkout") /\ ~Locked(pay[k].booking)
  /\ pay[k].st # "PENDING" \/ pay[k].gw
  /\ Finish(h)
  /\ UNCHANGED <<reserved, book, pay, gateway, hook, lost>>

GatewayAccepts(h) ==
  /\ At(h, "gateway")
  /\ pay' = [pay EXCEPT ![req[h].key].gw = TRUE]
  /\ Finish(h)
  /\ UNCHANGED <<reserved, book, gateway, hook, lost>>

\* The call fails or the amounts differ: the transaction rolls back.
GatewayRejects(h) ==
  /\ At(h, "gateway")
  /\ Continue(h, "reject")
  /\ UNCHANGED <<reserved, book, pay, gateway, hook, lost>>

\* Mutant: the error is rethrown and the payment left as it is.
LeaveAttempt(h) ==
  /\ At(h, "reject")
  /\ Finish(h)
  /\ UNCHANGED <<reserved, book, pay, gateway, hook, lost>>

FailAttempt(h) ==
  /\ At(h, "reject")
  /\ FailPayment(req[h].key)
  /\ Finish(h)
  /\ UNCHANGED <<reserved, gateway, hook, lost>>

(***************************************************************************)
(* retry, verify and recordFailure.  verify's reads before its            *)
(* transaction do not change its course: captured money stays captured.   *)
(***************************************************************************)
\* Mutant: any booking pending payment can be retried.
RetryPending(b) == ~Locked(b) /\ book[b].st = "PENDING"

Retryable(b) ==
  /\ ~Locked(b)
  /\ book[b].st = "PENDING"
  /\ pay[book[b].latest].st = "FAILED"

Retry(h, b, k) ==
  /\ At(h, "idle")
  /\ Unused(k) /\ Retryable(b)
  /\ CreatePendingAttempt(k, b)
  /\ book' = [book EXCEPT ![b].latest = k]
  /\ Goto(h, "checkout", k)
  /\ UNCHANGED <<reserved, gateway, hook, lost>>

RequestVerify(h, k) ==
  /\ At(h, "idle")
  /\ pay[k].gw /\ pay[k].st # "PAID"
  /\ k \in captured
  /\ Goto(h, "complete", k)
  /\ UNCHANGED <<reserved, book, pay, gateway, hook, lost>>

CompleteVerified(h) ==
  /\ At(h, "complete")
  /\ \/ CompletePayment(req[h].key)
     \/ CannotComplete(req[h].key) /\ UNCHANGED <<pay, book>>
  /\ Finish(h)
  /\ UNCHANGED <<reserved, gateway, hook, lost>>

RecordFailure(b) ==
  /\ book[b].latest # NoKey
  /\ FailPayment(book[b].latest)
  /\ UNCHANGED <<reserved, req, gateway, hook, lost>>

(***************************************************************************)
(* cancelBooking.  Check-in dates are not modelled: a booking may be      *)
(* cancelled at any time.  Its payments are left alone.                   *)
(***************************************************************************)
Release(b) ==
  reserved' = [n \in Nights |->
                 IF n \in book[b].nights THEN reserved[n] - book[b].rooms ELSE reserved[n]]

\* Mutant: the status of the booking is not looked at.
CancelAgain(b) ==
  /\ ~Locked(b) /\ book[b].st # "none"
  /\ \A n \in book[b].nights : reserved[n] >= book[b].rooms
  /\ Release(b)
  /\ book' = [book EXCEPT ![b].st = "CANCELLED"]
  /\ UNCHANGED <<pay, req, gateway, hook, lost>>

\* Mutant: the inventory is not restored.
CancelOnly(b) ==
  /\ ~Locked(b) /\ Active(b)
  /\ book' = [book EXCEPT ![b].st = "CANCELLED"]
  /\ UNCHANGED <<reserved, pay, req, gateway, hook, lost>>

CancelBooking(b) ==
  /\ ~Locked(b) /\ Active(b)
  /\ \A n \in book[b].nights : reserved[n] >= book[b].rooms
  /\ Release(b)
  /\ book' = [book EXCEPT ![b].st = "CANCELLED"]
  /\ UNCHANGED <<pay, req, gateway, hook, lost>>

(***************************************************************************)
(* The gateway: the customer may pay on any stored gateway order, failed  *)
(* attempts and cancelled bookings included.                              *)
(***************************************************************************)
Capture(k) ==
  /\ pay[k].gw /\ k \notin captured
  /\ captured' = captured \union {k}
  /\ sent' = sent \union [of : {k}, kind : CaptureKinds]
  /\ UNCHANGED <<reserved, book, pay, req, hook, lost>>

Decline(k) ==
  /\ pay[k].gw /\ k \notin captured
  /\ sent' = sent \union [of : {k}, kind : EventKinds \ CaptureKinds]
  /\ UNCHANGED <<reserved, book, pay, req, captured, hook, lost>>

ForeignEvent(e) ==
  /\ e.of \in Foreign /\ e \notin sent
  /\ sent' = sent \union {e}
  /\ UNCHANGED <<reserved, book, pay, req, captured, hook, lost>>

(***************************************************************************)
(* handleRazorpayWebhook.  The unique event id lets one of several        *)
(* deliveries through; the others are answered with 204.                  *)
(***************************************************************************)
CreateWebhookEvent(e) == hook[e] = "none" /\ hook' = [hook EXCEPT ![e] = "new"]

ReceiveWebhook(h, e) ==
  /\ e \in sent /\ At(h, "idle")
  /\ CreateWebhookEvent(e)
  /\ req' = [req EXCEPT ![h] = [Idle EXCEPT !.pc = "dispatch", !.ev = e]]
  /\ UNCHANGED <<reserved, book, pay, gateway, lost>>

Known(e) == e.of \in Keys /\ pay[e.of].gw

IgnoreWebhook(h) ==
  LET e == req[h].ev IN
  /\ At(h, "dispatch")
  /\ ~Known(e)
  /\ hook' = [hook EXCEPT ![e] = "ignored"]
  /\ Finish(h)
  /\ UNCHANGED <<reserved, book, pay, gateway, lost>>

ApplyCapture(h) ==
  LET e == req[h].ev IN
  /\ At(h, "dispatch")
  /\ Known(e) /\ e.kind \in CaptureKinds
  /\ CompletePayment(e.of)
  /\ Continue(h, "mark")
  /\ UNCHANGED <<reserved, gateway, hook, lost>>

\* The exception leaves the stored event neither processed nor ignored.
CaptureConflicts(h) ==
  LET e == req[h].ev IN
  /\ At(h, "dispatch")
  /\ Known(e) /\ e.kind \in CaptureKinds
  /\ CannotComplete(e.of)
  /\ Finish(h)
  /\ UNCHANGED <<reserved, book, pay, gateway, hook, lost>>

ApplyFailure(h) ==
  LET e == req[h].ev IN
  /\ At(h, "dispatch")
  /\ Known(e) /\ e.kind = "payment.failed"
  /\ FailPayment(e.of)
  /\ Continue(h, "mark")
  /\ UNCHANGED <<reserved, gateway, hook, lost>>

MarkProcessed(h) ==
  LET e == req[h].ev IN
  /\ At(h, "mark")
  /\ hook' = [hook EXCEPT ![e] = "processed"]
  /\ Finish(h)
  /\ UNCHANGED <<reserved, book, pay, gateway, lost>>

\* The process stops or the database connection fails: the handler ends
\* between two transactions, or in one, which rolls back.
LoseRequest(h) ==
  /\ ~At(h, "idle")
  /\ lost < MaxLost
  /\ lost' = lost + 1
  /\ Finish(h)
  /\ UNCHANGED <<reserved, book, pay, gateway, hook>>

-----------------------------------------------------------------------------

Step(h) ==
  \/ OpenGatewayOrder(h)
  \/ AlreadyOpened(h)
  \/ GatewayAccepts(h)
  \/ GatewayRejects(h)
  \/ FailAttempt(h)
  \/ CompleteVerified(h)
  \/ IgnoreWebhook(h)
  \/ ApplyCapture(h)
  \/ CaptureConflicts(h)
  \/ ApplyFailure(h)
  \/ MarkProcessed(h)

\* Requests of the bookings controller.
BookingRequest ==
  \/ \E b \in Bookings, nights \in Stays, rooms \in 1..MaxRooms :
       BookAtHotel(b, nights, rooms)
  \/ \E h \in Handlers, k \in Keys, b \in Bookings, nights \in Stays, rooms \in 1..MaxRooms :
       BookOnline(h, k, b, nights, rooms)
  \/ \E b \in Bookings : CancelBooking(b)

\* Requests of the payments controller; a repeated createBooking also resumes.
PaymentRequest ==
  \/ \E h \in Handlers, k \in Keys : ResumeCheckout(h, k)
  \/ \E h \in Handlers, b \in Bookings, k \in Keys : Retry(h, b, k)
  \/ \E h \in Handlers, k \in Keys : RequestVerify(h, k)
  \/ \E b \in Bookings : RecordFailure(b)

Next ==
  \/ BookingRequest
  \/ PaymentRequest
  \/ \E h \in Handlers, e \in Events : ReceiveWebhook(h, e)
  \/ \E h \in Handlers : Step(h)
  \/ \E h \in Handlers : LoseRequest(h)
  \/ \E k \in Keys : Capture(k)
  \/ \E k \in Keys : Decline(k)
  \/ \E e \in Events : ForeignEvent(e)

Spec == Init /\ [][Next]_vars

(***************************************************************************)
(* A started handler keeps running, and the gateway delivers an event     *)
(* again until a handler takes it.  Nothing is assumed of customers.      *)
(***************************************************************************)
Fairness ==
  /\ \A h \in Handlers : WF_vars(Step(h))
  /\ \A e \in Events : SF_vars(\E h \in Handlers : ReceiveWebhook(h, e))

FairSpec == Spec /\ Fairness

-----------------------------------------------------------------------------

TypeOK ==
  /\ reserved \in [Nights -> Nat]
  /\ book \in [Bookings -> BookingRows]
  /\ pay \in [Keys -> Payments]
  /\ req \in [Handlers -> Requests]
  /\ captured \subseteq Keys
  /\ sent \subseteq Events
  /\ hook \in [Events -> {"none", "new", "processed", "ignored"}]
  /\ lost \in 0..MaxLost

\* No night is ever sold beyond its rooms, whatever stays overlap on it and
\* however bookings and cancellations follow each other.
NoOverbooking == \A n \in Nights : reserved[n] <= Capacity[n]

\* What a customer is offered is what a booking at that moment accepts: the
\* search, which counts nights, the list of rooms and the quote of each night
\* agree, whatever nights are sold out or have no inventory row.
OffersBookable ==
  \A nights \in Stays, rooms \in 1..MaxRooms :
    /\ HotelFound(nights, rooms) <=> Available(nights, rooms)
    /\ RoomListed(nights, rooms) <=>
         \A n \in nights : RoomAvailability(nights, rooms).left[n] >= rooms

\* Rooms are sold exactly as offered, and never twice.
SoldAsOffered == NoOverbooking /\ OffersBookable

\* The rooms of a night that standing bookings hold, each numbered within its
\* booking.
HeldRooms(n) ==
  {u \in Bookings \X (1..MaxRooms) :
     Active(u[1]) /\ n \in book[u[1]].nights /\ u[2] <= book[u[1]].rooms}

\* The reserved counters are exactly the rooms of the bookings that still
\* stand: nothing is given back twice, and nothing is kept by a dead booking.
ReservedExact == \A n \in Nights : reserved[n] = Cardinality(HeldRooms(n))

\* A booking is never paid twice, however verification, webhooks and retries
\* of it interleave.
PaidOnce ==
  \A j, k \in Keys :
    pay[j].st = "PAID" /\ pay[k].st = "PAID" /\ pay[j].booking = pay[k].booking => j = k

\* A payment is accepted only on captured money, and its booking knows.
PaidIsCaptured ==
  \A k \in Keys :
    pay[k].st = "PAID" => k \in captured /\ book[pay[k].booking].paid = "PAID"

\* An online booking is confirmed only by a payment that stays accepted.
ConfirmedIsPaid ==
  \A b \in Bookings :
    book[b].st = "CONFIRMED" => book[b].paid = "PAY_AT_HOTEL" \/ HasPaid(b)

\* Money and bookings agree: one payment per booking, on captured money, and
\* no online booking is confirmed without it.
MoneySound == PaidOnce /\ PaidIsCaptured /\ ConfirmedIsPaid

\* A booking has one payment in progress at most, of all its attempts.
OneOpenAttempt ==
  \A j, k \in Keys :
    pay[j].st = "PENDING" /\ pay[k].st = "PENDING" /\ pay[j].booking = pay[k].booking => j = k

\* A request that still has to bring a payment to its gateway order or its
\* end, or a stored event to its mark.
Tends(h, k) == req[h].key = k /\ req[h].pc \in {"checkout", "gateway", "reject"}
Applies(h, e) == req[h].ev = e /\ req[h].pc \in {"dispatch", "mark"}

Abandoned ==
  {k \in Keys : pay[k].st = "PENDING" /\ ~pay[k].gw /\ ~ \E h \in Handlers : Tends(h, k)}
Forgotten ==
  {e \in Events : /\ hook[e] = "new" /\ ~ \E h \in Handlers : Applies(h, e)
                  /\ ~(Known(e) /\ TooLate(e.of))}

\* No payment is left without a gateway order, where it can be neither paid nor
\* retried, and no stored event is left undecided but that of money for a
\* booking that was over, unless the request that had it in hand was lost; and
\* each lost request leaves one of them behind at most.
AbandonedByLossOnly == Cardinality(Abandoned) + Cardinality(Forgotten) <= lost

\* No late payment, webhook or retry revives a cancelled booking, whose rooms
\* may be somebody else's by then.
CancelledIsFinal ==
  [][\A b \in Bookings : book[b].st = "CANCELLED" => book'[b] = book[b]]_vars

\* A gateway order is stored only for a payment and a booking that are both
\* still pending, although the gateway takes its time to answer.
OpenedOnPending ==
  [][\A k \in Keys :
       ~pay[k].gw /\ pay'[k].gw =>
         pay[k].st = "PENDING" /\ book[pay[k].booking].st = "PENDING"]_vars

\* What was decided stands: neither late money nor a late gateway answer
\* touches a booking or payment that is over.
NothingTooLate == CancelledIsFinal /\ OpenedOnPending

\* The bookings implement the abstract room stock.
HoldState(st) ==
  CASE st = "none" -> "none" [] st = "CANCELLED" -> "released" [] OTHER -> "held"

Stock == INSTANCE RoomStock WITH
  hold <- [b \in Bookings |-> [st |-> HoldState(book[b].st),
                               nights |-> book[b].nights, rooms |-> book[b].rooms]]

StockSpec == Stock!Spec

\* A payment comes to have a gateway order the customer can pay, or is over:
\* until then it can be neither paid nor retried.
CheckoutEnds ==
  \A k \in Keys : pay[k].st = "PENDING" /\ ~pay[k].gw ~> pay[k].st # "PENDING" \/ pay[k].gw

\* Captured money confirms its booking, even when the attempt was recorded as
\* failed first, unless the booking was paid otherwise or cancelled.
CapturedConfirms ==
  \A k \in Keys, b \in Bookings :
    k \in captured /\ pay[k].booking = b ~> HasPaid(b) \/ book[b].st = "CANCELLED"

=============================================================================
