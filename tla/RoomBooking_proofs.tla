------------------------- MODULE RoomBooking_proofs -------------------------
(***************************************************************************)
(* Proofs about RoomBooking for any sets of bookings, keys, handlers and  *)
(* events, and any nights, capacities and bounds.  Every step has one of  *)
(* eight effects on the tables (NextEffect); the invariant, the action    *)
(* properties and the refinement are proved of those effects.             *)
(***************************************************************************)
EXTENDS RoomBooking, CountingLemmas, FunctionTheorems

Exists(k) == pay[k].st # "none"

\* Every payment belongs to a booking, which knows its newest payment; only
\* the newest is in progress.
PaymentsFounded ==
  \A k \in Keys :
    /\ Exists(k) => pay[k].booking \in Bookings /\ book[pay[k].booking].st # "none"
    /\ ~Exists(k) => pay[k] = NoPayment
    /\ pay[k].st = "PENDING" => book[pay[k].booking].latest = k

BookingsFounded ==
  \A b \in Bookings :
    /\ book[b].st = "none" => book[b] = NoRow
    /\ book[b].st = "PENDING" => book[b].latest # NoKey
    /\ book[b].latest # NoKey =>
         Exists(book[b].latest) /\ pay[book[b].latest].booking = b

\* Money is only captured on stored gateway orders.
CapturesKnown ==
  \A k \in Keys : /\ k \in captured => pay[k].gw
                  /\ pay[k].gw => Exists(k)

\* A capture event of this service tells the truth.
TrueEvent(e) == e \in Events /\ (e.kind \in CaptureKinds /\ e.of \in Keys => e.of \in captured)

\* What a handler still knows when it takes its next step.
RequestOK(r) ==
  /\ r.pc \in {"checkout", "gateway", "reject", "complete"} => r.key \in Keys /\ Exists(r.key)
  /\ r.pc = "gateway" =>
       pay[r.key].st = "PENDING" /\ book[pay[r.key].booking].st = "PENDING"
  /\ r.pc = "complete" => r.key \in captured
  /\ r.pc \in {"dispatch", "mark"} => TrueEvent(r.ev)

Tables ==
  /\ PaymentsFounded
  /\ BookingsFounded
  /\ CapturesKnown
  /\ NoOverbooking
  /\ PaidOnce
  /\ PaidIsCaptured
  /\ ConfirmedIsPaid

IInv ==
  /\ TypeOK
  /\ Tables
  /\ \A e \in sent : TrueEvent(e)
  /\ \A h \in Handlers : RequestOK(req[h])

-----------------------------------------------------------------------------

(***************************************************************************)
(* What a step may do to the three tables.                                *)
(***************************************************************************)
Booked(b, nights, rooms, row) ==
  /\ book[b].st = "none"
  /\ nights \in Stays /\ rooms \in 1..MaxRooms
  /\ Available(nights, rooms)
  /\ Reserve(nights, rooms)
  /\ row \in BookingRows /\ row.nights = nights /\ row.rooms = rooms
  /\ book' = [book EXCEPT ![b] = row]

AtHotel(b, nights, rooms) ==
  /\ \E row \in BookingRows :
       /\ row.st = "CONFIRMED" /\ row.paid = "PAY_AT_HOTEL" /\ row.latest = NoKey
       /\ Booked(b, nights, rooms, row)
  /\ UNCHANGED pay

Online(k, b, nights, rooms) ==
  /\ Unused(k)
  /\ \E row \in BookingRows :
       /\ row.st = "PENDING" /\ row.paid = "PENDING" /\ row.latest = k
       /\ Booked(b, nights, rooms, row)
  /\ pay' = [pay EXCEPT ![k] = [st |-> "PENDING", booking |-> b, gw |-> FALSE]]

Retried(b, k) ==
  /\ Unused(k) /\ Retryable(b)
  /\ pay' = [pay EXCEPT ![k] = [st |-> "PENDING", booking |-> b, gw |-> FALSE]]
  /\ book' = [book EXCEPT ![b].latest = k]
  /\ UNCHANGED reserved

Opened(k) ==
  /\ pay[k].st = "PENDING" /\ book[pay[k].booking].st = "PENDING"
  /\ pay' = [pay EXCEPT ![k].gw = TRUE]
  /\ UNCHANGED <<reserved, book>>

Confirmed(k) ==
  /\ k \in captured
  /\ ~Locked(pay[k].booking)
  /\ book[pay[k].booking].st = "PENDING" /\ ~HasPaid(pay[k].booking)
  /\ Confirm(k)
  /\ UNCHANGED reserved

Failed(k) ==
  /\ ~Locked(pay[k].booking)
  /\ pay[k].st = "PENDING"
  /\ pay' = [pay EXCEPT ![k].st = "FAILED"]
  /\ UNCHANGED <<reserved, book>>

Cancelled(b) ==
  /\ ~Locked(b) /\ Active(b)
  /\ \A n \in book[b].nights : reserved[n] >= book[b].rooms
  /\ Release(b)
  /\ book' = [book EXCEPT ![b].st = "CANCELLED"]
  /\ UNCHANGED pay

Effect ==
  \/ UNCHANGED <<reserved, book, pay>>
  \/ \E b \in Bookings, nights \in Stays, rooms \in 1..MaxRooms :
       \/ AtHotel(b, nights, rooms)
       \/ \E k \in Keys : Online(k, b, nights, rooms)
  \/ \E b \in Bookings : \/ Cancelled(b)
                         \/ \E k \in Keys : Retried(b, k)
  \/ \E k \in Keys : Opened(k) \/ Confirmed(k) \/ Failed(k)

-----------------------------------------------------------------------------

\* The empty tables satisfy the invariant.
LEMMA InitIInv == Init => IInv
<1> SUFFICES ASSUME Init PROVE IInv
  OBVIOUS
<1>1. TypeOK
  BY NoKeyAssumption, NoBookingAssumption, BoundsAssumption
  DEF Init, TypeOK, BookingRows, NoRow, Payments, NoPayment, Requests, Idle, NoEvent
<1>2. Tables
  BY CapacityAssumption
  DEF Init, Tables, PaymentsFounded, BookingsFounded, CapturesKnown, NoOverbooking,
      PaidOnce, PaidIsCaptured, ConfirmedIsPaid, Exists, NoRow, NoPayment, Nights
<1>3. \A h \in Handlers : RequestOK(req[h])
  BY DEF Init, RequestOK, Idle
<1> QED
  BY <1>1, <1>2, <1>3 DEF IInv, Init

\* completePayment on captured money confirms a booking or changes nothing.
LEMMA CompletedEffect ==
  ASSUME NEW k \in Keys, k \in captured, CompletePayment(k), UNCHANGED reserved
  PROVE  Confirmed(k) \/ UNCHANGED <<reserved, book, pay>>
BY DEF CompletePayment, Confirmed

\* failPayment fails a pending payment or changes nothing.
LEMMA FailedEffect ==
  ASSUME NEW k \in Keys, FailPayment(k), UNCHANGED reserved
  PROVE  Failed(k) \/ UNCHANGED <<reserved, book, pay>>
BY DEF FailPayment, Failed

\* A started handler has one of the effects, and learns nothing of the gateway.
LEMMA StepEffect ==
  ASSUME IInv, NEW h \in Handlers, Step(h)
  PROVE  Effect /\ UNCHANGED <<captured, sent, lost>>
<1> USE DEF gateway
<1>1. RequestOK(req[h])
  BY DEF IInv
<1>2. CASE OpenGatewayOrder(h) \/ AlreadyOpened(h) \/ GatewayRejects(h) \/ IgnoreWebhook(h)
           \/ CaptureConflicts(h) \/ MarkProcessed(h)
  BY <1>2 DEF OpenGatewayOrder, AlreadyOpened, GatewayRejects, IgnoreWebhook,
    CaptureConflicts, MarkProcessed, Effect
<1>3. CASE GatewayAccepts(h)
  <2>1. req[h].key \in Keys /\ Opened(req[h].key)
    BY <1>1, <1>3 DEF GatewayAccepts, At, RequestOK, Opened
  <2> QED
    BY <1>3, <2>1 DEF GatewayAccepts, Effect
<1>4. CASE FailAttempt(h)
  <2>1. req[h].key \in Keys
    BY <1>1, <1>4 DEF FailAttempt, At, RequestOK
  <2> QED
    BY <1>4, <2>1, FailedEffect DEF FailAttempt, Effect
<1>5. CASE CompleteVerified(h)
  <2>1. req[h].key \in Keys /\ req[h].key \in captured
    BY <1>1, <1>5 DEF CompleteVerified, At, RequestOK
  <2> QED
    BY <1>5, <2>1, CompletedEffect DEF CompleteVerified, Effect
<1>6. CASE ApplyCapture(h)
  <2>1. req[h].ev.of \in Keys /\ req[h].ev.of \in captured
    BY <1>1, <1>6 DEF ApplyCapture, At, RequestOK, Known, TrueEvent
  <2> QED
    BY <1>6, <2>1, CompletedEffect DEF ApplyCapture, Effect
<1>7. CASE ApplyFailure(h)
  <2>1. req[h].ev.of \in Keys
    BY <1>7 DEF ApplyFailure, Known
  <2> QED
    BY <1>7, <2>1, FailedEffect DEF ApplyFailure, Effect
<1> QED
  BY <1>2, <1>3, <1>4, <1>5, <1>6, <1>7 DEF Step

\* Both kinds of new booking store a well-formed row.
LEMMA RowsTyped ==
  ASSUME NEW nights \in Stays, NEW rooms \in 1..MaxRooms
  PROVE  /\ [st |-> "CONFIRMED", paid |-> "PAY_AT_HOTEL",
             nights |-> nights, rooms |-> rooms, latest |-> NoKey] \in BookingRows
         /\ \A k \in Keys :
              [st |-> "PENDING", paid |-> "PENDING",
               nights |-> nights, rooms |-> rooms, latest |-> k] \in BookingRows
<1>1. nights \in SUBSET Nights
  <2> PICK i, j \in Nights : nights = i..j
    BY DEF Stays
  <2>1. ASSUME NEW n \in i..j PROVE n \in Nights
    BY BoundsAssumption DEF Nights
  <2> QED
    BY <2>1
<1>2. rooms \in 0..MaxRooms
  BY BoundsAssumption
<1> QED
  BY <1>1, <1>2 DEF BookingRows

\* Money is captured on a stored gateway order, by a step that leaves the
\* tables alone.
CapturesOnly ==
  /\ UNCHANGED <<reserved, book, pay>>
  /\ \E k \in Keys : pay[k].gw /\ captured' = captured \union {k}

\* Every step has one of the effects.
LEMMA NextEffect ==
  ASSUME IInv, [Next]_vars
  PROVE  Effect /\ (UNCHANGED captured \/ CapturesOnly)
<1> USE DEF gateway
<1>1. ASSUME NEW b \in Bookings, NEW nights \in Stays, NEW rooms \in 1..MaxRooms,
             BookAtHotel(b, nights, rooms)
      PROVE  Effect /\ UNCHANGED captured
  <2> DEFINE row == [st |-> "CONFIRMED", paid |-> "PAY_AT_HOTEL",
                     nights |-> nights, rooms |-> rooms, latest |-> NoKey]
  <2>1. row \in BookingRows
    BY RowsTyped
  <2>2. Booked(b, nights, rooms, row)
    BY <1>1, <2>1 DEF BookAtHotel, Booked
  <2>3. AtHotel(b, nights, rooms)
    BY <1>1, <2>1, <2>2 DEF BookAtHotel, AtHotel
  <2> QED
    BY <1>1, <2>3 DEF BookAtHotel, Effect
<1>2. ASSUME NEW h \in Handlers, NEW k \in Keys, NEW b \in Bookings,
             NEW nights \in Stays, NEW rooms \in 1..MaxRooms,
             BookOnline(h, k, b, nights, rooms)
      PROVE  Effect /\ UNCHANGED captured
  <2> DEFINE row == [st |-> "PENDING", paid |-> "PENDING",
                     nights |-> nights, rooms |-> rooms, latest |-> k]
  <2>1. row \in BookingRows
    BY RowsTyped
  <2>2. Booked(b, nights, rooms, row)
    BY <1>2, <2>1 DEF BookOnline, Booked
  <2>3. Online(k, b, nights, rooms)
    BY <1>2, <2>1, <2>2 DEF BookOnline, CreatePendingAttempt, Online
  <2> QED
    BY <1>2, <2>3 DEF BookOnline, Effect
<1>3. ASSUME NEW h \in Handlers, NEW k \in Keys, ResumeCheckout(h, k) \/ RequestVerify(h, k)
      PROVE  Effect /\ UNCHANGED captured
  BY <1>3 DEF ResumeCheckout, RequestVerify, Effect
<1>4. ASSUME NEW h \in Handlers, NEW b \in Bookings, NEW k \in Keys, Retry(h, b, k)
      PROVE  Effect /\ UNCHANGED captured
  <2>1. Retried(b, k)
    BY <1>4 DEF Retry, CreatePendingAttempt, Retried
  <2> QED
    BY <1>4, <2>1 DEF Retry, Effect
<1>5. ASSUME NEW h \in Handlers, NEW e \in Events, ReceiveWebhook(h, e)
      PROVE  Effect /\ UNCHANGED captured
  BY <1>5 DEF ReceiveWebhook, CreateWebhookEvent, Effect
<1>6. ASSUME NEW h \in Handlers, Step(h) \/ LoseRequest(h)
      PROVE  Effect /\ UNCHANGED captured
  BY <1>6, StepEffect DEF LoseRequest, Effect
<1>7. ASSUME NEW b \in Bookings, RecordFailure(b)
      PROVE  Effect /\ UNCHANGED captured
  <2>1. book[b].latest \in Keys
    BY <1>7 DEF RecordFailure, IInv, TypeOK, BookingRows
  <2> QED
    BY <1>7, <2>1, FailedEffect DEF RecordFailure, Effect
<1>8. ASSUME NEW b \in Bookings, CancelBooking(b)
      PROVE  Effect /\ UNCHANGED captured
  <2>1. Cancelled(b)
    BY <1>8 DEF CancelBooking, Cancelled
  <2> QED
    BY <1>8, <2>1 DEF CancelBooking, Effect
<1>9. CASE \/ \E k \in Keys : Capture(k) \/ Decline(k)
           \/ \E e \in Events : ForeignEvent(e)
  BY <1>9 DEF Capture, Decline, ForeignEvent, Effect, CapturesOnly
<1>10. CASE UNCHANGED vars
  BY <1>10 DEF vars, Effect
<1> QED
  BY <1>1, <1>2, <1>3, <1>4, <1>5, <1>6, <1>7, <1>8, <1>9, <1>10 DEF Next, BookingRequest, PaymentRequest

-----------------------------------------------------------------------------

TablesTyped ==
  /\ reserved \in [Nights -> Nat]
  /\ book \in [Bookings -> BookingRows]
  /\ pay \in [Keys -> Payments]

\* What no effect takes back, and what a locked booking is spared.
Steady ==
  /\ \A k \in Keys : Exists(k) => Exists(k)' /\ pay'[k].booking = pay[k].booking
  /\ \A k \in Keys :
       /\ Locked(pay[k].booking)
       /\ pay[k].st = "PENDING" /\ book[pay[k].booking].st = "PENDING"
       => /\ pay'[k].st = "PENDING"
          /\ book'[pay[k].booking].st = "PENDING"

\* A new booking takes rooms that are free and leaves the others alone.
LEMMA BookedEffect ==
  ASSUME IInv, NEW b \in Bookings, NEW nights \in Stays, NEW rooms \in 1..MaxRooms,
         NEW row \in BookingRows, Booked(b, nights, rooms, row)
  PROVE  /\ reserved' \in [Nights -> Nat]
         /\ NoOverbooking'
         /\ book' \in [Bookings -> BookingRows]
         /\ book'[b] = row
         /\ \A c \in Bookings \ {b} : book'[c] = book[c]
         /\ \A k \in Keys : pay[k].booking # b
<1>1. /\ reserved \in [Nights -> Nat] /\ rooms \in Nat
      /\ reserved' = [n \in Nights |-> IF n \in nights THEN reserved[n] + rooms ELSE reserved[n]]
  BY BoundsAssumption DEF IInv, TypeOK, Booked, Reserve
<1>2. reserved' \in [Nights -> Nat]
  BY <1>1
<1>3. NoOverbooking'
  BY <1>1 DEF IInv, Tables, NoOverbooking, Booked, Available
<1>4. book' \in [Bookings -> BookingRows] /\ book'[b] = row
      /\ \A c \in Bookings \ {b} : book'[c] = book[c]
  BY DEF IInv, TypeOK, Booked
<1>5. \A k \in Keys : pay[k].booking # b
  BY NoBookingAssumption
  DEF IInv, Tables, PaymentsFounded, Exists, NoPayment, Booked
<1> QED
  BY <1>2, <1>3, <1>4, <1>5

\* A booking paid at the hotel.
LEMMA AtHotelInv ==
  ASSUME IInv, UNCHANGED captured, NEW b \in Bookings, NEW nights \in Stays,
         NEW rooms \in 1..MaxRooms, AtHotel(b, nights, rooms)
  PROVE  TablesTyped' /\ Tables' /\ Steady
<1> PICK row \in BookingRows :
      /\ row.st = "CONFIRMED" /\ row.paid = "PAY_AT_HOTEL" /\ row.latest = NoKey
      /\ Booked(b, nights, rooms, row)
  BY DEF AtHotel
<1>1. /\ reserved' \in [Nights -> Nat] /\ NoOverbooking'
      /\ book' \in [Bookings -> BookingRows] /\ book'[b] = row
      /\ \A c \in Bookings \ {b} : book'[c] = book[c]
      /\ \A k \in Keys : pay[k].booking # b
  BY BookedEffect
<1>2. pay' = pay
  BY DEF AtHotel
<1>3. \A k \in Keys : Exists(k) => book'[pay[k].booking] = book[pay[k].booking]
  BY <1>1 DEF IInv, Tables, PaymentsFounded
<1> USE DEF IInv, Tables
<1>4. TablesTyped'
  BY <1>1, <1>2 DEF TypeOK, TablesTyped
<1>5. PaymentsFounded'
  BY <1>1, <1>2, <1>3 DEF PaymentsFounded, Exists
<1>6. BookingsFounded'
  BY <1>1, <1>2 DEF BookingsFounded, Exists
<1>7. CapturesKnown' /\ PaidOnce'
  BY <1>2 DEF CapturesKnown, PaidOnce, Exists
<1>8. PaidIsCaptured'
  BY <1>2, <1>3 DEF PaidIsCaptured, Exists
<1>9. ConfirmedIsPaid'
  BY <1>1, <1>2 DEF ConfirmedIsPaid, HasPaid
<1>10. Steady
  BY <1>2, <1>3 DEF Steady, Exists
<1> QED
  BY <1>1, <1>4, <1>5, <1>6, <1>7, <1>8, <1>9, <1>10

\* A booking paid online, with its first payment.
LEMMA OnlineInv ==
  ASSUME IInv, UNCHANGED captured, NEW k \in Keys, NEW b \in Bookings,
         NEW nights \in Stays, NEW rooms \in 1..MaxRooms, Online(k, b, nights, rooms)
  PROVE  TablesTyped' /\ Tables' /\ Steady
<1> PICK row \in BookingRows :
      /\ row.st = "PENDING" /\ row.paid = "PENDING" /\ row.latest = k
      /\ Booked(b, nights, rooms, row)
  BY DEF Online
<1>1. /\ reserved' \in [Nights -> Nat] /\ NoOverbooking'
      /\ book' \in [Bookings -> BookingRows] /\ book'[b] = row
      /\ \A c \in Bookings \ {b} : book'[c] = book[c]
      /\ \A j \in Keys : pay[j].booking # b
  BY BookedEffect
<1>2. /\ pay' = [pay EXCEPT ![k] = [st |-> "PENDING", booking |-> b, gw |-> FALSE]]
      /\ pay \in [Keys -> Payments] /\ ~Exists(k)
  BY DEF Online, Unused, Exists, IInv, TypeOK
<1>3. /\ pay'[k].st = "PENDING" /\ pay'[k].booking = b /\ pay'[k].gw = FALSE
      /\ \A j \in Keys \ {k} : pay'[j] = pay[j]
  BY <1>2
<1>4. \A j \in Keys : Exists(j) => book'[pay[j].booking] = book[pay[j].booking]
  BY <1>1 DEF IInv, Tables, PaymentsFounded
<1> USE DEF IInv, Tables
<1>5. TablesTyped'
  BY <1>1, <1>2 DEF TypeOK, TablesTyped, Payments
<1>6. PaymentsFounded'
  BY <1>1, <1>2, <1>3, <1>4 DEF PaymentsFounded, Exists
<1>7. BookingsFounded'
  BY <1>1, <1>2, <1>3, NoKeyAssumption DEF BookingsFounded, Exists, TypeOK, BookingRows
<1>8. CapturesKnown'
  BY <1>2, <1>3 DEF CapturesKnown, Exists
<1>9. PaidOnce' /\ PaidIsCaptured'
  BY <1>2, <1>3, <1>4 DEF PaidOnce, PaidIsCaptured, Exists
<1>10. ConfirmedIsPaid'
  BY <1>1, <1>2, <1>3 DEF ConfirmedIsPaid, HasPaid, Exists
<1>11. Steady
  BY <1>2, <1>3, <1>4 DEF Steady, Exists
<1> QED
  BY <1>1, <1>5, <1>6, <1>7, <1>8, <1>9, <1>10, <1>11

\* A further payment of a booking whose newest one failed.
LEMMA RetriedInv ==
  ASSUME IInv, UNCHANGED captured, NEW k \in Keys, NEW b \in Bookings, Retried(b, k)
  PROVE  TablesTyped' /\ Tables' /\ Steady
<1>1. /\ pay' = [pay EXCEPT ![k] = [st |-> "PENDING", booking |-> b, gw |-> FALSE]]
      /\ pay \in [Keys -> Payments] /\ ~Exists(k)
      /\ book' = [book EXCEPT ![b].latest = k]
      /\ book \in [Bookings -> BookingRows]
      /\ reserved' = reserved /\ reserved \in [Nights -> Nat]
      /\ ~Locked(b) /\ book[b].st = "PENDING" /\ pay[book[b].latest].st = "FAILED"
  BY DEF Retried, Retryable, Unused, Exists, IInv, TypeOK
<1>2. /\ pay'[k].st = "PENDING" /\ pay'[k].booking = b /\ pay'[k].gw = FALSE
      /\ \A j \in Keys \ {k} : pay'[j] = pay[j]
  BY <1>1
<1>3. /\ book'[b].latest = k /\ book'[b].st = book[b].st /\ book'[b].paid = book[b].paid
      /\ \A c \in Bookings \ {b} : book'[c] = book[c]
  BY <1>1 DEF BookingRows
<1>4. \A c \in Bookings : book'[c].st = book[c].st /\ book'[c].paid = book[c].paid
  BY <1>3
<1> USE DEF IInv, Tables
<1>5. TablesTyped'
  <2>1. [book[b] EXCEPT !.latest = k] \in BookingRows
    BY <1>1 DEF BookingRows
  <2> QED
    BY <1>1, <2>1 DEF TablesTyped, Payments
<1>6. PaymentsFounded'
  <2> SUFFICES ASSUME NEW j \in Keys
               PROVE  /\ Exists(j)' => pay'[j].booking \in Bookings
                                         /\ book'[pay'[j].booking].st # "none"
                      /\ ~Exists(j)' => pay'[j] = NoPayment
                      /\ pay'[j].st = "PENDING" => book'[pay'[j].booking].latest = j
    BY DEF PaymentsFounded
  <2>1. CASE j = k
    BY <2>1, <1>1, <1>2, <1>3 DEF Exists
  <2>2. CASE j # k
    <3>1. pay'[j] = pay[j] /\ pay[j].booking = b => pay[j].st # "PENDING"
      BY <1>1, <1>2, <2>2 DEF PaymentsFounded
    <3> QED
      BY <1>2, <1>3, <1>4, <2>2, <3>1 DEF PaymentsFounded, Exists
  <2> QED
    BY <2>1, <2>2
<1>7. BookingsFounded'
  <2>1. \A c \in Bookings \ {b} : book[c].latest # k
    BY <1>1, NoKeyAssumption DEF BookingsFounded
  <2> QED
    BY <1>1, <1>2, <1>3, <2>1, NoKeyAssumption
    DEF BookingsFounded, Exists, TypeOK, BookingRows
<1>8. CapturesKnown'
  BY <1>1, <1>2 DEF CapturesKnown, Exists
<1>9. NoOverbooking'
  BY <1>1 DEF NoOverbooking
<1>10. PaidOnce' /\ PaidIsCaptured'
  BY <1>1, <1>2, <1>4 DEF PaidOnce, PaidIsCaptured, Exists, PaymentsFounded
<1>11. ConfirmedIsPaid'
  BY <1>1, <1>2, <1>4 DEF ConfirmedIsPaid, HasPaid, Exists
<1>12. Steady
  BY <1>1, <1>2, <1>4 DEF Steady, Exists, PaymentsFounded
<1> QED
  BY <1>5, <1>6, <1>7, <1>8, <1>9, <1>10, <1>11, <1>12

\* A payment that changes its status or gets a gateway order keeps its booking.
LEMMA PaymentKept ==
  ASSUME TypeOK, NEW k \in Keys,
         \/ pay' = [pay EXCEPT ![k].gw = TRUE]
         \/ \E st \in {"PAID", "FAILED"} : pay' = [pay EXCEPT ![k].st = st]
  PROVE  /\ pay' \in [Keys -> Payments]
         /\ \A j \in Keys \ {k} : pay'[j] = pay[j]
         /\ pay'[k].booking = pay[k].booking
         /\ pay[k].gw => pay'[k].gw
BY DEF TypeOK, Payments

\* A payment gets its gateway order.
LEMMA OpenedInv ==
  ASSUME IInv, UNCHANGED captured, NEW k \in Keys, Opened(k)
  PROVE  TablesTyped' /\ Tables' /\ Steady
<1>1. /\ pay' \in [Keys -> Payments] /\ \A j \in Keys \ {k} : pay'[j] = pay[j]
      /\ pay'[k].booking = pay[k].booking
  BY PaymentKept DEF Opened, IInv
<1>2. /\ pay'[k].st = "PENDING" /\ pay'[k].gw = TRUE /\ pay[k].st = "PENDING"
      /\ UNCHANGED <<reserved, book>>
  BY DEF Opened, IInv, TypeOK, Payments
<1>3. \A j \in Keys : pay'[j].st = pay[j].st /\ pay'[j].booking = pay[j].booking
  BY <1>1, <1>2
<1> USE DEF IInv, Tables
<1>4. TablesTyped' /\ NoOverbooking'
  BY <1>1, <1>2 DEF TablesTyped, TypeOK, NoOverbooking
<1>5. PaymentsFounded'
  BY <1>1, <1>2, <1>3 DEF PaymentsFounded, Exists
<1>6. BookingsFounded'
  BY <1>2, <1>3, NoKeyAssumption DEF BookingsFounded, Exists, TypeOK, BookingRows
<1>7. CapturesKnown'
  BY <1>1, <1>2 DEF CapturesKnown, Exists
<1>8. PaidOnce' /\ PaidIsCaptured'
  BY <1>2, <1>3 DEF PaidOnce, PaidIsCaptured
<1>9. ConfirmedIsPaid'
  BY <1>2, <1>3 DEF ConfirmedIsPaid, HasPaid
<1>10. Steady
  BY <1>2, <1>3 DEF Steady, Exists
<1> QED
  BY <1>4, <1>5, <1>6, <1>7, <1>8, <1>9, <1>10

\* A payment in progress fails.
LEMMA FailedInv ==
  ASSUME IInv, UNCHANGED captured, NEW k \in Keys, Failed(k)
  PROVE  TablesTyped' /\ Tables' /\ Steady
<1>1. /\ pay' \in [Keys -> Payments] /\ \A j \in Keys \ {k} : pay'[j] = pay[j]
      /\ pay'[k].booking = pay[k].booking
  BY PaymentKept DEF Failed, IInv
<1>2. /\ pay'[k].st = "FAILED" /\ pay'[k].gw = pay[k].gw /\ pay[k].st = "PENDING"
      /\ ~Locked(pay[k].booking) /\ UNCHANGED <<reserved, book>>
  BY DEF Failed, IInv, TypeOK, Payments
<1>3. \A j \in Keys : /\ pay'[j].booking = pay[j].booking
                      /\ Exists(j)' <=> Exists(j)
                      /\ pay'[j].st = "PAID" <=> pay[j].st = "PAID"
  BY <1>1, <1>2 DEF Exists
<1> USE DEF IInv, Tables
<1>4. TablesTyped' /\ NoOverbooking'
  BY <1>1, <1>2 DEF TablesTyped, TypeOK, NoOverbooking
<1>5. PaymentsFounded'
  BY <1>1, <1>2, <1>3 DEF PaymentsFounded, Exists
<1>6. BookingsFounded'
  BY <1>2, <1>3, NoKeyAssumption DEF BookingsFounded, TypeOK, BookingRows
<1>7. CapturesKnown'
  BY <1>1, <1>2, <1>3 DEF CapturesKnown
<1>8. PaidOnce' /\ PaidIsCaptured'
  BY <1>2, <1>3 DEF PaidOnce, PaidIsCaptured
<1>9. ConfirmedIsPaid'
  BY <1>2, <1>3 DEF ConfirmedIsPaid, HasPaid
<1>10. Steady
  BY <1>1, <1>2, <1>3 DEF Steady
<1> QED
  BY <1>4, <1>5, <1>6, <1>7, <1>8, <1>9, <1>10

\* Captured money confirms its booking.
LEMMA ConfirmedInv ==
  ASSUME IInv, UNCHANGED captured, NEW k \in Keys, Confirmed(k)
  PROVE  TablesTyped' /\ Tables' /\ Steady
<1>1. Exists(k) /\ pay[k].booking \in Bookings
  BY DEF Confirmed, IInv, Tables, CapturesKnown, PaymentsFounded
<1> PICK b \in Bookings : b = pay[k].booking
  BY <1>1
<1>2. /\ pay' \in [Keys -> Payments] /\ \A j \in Keys \ {k} : pay'[j] = pay[j]
      /\ pay'[k].booking = b
  BY PaymentKept DEF Confirmed, Confirm, IInv
<1>3. /\ pay'[k].st = "PAID" /\ pay'[k].gw = pay[k].gw
      /\ k \in captured /\ ~Locked(b) /\ book[b].st = "PENDING" /\ ~HasPaid(b)
      /\ UNCHANGED reserved
  BY DEF Confirmed, Confirm, IInv, TypeOK, Payments
<1>4. /\ book \in [Bookings -> BookingRows]
      /\ book' = [book EXCEPT ![b] = [book[b] EXCEPT !.st = "CONFIRMED", !.paid = "PAID"]]
  BY DEF Confirmed, Confirm, IInv, TypeOK
<1>5. /\ book' \in [Bookings -> BookingRows]
      /\ book'[b].st = "CONFIRMED" /\ book'[b].paid = "PAID"
      /\ book'[b].latest = book[b].latest
      /\ \A c \in Bookings \ {b} : book'[c] = book[c]
  <2>1. [book[b] EXCEPT !.st = "CONFIRMED", !.paid = "PAID"] \in BookingRows
    BY <1>4 DEF BookingRows
  <2>2. book'[b] = [book[b] EXCEPT !.st = "CONFIRMED", !.paid = "PAID"]
        /\ book[b] \in BookingRows /\ \A c \in Bookings \ {b} : book'[c] = book[c]
    BY <1>4
  <2>3. book' \in [Bookings -> BookingRows]
    BY <1>4, <2>1
  <2>4. /\ book'[b].st = "CONFIRMED" /\ book'[b].paid = "PAID"
        /\ book'[b].latest = book[b].latest
    BY <2>2 DEF BookingRows
  <2> QED
    BY <2>2, <2>3, <2>4
<1>6. \A c \in Bookings : book'[c].latest = book[c].latest
                          /\ (book'[c].st = "none" <=> book[c].st = "none")
  BY <1>3, <1>5
<1> USE DEF IInv, Tables
<1>7. TablesTyped' /\ NoOverbooking'
  BY <1>2, <1>3, <1>5 DEF TablesTyped, TypeOK, NoOverbooking
<1>8. \A j \in Keys : /\ Exists(j)' <=> Exists(j)
                      /\ pay'[j].booking = pay[j].booking
                      /\ pay'[j].st = "PENDING" => pay[j].st = "PENDING"
  BY <1>1, <1>2, <1>3 DEF Exists
<1>9. PaymentsFounded'
  <2>1. \A j \in Keys : ~Exists(j)' => pay'[j] = NoPayment
    BY <1>1, <1>2, <1>8 DEF PaymentsFounded
  <2>2. \A j \in Keys : Exists(j) => pay[j].booking \in Bookings
                                     /\ book[pay[j].booking].st # "none"
    BY DEF PaymentsFounded
  <2>3. \A j \in Keys : Exists(j)' => pay'[j].booking \in Bookings
                                      /\ book'[pay'[j].booking].st # "none"
    BY <1>6, <1>8, <2>2
  <2>4. \A j \in Keys : pay[j].st = "PENDING" =>
          pay[j].booking \in Bookings /\ book[pay[j].booking].latest = j
    BY <2>2 DEF PaymentsFounded, Exists
  <2>5. \A j \in Keys : pay'[j].st = "PENDING" => book'[pay'[j].booking].latest = j
    BY <1>6, <1>8, <2>4
  <2> QED
    BY <2>1, <2>3, <2>5 DEF PaymentsFounded
<1>10. BookingsFounded'
  <2>1. \A c \in Bookings : book'[c].st = "none" => book'[c] = NoRow
    BY <1>5 DEF BookingsFounded
  <2>2. \A c \in Bookings : book'[c].st = "PENDING" => book'[c].latest # NoKey
    BY <1>5 DEF BookingsFounded
  <2>3. \A c \in Bookings : book[c].latest # NoKey => book[c].latest \in Keys
    BY DEF TypeOK, BookingRows
  <2> QED
    BY <1>6, <1>8, <2>1, <2>2, <2>3 DEF BookingsFounded
<1>11. CapturesKnown'
  BY <1>2, <1>3, <1>8 DEF CapturesKnown
<1>12. PaidOnce'
  BY <1>2, <1>3 DEF PaidOnce, HasPaid
<1>13. PaidIsCaptured'
  <2>1. ASSUME NEW j \in Keys, j # k, pay'[j].st = "PAID"
        PROVE  j \in captured /\ book'[pay'[j].booking].paid = "PAID"
    <3>1. pay'[j] = pay[j] /\ pay[j].st = "PAID"
      BY <1>2, <2>1
    <3>2. pay[j].booking \in Bookings \ {b}
      BY <1>3, <3>1 DEF PaymentsFounded, Exists, HasPaid
    <3> QED
      BY <1>5, <3>1, <3>2 DEF PaidIsCaptured
  <2> QED
    BY <1>2, <1>3, <1>5, <2>1 DEF PaidIsCaptured
<1>14. ConfirmedIsPaid'
  <2>1. HasPaid(b)'
    BY <1>2, <1>3 DEF HasPaid
  <2>2. \A c \in Bookings \ {b} : HasPaid(c)' <=> HasPaid(c)
    BY <1>2, <1>3 DEF HasPaid
  <2> QED
    BY <1>5, <2>1, <2>2 DEF ConfirmedIsPaid
<1>15. Steady
  BY <1>2, <1>3, <1>5, <1>8 DEF Steady, PaymentsFounded, Exists
<1> QED
  BY <1>7, <1>9, <1>10, <1>11, <1>12, <1>13, <1>14, <1>15

\* A cancelled booking gives its rooms back.
LEMMA CancelledInv ==
  ASSUME IInv, UNCHANGED captured, NEW b \in Bookings, Cancelled(b)
  PROVE  TablesTyped' /\ Tables' /\ Steady
<1>1. /\ book \in [Bookings -> BookingRows] /\ reserved \in [Nights -> Nat]
      /\ book' = [book EXCEPT ![b] = [book[b] EXCEPT !.st = "CANCELLED"]]
      /\ UNCHANGED pay /\ ~Locked(b) /\ book[b].st # "none"
  BY DEF Cancelled, Active, IInv, TypeOK
<1>2. /\ book' \in [Bookings -> BookingRows]
      /\ book'[b].st = "CANCELLED" /\ book'[b].paid = book[b].paid
      /\ book'[b].latest = book[b].latest
      /\ \A c \in Bookings \ {b} : book'[c] = book[c]
  <2>1. [book[b] EXCEPT !.st = "CANCELLED"] \in BookingRows
    BY <1>1 DEF BookingRows
  <2>2. book'[b] = [book[b] EXCEPT !.st = "CANCELLED"]
        /\ book[b] \in BookingRows /\ \A c \in Bookings \ {b} : book'[c] = book[c]
    BY <1>1
  <2>3. book' \in [Bookings -> BookingRows]
    BY <1>1, <2>1
  <2>4. /\ book'[b].st = "CANCELLED" /\ book'[b].paid = book[b].paid
        /\ book'[b].latest = book[b].latest
    BY <2>2 DEF BookingRows
  <2> QED
    BY <2>2, <2>3, <2>4
<1>3. /\ reserved' \in [Nights -> Nat]
      /\ \A n \in Nights : reserved'[n] <= reserved[n]
  <2>1. book[b].rooms \in Nat /\ \A n \in book[b].nights : reserved[n] >= book[b].rooms
    BY <1>1, BoundsAssumption DEF Cancelled, BookingRows
  <2>2. reserved' = [n \in Nights |-> IF n \in book[b].nights
                                      THEN reserved[n] - book[b].rooms ELSE reserved[n]]
    BY DEF Cancelled, Release
  <2> QED
    BY <1>1, <2>1, <2>2
<1>4. \A c \in Bookings : book'[c].latest = book[c].latest /\ book'[c].paid = book[c].paid
                          /\ (book'[c].st = "none" <=> book[c].st = "none")
  BY <1>1, <1>2
<1> USE DEF IInv, Tables
<1>5. TablesTyped'
  BY <1>1, <1>2, <1>3 DEF TablesTyped, TypeOK
<1>6. NoOverbooking'
  BY <1>1, <1>3, CapacityAssumption DEF NoOverbooking, Nights
<1>7. PaymentsFounded'
  BY <1>1, <1>4 DEF PaymentsFounded, Exists
<1>8. BookingsFounded'
  BY <1>1, <1>2, <1>4 DEF BookingsFounded, Exists
<1>9. CapturesKnown' /\ PaidOnce'
  BY <1>1 DEF CapturesKnown, PaidOnce, Exists
<1>10. PaidIsCaptured'
  BY <1>1, <1>4 DEF PaidIsCaptured, PaymentsFounded, Exists
<1>11. ConfirmedIsPaid'
  BY <1>1, <1>2 DEF ConfirmedIsPaid, HasPaid
<1>12. Steady
  BY <1>1, <1>2 DEF Steady, Exists, PaymentsFounded
<1> QED
  BY <1>5, <1>6, <1>7, <1>8, <1>9, <1>10, <1>11, <1>12

\* Every effect keeps the tables and is steady.
LEMMA EffectInv ==
  ASSUME IInv, Effect, UNCHANGED captured \/ CapturesOnly
  PROVE  TablesTyped' /\ Tables' /\ Steady
<1>1. CASE UNCHANGED <<reserved, book, pay>>
  <2>1. captured \subseteq captured' /\ CapturesKnown'
    BY <1>1 DEF CapturesOnly, CapturesKnown, Exists, IInv, Tables
  <2> QED
    BY <1>1, <2>1 DEF IInv, Tables, TypeOK, TablesTyped, Steady, PaymentsFounded, BookingsFounded,
      Exists, NoOverbooking, PaidOnce, PaidIsCaptured, ConfirmedIsPaid, HasPaid
<1>2. CASE UNCHANGED captured
  BY <1>1, <1>2, AtHotelInv, OnlineInv, RetriedInv, OpenedInv, FailedInv, ConfirmedInv,
     CancelledInv DEF Effect
<1> QED
  BY <1>1, <1>2 DEF CapturesOnly

-----------------------------------------------------------------------------

\* What a handler knows stays true while the others take steps: a booking
\* whose checkout waits for the gateway is locked.
LEMMA StillOK ==
  ASSUME IInv, Steady, captured \subseteq captured', NEW h \in Handlers,
         NEW r \in Requests, r = req[h]
  PROVE  RequestOK(r)'
<1>1. RequestOK(r)
  BY DEF IInv
<1>2. CASE r.pc = "gateway"
  <2>1. Locked(pay[r.key].booking)
    BY <1>2 DEF Locked, At
  <2> QED
    BY <1>1, <1>2, <2>1 DEF RequestOK, Steady
<1>3. CASE r.pc # "gateway"
  BY <1>1, <1>3 DEF RequestOK, Steady, TrueEvent
<1> QED
  BY <1>2, <1>3

\* It is enough to look at the handler that takes the step.
LEMMA OneHandler ==
  ASSUME IInv, Steady, captured \subseteq captured', NEW h \in Handlers,
         NEW r \in Requests, RequestOK(r)', req' = [req EXCEPT ![h] = r]
  PROVE  req' \in [Handlers -> Requests] /\ \A g \in Handlers : RequestOK(req[g])'
<1>1. req \in [Handlers -> Requests]
  BY DEF IInv, TypeOK
<1>2. req' \in [Handlers -> Requests]
  BY <1>1
<1>3. ASSUME NEW g \in Handlers PROVE RequestOK(req[g])'
  <2>1. CASE g = h
    BY <1>1, <2>1
  <2>2. CASE g # h
    <3>1. PICK q \in Requests : q = req[g]
      BY <1>1
    <3>2. RequestOK(q)' /\ req'[g] = q
      BY <1>1, <2>2, <3>1, StillOK
    <3> QED
      BY <3>2
  <2> QED
    BY <2>1, <2>2
<1> QED
  BY <1>2, <1>3

\* A handler that is done needs nothing.
LEMMA IdleOK == Idle \in Requests /\ RequestOK(Idle)'
BY DEF Idle, Requests, RequestOK

\* A handler goes to another step with a key.
LEMMA GotoOK ==
  ASSUME NEW h \in Handlers, NEW k \in Keys, Exists(k)',
         NEW step \in {"checkout", "complete"}, Goto(h, step, k),
         step = "complete" => k \in captured'
  PROVE  \E r \in Requests : RequestOK(r)' /\ req' = [req EXCEPT ![h] = r]
<1>1. PICK r \in Requests : r = [Idle EXCEPT !.pc = step, !.key = k]
  BY DEF Idle, Requests
<1>2. r.pc = step /\ r.key = k
  BY <1>1 DEF Idle
<1>3. RequestOK(r)'
  BY <1>2 DEF RequestOK
<1> QED
  BY <1>1, <1>3 DEF Goto

\* A handler goes to another step and keeps what it knows.
LEMMA ContinueOK ==
  ASSUME IInv, Steady, captured \subseteq captured', NEW h \in Handlers,
         NEW step \in {"gateway", "reject", "mark"}, Continue(h, step),
         step \in {"gateway", "reject"} => req[h].pc \in {"checkout", "gateway"},
         step = "mark" => req[h].pc = "dispatch",
         step = "gateway" => /\ pay'[req[h].key].st = "PENDING"
                             /\ book'[pay'[req[h].key].booking].st = "PENDING"
  PROVE  \E r \in Requests : RequestOK(r)' /\ req' = [req EXCEPT ![h] = r]
<1>1. req \in [Handlers -> Requests]
  BY DEF IInv, TypeOK
<1>2. PICK q \in Requests : q = req[h]
  BY <1>1
<1>3. RequestOK(q)'
  BY <1>2, StillOK
<1>4. PICK r \in Requests : r = [req[h] EXCEPT !.pc = step]
  BY <1>2 DEF Requests
<1>5. r.pc = step /\ r.key = q.key /\ r.ev = q.ev
  BY <1>2, <1>4 DEF Requests
<1>6. RequestOK(r)'
  BY <1>2, <1>3, <1>5 DEF RequestOK
<1>7. req' = [req EXCEPT ![h] = r]
  BY <1>1, <1>4 DEF Continue
<1> QED
  BY <1>6, <1>7

\* Every step leaves all handlers with requests they can go on with.
LEMMA RequestsInv ==
  ASSUME IInv, [Next]_vars, Steady, captured \subseteq captured'
  PROVE  req' \in [Handlers -> Requests] /\ \A h \in Handlers : RequestOK(req[h])'
<1> DEFINE Known_(h) == \E r \in Requests : RequestOK(r)' /\ req' = [req EXCEPT ![h] = r]
<1>1. CASE UNCHANGED req
  <2>1. req \in [Handlers -> Requests]
    BY DEF IInv, TypeOK
  <2>2. ASSUME NEW h \in Handlers PROVE RequestOK(req[h])'
    <3>1. PICK q \in Requests : q = req[h]
      BY <2>1
    <3>2. RequestOK(q)' /\ req'[h] = q
      BY <1>1, <3>1, StillOK
    <3> QED
      BY <3>2
  <2> QED
    BY <1>1, <2>1, <2>2
<1>2. ASSUME NEW h \in Handlers, Finish(h) PROVE Known_(h)
  BY <1>2, IdleOK DEF Finish
<1>3. ASSUME NEW h \in Handlers, NEW k \in Keys, NEW b \in Bookings,
             \/ Retry(h, b, k)
             \/ \E nights \in Stays, rooms \in 1..MaxRooms : BookOnline(h, k, b, nights, rooms)
      PROVE  Known_(h)
  <2>1. pay' = [pay EXCEPT ![k] = [st |-> "PENDING", booking |-> b, gw |-> FALSE]]
        /\ Goto(h, "checkout", k)
    BY <1>3 DEF Retry, BookOnline, CreatePendingAttempt
  <2>2. Exists(k)'
    BY <2>1 DEF Exists, IInv, TypeOK
  <2> QED
    BY <2>1, <2>2, GotoOK
<1>4. ASSUME NEW h \in Handlers, NEW k \in Keys, ResumeCheckout(h, k)
      PROVE  Known_(h)
  BY <1>4, GotoOK DEF ResumeCheckout, Exists
<1>5. ASSUME NEW h \in Handlers, NEW k \in Keys, RequestVerify(h, k)
      PROVE  Known_(h)
  <2>1. Exists(k) /\ Goto(h, "complete", k) /\ k \in captured /\ UNCHANGED <<pay, captured>>
    BY <1>5 DEF RequestVerify, gateway, IInv, Tables, CapturesKnown
  <2>2. Exists(k)' /\ k \in captured'
    BY <2>1 DEF Exists
  <2> QED
    BY <2>1, <2>2, GotoOK
<1>6. ASSUME NEW h \in Handlers, NEW e \in Events, ReceiveWebhook(h, e)
      PROVE  Known_(h)
  <2>1. PICK r \in Requests : r = [Idle EXCEPT !.pc = "dispatch", !.ev = e]
    BY DEF Idle, Requests
  <2>2. r.pc = "dispatch" /\ r.ev = e
    BY <2>1 DEF Idle
  <2>3. TrueEvent(e)'
    BY <1>6 DEF IInv, ReceiveWebhook, TrueEvent
  <2> QED
    BY <1>6, <2>1, <2>2, <2>3 DEF ReceiveWebhook, RequestOK
<1>7. ASSUME NEW h \in Handlers, OpenGatewayOrder(h)
      PROVE  Known_(h)
  BY <1>7, ContinueOK DEF OpenGatewayOrder, At
<1>8. ASSUME NEW h \in Handlers,
             GatewayRejects(h) \/ ApplyCapture(h) \/ ApplyFailure(h)
      PROVE  Known_(h)
  BY <1>8, ContinueOK DEF GatewayRejects, ApplyCapture, ApplyFailure, At
<1>9. ASSUME NEW h \in Handlers, Step(h) \/ LoseRequest(h)
      PROVE  Known_(h)
  BY <1>2, <1>7, <1>8, <1>9
  DEF Step, LoseRequest, AlreadyOpened, GatewayAccepts, FailAttempt, CompleteVerified,
      IgnoreWebhook, CaptureConflicts, MarkProcessed
<1>10. UNCHANGED req \/ \E h \in Handlers : Known_(h)
  <2> HIDE DEF Known_
  <2> QED
    BY <1>3, <1>4, <1>5, <1>6, <1>9
    DEF Next, BookingRequest, PaymentRequest, vars, BookAtHotel, RecordFailure, CancelBooking, Capture, Decline, ForeignEvent
<1> QED
  BY <1>1, <1>10, OneHandler

\* What is left: the gateway's events stay true and the counters typed.
LEMMA RestInv ==
  ASSUME IInv, [Next]_vars
  PROVE  /\ captured \subseteq captured' /\ captured' \subseteq Keys
         /\ sent' \subseteq Events /\ \A e \in sent' : TrueEvent(e)'
         /\ hook' \in [Events -> {"none", "new", "processed", "ignored"}]
         /\ lost' \in 0..MaxLost
<1>1. CASE \E k \in Keys : Capture(k)
  BY <1>1 DEF IInv, TypeOK, Capture, TrueEvent, Events, CaptureKinds
<1>2. CASE \E k \in Keys : Decline(k)
  BY <1>2 DEF IInv, TypeOK, Decline, TrueEvent, Events, CaptureKinds
<1>3. CASE \E e \in Events : ForeignEvent(e)
  BY <1>3, ForeignAssumption DEF IInv, TypeOK, ForeignEvent, TrueEvent
<1>4. CASE \E h \in Handlers : LoseRequest(h)
  BY <1>4, BoundsAssumption DEF IInv, TypeOK, LoseRequest, gateway, TrueEvent
<1>5. CASE \E h \in Handlers, e \in Events : ReceiveWebhook(h, e)
  BY <1>5 DEF IInv, TypeOK, ReceiveWebhook, CreateWebhookEvent, gateway, TrueEvent
<1>6. ASSUME NEW h \in Handlers, IgnoreWebhook(h) \/ MarkProcessed(h)
      PROVE  hook' \in [Events -> {"none", "new", "processed", "ignored"}]
             /\ UNCHANGED <<captured, sent, lost>>
  BY <1>6 DEF IInv, TypeOK, IgnoreWebhook, MarkProcessed, gateway
<1>7. CASE UNCHANGED <<captured, sent, lost, hook>>
  BY <1>7 DEF IInv, TypeOK, TrueEvent
<1>8. ASSUME NEW h \in Handlers, Step(h)
      PROVE  \/ UNCHANGED <<captured, sent, lost, hook>>
             \/ IgnoreWebhook(h) \/ MarkProcessed(h)
  BY <1>8 DEF Step, OpenGatewayOrder, AlreadyOpened, GatewayAccepts, GatewayRejects, FailAttempt,
    CompleteVerified, ApplyCapture, CaptureConflicts, ApplyFailure, gateway
<1>9. CASE \E h \in Handlers : IgnoreWebhook(h) \/ MarkProcessed(h)
  BY <1>6, <1>9 DEF IInv, TypeOK, TrueEvent
<1>10. CASE UNCHANGED vars
  BY <1>7, <1>10 DEF vars
<1>11. CASE \/ \E b \in Bookings : RecordFailure(b) \/ CancelBooking(b)
            \/ \E b \in Bookings, nights \in Stays, rooms \in 1..MaxRooms :
                 BookAtHotel(b, nights, rooms)
            \/ \E h \in Handlers, k \in Keys, b \in Bookings, nights \in Stays,
                  rooms \in 1..MaxRooms : BookOnline(h, k, b, nights, rooms)
            \/ \E h \in Handlers, k \in Keys : ResumeCheckout(h, k) \/ RequestVerify(h, k)
            \/ \E h \in Handlers, b \in Bookings, k \in Keys : Retry(h, b, k)
  BY <1>7, <1>11 DEF RecordFailure, CancelBooking, BookAtHotel, BookOnline, ResumeCheckout,
    RequestVerify, Retry, gateway
<1> QED
  BY <1>1, <1>2, <1>3, <1>4, <1>5, <1>7, <1>8, <1>9, <1>10, <1>11 DEF Next, BookingRequest, PaymentRequest

\* Every step keeps the invariant.
LEMMA NextInv ==
  ASSUME IInv, [Next]_vars
  PROVE  IInv'
<1>1. TablesTyped' /\ Tables' /\ Steady
  BY NextEffect, EffectInv
<1>2. /\ captured \subseteq captured' /\ captured' \subseteq Keys
      /\ sent' \subseteq Events /\ \A e \in sent' : TrueEvent(e)'
      /\ hook' \in [Events -> {"none", "new", "processed", "ignored"}]
      /\ lost' \in 0..MaxLost
  BY RestInv
<1>3. req' \in [Handlers -> Requests] /\ \A h \in Handlers : RequestOK(req[h])'
  BY <1>1, <1>2, RequestsInv
<1>4. TypeOK'
  BY <1>1, <1>2, <1>3 DEF TypeOK, TablesTyped
<1> QED
  BY <1>1, <1>2, <1>3, <1>4 DEF IInv

\* The inductive invariant holds of every reachable state.
THEOREM Invariance == Spec => []IInv
<1>1. Init => IInv
  BY InitIInv
<1>2. IInv /\ [Next]_vars => IInv'
  BY NextInv
<1> QED
  BY <1>1, <1>2, PTL DEF Spec

\* The tables, the requests and the gateway's events always have the shape
\* the services store and send.
THEOREM TypeCorrect == Spec => []TypeOK
<1>1. IInv => TypeOK
  BY DEF IInv
<1> QED
  BY <1>1, Invariance, PTL

\* No night is sold beyond its rooms, whatever stays overlap on it
\* (ensureAvailable under the inventory row locks).
THEOREM NeverOverbooked == Spec => []NoOverbooking
<1>1. IInv => NoOverbooking
  BY DEF IInv, Tables
<1> QED
  BY <1>1, Invariance, PTL

\* Counting the free nights of a stay finds the hotel exactly when every night
\* is free.
LEMMA FoundWhenAvailable ==
  ASSUME NEW nights \in Stays, NEW rooms \in Nat
  PROVE  HotelFound(nights, rooms) <=> Available(nights, rooms)
<1>1. IsFiniteSet(nights)
  <2>1. PICK i \in Nights, j \in Nights : nights = i..j
    BY DEF Stays
  <2> QED
    BY <2>1, FS_Interval, BoundsAssumption DEF Nights
<1>2. NightsLeft(nights, rooms) \in SUBSET nights
  BY DEF NightsLeft
<1>3. HotelFound(nights, rooms) => NightsLeft(nights, rooms) = nights
  BY <1>1, <1>2, FS_Subset DEF HotelFound
<1>4. NightsLeft(nights, rooms) = nights <=> Available(nights, rooms)
  BY DEF NightsLeft, Available
<1> QED
  BY <1>3, <1>4 DEF HotelFound

\* The quote of every night allows the rooms exactly when the room is listed.
LEMMA ListedWhenLeft ==
  ASSUME TypeOK, NEW nights \in Stays, NEW rooms \in Nat
  PROVE  RoomListed(nights, rooms) <=>
           \A n \in nights : RoomAvailability(nights, rooms).left[n] >= rooms
<1>1. nights \subseteq Nights
  BY BoundsAssumption DEF Stays, Nights
<1>2. \A n \in nights : reserved[n] \in Nat /\ Capacity[n] \in Nat
  BY <1>1, CapacityAssumption DEF TypeOK, Nights
<1>3. RoomListed(nights, rooms) <=> Available(nights, rooms)
  BY DEF RoomListed, RoomAvailability
<1>4. \A n \in nights : RoomAvailability(nights, rooms).left[n] = Capacity[n] - reserved[n]
  BY DEF RoomAvailability
<1> QED
  BY <1>2, <1>3, <1>4 DEF Available

\* What the search, the room list and the quotes offer is what a booking
\* accepts, and no night is oversold by it.
THEOREM OfferedIsSold == Spec => []SoldAsOffered
<1>1. IInv => SoldAsOffered
  <2>1. ASSUME TypeOK PROVE OffersBookable
    BY <2>1, FoundWhenAvailable, ListedWhenLeft, BoundsAssumption DEF OffersBookable
  <2> QED
    BY <2>1 DEF IInv, Tables, SoldAsOffered
<1> QED
  BY <1>1, Invariance, PTL

\* A booking never has two paid payments (completePayment's search for
\* another paid payment, under the booking's lock).
THEOREM PaidAtMostOnce == Spec => []PaidOnce
<1>1. IInv => PaidOnce
  BY DEF IInv, Tables
<1> QED
  BY <1>1, Invariance, PTL

\* A payment is marked paid only on captured money, and its booking with it
\* (verify's and the webhook's way to completePayment).
THEOREM PaidWasCaptured == Spec => []PaidIsCaptured
<1>1. IInv => PaidIsCaptured
  BY DEF IInv, Tables
<1> QED
  BY <1>1, Invariance, PTL

\* A confirmed booking is paid at the hotel or has its paid payment
\* (completePayment, and failPayment's early returns).
THEOREM ConfirmedWasPaid == Spec => []ConfirmedIsPaid
<1>1. IInv => ConfirmedIsPaid
  BY DEF IInv, Tables
<1> QED
  BY <1>1, Invariance, PTL

\* One payment per booking, on captured money, and none confirmed without.
THEOREM MoneyAlwaysSound == Spec => []MoneySound
BY PaidAtMostOnce, PaidWasCaptured, ConfirmedWasPaid, PTL DEF MoneySound

\* At most one payment of a booking is in progress (retry's look at the
\* newest payment under the booking's lock).
THEOREM OneAttemptOpen == Spec => []OneOpenAttempt
<1>1. IInv => OneOpenAttempt
  BY DEF IInv, Tables, PaymentsFounded, OneOpenAttempt
<1> QED
  BY <1>1, Invariance, PTL

\* Nothing changes a cancelled booking (the status checks of completePayment,
\* retry and cancelBooking).
THEOREM CancelledForGood == Spec => CancelledIsFinal
<1> DEFINE A == \A b \in Bookings : book[b].st = "CANCELLED" => book'[b] = book[b]
<1>1. IInv /\ [Next]_vars => A
  <2> SUFFICES ASSUME IInv, [Next]_vars, NEW b \in Bookings, book[b].st = "CANCELLED"
               PROVE  book'[b] = book[b]
    OBVIOUS
  <2>1. Effect /\ book \in [Bookings -> BookingRows]
    BY NextEffect DEF IInv, TypeOK
  <2>2. ASSUME NEW c \in Bookings, NEW nights \in Stays, NEW rooms \in 1..MaxRooms,
               NEW row \in BookingRows, Booked(c, nights, rooms, row)
        PROVE  book'[b] = book[b]
    BY <2>1, <2>2 DEF Booked
  <2>3. ASSUME NEW c \in Bookings, Cancelled(c) \/ \E k \in Keys : Retried(c, k)
        PROVE  book'[b] = book[b]
    BY <2>1, <2>3 DEF Cancelled, Active, Retried, Retryable
  <2>4. ASSUME NEW k \in Keys, Confirmed(k)
        PROVE  book'[b] = book[b]
    BY <2>1, <2>4 DEF Confirmed, Confirm
  <2> QED
    BY <2>1, <2>2, <2>3, <2>4 DEF Effect, AtHotel, Online, Opened, Failed
<1> QED
  BY <1>1, Invariance, PTL DEF Spec, CancelledIsFinal

\* A gateway order is stored only while its payment and booking are pending
\* (createCheckoutForPayment's locks across the gateway call).
THEOREM GatewayOrdersOnPending == Spec => OpenedOnPending
<1> DEFINE A == \A k \in Keys :
                  ~pay[k].gw /\ pay'[k].gw =>
                    pay[k].st = "PENDING" /\ book[pay[k].booking].st = "PENDING"
<1>1. IInv /\ [Next]_vars => A
  <2> SUFFICES ASSUME IInv, [Next]_vars, NEW k \in Keys, ~pay[k].gw, pay'[k].gw
               PROVE  pay[k].st = "PENDING" /\ book[pay[k].booking].st = "PENDING"
    OBVIOUS
  <2>1. Effect /\ pay \in [Keys -> Payments]
    BY NextEffect DEF IInv, TypeOK
  <2>2. ASSUME NEW j \in Keys,
               \/ Confirmed(j)
               \/ Failed(j)
               \/ \E b \in Bookings : Retried(b, j)
               \/ \E b \in Bookings, nights \in Stays, rooms \in 1..MaxRooms :
                    Online(j, b, nights, rooms)
        PROVE  FALSE
    <3>1. CASE j = k
      BY <2>1, <2>2, <3>1 DEF Confirmed, Confirm, Failed, Retried, Online, Payments
    <3>2. CASE j # k
      BY <2>1, <2>2, <3>2 DEF Confirmed, Confirm, Failed, Retried, Online
    <3> QED
      BY <3>1, <3>2
  <2>3. ASSUME NEW j \in Keys, Opened(j)
        PROVE  j = k
    BY <2>1, <2>3 DEF Opened
  <2> QED
    BY <2>1, <2>2, <2>3 DEF Effect, AtHotel, Cancelled, Opened
<1> QED
  BY <1>1, Invariance, PTL DEF Spec, OpenedOnPending

\* Nothing that comes too late changes what is over.
THEOREM NothingComesLate == Spec => NothingTooLate
BY CancelledForGood, GatewayOrdersOnPending, PTL DEF NothingTooLate

-----------------------------------------------------------------------------

(***************************************************************************)
(* The counters.  A booking adds a block of as many rooms as it takes to  *)
(* each of its nights, apart from all others, and cancelling it removes   *)
(* exactly that block.                                                    *)
(***************************************************************************)
RoomsOf(b, rooms) == {b} \X (1..rooms)

CountersFit ==
  \A n \in Nights : /\ IsFiniteSet(HeldRooms(n))
                    /\ reserved[n] = Cardinality(HeldRooms(n))

\* A block has as many members as rooms.
LEMMA BlockSize ==
  ASSUME NEW b, NEW rooms \in Nat
  PROVE  IsFiniteSet(RoomsOf(b, rooms)) /\ Cardinality(RoomsOf(b, rooms)) = rooms
<1> DEFINE number == [i \in 1..rooms |-> <<b, i>>]
<1>1. number \in Bijection(1..rooms, RoomsOf(b, rooms))
  <2>1. number \in [1..rooms -> RoomsOf(b, rooms)]
    BY DEF RoomsOf
  <2>2. \A i, j \in 1..rooms : number[i] = number[j] => i = j
    OBVIOUS
  <2>3. \A u \in RoomsOf(b, rooms) : \E i \in 1..rooms : number[i] = u
    BY DEF RoomsOf
  <2> QED
    BY <2>1, <2>2, <2>3, Fun_IsBij
<1>2. ExistsBijection(1..rooms, RoomsOf(b, rooms))
  BY <1>1 DEF ExistsBijection
<1>3. IsFiniteSet(1..rooms) /\ Cardinality(1..rooms) = rooms
  BY FS_Interval
<1> QED
  BY <1>2, <1>3, FS_Bijection

\* Adding a block to a set apart from it adds its size, and leaves a finite
\* set finite; taking it away again is the reverse.
LEMMA BlockAdded ==
  ASSUME NEW b, NEW rooms \in Nat, NEW S, NEW T,
         S \intersect RoomsOf(b, rooms) = {}, T = S \union RoomsOf(b, rooms),
         IsFiniteSet(S) \/ IsFiniteSet(T)
  PROVE  /\ IsFiniteSet(S) /\ IsFiniteSet(T)
         /\ Cardinality(S) \in Nat
         /\ Cardinality(T) = Cardinality(S) + rooms
<1>1. IsFiniteSet(S)
  BY FS_Subset
<1>2. IsFiniteSet(RoomsOf(b, rooms)) /\ Cardinality(RoomsOf(b, rooms)) = rooms
  BY BlockSize
<1>3. /\ IsFiniteSet(T)
      /\ Cardinality(T) = Cardinality(S) + rooms - Cardinality(S \cap RoomsOf(b, rooms))
  BY <1>1, <1>2, FS_Union
<1>4. Cardinality(S \cap RoomsOf(b, rooms)) = 0
  BY FS_EmptySet
<1>5. Cardinality(S) \in Nat
  BY <1>1, FS_CardinalityType
<1> QED
  BY <1>1, <1>3, <1>4, <1>5

\* What a booking holds of a night.
LEMMA HeldOfBooking ==
  ASSUME TypeOK, NEW b \in Bookings, Active(b), NEW n \in book[b].nights
  PROVE  RoomsOf(b, book[b].rooms) = {u \in HeldRooms(n) : u[1] = b}
<1>1. book[b].rooms \in 0..MaxRooms
  BY DEF TypeOK, BookingRows
<1> QED
  BY <1>1, BoundsAssumption DEF RoomsOf, HeldRooms

\* A new booking adds its block to the nights of its stay.
LEMMA HeldWhenBooked ==
  ASSUME IInv, CountersFit, NEW b \in Bookings, NEW nights \in Stays, NEW rooms \in 1..MaxRooms,
         NEW row \in BookingRows, row.st \in {"PENDING", "CONFIRMED"},
         Booked(b, nights, rooms, row)
  PROVE  CountersFit'
<1>1. /\ book'[b] = row /\ book' \in [Bookings -> BookingRows]
      /\ \A c \in Bookings \ {b} : book'[c] = book[c]
      /\ row.nights = nights /\ row.rooms = rooms /\ rooms \in Nat /\ rooms <= MaxRooms
      /\ book[b].st = "none"
      /\ reserved \in [Nights -> Nat]
      /\ reserved' = [n \in Nights |-> IF n \in nights THEN reserved[n] + rooms ELSE reserved[n]]
  BY BookedEffect, BoundsAssumption DEF Booked, Reserve, IInv, TypeOK
<1> SUFFICES ASSUME NEW n \in Nights
             PROVE  IsFiniteSet(HeldRooms(n)') /\ reserved'[n] = Cardinality(HeldRooms(n)')
  BY DEF CountersFit
<1>2. \A u \in Bookings \X (1..MaxRooms) : u[1] # b => (u \in HeldRooms(n)' <=> u \in HeldRooms(n))
  BY <1>1 DEF HeldRooms, Active
<1>3. \A u \in HeldRooms(n) : u[1] # b
  BY <1>1 DEF HeldRooms, Active
<1>4. CASE n \in nights
  <2>1. \A u \in Bookings \X (1..MaxRooms) :
          u[1] = b => (u \in HeldRooms(n)' <=> u \in RoomsOf(b, rooms))
    BY <1>1, <1>4, BoundsAssumption DEF HeldRooms, Active, RoomsOf
  <2>2. RoomsOf(b, rooms) \subseteq Bookings \X (1..MaxRooms)
    BY <1>1, BoundsAssumption DEF RoomsOf
  <2>3. HeldRooms(n)' = HeldRooms(n) \union RoomsOf(b, rooms)
    BY <1>2, <1>3, <2>1, <2>2 DEF HeldRooms, RoomsOf
  <2>4. HeldRooms(n) \intersect RoomsOf(b, rooms) = {}
    BY <1>3 DEF RoomsOf
  <2> QED
    BY <1>1, <1>4, <2>3, <2>4, BlockAdded DEF CountersFit
<1>5. CASE n \notin nights
  <2>1. HeldRooms(n)' = HeldRooms(n)
    BY <1>1, <1>2, <1>3, <1>5 DEF HeldRooms
  <2> QED
    BY <1>1, <1>5, <2>1 DEF CountersFit
<1> QED
  BY <1>4, <1>5

\* A cancelled booking takes its block out of the nights of its stay.
LEMMA HeldWhenCancelled ==
  ASSUME IInv, CountersFit, NEW b \in Bookings, Cancelled(b)
  PROVE  CountersFit'
<1>1. /\ book \in [Bookings -> BookingRows] /\ book[b].rooms \in Nat
      /\ book' = [book EXCEPT ![b] = [book[b] EXCEPT !.st = "CANCELLED"]]
      /\ Active(b) /\ TypeOK
      /\ reserved \in [Nights -> Nat]
      /\ reserved' = [n \in Nights |-> IF n \in book[b].nights
                                       THEN reserved[n] - book[b].rooms ELSE reserved[n]]
  BY BoundsAssumption DEF Cancelled, Release, IInv, TypeOK, BookingRows
<1>2. book'[b].st = "CANCELLED" /\ \A c \in Bookings \ {b} : book'[c] = book[c]
  BY <1>1 DEF BookingRows
<1> SUFFICES ASSUME NEW n \in Nights
             PROVE  IsFiniteSet(HeldRooms(n)') /\ reserved'[n] = Cardinality(HeldRooms(n)')
  BY DEF CountersFit
<1>3. HeldRooms(n)' = {u \in HeldRooms(n) : u[1] # b}
  BY <1>2 DEF HeldRooms, Active
<1>4. CASE n \in book[b].nights
  <2>1. RoomsOf(b, book[b].rooms) = {u \in HeldRooms(n) : u[1] = b}
    BY <1>1, <1>4, HeldOfBooking
  <2>2. /\ HeldRooms(n) = HeldRooms(n)' \union RoomsOf(b, book[b].rooms)
        /\ HeldRooms(n)' \intersect RoomsOf(b, book[b].rooms) = {}
    BY <1>3, <2>1
  <2>3. IsFiniteSet(HeldRooms(n)) /\ reserved[n] = Cardinality(HeldRooms(n))
    BY DEF CountersFit
  <2>0. PICK rooms \in Nat : rooms = book[b].rooms
    BY <1>1
  <2>4. PICK S : S = HeldRooms(n)'
    OBVIOUS
  <2>5. /\ S \intersect RoomsOf(b, rooms) = {}
        /\ HeldRooms(n) = S \union RoomsOf(b, rooms)
    BY <2>0, <2>2, <2>4
  <2>6. /\ IsFiniteSet(S) /\ Cardinality(S) \in Nat
        /\ Cardinality(HeldRooms(n)) = Cardinality(S) + rooms
    BY <2>3, <2>5, BlockAdded
  <2>7. reserved'[n] = reserved[n] - rooms
    BY <1>1, <1>4, <2>0
  <2> QED
    BY <2>3, <2>4, <2>6, <2>7
<1>5. CASE n \notin book[b].nights
  <2>1. HeldRooms(n)' = HeldRooms(n)
    BY <1>3, <1>5 DEF HeldRooms
  <2> QED
    BY <1>1, <1>5, <2>1 DEF CountersFit
<1> QED
  BY <1>4, <1>5

\* No other effect moves a counter or what is held.
LEMMA HeldOtherwise ==
  ASSUME IInv, CountersFit, UNCHANGED reserved,
         \A b \in Bookings : /\ Active(b)' <=> Active(b)
                             /\ book'[b].nights = book[b].nights
                             /\ book'[b].rooms = book[b].rooms
  PROVE  CountersFit'
<1>1. \A n : HeldRooms(n)' = HeldRooms(n)
  BY DEF HeldRooms
<1> QED
  BY <1>1 DEF CountersFit

\* Retries and payments keep the stay of every booking and its standing.
LEMMA PaymentKeepsStay ==
  ASSUME IInv, NEW k \in Keys, \/ Opened(k) \/ Confirmed(k) \/ Failed(k)
                               \/ \E b \in Bookings : Retried(b, k)
  PROVE  /\ UNCHANGED reserved
         /\ \A b \in Bookings : /\ Active(b)' <=> Active(b)
                                /\ book'[b].nights = book[b].nights
                                /\ book'[b].rooms = book[b].rooms
<1>1. book \in [Bookings -> BookingRows]
  BY DEF IInv, TypeOK
<1>2. CASE Opened(k) \/ Failed(k)
  BY <1>2 DEF Opened, Failed, Active
<1>3. CASE \E b \in Bookings : Retried(b, k)
  BY <1>1, <1>3 DEF Retried, Active, BookingRows
<1>4. CASE Confirmed(k)
  <2>1. /\ book[pay[k].booking].st = "PENDING"
        /\ book' = [book EXCEPT ![pay[k].booking] =
                      [book[pay[k].booking] EXCEPT !.st = "CONFIRMED", !.paid = "PAID"]]
    BY <1>4 DEF Confirmed, Confirm
  <2> QED
    BY <1>1, <1>4, <2>1 DEF Confirmed, Active, BookingRows
<1> QED
  BY <1>2, <1>3, <1>4

\* Every step keeps the counters fitting what is held.
LEMMA CountersKept ==
  ASSUME IInv, CountersFit, [Next]_vars
  PROVE  CountersFit'
<1>1. Effect
  BY NextEffect
<1>2. ASSUME NEW b \in Bookings, NEW nights \in Stays, NEW rooms \in 1..MaxRooms,
             AtHotel(b, nights, rooms) \/ \E k \in Keys : Online(k, b, nights, rooms)
      PROVE  CountersFit'
  BY <1>2, HeldWhenBooked DEF AtHotel, Online
<1>3. CASE UNCHANGED <<reserved, book, pay>>
  BY <1>3, HeldOtherwise DEF Active
<1>4. ASSUME NEW k \in Keys, \/ Opened(k) \/ Confirmed(k) \/ Failed(k)
                             \/ \E b \in Bookings : Retried(b, k)
      PROVE  CountersFit'
  BY <1>4, PaymentKeepsStay, HeldOtherwise
<1> QED
  BY <1>1, <1>2, <1>3, <1>4, HeldWhenCancelled DEF Effect

\* At the beginning nothing is held.
LEMMA CountersStart == Init => CountersFit
<1> SUFFICES ASSUME Init, NEW n \in Nights
             PROVE  IsFiniteSet(HeldRooms(n)) /\ reserved[n] = Cardinality(HeldRooms(n))
  BY DEF CountersFit
<1>1. HeldRooms(n) = {} /\ reserved[n] = 0
  BY DEF Init, NoRow, HeldRooms, Active
<1> QED
  BY <1>1, FS_EmptySet

\* The reserved counter of every night is exactly the number of rooms held by
\* the bookings that stand (createBooking's reservation and
\* cancelInTransaction's restoration, whatever happens in between).
THEOREM CountersExact == Spec => []ReservedExact
<1>1. Init => CountersFit
  BY CountersStart
<1>2. IInv /\ CountersFit /\ [Next]_vars => CountersFit'
  BY CountersKept
<1>3. CountersFit => ReservedExact
  BY DEF CountersFit, ReservedExact
<1> QED
  BY <1>1, <1>2, <1>3, Invariance, PTL DEF Spec

RoomsFound ==
  \A b \in Bookings : Active(b) => \A n \in book[b].nights : reserved[n] >= book[b].rooms

\* A standing booking finds its rooms in the counters of all its nights: the
\* refusal in cancelInTransaction for too small a counter never happens.
THEOREM CancelFindsRooms == Spec => []RoomsFound
<1>1. IInv /\ CountersFit => RoomsFound
  <2> SUFFICES ASSUME IInv, CountersFit, NEW b \in Bookings, Active(b), NEW n \in book[b].nights
               PROVE  reserved[n] >= book[b].rooms
    BY DEF RoomsFound
  <2>1. n \in Nights /\ book[b].rooms \in Nat /\ TypeOK
    BY BoundsAssumption DEF IInv, TypeOK, BookingRows
  <2>2. RoomsOf(b, book[b].rooms) = {u \in HeldRooms(n) : u[1] = b}
    BY <2>1, HeldOfBooking
  <2>3. RoomsOf(b, book[b].rooms) \in SUBSET HeldRooms(n)
    BY <2>2
  <2>4. /\ IsFiniteSet(HeldRooms(n)) /\ reserved[n] = Cardinality(HeldRooms(n))
        /\ reserved[n] \in Nat
    BY <2>1 DEF CountersFit, TypeOK
  <2>5. Cardinality(RoomsOf(b, book[b].rooms)) <= Cardinality(HeldRooms(n))
    BY <2>3, <2>4, FS_Subset
  <2>6. Cardinality(RoomsOf(b, book[b].rooms)) = book[b].rooms
    BY <2>1, BlockSize
  <2> QED
    BY <2>1, <2>4, <2>5, <2>6
<1>2. Init => CountersFit
  BY CountersStart
<1>3. IInv /\ CountersFit /\ [Next]_vars => CountersFit'
  BY CountersKept
<1> QED
  BY <1>1, <1>2, <1>3, Invariance, PTL DEF Spec

-----------------------------------------------------------------------------

(***************************************************************************)
(* Work left behind.  A payment that waits for its gateway order and a    *)
(* stored event that is undecided are each in the hand of a request; only *)
(* a lost request drops one, and it drops one at most.                     *)
(***************************************************************************)
Waits(k) == pay[k].st = "PENDING" /\ ~pay[k].gw
Over(e) == Known(e) /\ TooLate(e.of)

\* A step of one handler leaves nothing behind when whatever is unfinished
\* afterwards is in that handler's hand now, or was not in it before.
LEMMA StillInHand ==
  ASSUME IInv, NEW h \in Handlers, NEW r, req' = [req EXCEPT ![h] = r],
         \A k \in Keys : Waits(k)' =>
           \/ r.key = k /\ r.pc \in {"checkout", "gateway", "reject"}
           \/ Waits(k) /\ ~Tends(h, k),
         \A e \in Events : hook'[e] = "new" /\ ~Over(e)' =>
           \/ r.ev = e /\ r.pc \in {"dispatch", "mark"}
           \/ hook[e] = "new" /\ ~Over(e) /\ ~Applies(h, e)
  PROVE  Abandoned' \subseteq Abandoned /\ Forgotten' \subseteq Forgotten
<1>1. req'[h] = r /\ \A g \in Handlers \ {h} : req'[g] = req[g]
  BY DEF IInv, TypeOK
<1>2. ASSUME NEW k \in Keys, k \in Abandoned' PROVE k \in Abandoned
  <2>1. Waits(k)' /\ \A g \in Handlers : ~Tends(g, k)'
    BY <1>2 DEF Abandoned, Waits
  <2>2. Waits(k) /\ ~Tends(h, k)
    BY <1>1, <2>1 DEF Tends
  <2>3. \A g \in Handlers \ {h} : ~Tends(g, k)
    BY <1>1, <2>1 DEF Tends
  <2> QED
    BY <2>2, <2>3 DEF Abandoned, Waits
<1>3. ASSUME NEW e \in Events, e \in Forgotten' PROVE e \in Forgotten
  <2>1. hook'[e] = "new" /\ ~Over(e)' /\ \A g \in Handlers : ~Applies(g, e)'
    BY <1>3 DEF Forgotten, Over
  <2>2. hook[e] = "new" /\ ~Over(e) /\ ~Applies(h, e)
    BY <1>1, <2>1 DEF Applies
  <2>3. \A g \in Handlers \ {h} : ~Applies(g, e)
    BY <1>1, <2>1 DEF Applies
  <2> QED
    BY <2>2, <2>3 DEF Forgotten, Over
<1>4. Abandoned' \subseteq Keys /\ Forgotten' \subseteq Events
  BY DEF Abandoned, Forgotten
<1> QED
  BY <1>2, <1>3, <1>4

\* What holds of a payment for good: its gateway order, its acceptance, and
\* that it came too late for its booking.
LEMMA Lasting ==
  ASSUME IInv, Effect
  PROVE  /\ \A k \in Keys : pay[k].gw => pay'[k].gw
         /\ \A k \in Keys : Exists(k) /\ TooLate(k) => TooLate(k)'
         /\ \A k \in Keys : Waits(k)' => Waits(k) \/ Unused(k)
<1> DEFINE Good ==
             /\ \A k \in Keys : pay[k].gw => pay'[k].gw
             /\ \A k \in Keys : Exists(k) /\ TooLate(k) => TooLate(k)'
             /\ \A k \in Keys : Waits(k)' => Waits(k) \/ Unused(k)
<1>1. pay \in [Keys -> Payments] /\ book \in [Bookings -> BookingRows]
  BY DEF IInv, TypeOK
<1>2. \A k \in Keys : /\ pay[k].gw => Exists(k)
                      /\ Exists(k) => pay[k].booking \in Bookings
  BY DEF IInv, Tables, CapturesKnown, PaymentsFounded
<1>3. CASE UNCHANGED <<reserved, book, pay>>
  BY <1>3 DEF TooLate, HasPaid, Waits
<1>4. ASSUME NEW b \in Bookings, NEW nights \in Stays, NEW rooms \in 1..MaxRooms,
             AtHotel(b, nights, rooms)
      PROVE  Good
  <2>1. /\ UNCHANGED pay
        /\ \A c \in Bookings \ {b} : book'[c] = book[c]
        /\ \A k \in Keys : pay[k].booking # b
    BY <1>4, BookedEffect DEF AtHotel
  <2> QED
    BY <1>2, <2>1 DEF TooLate, HasPaid, Waits, Exists
<1>5. ASSUME NEW b \in Bookings, NEW nights \in Stays, NEW rooms \in 1..MaxRooms,
             NEW k \in Keys, Online(k, b, nights, rooms)
      PROVE  Good
  <2>1. /\ Unused(k) /\ \A j \in Keys \ {k} : pay'[j] = pay[j]
        /\ pay'[k] = [st |-> "PENDING", booking |-> b, gw |-> FALSE]
        /\ \A c \in Bookings \ {b} : book'[c] = book[c]
        /\ \A j \in Keys : pay[j].booking # b
    BY <1>1, <1>5, BookedEffect DEF Online
  <2>2. ~Exists(k) /\ ~pay[k].gw
    BY <1>2, <2>1 DEF Unused, Exists
  <2>3. \A j \in Keys : Exists(j) /\ TooLate(j) => TooLate(j)'
    BY <1>2, <2>1, <2>2 DEF TooLate, HasPaid, Exists
  <2> QED
    BY <2>1, <2>2, <2>3 DEF Waits
<1>6. ASSUME NEW b \in Bookings, Cancelled(b) PROVE Good
  <2>1. /\ UNCHANGED pay
        /\ \A c \in Bookings : book'[c].st = book[c].st \/ book'[c].st = "CANCELLED"
    BY <1>1, <1>6 DEF Cancelled, BookingRows
  <2> QED
    BY <1>2, <2>1 DEF TooLate, HasPaid, Waits
<1>7. ASSUME NEW b \in Bookings, NEW k \in Keys, Retried(b, k) PROVE Good
  <2>1. /\ Unused(k) /\ \A j \in Keys \ {k} : pay'[j] = pay[j]
        /\ \A c \in Bookings : book'[c].st = book[c].st
    BY <1>1, <1>7 DEF Retried, BookingRows
  <2>2. ~Exists(k) /\ ~pay[k].gw /\ pay[k].st # "PAID"
    BY <1>2, <2>1 DEF Unused, Exists
  <2>3. \A j \in Keys : Exists(j) /\ TooLate(j) => TooLate(j)'
    BY <1>2, <2>1, <2>2 DEF TooLate, HasPaid
  <2> QED
    BY <2>1, <2>2, <2>3 DEF Waits
<1>8. ASSUME NEW k \in Keys, Opened(k) \/ Failed(k) PROVE Good
  <2>1. /\ \A j \in Keys \ {k} : pay'[j] = pay[j]
        /\ pay'[k].booking = pay[k].booking
        /\ pay[k].st # "PAID" /\ pay'[k].st # "PAID"
        /\ pay[k].gw => pay'[k].gw
        /\ ~Waits(k)'
        /\ UNCHANGED book
    BY <1>1, <1>8 DEF Opened, Failed, Payments, Waits
  <2>2. \A j \in Keys : Exists(j) /\ TooLate(j) => TooLate(j)'
    BY <2>1 DEF TooLate, HasPaid
  <2> QED
    BY <2>1, <2>2 DEF Waits
<1>9. ASSUME NEW k \in Keys, Confirmed(k) PROVE Good
  <2>1. /\ \A j \in Keys \ {k} : pay'[j] = pay[j]
        /\ pay'[k].booking = pay[k].booking /\ pay'[k].gw = pay[k].gw
        /\ pay'[k].st = "PAID"
        /\ \A c \in Bookings \ {pay[k].booking} : book'[c] = book[c]
        /\ book[pay[k].booking].st = "PENDING" /\ ~HasPaid(pay[k].booking)
    BY <1>1, <1>9 DEF Confirmed, Confirm, Payments
  <2>2. ASSUME NEW j \in Keys, Exists(j), TooLate(j) PROVE TooLate(j)'
    <3>1. pay[j].booking # pay[k].booking /\ j # k
      BY <2>1, <2>2 DEF TooLate
    <3>2. HasPaid(pay[j].booking) => HasPaid(pay[j].booking)'
      BY <2>1, <3>1 DEF HasPaid
    <3> QED
      BY <1>2, <2>1, <2>2, <3>1, <3>2 DEF TooLate
  <2> QED
    BY <2>1, <2>2 DEF Waits
<1> QED
  BY <1>3, <1>4, <1>5, <1>6, <1>7, <1>8, <1>9 DEF Effect

\* An event whose payment came too late stays so.
LEMMA OverKept ==
  ASSUME IInv, Effect, NEW e \in Events, Over(e)
  PROVE  Over(e)'
<1>1. e.of \in Keys /\ pay[e.of].gw /\ Exists(e.of) /\ TooLate(e.of)
  BY DEF Over, Known, IInv, Tables, CapturesKnown
<1>2. pay'[e.of].gw /\ TooLate(e.of)'
  BY <1>1, Lasting
<1> QED
  BY <1>1, <1>2 DEF Over, Known

\* The steps that open a payment: it is in the hand of the request that did.
LEMMA OpeningSteps ==
  ASSUME IInv, Effect, NEW h \in Handlers, NEW k \in Keys,
         \/ \E b \in Bookings : Retry(h, b, k)
         \/ \E b \in Bookings, nights \in Stays, rooms \in 1..MaxRooms :
              BookOnline(h, k, b, nights, rooms)
         \/ ResumeCheckout(h, k)
         \/ RequestVerify(h, k)
  PROVE  UNCHANGED lost /\ Abandoned' \subseteq Abandoned /\ Forgotten' \subseteq Forgotten
<1>1. req[h].pc = "idle" /\ UNCHANGED <<hook, lost>>
  BY DEF Retry, BookOnline, ResumeCheckout, RequestVerify, At
<1>2. PICK s \in {"checkout", "complete"} :
        /\ req' = [req EXCEPT ![h] = [Idle EXCEPT !.pc = s, !.key = k]]
        /\ s = "complete" => UNCHANGED pay
  BY DEF Retry, BookOnline, ResumeCheckout, RequestVerify, Goto
<1> DEFINE r == [Idle EXCEPT !.pc = s, !.key = k]
<1>3. r.pc = s /\ r.key = k
  BY DEF Idle
<1>4. \A j \in Keys \ {k} : pay'[j] = pay[j]
  BY DEF Retry, BookOnline, ResumeCheckout, RequestVerify, CreatePendingAttempt, IInv, TypeOK
<1> HIDE DEF r
<1>5. \A j \in Keys : Waits(j)' => \/ r.key = j /\ r.pc \in {"checkout", "gateway", "reject"}
                                   \/ Waits(j) /\ ~Tends(h, j)
  BY <1>1, <1>2, <1>3, <1>4 DEF Waits, Tends
<1>6. \A e \in Events : hook'[e] = "new" /\ ~Over(e)' =>
        hook[e] = "new" /\ ~Over(e) /\ ~Applies(h, e)
  BY <1>1, OverKept DEF Applies
<1>7. req' = [req EXCEPT ![h] = r]
  BY <1>2 DEF r
<1> QED
  BY <1>1, <1>5, <1>6, <1>7, StillInHand

\* createCheckoutForPayment and verify: the request carries a payment to its
\* gateway order or to its failure.
LEMMA CheckoutSteps ==
  ASSUME IInv, Effect, NEW h \in Handlers,
         \/ OpenGatewayOrder(h) \/ AlreadyOpened(h) \/ GatewayAccepts(h)
         \/ GatewayRejects(h) \/ FailAttempt(h) \/ CompleteVerified(h)
  PROVE  Abandoned' \subseteq Abandoned /\ Forgotten' \subseteq Forgotten
<1>1. /\ req \in [Handlers -> Requests] /\ pay \in [Keys -> Payments]
      /\ RequestOK(req[h]) /\ req[h].key \in Keys /\ Exists(req[h].key)
      /\ req[h].pc \notin {"dispatch", "mark"}
      /\ UNCHANGED hook
  BY DEF IInv, TypeOK, RequestOK, OpenGatewayOrder, AlreadyOpened, GatewayAccepts,
     GatewayRejects, FailAttempt, CompleteVerified, At
<1>2. \A e \in Events : hook'[e] = "new" /\ ~Over(e)' =>
        hook[e] = "new" /\ ~Over(e) /\ ~Applies(h, e)
  BY <1>1, OverKept DEF Applies
<1>3. CASE OpenGatewayOrder(h) \/ GatewayRejects(h)
  <2>1. PICK s \in {"gateway", "reject"} : req' = [req EXCEPT ![h].pc = s]
    BY <1>3 DEF OpenGatewayOrder, GatewayRejects, Continue
  <2> DEFINE r == [req[h] EXCEPT !.pc = s]
  <2>2. req' = [req EXCEPT ![h] = r]
    BY <1>1, <2>1
  <2>3. r.pc = s /\ r.key = req[h].key
    BY <1>1 DEF Requests
  <2>4. UNCHANGED pay
    BY <1>3 DEF OpenGatewayOrder, GatewayRejects
  <2> HIDE DEF r
  <2>5. \A j \in Keys : Waits(j)' => \/ r.key = j /\ r.pc \in {"checkout", "gateway", "reject"}
                                     \/ Waits(j) /\ ~Tends(h, j)
    BY <2>3, <2>4 DEF Waits, Tends
  <2> QED
    BY <1>2, <2>2, <2>5, StillInHand
<1>4. CASE AlreadyOpened(h) \/ GatewayAccepts(h) \/ FailAttempt(h)
  <2>1. req' = [req EXCEPT ![h] = Idle]
    BY <1>4 DEF AlreadyOpened, GatewayAccepts, FailAttempt, Finish
  <2>2. PICK k \in Keys : k = req[h].key
    BY <1>1
  <2>3. ~Waits(k)' /\ \A j \in Keys \ {k} : pay'[j] = pay[j]
    <3>1. CASE UNCHANGED pay /\ (pay[k].st # "PENDING" \/ pay[k].gw)
      BY <3>1 DEF Waits
    <3>2. CASE pay' = [pay EXCEPT ![k].gw = TRUE]
      <4>1. pay'[k].gw = TRUE /\ \A j \in Keys \ {k} : pay'[j] = pay[j]
        BY <1>1, <3>2 DEF Payments
      <4> QED
        BY <4>1 DEF Waits
    <3>3. CASE pay' = [pay EXCEPT ![k].st = "FAILED"]
      <4>1. pay'[k].st = "FAILED" /\ \A j \in Keys \ {k} : pay'[j] = pay[j]
        BY <1>1, <3>3 DEF Payments
      <4> QED
        BY <4>1 DEF Waits
    <3> QED
      BY <1>4, <2>2, <3>1, <3>2, <3>3
      DEF AlreadyOpened, GatewayAccepts, FailAttempt, FailPayment
  <2>4. \A j \in Keys : Waits(j)' => Waits(j) /\ ~Tends(h, j)
    BY <2>2, <2>3 DEF Waits, Tends
  <2> QED
    BY <1>2, <2>1, <2>4, StillInHand
<1>5. CASE CompleteVerified(h)
  <2>1. req' = [req EXCEPT ![h] = Idle] /\ req[h].pc = "complete"
    BY <1>5 DEF CompleteVerified, Finish, At
  <2>2. \A j \in Keys : Waits(j)' => Waits(j)
    BY <1>1, <1>5 DEF CompleteVerified, CompletePayment, Confirm, Payments, Waits
  <2>3. \A j \in Keys : Waits(j)' => Waits(j) /\ ~Tends(h, j)
    BY <2>1, <2>2 DEF Tends
  <2> QED
    BY <1>2, <2>1, <2>3, StillInHand
<1> QED
  BY <1>3, <1>4, <1>5

\* handleRazorpayWebhook: the request that stores an event carries it to its
\* mark, or leaves it to what decided its booking first.
LEMMA EventSteps ==
  ASSUME IInv, Effect, NEW h \in Handlers,
         \/ \E e \in Events : ReceiveWebhook(h, e)
         \/ IgnoreWebhook(h) \/ ApplyCapture(h) \/ CaptureConflicts(h)
         \/ ApplyFailure(h) \/ MarkProcessed(h)
  PROVE  Abandoned' \subseteq Abandoned /\ Forgotten' \subseteq Forgotten
<1>1. /\ req \in [Handlers -> Requests] /\ pay \in [Keys -> Payments]
      /\ hook \in [Events -> {"none", "new", "processed", "ignored"}]
  BY DEF IInv, TypeOK
<1>2. \A k \in Keys : ~Tends(h, k)
  BY DEF ReceiveWebhook, IgnoreWebhook, ApplyCapture, CaptureConflicts, ApplyFailure,
     MarkProcessed, At, Tends
<1>3. \A k \in Keys : Waits(k)' => Waits(k) /\ ~Tends(h, k)
  <2>1. \/ UNCHANGED pay
        \/ \E k \in Keys : CompletePayment(k) \/ FailPayment(k)
    BY DEF ReceiveWebhook, IgnoreWebhook, ApplyCapture, CaptureConflicts, ApplyFailure,
       MarkProcessed, Known
  <2>2. ASSUME NEW k \in Keys, CompletePayment(k) \/ FailPayment(k)
        PROVE  \A j \in Keys : Waits(j)' => Waits(j)
    BY <1>1, <2>2 DEF CompletePayment, Confirm, FailPayment, Payments, Waits
  <2>3. CASE UNCHANGED pay
    BY <1>2, <2>3 DEF Waits
  <2> QED
    BY <1>2, <2>1, <2>2, <2>3
<1>4. ASSUME NEW d \in Events, ReceiveWebhook(h, d)
      PROVE  Abandoned' \subseteq Abandoned /\ Forgotten' \subseteq Forgotten
  <2> DEFINE r == [Idle EXCEPT !.pc = "dispatch", !.ev = d]
  <2>1. req' = [req EXCEPT ![h] = r]
    BY <1>4 DEF ReceiveWebhook
  <2>2. r.pc = "dispatch" /\ r.ev = d
    BY DEF Idle
  <2> HIDE DEF r
  <2>3. req[h].pc = "idle" /\ hook' = [hook EXCEPT ![d] = "new"]
    BY <1>4 DEF ReceiveWebhook, CreateWebhookEvent, At
  <2>4. /\ \A e \in Events \ {d} : hook'[e] = hook[e]
        /\ \A e \in Events : ~Applies(h, e)
    BY <1>1, <2>3 DEF Applies
  <2>5. \A e \in Events : hook'[e] = "new" /\ ~Over(e)' =>
          \/ r.ev = e /\ r.pc \in {"dispatch", "mark"}
          \/ hook[e] = "new" /\ ~Over(e) /\ ~Applies(h, e)
    BY <2>2, <2>4, OverKept
  <2> QED
    BY <1>3, <2>1, <2>5, StillInHand
<1>5. ASSUME \/ IgnoreWebhook(h) \/ ApplyCapture(h) \/ CaptureConflicts(h)
             \/ ApplyFailure(h) \/ MarkProcessed(h)
      PROVE  req[h].ev \in Events /\ \A e \in Events \ {req[h].ev} : ~Applies(h, e)
  BY <1>5 DEF IInv, RequestOK, TrueEvent, Applies, IgnoreWebhook, ApplyCapture, CaptureConflicts,
     ApplyFailure, MarkProcessed, At
<1>6. CASE ApplyCapture(h) \/ ApplyFailure(h)
  <2>1. UNCHANGED hook /\ req' = [req EXCEPT ![h].pc = "mark"]
    BY <1>6 DEF ApplyCapture, ApplyFailure, Continue
  <2> DEFINE r == [req[h] EXCEPT !.pc = "mark"]
  <2>2. req' = [req EXCEPT ![h] = r] /\ r.pc = "mark" /\ r.ev = req[h].ev
    BY <1>1, <2>1 DEF Requests
  <2> HIDE DEF r
  <2>3. \A e \in Events : hook'[e] = "new" /\ ~Over(e)' =>
          \/ r.ev = e /\ r.pc \in {"dispatch", "mark"}
          \/ hook[e] = "new" /\ ~Over(e) /\ ~Applies(h, e)
    BY <1>5, <1>6, <2>1, <2>2, OverKept
  <2> QED
    BY <1>3, <2>2, <2>3, StillInHand
<1>7. CASE IgnoreWebhook(h) \/ MarkProcessed(h) \/ CaptureConflicts(h)
  <2>0. PICK d \in Events : d = req[h].ev
    BY <1>5, <1>7
  <2>1. req' = [req EXCEPT ![h] = Idle]
    BY <1>7 DEF IgnoreWebhook, MarkProcessed, CaptureConflicts, Finish
  <2>2. \A e \in Events \ {d} : hook'[e] = hook[e]
    BY <1>1, <1>7, <2>0 DEF IgnoreWebhook, MarkProcessed, CaptureConflicts
  <2>3. hook'[d] = "new" => Over(d)'
    <3>1. CASE IgnoreWebhook(h) \/ MarkProcessed(h)
      BY <1>1, <2>0, <3>1 DEF IgnoreWebhook, MarkProcessed
    <3>2. CASE CaptureConflicts(h)
      <4>1. Over(d)
        BY <2>0, <3>2 DEF CaptureConflicts, CannotComplete, Over
      <4> QED
        BY <4>1, OverKept
    <3> QED
      BY <1>7, <3>1, <3>2
  <2>4. \A e \in Events : hook'[e] = "new" /\ ~Over(e)' =>
          hook[e] = "new" /\ ~Over(e) /\ ~Applies(h, e)
    BY <1>5, <1>7, <2>0, <2>2, <2>3, OverKept
  <2> QED
    BY <1>3, <2>1, <2>4, StillInHand
<1> QED
  BY <1>4, <1>6, <1>7

\* Steps that move no handler.
LEMMA NoHands ==
  ASSUME IInv, UNCHANGED <<req, hook>>, Effect, \A k \in Keys : Waits(k)' => Waits(k)
  PROVE  Abandoned' \subseteq Abandoned /\ Forgotten' \subseteq Forgotten
<1>1. \A e \in Events : hook'[e] = "new" /\ ~Over(e)' => hook[e] = "new" /\ ~Over(e)
  BY OverKept
<1>2. \A g \in Handlers : /\ \A k \in Keys : Tends(g, k)' <=> Tends(g, k)
                          /\ \A e \in Events : Applies(g, e)' <=> Applies(g, e)
  BY DEF Tends, Applies
<1>3. Abandoned' \subseteq Abandoned
  BY <1>2 DEF Abandoned, Waits
<1>4. Forgotten' \subseteq Forgotten
  BY <1>1, <1>2 DEF Forgotten, Over
<1> QED
  BY <1>3, <1>4

\* Every step but a loss leaves nothing behind.
LEMMA NothingDropped ==
  ASSUME IInv, [Next]_vars, ~ \E h \in Handlers : LoseRequest(h)
  PROVE  UNCHANGED lost /\ Abandoned' \subseteq Abandoned /\ Forgotten' \subseteq Forgotten
<1>1. Effect
  BY NextEffect
<1>2. ASSUME NEW h \in Handlers, Step(h)
      PROVE  UNCHANGED lost /\ Abandoned' \subseteq Abandoned /\ Forgotten' \subseteq Forgotten
  <2>1. UNCHANGED lost
    BY <1>2, StepEffect
  <2> QED
    BY <1>1, <1>2, <2>1, CheckoutSteps, EventSteps DEF Step
<1>3. ASSUME NEW h \in Handlers, NEW e \in Events, ReceiveWebhook(h, e)
      PROVE  UNCHANGED lost /\ Abandoned' \subseteq Abandoned /\ Forgotten' \subseteq Forgotten
  <2>1. UNCHANGED lost
    BY <1>3 DEF ReceiveWebhook
  <2> QED
    BY <1>1, <1>3, <2>1, EventSteps
<1>4. CASE \/ \E b \in Bookings : CancelBooking(b)
           \/ \E b \in Bookings, nights \in Stays, rooms \in 1..MaxRooms :
                BookAtHotel(b, nights, rooms)
           \/ \E k \in Keys : Capture(k) \/ Decline(k)
           \/ \E e \in Events : ForeignEvent(e)
           \/ UNCHANGED vars
  <2>1. UNCHANGED <<pay, req, hook, lost>>
    BY <1>4 DEF CancelBooking, BookAtHotel, Capture, Decline, ForeignEvent, vars
  <2>2. \A k \in Keys : Waits(k)' => Waits(k)
    BY <2>1 DEF Waits
  <2> QED
    BY <1>1, <2>1, <2>2, NoHands
<1>5. ASSUME NEW b \in Bookings, RecordFailure(b)
      PROVE  UNCHANGED lost /\ Abandoned' \subseteq Abandoned /\ Forgotten' \subseteq Forgotten
  <2>1. UNCHANGED <<req, hook, lost>> /\ FailPayment(book[b].latest)
    BY <1>5 DEF RecordFailure
  <2>2. \A k \in Keys : Waits(k)' => Waits(k)
    BY <2>1 DEF FailPayment, IInv, TypeOK, Payments, Waits
  <2> QED
    BY <1>1, <2>1, <2>2, NoHands
<1> QED
  BY <1>1, <1>2, <1>3, <1>4, <1>5, OpeningSteps DEF Next, BookingRequest, PaymentRequest

\* A lost request drops the payment or the event it had in hand.
LEMMA OneDropped ==
  ASSUME IInv, NEW h \in Handlers, LoseRequest(h)
  PROVE  \/ Abandoned' \subseteq Abandoned \union {req[h].key} /\ Forgotten' \subseteq Forgotten
         \/ Abandoned' \subseteq Abandoned /\ Forgotten' \subseteq Forgotten \union {req[h].ev}
<1>1. /\ req \in [Handlers -> Requests]
      /\ \A g \in Handlers \ {h} : req'[g] = req[g]
      /\ pay' = pay /\ hook' = hook /\ book' = book
  BY DEF IInv, TypeOK, LoseRequest, Finish
<1>2. \A e \in Events : Over(e)' <=> Over(e)
  BY <1>1 DEF Over, Known, TooLate, HasPaid
<1>3. ASSUME NEW k \in Keys, k \in Abandoned', ~Tends(h, k) PROVE k \in Abandoned
  BY <1>1, <1>3 DEF Abandoned, Tends
<1>4. ASSUME NEW e \in Events, e \in Forgotten', ~Applies(h, e) PROVE e \in Forgotten
  BY <1>1, <1>2, <1>4 DEF Forgotten, Applies, Over
<1>5. Abandoned' \subseteq Keys /\ Forgotten' \subseteq Events
  BY DEF Abandoned, Forgotten
<1>6. CASE req[h].pc \in {"checkout", "gateway", "reject"}
  <2>1. \A e \in Events : ~Applies(h, e)
    BY <1>6 DEF Applies
  <2>2. \A k \in Keys : Tends(h, k) => k = req[h].key
    BY DEF Tends
  <2> QED
    BY <1>3, <1>4, <1>5, <2>1, <2>2
<1>7. CASE req[h].pc \notin {"checkout", "gateway", "reject"}
  <2>1. \A k \in Keys : ~Tends(h, k)
    BY <1>7 DEF Tends
  <2>2. \A e \in Events : Applies(h, e) => e = req[h].ev
    BY DEF Applies
  <2> QED
    BY <1>3, <1>4, <1>5, <2>1, <2>2
<1> QED
  BY <1>6, <1>7

\* The counts are of finite sets, however many keys and events there are.
LeftBehind ==
  /\ IsFiniteSet(Abandoned)
  /\ IsFiniteSet(Forgotten)
  /\ AbandonedByLossOnly

LEMMA LeftBehindKept ==
  ASSUME IInv, LeftBehind, [Next]_vars
  PROVE  LeftBehind'
<1>1. lost \in Nat
  BY BoundsAssumption DEF IInv, TypeOK
<1>2. PICK A : A = Abandoned'
  OBVIOUS
<1>3. PICK F : F = Forgotten'
  OBVIOUS
<1>4. CASE ~ \E h \in Handlers : LoseRequest(h)
  <2>1. UNCHANGED lost /\ A \subseteq Abandoned /\ F \subseteq Forgotten
    BY <1>2, <1>3, <1>4, NothingDropped
  <2>2. /\ IsFiniteSet(A) /\ Cardinality(A) \in Nat /\ Cardinality(Abandoned) \in Nat
        /\ Cardinality(A) <= Cardinality(Abandoned)
    BY <2>1, NoMore DEF LeftBehind
  <2>3. /\ IsFiniteSet(F) /\ Cardinality(F) \in Nat /\ Cardinality(Forgotten) \in Nat
        /\ Cardinality(F) <= Cardinality(Forgotten)
    BY <2>1, NoMore DEF LeftBehind
  <2>4. Cardinality(A) + Cardinality(F) <= lost'
    BY <1>1, <2>1, <2>2, <2>3 DEF LeftBehind, AbandonedByLossOnly
  <2> QED
    BY <1>2, <1>3, <2>2, <2>3, <2>4 DEF LeftBehind, AbandonedByLossOnly
<1>5. ASSUME NEW h \in Handlers, LoseRequest(h) PROVE LeftBehind'
  <2>1. lost' = lost + 1
    BY <1>5 DEF LoseRequest
  <2>2. \/ A \subseteq Abandoned \union {req[h].key} /\ F \subseteq Forgotten
        \/ A \subseteq Abandoned /\ F \subseteq Forgotten \union {req[h].ev}
    BY <1>2, <1>3, <1>5, OneDropped
  <2>3. /\ IsFiniteSet(A) /\ IsFiniteSet(F)
        /\ Cardinality(A) \in Nat /\ Cardinality(Abandoned) \in Nat
        /\ Cardinality(F) \in Nat /\ Cardinality(Forgotten) \in Nat
        /\ Cardinality(A) + Cardinality(F) <= Cardinality(Abandoned) + Cardinality(Forgotten) + 1
    <3>1. CASE A \subseteq Abandoned \union {req[h].key} /\ F \subseteq Forgotten
      <4>1. /\ IsFiniteSet(A) /\ Cardinality(A) \in Nat /\ Cardinality(Abandoned) \in Nat
            /\ Cardinality(A) <= Cardinality(Abandoned) + 1
        BY <3>1, OneMore DEF LeftBehind
      <4>2. /\ IsFiniteSet(F) /\ Cardinality(F) \in Nat /\ Cardinality(Forgotten) \in Nat
            /\ Cardinality(F) <= Cardinality(Forgotten)
        BY <3>1, NoMore DEF LeftBehind
      <4> QED
        BY <4>1, <4>2
    <3>2. CASE A \subseteq Abandoned /\ F \subseteq Forgotten \union {req[h].ev}
      <4>1. /\ IsFiniteSet(A) /\ Cardinality(A) \in Nat /\ Cardinality(Abandoned) \in Nat
            /\ Cardinality(A) <= Cardinality(Abandoned)
        BY <3>2, NoMore DEF LeftBehind
      <4>2. /\ IsFiniteSet(F) /\ Cardinality(F) \in Nat /\ Cardinality(Forgotten) \in Nat
            /\ Cardinality(F) <= Cardinality(Forgotten) + 1
        BY <3>2, OneMore DEF LeftBehind
      <4> QED
        BY <4>1, <4>2
    <3> QED
      BY <2>2, <3>1, <3>2
  <2>4. Cardinality(A) + Cardinality(F) <= lost'
    BY <1>1, <2>1, <2>3 DEF LeftBehind, AbandonedByLossOnly
  <2> QED
    BY <1>2, <1>3, <2>3, <2>4 DEF LeftBehind, AbandonedByLossOnly
<1> QED
  BY <1>4, <1>5

LEMMA LeftBehindStarts == Init => LeftBehind
<1> SUFFICES ASSUME Init PROVE LeftBehind
  OBVIOUS
<1>1. Abandoned = {} /\ Forgotten = {} /\ lost = 0
  BY DEF Init, Abandoned, Forgotten, NoPayment
<1> QED
  BY <1>1, FS_EmptySet DEF LeftBehind, AbandonedByLossOnly

\* Payments that no request tends and stored events that no request applies are
\* at most as many as the requests that were lost (createCheckoutForPayment,
\* handleRazorpayWebhook).
THEOREM OnlyLossAbandons == Spec => []AbandonedByLossOnly
<1>1. LeftBehind => AbandonedByLossOnly
  BY DEF LeftBehind
<1> QED
  BY <1>1, LeftBehindStarts, LeftBehindKept, Invariance, PTL DEF Spec

-----------------------------------------------------------------------------

(***************************************************************************)
(* Refinement: the bookings implement the room stock.                     *)
(***************************************************************************)
HoldOf(b) == [st |-> HoldState(book[b].st), nights |-> book[b].nights, rooms |-> book[b].rooms]
holds == [b \in Bookings |-> HoldOf(b)]

\* Initially nobody holds anything.
LEMMA InitRefines == Init => Stock!Init
BY DEF Init, Stock!Init, Stock!NoHold, Stock!Nights, Nights, NoRow, HoldState

\* A new booking holds its rooms.
LEMMA BookedRefines ==
  ASSUME IInv, NEW b \in Bookings, NEW nights \in Stays, NEW rooms \in 1..MaxRooms,
         NEW row \in BookingRows, row.st \in {"PENDING", "CONFIRMED"},
         Booked(b, nights, rooms, row)
  PROVE  Stock!Hold(b, nights, rooms)
<1>1. /\ book \in [Bookings -> BookingRows] /\ book[b] = NoRow
      /\ book' = [book EXCEPT ![b] = row] /\ row.nights = nights /\ row.rooms = rooms
  BY DEF IInv, TypeOK, Tables, BookingsFounded, Booked
<1>2. holds[b] = Stock!NoHold
  BY <1>1 DEF holds, HoldOf, HoldState, NoRow, Stock!NoHold
<1>3. holds' = [holds EXCEPT ![b] = [st |-> "held", nights |-> nights, rooms |-> rooms]]
  BY <1>1 DEF holds, HoldOf, HoldState
<1>4. /\ Stock!Free(nights, rooms)
      /\ reserved' = [n \in Nights |-> IF n \in nights THEN reserved[n] + rooms ELSE reserved[n]]
  BY DEF Booked, Available, Reserve, Stock!Free
<1> QED
  BY <1>2, <1>3, <1>4 DEF Stock!Hold, Stock!Nights, Nights, holds, HoldOf

\* A cancelled booking releases its rooms.
LEMMA CancelledRefines ==
  ASSUME IInv, NEW b \in Bookings, Cancelled(b)
  PROVE  Stock!Release(b)
<1>1. /\ book \in [Bookings -> BookingRows] /\ book[b].st \in {"PENDING", "CONFIRMED"}
      /\ book' = [book EXCEPT ![b] = [book[b] EXCEPT !.st = "CANCELLED"]]
  BY DEF IInv, TypeOK, Cancelled, Active
<1>2. holds[b].st = "held"
  BY <1>1 DEF holds, HoldOf, HoldState
<1>3. holds' = [holds EXCEPT ![b].st = "released"]
  BY <1>1 DEF holds, HoldOf, HoldState, BookingRows
<1>4. reserved' = [n \in Nights |-> IF n \in holds[b].nights
                                    THEN reserved[n] - holds[b].rooms ELSE reserved[n]]
  BY DEF Cancelled, Release, holds, HoldOf
<1> QED
  BY <1>2, <1>3, <1>4 DEF Stock!Release, Stock!Nights, Nights, holds, HoldOf

\* Nothing else touches the stock.
LEMMA OtherRefines ==
  ASSUME IInv, NEW k \in Keys, \/ Opened(k) \/ Confirmed(k) \/ Failed(k)
                               \/ \E b \in Bookings : Retried(b, k)
  PROVE  UNCHANGED <<reserved, holds>>
<1>1. book \in [Bookings -> BookingRows]
  BY DEF IInv, TypeOK
<1>2. CASE Opened(k) \/ Failed(k)
  BY <1>2 DEF Opened, Failed, holds, HoldOf
<1>3. CASE \E b \in Bookings : Retried(b, k)
  BY <1>1, <1>3 DEF Retried, holds, HoldOf, BookingRows
<1>4. CASE Confirmed(k)
  <2>1. book[pay[k].booking].st = "PENDING"
        /\ book' = [book EXCEPT ![pay[k].booking] =
                      [book[pay[k].booking] EXCEPT !.st = "CONFIRMED", !.paid = "PAID"]]
    BY <1>4 DEF Confirmed, Confirm
  <2> QED
    BY <1>1, <1>4, <2>1 DEF Confirmed, holds, HoldOf, HoldState, BookingRows
<1> QED
  BY <1>2, <1>3, <1>4

\* Every step is a step of the room stock or leaves it alone.
LEMMA StepRefines ==
  ASSUME IInv, [Next]_vars
  PROVE  [Stock!Next]_Stock!rvars
<1>1. Effect
  BY NextEffect
<1>2. ASSUME NEW b \in Bookings, NEW nights \in Stays, NEW rooms \in 1..MaxRooms,
             AtHotel(b, nights, rooms) \/ \E k \in Keys : Online(k, b, nights, rooms)
      PROVE  Stock!Next
  <2>1. Stock!Hold(b, nights, rooms)
    BY <1>2, BookedRefines DEF AtHotel, Online
  <2> QED
    BY <2>1 DEF Stock!Next, Stock!Stays, Stock!Nights, Stays, Nights
<1>3. ASSUME NEW b \in Bookings, Cancelled(b)
      PROVE  Stock!Next
  BY <1>3, CancelledRefines DEF Stock!Next
<1>4. CASE UNCHANGED <<reserved, book, pay>>
  BY <1>4 DEF Stock!rvars
<1>5. ASSUME NEW k \in Keys, \/ Opened(k) \/ Confirmed(k) \/ Failed(k)
                             \/ \E b \in Bookings : Retried(b, k)
      PROVE  UNCHANGED Stock!rvars
  BY <1>5, OtherRefines DEF Stock!rvars, holds, HoldOf
<1> QED
  BY <1>1, <1>2, <1>3, <1>4, <1>5 DEF Effect

\* The bookings, with all their payments, webhooks and retries, take and give
\* back rooms exactly as RoomStock allows.
THEOREM ImplementsStock == Spec => StockSpec
<1>1. Init => Stock!Init
  BY InitRefines
<1>2. IInv /\ [Next]_vars => [Stock!Next]_Stock!rvars
  BY StepRefines
<1> QED
  BY <1>1, <1>2, Invariance, PTL DEF Spec, StockSpec, Stock!Spec

=============================================================================
