# Food-ordering back end: specifications, model checking and proofs

The repository is a NestJS back end (TypeScript, TypeORM, PostgreSQL, Razorpay,
Firebase): delivery orders paid online or in cash, dine-in at a restaurant
table, and hotel rooms booked and paid online. One process serves many requests
at once; every request is a chain of statements, transactions and calls to the
payment gateway, and between two of them any other request may run. Nearly all
of the difficulty lies there, and so do these specifications.

All paths below are relative to `src/src/`.

## 1. The system

| Component | State | Operations | Hard behaviour | What makes it correct |
|---|---|---|---|---|
| Delivery payments (`payments/`) | `payments`, `orders`, `payment_webhook_events` | checkout online, cash on delivery, retry, verify, failure report, webhook | gateway called between transactions; repeated, overlapping, reordered webhooks; double taps; a crash between storing and applying an event | an order is settled once, on captured money; captured money settles; an attempt resolves; an answered event is decided |
| Payment gateway (external; clients in `payments/`, `dine-in/`) | gateway orders, captures, pending webhooks | create order, fetch payment, deliver events | one account for all three services; delivers at least once, in any order | modelled from its use |
| Cart (`cart/`), checkout preview (`checkout/`) | `carts`, `cart_items` | add, change, remove, clear, show and refresh | the cart's row is locked, its items are not; entities read earlier are saved over newer rows | additions do not mix restaurants; a cart sold for cash or cleared is not sold as it was |
| Room inventory, hotels, rooms (`room-booking/availability`, `hotels`, `rooms`) | `room_inventory`: total, blocked, reserved per night | search, list, quote, lock, reserve, restore | overlapping stays; three different computations of "free" | no night oversold; what is offered can be booked; counters equal the standing bookings |
| Room bookings (`room-booking/bookings`) | `hotel_bookings` | book, cancel | cancel racing payment | a cancelled booking stays cancelled; rooms are given back once |
| Room payments (`room-booking/payments`) | `hotel_booking_payments`, its webhook events | checkout, retry, verify, failure report, webhook | gateway called inside a transaction; late captures | paid once, on captured money; one attempt at a time |
| Reviews, favourites (`room-booking/`) | reviews, hotel rating, favourites | create, change, remove | cached average recomputed from a snapshot | not modelled |
| Dine-in sessions and tables (`dine-in/dine-in.service.ts`) | tables, sessions, members | start, join, leave; create, update, regenerate QR | checks before locks; managers save without locks | one open session per table and per customer; a replaced QR code opens nothing |
| Dine-in orders (`dine-in-orders.service.ts`) | orders, kitchen tickets | place, cancel, approve, reject, cook, serve | customer and manager race | tickets only for approved orders |
| Dine-in invoices and payments (`dine-in-invoices.service.ts`, `dine-in-payments.service.ts`) | invoices, payments, session status | request, confirm, cancel a bill; pay online or in cash | snapshots compared as text; webhooks; a cancelled attempt that is captured | a bill is settled once and ends its session; it matches the orders and the total shown |
| Restaurants, menu categories, foods (`restaurants/`, `menu-categories/`, `foods/`) | one row each | create, update, open, switch off, moderate, reorder | read, check and save without a transaction | a row that is shut is not opened again by a request that begins later |
| Discovery, menus, lists (`discovery/`, `foods/`, `restaurants/`) | none | home, searches, suggestions, menu | many queries with one rule; a menu made of two queries | nothing unvetted is shown; a menu loses no food |
| Addresses, users (`addresses/`, `users/`) | addresses, profiles, photos | create, change, default, remove | no common lock | not modelled |
| Auth, health, configuration, manager dashboard, opening hours | none | reads | none | not modelled |

Interaction: checkout locks the cart, creates an order and a payment; a settled
payment empties the cart. The catalogue decides what the cart takes. A room
booking locks inventory rows, creates a booking and a payment; cancelling gives
the rows back. The dine-in bill moves the status of a session that guests join
and leave. All three services get the webhooks of the others and must ignore
them.

## 2. Modules

| Module | What it is |
|---|---|
| `OrderSettlement` | abstract: attempts are opened for an order, captured, and one captured attempt settles it |
| `DeliveryPayments` | `payments/payments.service.ts`, its repository and webhook, with what checkout sees of the cart |
| `Basket` | one customer's cart with the locks it takes and the saves it makes without one, and the checkouts that sell it |
| `RoomStock` | abstract: rooms of all nights of a stay are held if all are free, and given back once |
| `RoomBooking` | bookings, inventory and payments of one room, and the readers of the inventory |
| `TableVisit` | abstract: a table orders and is served; the bill lists what was served, nothing is added to it, and it is settled once |
| `DineInOrders` | the orders of one session and their kitchen tickets |
| `DineInBilling` | its bill and payments, on top of `DineInOrders`; implements `TableVisit` |
| `TableSeating` | abstract: a party sits down at a table when the last one is through, a guest joins one party at a time, each in one step |
| `SessionStatus` | the status a session has and the moves billing makes with it, shared by the next one and `DineInBilling` |
| `DineInSessions` | tables, sessions and memberships, QR codes; implements `TableSeating` |
| `EntityRows` | how TypeORM saves an entity that was read earlier: the row is read again and the differing columns written |
| `Catalogue` | restaurants, menu categories and foods, and every public query over them |
| `MC...` | constants and symmetry for TLC |
| `..._proofs` | the theorems of a module |
| `Promises` | what the four abstract specifications promise, proved of them |
| `CountingLemmas` | two facts about the sizes of finite sets that the proofs share |

### How the state and the actions correspond to the code

*Rows and names.* A payment is named by its idempotency key (unique for a
customer in the database), a delivery order by the payment it was created with.
`gw` says that the row holds a gateway order id. Amounts, addresses and texts
are left out: no property depends on them, and where the code compares amounts
the model lets the comparison fail (`GatewayRejects`).

*Handlers.* `req[h]` is the local state of a request being served: where it is
and what it remembers. An action is one transaction, one read outside a
transaction, or one gateway call. Rows locked by a transaction (`FOR UPDATE`)
stay locked to its end, so a transaction that locks first and then reads is one
atomic step. Some are not, and then the locks are explicit: `retry` of a
delivery payment checks its order, then commits (`LockForRetry`,
`CommitRetry`); the room checkout calls the gateway inside its transaction
(`OpenGatewayOrder`, `GatewayAccepts`); a checkout reads the cart's items when
it begins to wait for the cart's row and the row when it gets it (`ReadItems`,
then `CreateAttempt` or `PlaceCodOrder`); `DineInSessions` locks the guest, then
the table, and reads the rest without locks; `Basket` locks the cart's row but
not its items. A step that needs a held row waits; a step that takes no lock
runs.

*Billing* (`DineInBilling`). Every transaction locks the payment, the invoice
and the session (those it changes) before it decides, so each is one step; what
is not one step is the chain around a gateway call: `initiate`
(`InitiateOnline`, `GatewayAccepts`, `SaveGatewayOrder`), `verify` and `cancel`
(`RequestCancel`, `QueryGateway`, `CancelPayment`), and `confirmCash`, which
reads before it locks. Two sessions share no row of this part, so there is one.

*Snapshots.* The confirmation of a bill compares the stored snapshot with a new
one as JSON text. The constant `KeepsKeyOrder` says whether the column gives
the keys of an object back in the order they were written: `json` does, the
deployed `jsonb` does not. With FALSE, confirming never succeeds (finding 2),
and all that lies behind it is unreachable; so the other dine-in run takes
TRUE, which is what the operation says it does, and the theorems hold for both.

*Saves without a transaction* (`Catalogue`, the tables of `DineInSessions`, the
items of `Basket`). A manager's request reads a row, checks and changes the
entity, and saves it: `save` reads the row again and writes the columns that
differ (`Changed`, `Written`), so a save undoes what others wrote in between.
`Compare` and `Save` are two steps.

*Public queries* (`Catalogue`). A query is the set of rows it selects from;
filters, text, order and page leave any part of it. A menu is made of two
queries (`ReadCategories`, `ReadFoods`), taken in either order with anything
between them. Every other answer relates no query to another.

*Requests that change nothing* (a reused idempotency key, a redelivered event,
a refused request) are not actions.

*Gateway* (external). It accepts or rejects an order; captures money on any
stored order, those of failed attempts included; declines tries before that;
and sends one event per kind, delivered any number of times in any order until
and after a handler takes it. `Foreign` stands for the events of the other two
services on the same account.

*Faults.* `LoseRequest` (payments, bounded by `MaxLost`), `RollBack`
(`DineInSessions`, `Basket`) and `Fail` (`Catalogue`) end a handler between two
steps, or in a transaction that rolls back: the process stops, the connection
breaks, a check refuses, the database breaks a deadlock.

*History variables* (`resold`, `spent`, `stale`, `vetted`, `withdrawn`,
`lasting`, `retired`, and of a delivery order the `basket` it sold and the
`filling` of the cart it was sold from) record what happened for the
properties; no guard reads them.

### Left out, and why

- `CHECK` constraints, the unique index of successful payments
  (`migrations/1721520000000-add-delivery-payment-audit.ts:61`) and that of the
  open session of a table are a second line of defence behind the services' own
  checks. Leaving them out tests the checks. The unique index of the
  idempotency key is modelled.
- An event without an id header is not deduplicated by the delivery service;
  the gateway always sends one. A wrong amount, a kind that is not handled, and
  a missing payment entity end like an unknown gateway order: ignored.
- Check-in dates and the cancellation policy: a standing booking may be
  cancelled at any time, more than the code allows.
- Cash orders: `recordFailure` does not look at the method, so a cash payment
  may be failed and its order retried online. The model keeps that.
- One room type and one customer: the rows of different ones share nothing.
- Billing: who sits at the table (any guest may order and pay), round numbers,
  items, prices and food availability. An amount of the bill is a function of
  its orders. DRAFT, the session states PAID and CANCELLED, the payment states
  CREATED, AUTHORIZED and PAID are never written by this service
  (`markPaid` and its like in `dine-in-sessions.repository.ts` have no caller).
  `order.paid` is handled like `payment.captured`; the look-up of an event's
  id is redundant, because a payment that has one is successful.
- A repeated PAY_AT_HOTEL request books again (the key is honoured online only).
- Cart: prices, fees, coupons and instructions. Catalogue: names, prices, hours,
  images and the pure-veg flag; a category's updates are one step each, because
  it has one column that matters.

## 3. Runs

| Run | Instance | Question |
|---|---|---|
| `delivery_safety` | 2 keys, 2 handlers, 2 fillings of the cart, 2 event kinds, 1 lost request | do two interleaved requests, with webhooks and a crash, keep the tables consistent, leave nothing undecided but what a lost request had in hand, does one filling make one cash order, and is `OrderSettlement` implemented? (2.19M states) |
| `delivery_liveness` | 2 keys, 2 handlers, captures, foreign events | does captured money settle, does every attempt resolve, is every stored event decided? |
| `room_payments` | 2 bookings, 2 keys, 2 handlers, 1 lost request | do payments, retries, webhooks and cancellation keep bookings consistent, and is nothing left undecided but by a loss or a capture that came too late? (174k states) |
| `room_stock` | 3 bookings of up to 2 rooms, every stay in 3 nights of capacities 2, 3, 1 | is no night oversold, do search, list and quote offer what can be booked, are the counters exact, is `RoomStock` implemented? (54k states) |
| `room_liveness` | 1 booking, 2 keys, 2 handlers, foreign events | does a checkout end, does captured money confirm? |
| `dinein_bill` | 2 orders, 2 keys, 2 handlers, 1 lost request | with kitchen, guests, managers and webhooks interleaved, is the bill what was served and shown, is it paid once and on captured money, does every payment come to an end and every capture settle, is `TableVisit` implemented? (99k states) |
| `dinein_tables` | 2 guests, tables, sessions and handlers, 1 manager, 2 QR tokens | however guests start, join and leave while a manager edits tables, is a table or a guest never taken twice, does only a valid code let anybody in, is `TableSeating` implemented? (1.24M states) |
| `basket` | 2 foods of one restaurant and 1 of another, 2 rows, 2 handlers, quantities to 2, 1 unpaid order | do quantities keep their range under unlocked saves, do additions never mix restaurants, is a cart that was sold for cash or cleared not sold as it was? (2.27M states) |
| `catalogue` | 2 restaurants, 2 categories, 1 food, 2 handlers, 3 edits | is a row that was shut opened by no later request, is only what was vetted shown, does a menu keep every food that was on it all the while it was read? (412k states) |
| `delivery_order_paid` | violation | a failure of an older attempt un-pays a paid order |
| `dinein_frozen_bill` | violation | an unchanged bill cannot be confirmed |
| `dinein_old_qr` | violation | a replaced QR code opens the table again |

Several properties are conjunctions that belong to one question. `MoneySound`:
an order or booking is settled once, a successful payment captured money, and
nothing shows as paid without one. `AttemptsSound`: payments move forward, none
is opened on a paid order. `NothingTooLate`: nothing that is over changes.
`PaidSound`, `BillAsShown`: the same for the bill, and the bill is what was
served and shown. `AttemptsInHand`: one payment of a bill is in progress at
most, and one that is PROCESSING is in the hands of its request unless that was
lost. `PaymentsConclude`: `CapturedSettles` and `AttemptsResolve` of the bill.
`SeatsExclusive`: a table has one open session, a guest sits in one, is in it
once, and it has one host. `SoldAsOffered`: search, list, quote and booking
agree, and no night is oversold.

Four properties are bounded by what the code really keeps. `CodOncePerFilling`
does not say that a basket is ordered on delivery once: a request that waited
sells the items it read before, though they were sold meanwhile, if the cart
was filled again; what holds is that each filling lets one such order through.
`MixedByStaleRequestsOnly` does not say that a cart is of one restaurant: it
says which requests may make it otherwise, and that additions do not.
`WithdrawnStaysShut` speaks of rows that were shut when no other request had
them in hand: one that had may open them again. And `MenuIsComplete` speaks of
foods that were on the menu under one category ever since it was asked for: one
whose category is switched on, or that is moved to one, between the two queries
can be lost.

`AbandonedByLossOnly` says what the code does *not* repair. Payments in PROCESSING and
stored events without a mark are counted as soon as no request works on them,
and their number never exceeds that of the lost requests. An
event whose money came too late, for an order that is paid or a booking that
is over, is not counted: the code throws and never marks it. With no losses
nothing is ever left behind.

**Bounds.** Two keys give a first attempt and a retry of one order, or two
orders; two handlers give every race of two requests, and since actions are
short, a third request runs between them by reusing a handler. Two fillings of
the cart let a request that waited meet a cart that was emptied, and one that was
emptied and filled again. One lost request lets a crash hit any point of any handler.
Three nights give stays that are equal, nested, overlapping and disjoint, and
unequal capacities make the first night an unreliable witness of the others.
Two orders let one be served while the other is still open, rejected, or
ordered after a bill was taken back. Two sessions and tables let a guest be
elsewhere, and a table be taken again after its session was closed; two tokens
let one be replaced. Two cart rows and three foods of two restaurants give a
cart of two rows, its every conflict and every mixture, and quantities to 2 the bound and its neighbour. Three edits let a
stale save follow another, with a decision before both. The bounds do not limit
the proofs. Names are interchangeable wherever a run has `SYMMETRY` (the
catalogue's only in its handlers, since its restaurants differ, the cart's in
the two foods of one restaurant); the liveness
runs do without.

In the room, dine-in and basket runs deadlock is not checked: once every name
is used and every booking cancelled, or the session is over, or the
cart's names are taken, nothing is left to happen.

**Fairness.** `WF(Step(h))`: a handler that has started goes on, because the
event loop and the database serve it; a step waiting for a row lock is enabled
once the holder, itself a handler, moves. `SF` on receiving an event: the
gateway delivers again and again, and some delivery finds a free handler.
Nothing is assumed of customers: no run relies on anyone paying, verifying,
retrying or cancelling. The delivery and room liveness runs have `MaxLost = 0`:
with a lost request the code does not recover (section 5). The dine-in service
stores no events, so there a capture settles although requests are lost
(`CapturedSettles` in `dinein_bill`, with `WF(CaptureWebhook(k))`: the gateway
delivers again until it is answered); only an attempt whose own request was
lost stays PROCESSING, which `AttemptsResolve` says. `DineInSessions`, `Basket`
and `Catalogue` promise safety only and assume no fairness.

**Findings.**

1. `SuccessKeepsOrderPaid`: `failPayment` (`payments/payments.service.ts:887`)
   looks at the payment it is given only; a late failure of an older attempt
   marks the order, paid by a newer one, as FAILED.
2. `RequestedIsConfirmable`: `matchesFrozenInvoice`
   (`dine-in/dine-in-invoices.service.ts:432`) compares the JSON text of a
   `jsonb` column with a snapshot just built. `jsonb` orders the keys of an
   object by length, so the texts differ although no order changed, and a bill
   can never be confirmed. The unit test compares objects that were never
   stored. The same module with `KeepsKeyOrder = TRUE` shows that the served
   orders of a requested bill cannot change, so a comparison that ignores the
   order of keys would always succeed.
3. `RetiredTokenStaysDead`: `updateManagedTable` (`dine-in/dine-in.service.ts:339`)
   saves an entity it read without a lock; a QR code regenerated in between is
   replaced by the old one again, and the one just printed is refused.

## 4. Proofs

`tlapm` checks the six `_proofs` modules, `Promises` and `CountingLemmas`. The
theorems hold for every number of
keys, handlers, bookings, nights, rooms, orders, guests, tables, foods and
restaurants, every capacity and every number of lost requests. They assume only
what the modules state: null names are not names, foreign orders are not ours,
event kinds are the three subscribed to, bounds and capacities are naturals.

Every proof has the same shape: an inductive invariant `IInv`, which adds to
the properties what a request still knows at each of its steps; a lemma for
each action; and the properties as consequences.

**Delivery.** `SettledOnce` is not inductive: it breaks if a handler "complete"
holds a payment that was never captured, or an order exists without a payment.
`IInv` adds `PaymentsFounded` (every payment belongs to an order that has a
first payment), `CapturesKnown` (money is captured on stored gateway orders
only), `TrueEvent` (a capture event tells of captured money) and `RequestOK`: a
handler about to commit a retry knows that its order is unpaid, which survives
other handlers because of the row lock. `Steady` collects what no step takes
back (payments keep their order, success is final, captures stay, a locked
unpaid order stays unpaid); every action is shown to be steady, and `RequestOK`
of all other handlers follows once. `OneCodOrderPerFilling` needs
`CodFillingsGone` (a filling that was ordered on delivery is not what the cart
holds) and `CartIsLatest`: the items a request read prove nothing, the row it
locked does. `ImplementsSettlement` is the refinement.
`OnlyLossAbandons` is about the sizes of two sets: `StillInHand` shows that a
step of one handler drops nothing, unless it finishes without having done its
part, and only `LoseRequest` does that; it drops one (`OneMore`).

Finding 1 has a proof of its cause: `OnlyFailuresUnpay` says that the order of
a successful payment changes in no step but the failure of another attempt of
it, and `PaidAtOnceShows` that an order paid at its first attempt is safe. Both
rest on `NextOrders`, the four things a step can do to the orders.

**Rooms.** Every action has one of eight effects on the tables (book at the
hotel, book online, retry, open, confirm, fail, cancel, nothing): `NextEffect`.
Each effect keeps `Tables` and is steady, and each action keeps `RequestOK`.
`IInv` adds that a booking knows its newest payment and only the newest is in
progress (that is why two attempts are never open), and that a handler waiting
for the gateway holds a pending payment of a pending booking (that is why a
stale answer is harmless). `OfferedIsSold` needs the cardinality of the nights
left: the search counts the nights with enough rooms and compares the number,
which agrees with the quote because a finite set has no proper subset of its
size. `ImplementsStock` is the refinement.
`CountersExact` needs no induction over the bookings: what is held of a night
is a set of (booking, room) pairs, a booking adds the block `RoomsOf` to it,
apart from all others, and a cancellation removes that block; `BlockAdded` gives
the sizes. `CancelFindsRooms`, that the subtraction never goes below zero, is a
consequence. `OnlyLossAbandons` is proved as for delivery.

**Billing.** `NextEffect` reduces every action to one of six effects (the
orders move, the bill moves, an attempt is made, opened, ended, or settles).
`IInv` adds `SessionFollowsBill` (the session's status is a function of the
bill's) and `AttemptsSound`. The interesting step is `OrdersWhileActive`:
rejecting and cooking never look at the session, yet they cannot disturb a
bill, because a bill is requested only when no order is unfinished and none can
be made afterwards. The same fact makes the total shown, which counts orders
from their approval, the total billed (`ShownTotalIsBilled`). `ImplementsVisit`
is the refinement. `CaptureSettlesAtOnce` is the safety half of
`CapturedSettles`: whatever may have happened to an attempt and to its bill, a
capture webhook that is applied leaves the bill paid, so only the delivery of
the event needs fairness.

Finding 2 is decided for both columns: `KeptOrderConfirms` (a column that keeps
the order of keys lets every requested bill be confirmed until it is taken
back) and `LostOrderNeverConfirms` (with one that does not, no bill is ever
confirmed and no payment ever made). `SessionMovesOnlySo` ties this module to
the next: billing moves a session in no way `DineInSessions` does not let it.

**Sessions.** `IInv` says what the two row locks protect: no two requests of a
guest, no two at a table past its lock; a request about to create a session
knows that the table has none and that its guest sits nowhere; one about to
enter knows whether its membership row exists. A session that is closed
meanwhile does not matter: entering a closed session makes nobody share a
table. `QrChecked` holds because saving a table waits for those who entered it.
`ImplementsSeating` maps the many steps of a request (read, wait, lock, insert)
to one step of `TableSeating` at its insert and stutters otherwise; the insert's
guards hold there because of what `Knows` says the request still knows.

Finding 3 has a proof of its cause, too: `ApartKeepsTokensDead` says that while no
two edits of one table overlap, a replaced code never comes back. Its
hypothesis is about the managers, not the code, and one manager fulfils it
(`OneManagerKeepsTokensDead`); `dinein_old_qr` shows that two need not.

**Basket.** The items are written without a lock, so what a cart holds is not
invariant; who may spoil it is. `AdditionsNeverMix` rests on `Locks`: an
addition that found a row of its food holds the cart's row until it has saved
the new quantity (`Addition`), one request does at a time (`Exclusive`), so no
other gives the cart another restaurant in between; and the name of a row stands
for one food as long as some request remembers it (`Named`), so a late save
changes no food. `SpentNeverSold` needs `Restocked`: whatever gives the cart a
restaurant also ends its being spent, and a checkout needs a restaurant.

**Catalogue.** The requests write rows they read some time ago, so an invariant
of the rows must hold of the entities in flight as well. `ShutForGood` rests on
`StillShut`: of a row that was shut, every entity some request still holds is
shut too and agrees on the status, so columns taken from several of them cannot
add up to a row that is not. `NothingUnvetted` rests on `RowsSound` and
`RequestsSound`: an approved row, and an approved entity in flight, is vetted;
and on `MenusSound` for the menus being made. `MenusComplete` rests on
`MenusSound` too: what lasted is on the menu now, so whichever query is taken
finds it, its category being of its own restaurant, and every step that writes
a row takes away from what lasted what is no longer on the menu.

**Promises.** An abstract specification is worth implementing only if it says
what its reader wants. `Promises` proves of each of the four, from their few
actions, the sentence it exists for: an order is paid once with captured money,
no night is oversold, the bill is the visit, no seat is shared. By the
refinements the services promise the same.

| Module | Theorems (properties of the runs) |
|---|---|
| `DeliveryPayments_proofs` | `TypeCorrect`, `MoneyAlwaysSound`, `ProcessedStaysApplied`, `OneCodOrderPerFilling` (`CodOncePerFilling`), `AttemptsAlwaysSound` (from `ForwardOnly`, `PaidOrdersClosed`), `OnlyLossAbandons` (`AbandonedByLossOnly`), `ImplementsSettlement`; of finding 1: `OnlyFailuresUnpay`, `PaidAtOnceShows` |
| `RoomBooking_proofs` | `TypeCorrect`, `MoneyAlwaysSound`, `OneAttemptOpen`, `NothingComesLate`, `OfferedIsSold` (`SoldAsOffered`), `CountersExact` (`ReservedExact`), `CancelFindsRooms`, `OnlyLossAbandons`, `ImplementsStock` |
| `DineInBilling_proofs` | `TypeCorrect`, `TicketsAlwaysMatch`, `ShownTotalIsBilled` (`BillAsShown`), `PaidSoundly`, `OneAttemptOpen`, `AttemptsAlwaysInHand`, `FinishedForGood`, `CaptureSettlesAtOnce`, `SessionMovesOnlySo`, `ImplementsVisit`; of finding 2: `KeptOrderConfirms`, `LostOrderNeverConfirms` |
| `DineInSessions_proofs` | `TypeCorrect`, `SeatsNeverShared`, `QrChecked`, `ImplementsSeating`; of finding 3: `ApartKeepsTokensDead`, `OneManagerKeepsTokensDead` |
| `Basket_proofs` | `TypeCorrect`, `AdditionsNeverMix` (`MixedByStaleRequestsOnly`), `SpentNeverSold` (`SpentCartIsNotSold`) |
| `Catalogue_proofs` | `TypeCorrect`, `ShutForGood` (`WithdrawnStaysShut`), `NothingUnvetted` (`ShownIsVetted`), `MenusComplete` (`MenuIsComplete`) |
| `Promises` | `SettlementPromise`, `StockPromise`, `VisitPromise`, `SeatingPromise` |

**Only model-checked:** the liveness properties (`CapturedSettles`,
`AttemptsResolve`, `AnsweredIsHandled`, `CheckoutEnds`, `CapturedConfirms`,
`PaymentsConclude`), since the prover does not handle fairness, and the three
violations themselves. Every other property of a passing run is a theorem.

## 5. Facts that no property states

These follow from the code as modelled; no document of the repository says
otherwise, so they are listed as hazards and not as findings.

- Delivery: two checkouts pass the open-payment check together
  (`payments.service.ts:563`), and cash on delivery does not make it: one basket
  can end in two payable orders. Of the cart only the row is locked
(`payments.repository.ts:66`): a cash order that waited for it is made of the
items as they were before; if they were sold and the cart filled again meanwhile
from the same restaurant, the old items are sold a second time and the new ones
deleted. An event stored by a handler that is then lost
  is never applied (`:485`); `AbandonedByLossOnly` bounds how many.
- Rooms: money captured for a booking that was cancelled throws after its event
  was stored; the event stays undecided and nothing refunds it. Pending bookings
  hold rooms and nothing expires them.
- Dine-in: `cancel` of a payment asks the gateway before it locks anything; a
  capture in between leaves a cancelled attempt with money. The webhook settles
  the bill with it, unless another payment was made first.
- Basket: `removeItem` resets the cart's restaurant without the cart's lock, so
  items of several restaurants can lie in one cart, as when a price refresh saves
  again an item that was deleted; checkouts refuse such a cart. Removing
  an item and adding one lock an item and the cart in opposite order, and the
  database breaks the deadlock. The preview blocks an address that is too far, paying does not look at it; the cart
  ignores service hours.
- Catalogue: a save that began before a restaurant was suspended or a food taken
  off may open it again (`restaurants.service.ts:163`). A food whose category is
  switched on between the two queries of a menu is missing from it
  (`foods.service.ts:81`). Discovery and a food's own page show foods of categories that are
  switched off and that the menu hides.

## 6. Not modelled

- Hotel reviews and addresses: updates without a common lock whose outcome
  (a stale average, two default addresses) nothing depends on and no document
  promises otherwise.
- Users and photos, favourites: single statements that are idempotent.
- Hotel details, featured and popular lists, the manager dashboard: reads that
  change nothing and relate to no other state.
- Opening hours, totals and rounding, stay dates: pure functions over times and
  amounts, tested over their inputs by unit tests.
- Authentication, configuration, health, response formatting: no state of the
  application.
- Row locks as single steps in `DineInBilling`: its lock orders can form a cycle
  (`dine-in-invoices.service.ts:38`), which the database resolves by failing one
  request, as `LoseRequest` does.
