---------------------- MODULE DeliveryPayments_proofs ----------------------
(***************************************************************************)
(* Proofs about DeliveryPayments for any set of keys, handlers, foreign   *)
(* orders and event kinds, and any bounds.                                *)
(***************************************************************************)
EXTENDS DeliveryPayments, CountingLemmas

\* Every payment belongs to an order founded by a payment of its own.
Exists(k) == pay[k].st # "none"
Founder(o) == o \in Keys /\ Exists(o) /\ pay[o].order = o

PaymentsFounded ==
  \A k \in Keys :
    /\ Exists(k) => Founder(pay[k].order)
    /\ ~Exists(k) => pay[k] = NoPayment

\* Money is only captured on stored gateway orders of online payments.
CapturesKnown ==
  \A k \in Keys :
    /\ k \in captured => pay[k].gw
    /\ pay[k].gw => Exists(k) /\ pay[k].method = "ONLINE" /\ pay[k].st # "PROCESSING"
    /\ pay[k].st = "PROCESSING" => pay[k].method = "ONLINE"

\* A capture event of this service tells the truth.
TrueEvent(e) == e \in Events /\ (e.kind \in CaptureKinds /\ e.of \in Keys => e.of \in captured)

Applied(e) == e.kind \in CaptureKinds => e.of \in Keys /\ pay[e.of].st = "SUCCESS"

\* What each handler still knows when it takes its next step.
RequestOK(r) ==
  /\ r.pc \in {"placeOnline", "placeCod", "gateway", "save", "reject",
               "lockOrder", "commitRetry", "fetch", "complete"} => r.key \in Keys
  /\ r.pc \in {"gateway", "save", "reject"} => Exists(r.key)
  /\ r.pc = "complete" => r.key \in captured
  /\ r.pc \in {"lockOrder", "commitRetry"} => Founder(r.order)
  /\ r.pc = "commitRetry" => ~HasSuccess(r.order)
  /\ r.pc \in {"store", "dispatch", "mark"} => TrueEvent(r.ev)
  /\ r.pc = "mark" => Applied(r.ev)
  /\ r.basket = 0 \/ r.basket \in 1..baskets

\* The cart holds its latest filling, if any, and a filling that was ordered on
\* delivery is not in it any more.
CartIsLatest == cart \in {0, baskets}
CodFillingsGone ==
  \A k \in Keys : pay[k].method = "COD" =>
    /\ Exists(k)
    /\ ord[k].filling \in 1..baskets
    /\ ord[k].filling # cart

\* The tables, whatever the handlers are doing.
Tables ==
  /\ PaymentsFounded
  /\ CapturesKnown
  /\ PaidMeansCaptured
  /\ SettledOnce
  /\ OrderPaidHasPayment
  /\ \A e \in sent : TrueEvent(e)
  /\ ProcessedMeansApplied
  /\ CartIsLatest
  /\ CodFillingsGone
  /\ CodOncePerFilling

IInv ==
  /\ TypeOK
  /\ Tables
  /\ \A h \in Handlers : RequestOK(req[h])

\* What no step takes back, and what a locked order is spared.
Steady ==
  /\ \A k \in Keys : Exists(k) => Exists(k)' /\ pay'[k].order = pay[k].order
  /\ \A k \in Keys : pay[k].st = "SUCCESS" => pay'[k].st = "SUCCESS"
  /\ captured \subseteq captured' /\ 1..baskets \subseteq 1..baskets'
  /\ \A o \in Keys : Locked(o) /\ ~HasSuccess(o) => ~HasSuccess(o)'

-----------------------------------------------------------------------------

\* The empty tables satisfy the invariant.
LEMMA InitIInv == Init => IInv
BY NoKeyAssumption, BoundsAssumption
DEF Init, IInv, Tables, TypeOK, PaymentsFounded, CapturesKnown, PaidMeansCaptured,
    SettledOnce, OrderPaidHasPayment, RequestOK, ProcessedMeansApplied, CodFillingsGone, CartIsLatest,
    CodOncePerFilling, Payments, PaymentStatus, NoPayment, Orders, NoOrder, Requests,
    Steps, Idle, NoEvent, Exists, Founder, HasSuccess

\* The local states a handler can be given are well formed.
LEMMA RequestsTyped ==
  ASSUME TypeOK, NEW h \in Handlers
  PROVE  /\ req[h] \in Requests
         /\ Idle \in Requests
         /\ \A s \in Steps : [req[h] EXCEPT !.pc = s] \in Requests
         /\ \A s \in Steps, k \in Keys, o \in Keys :
              [pc |-> s, key |-> k, order |-> o, ev |-> NoEvent, basket |-> 0] \in Requests
         /\ \A e \in Events : [Idle EXCEPT !.pc = "store", !.ev = e] \in Requests
<1>1. 0 \in 0..MaxBaskets
  BY BoundsAssumption
<1> QED
  BY <1>1, NoKeyAssumption DEF TypeOK, Requests, Steps, Idle, NoEvent

\* A handler that is done needs nothing.
LEMMA IdleOK == RequestOK(Idle)
BY DEF RequestOK, Idle

\* A step that changes nothing but the local state of one handler.
LEMMA OnlyRequest ==
  ASSUME IInv, NEW h \in Handlers, NEW r \in Requests, RequestOK(r),
         req' = [req EXCEPT ![h] = r],
         UNCHANGED <<cart, baskets, pay, ord, captured, sent, hook>>,
         lost' \in 0..MaxLost
  PROVE  IInv'
BY DEF IInv, Tables, TypeOK, PaymentsFounded, CapturesKnown, PaidMeansCaptured,
    SettledOnce, OrderPaidHasPayment, RequestOK, ProcessedMeansApplied, CodFillingsGone, CartIsLatest,
    CodOncePerFilling, Exists, Founder, HasSuccess, TrueEvent, Applied

\* A steady step keeps what the handlers know, if the one that moves moves
\* to something true.
LEMMA RequestsKept ==
  ASSUME IInv, Steady, NEW h \in Handlers, NEW r \in Requests, RequestOK(r)',
         req' = [req EXCEPT ![h] = r]
  PROVE  \A g \in Handlers : RequestOK(req[g])'
<1> SUFFICES ASSUME NEW g \in Handlers PROVE RequestOK(req[g])'
  OBVIOUS
<1>1. CASE g = h
  BY <1>1, req'[h] = r DEF IInv, TypeOK, RequestOK, Exists, Founder, HasSuccess, TrueEvent, Applied
<1>2. CASE g # h
  <2>1. req'[g] = req[g] /\ RequestOK(req[g])
    BY <1>2 DEF IInv, TypeOK
  <2>2. req[g].pc = "commitRetry" => Locked(req[g].order)
    BY DEF Locked, At
  <2>3. req[g] \in Requests
    BY RequestsTyped DEF IInv
  <2> QED
    BY <2>1, <2>2, <2>3 DEF Steady, RequestOK, Exists, Founder, TrueEvent, Applied
<1> QED
  BY <1>1, <1>2

\* A steady step that moves no handler keeps what they know.
LEMMA RequestsStill ==
  ASSUME IInv, Steady, UNCHANGED req
  PROVE  \A g \in Handlers : RequestOK(req[g])'
<1> SUFFICES ASSUME NEW g \in Handlers PROVE RequestOK(req[g])'
  OBVIOUS
<1>1. req'[g] = req[g] /\ RequestOK(req[g]) /\ req[g] \in Requests
  BY RequestsTyped DEF IInv
<1>2. req[g].pc = "commitRetry" => Locked(req[g].order)
  BY DEF Locked, At
<1> QED
  BY <1>1, <1>2 DEF Steady, RequestOK, Exists, Founder, TrueEvent, Applied

\* Payments that keep their order, and are neither added nor removed, stay founded.
LEMMA FoundedKept ==
  ASSUME PaymentsFounded,
         \A j \in Keys : (Exists(j)' <=> Exists(j)) /\ pay'[j].order = pay[j].order,
         \A j \in Keys : ~Exists(j) => pay'[j] = pay[j]
  PROVE  PaymentsFounded'
<1>1. \A j \in Keys : Founder(j)' <=> Founder(j)
  BY DEF Founder
<1>2. \A j \in Keys : Exists(j)' => Founder(pay[j].order)'
  <2> SUFFICES ASSUME NEW j \in Keys, Exists(j)' PROVE Founder(pay[j].order)'
    OBVIOUS
  <2>1. PICK p \in Keys : p = pay[j].order /\ Founder(p)
    BY DEF PaymentsFounded, Founder
  <2> QED
    BY <1>1, <2>1 DEF Founder
<1>3. \A j \in Keys : ~Exists(j)' => pay'[j] = NoPayment
  BY DEF PaymentsFounded
<1> QED
  BY <1>2, <1>3 DEF PaymentsFounded, NoPayment

\* completePayment on captured money.
LEMMA CompleteEffect ==
  ASSUME IInv, NEW k \in captured, CompletePayment(k),
         UNCHANGED <<baskets, captured, sent, hook, lost>>, req' \in [Handlers -> Requests]
  PROVE  TypeOK' /\ Tables' /\ Steady /\ pay'[k].st = "SUCCESS"
<1>1. k \in Keys /\ Exists(k) /\ Founder(pay[k].order) /\ pay[k].method = "ONLINE"
  BY DEF IInv, TypeOK, Tables, CapturesKnown, PaymentsFounded
<1> PICK o \in Keys : o = pay[k].order
  BY <1>1 DEF Founder
<1>2. CASE UNCHANGED <<pay, ord, cart>> /\ pay[k].st = "SUCCESS"
  BY <1>2 DEF IInv, Tables, TypeOK, PaymentsFounded, CapturesKnown, PaidMeansCaptured,
    SettledOnce, OrderPaidHasPayment, ProcessedMeansApplied, CodFillingsGone, CartIsLatest,
    CodOncePerFilling, Exists, Founder, HasSuccess, TrueEvent, Steady
<1>3. CASE /\ ~Locked(o) /\ ~HasSuccess(o)
           /\ pay' = [pay EXCEPT ![k].st = "SUCCESS"]
           /\ ord' = [ord EXCEPT ![o].st = "SUCCESS"]
           /\ cart' = 0
  <2> USE <1>1, <1>3 DEF IInv, Tables
  <2>1. TypeOK'
    BY DEF TypeOK, Payments, PaymentStatus, Orders
  <2>2. /\ \A j \in Keys \ {k} : pay'[j] = pay[j]
        /\ pay'[k].st = "SUCCESS" /\ pay'[k].order = o /\ pay'[k].method = "ONLINE" 
        /\ pay'[k].gw = pay[k].gw
        /\ \A p \in Keys \ {o} : ord'[p] = ord[p]
        /\ ord'[o].st = "SUCCESS"
    <3>1. pay \in [Keys -> Payments] /\ ord \in [Keys -> Orders]
      BY DEF TypeOK
    <3>2. \A p \in Keys \ {o} : ord'[p] = ord[p]
      BY <3>1
    <3>3. ord'[o].st = "SUCCESS"
      BY <3>1 DEF Orders
    <3>4. \A j \in Keys \ {k} : pay'[j] = pay[j]
      BY <3>1
    <3>5. pay'[k] = [pay[k] EXCEPT !.st = "SUCCESS"]
      BY <3>1
    <3>6. /\ pay'[k].st = "SUCCESS" /\ pay'[k].order = pay[k].order
          /\ pay'[k].method = pay[k].method /\ pay'[k].gw = pay[k].gw
      BY <3>1, <3>5 DEF Payments
    <3> QED
      BY <3>2, <3>3, <3>4, <3>6
  <2>3. PaymentsFounded'
    BY <2>2, FoundedKept DEF Exists
  <2>4. CapturesKnown'
    BY <2>2 DEF CapturesKnown, Exists
  <2>5. PaidMeansCaptured'
    BY <2>2 DEF PaidMeansCaptured
  <2>6. SettledOnce'
    BY <2>2 DEF SettledOnce, HasSuccess
  <2>7. OrderPaidHasPayment'
    <3>1. \A p \in Keys : HasSuccess(p) => HasSuccess(p)'
      BY <2>2 DEF HasSuccess
    <3>2. HasSuccess(o)'
      BY <2>2 DEF HasSuccess
    <3> QED
      BY <2>2, <3>1, <3>2 DEF OrderPaidHasPayment
  <2>8. ProcessedMeansApplied' /\ \A e \in sent' : TrueEvent(e)'
    BY <2>2 DEF ProcessedMeansApplied, TrueEvent
  <2>9. CartIsLatest' /\ CodFillingsGone' /\ CodOncePerFilling'
    BY <2>2 DEF CodFillingsGone, CartIsLatest, CodOncePerFilling, Exists, TypeOK, Orders
  <2>10. Steady
    <3>1. \A p \in Keys \ {o} : HasSuccess(p)' <=> HasSuccess(p)
      BY <2>2 DEF HasSuccess
    <3> QED
      BY <2>2, <3>1 DEF Steady, Exists
  <2> QED
    BY <2>1, <2>2, <2>3, <2>4, <2>5, <2>6, <2>7, <2>8, <2>9, <2>10
<1> QED
  BY <1>2, <1>3 DEF CompletePayment

\* failPayment, whoever asks for it.
LEMMA FailEffect ==
  ASSUME IInv, NEW k \in Keys, Exists(k), FailPayment(k),
         UNCHANGED <<baskets, captured, sent, hook, lost>>, req' \in [Handlers -> Requests]
  PROVE  TypeOK' /\ Tables' /\ Steady
<1>1. Founder(pay[k].order)
  BY DEF IInv, TypeOK, Tables, PaymentsFounded
<1> PICK o \in Keys : o = pay[k].order
  BY <1>1 DEF Founder
<1>2. CASE UNCHANGED <<pay, ord, cart>>
  BY <1>2 DEF IInv, Tables, TypeOK, PaymentsFounded, CapturesKnown, PaidMeansCaptured,
    SettledOnce, OrderPaidHasPayment, ProcessedMeansApplied, CodFillingsGone, CartIsLatest,
    CodOncePerFilling, Exists, Founder, HasSuccess, TrueEvent, Steady
<1>3. CASE /\ pay[k].st # "SUCCESS"
           /\ pay' = [pay EXCEPT ![k].st = "FAILED"]
           /\ ord' = [ord EXCEPT ![o].st = "FAILED"]
           /\ cart' = cart
  <2> USE <1>1, <1>3 DEF IInv, Tables
  <2>1. TypeOK'
    <3>1. pay \in [Keys -> Payments] /\ ord \in [Keys -> Orders]
      BY DEF TypeOK
    <3>2. pay' \in [Keys -> Payments]
      BY <3>1 DEF Payments, PaymentStatus
    <3>3. ord' \in [Keys -> Orders]
      BY <3>1 DEF Orders
    <3> QED
      BY <3>2, <3>3 DEF TypeOK
  <2>2. /\ \A j \in Keys \ {k} : pay'[j] = pay[j]
        /\ pay'[k].st = "FAILED" /\ pay'[k].order = o /\ pay'[k].method = pay[k].method
        /\ pay'[k].gw = pay[k].gw
        /\ \A p \in Keys \ {o} : ord'[p] = ord[p]
        /\ ord'[o].st # "SUCCESS"
    <3>1. pay \in [Keys -> Payments] /\ ord \in [Keys -> Orders]
      BY DEF TypeOK
    <3>2. \A p \in Keys \ {o} : ord'[p] = ord[p]
      BY <3>1
    <3>3. ord'[o].st # "SUCCESS"
      BY <3>1 DEF Orders
    <3>4. \A j \in Keys \ {k} : pay'[j] = pay[j]
      BY <3>1
    <3>5. pay'[k] = [pay[k] EXCEPT !.st = "FAILED"]
      BY <3>1
    <3>6. /\ pay'[k].st = "FAILED" /\ pay'[k].order = pay[k].order
          /\ pay'[k].method = pay[k].method /\ pay'[k].gw = pay[k].gw
      BY <3>1, <3>5 DEF Payments
    <3> QED
      BY <3>2, <3>3, <3>4, <3>6
  <2>3. PaymentsFounded'
    BY <2>2, FoundedKept DEF Exists
  <2>4. CapturesKnown'
    BY <2>2 DEF CapturesKnown, Exists
  <2>5. PaidMeansCaptured' /\ SettledOnce'
    BY <2>2 DEF PaidMeansCaptured, SettledOnce
  <2>6. \A p \in Keys : HasSuccess(p)' <=> HasSuccess(p)
    BY <2>2 DEF HasSuccess
  <2>7. OrderPaidHasPayment'
    BY <2>2, <2>6 DEF OrderPaidHasPayment
  <2>8. ProcessedMeansApplied' /\ \A e \in sent' : TrueEvent(e)'
    BY <2>2 DEF ProcessedMeansApplied, TrueEvent
  <2>9. CartIsLatest' /\ CodFillingsGone' /\ CodOncePerFilling'
    BY <2>2 DEF CodFillingsGone, CartIsLatest, CodOncePerFilling, Exists, TypeOK, Orders
  <2>10. Steady
    BY <2>2, <2>6 DEF Steady, Exists
  <2> QED
    BY <2>1, <2>3, <2>4, <2>5, <2>7, <2>8, <2>9, <2>10
<1> QED
  BY <1>2, <1>3 DEF FailPayment

-----------------------------------------------------------------------------

\* Steps of a handler that write no table.
LEMMA LocalSteps ==
  ASSUME IInv, NEW h \in Handlers,
         \/ \E k \in Keys : RequestOnline(h, k) \/ RequestCod(h, k) \/ RequestVerify(h, k)
         \/ \E failed, k \in Keys : RequestRetry(h, failed, k)
         \/ \E e \in Events : ReceiveWebhook(h, e)
         \/ ReadItems(h) \/ RefuseCheckout(h) \/ GatewayAccepts(h) \/ GatewayRejects(h)
         \/ LockForRetry(h) \/ RefuseRetry(h) \/ RetryKeyTaken(h)
         \/ FetchPayment(h) \/ CaptureConflicts(h) \/ LoseRequest(h)
  PROVE  IInv'
<1> USE DEF gateway
<1>1. ASSUME NEW r \in Requests, RequestOK(r), req' = [req EXCEPT ![h] = r],
             UNCHANGED <<cart, baskets, pay, ord, captured, sent, hook>>,
             lost' = lost \/ (lost < MaxLost /\ lost' = lost + 1)
      PROVE  IInv'
  <2>1. lost' \in 0..MaxLost
    BY <1>1, BoundsAssumption DEF IInv, TypeOK
  <2> QED
    BY <1>1, <2>1, OnlyRequest
<1>2. /\ req[h] \in Requests /\ RequestOK(req[h])
      /\ Idle \in Requests /\ RequestOK(Idle)
  BY RequestsTyped, IdleOK DEF IInv
<1>3. ASSUME NEW k \in Keys, RequestOnline(h, k) \/ RequestCod(h, k) \/ RequestVerify(h, k)
      PROVE  IInv'
  <2> PICK s \in {"placeOnline", "placeCod", "fetch"}, o \in Keys :
        /\ req' = [req EXCEPT ![h] = [pc |-> s, key |-> k, order |-> o, ev |-> NoEvent, basket |-> 0]]
        /\ UNCHANGED <<cart, baskets, pay, ord, captured, sent, hook, lost>>
    <3>1. RequestVerify(h, k) => pay[k].order \in Keys
      BY DEF RequestVerify, IInv, Tables, PaymentsFounded, Founder, Exists
    <3> QED
      BY <1>3, <3>1 DEF RequestOnline, RequestCod, RequestVerify, Goto
  <2> DEFINE r == [pc |-> s, key |-> k, order |-> o, ev |-> NoEvent, basket |-> 0]
  <2>1. r \in Requests
    BY RequestsTyped DEF IInv, Steps
  <2>2. RequestOK(r)
    BY DEF RequestOK
  <2> QED
    BY <1>1, <2>1, <2>2
<1>4. ASSUME NEW failed \in Keys, NEW k \in Keys, RequestRetry(h, failed, k)
      PROVE  IInv'
  <2> DEFINE r == [pc |-> "lockOrder", key |-> k, order |-> pay[failed].order, ev |-> NoEvent,
                  basket |-> 0]
  <2>1. Founder(pay[failed].order)
    BY <1>4 DEF RequestRetry, IInv, Tables, PaymentsFounded, Exists
  <2>2. r \in Requests
    BY <2>1, RequestsTyped DEF IInv, Steps, Founder
  <2>3. RequestOK(r)
    BY <2>1 DEF RequestOK
  <2> QED
    BY <1>1, <1>4, <2>2, <2>3 DEF RequestRetry, Goto
<1>5. ASSUME NEW e \in Events, ReceiveWebhook(h, e)
      PROVE  IInv'
  <2> DEFINE r == [Idle EXCEPT !.pc = "store", !.ev = e]
  <2>1. r \in Requests
    BY RequestsTyped DEF IInv
  <2>2. r.pc = "store" /\ r.ev = e /\ r.basket = 0
    BY DEF Idle
  <2>3. RequestOK(r)
    BY <1>5, <2>2 DEF RequestOK, ReceiveWebhook, IInv, Tables
  <2> QED
    BY <1>1, <1>5, <2>1, <2>3 DEF ReceiveWebhook
<1>6. CASE \/ RefuseCheckout(h) \/ RefuseRetry(h) \/ RetryKeyTaken(h) \/ CaptureConflicts(h)
           \/ LoseRequest(h) \/ (FetchPayment(h) /\ Finish(h))
  BY <1>1, <1>2, <1>6
  DEF RefuseCheckout, RefuseRetry, RetryKeyTaken, CaptureConflicts, LoseRequest,
      FetchPayment, Finish
<1>7. CASE \/ GatewayAccepts(h) \/ GatewayRejects(h) \/ LockForRetry(h)
           \/ (FetchPayment(h) /\ req[h].key \in captured /\ Continue(h, "complete"))
  <2> PICK s \in {"save", "reject", "commitRetry", "complete"} :
        /\ req' = [req EXCEPT ![h].pc = s]
        /\ UNCHANGED <<cart, baskets, pay, ord, captured, sent, hook, lost>>
        /\ s \in {"save", "reject"} => req[h].pc = "gateway"
        /\ s = "complete" => req[h].key \in captured /\ req[h].pc = "fetch"
        /\ s = "commitRetry" => req[h].pc = "lockOrder" /\ ~HasSuccess(req[h].order)
    BY <1>7 DEF GatewayAccepts, GatewayRejects, LockForRetry, FetchPayment, RetryAllowed,
       Continue, At
  <2> DEFINE r == [req[h] EXCEPT !.pc = s]
  <2>1. r \in Requests /\ req' = [req EXCEPT ![h] = r]
    BY RequestsTyped DEF IInv, Steps, TypeOK
  <2>2. r.pc = s /\ r.key = req[h].key /\ r.order = req[h].order /\ r.ev = req[h].ev
      /\ r.basket = req[h].basket
    BY <1>2 DEF Requests
  <2>3. RequestOK(r)
    BY <1>2, <2>2 DEF RequestOK
  <2> QED
    BY <1>1, <2>1, <2>3
<1>9. CASE ReadItems(h)
  <2> DEFINE r == [req[h] EXCEPT !.basket = cart]
  <2>1. cart \in 1..baskets /\ cart \in 0..MaxBaskets
    BY <1>9, BoundsAssumption DEF ReadItems, IInv, TypeOK
  <2>2. r \in Requests /\ req' = [req EXCEPT ![h] = r]
    BY <1>2, <1>9, <2>1 DEF ReadItems, Requests, IInv, TypeOK
  <2>3. r.pc = req[h].pc /\ r.key = req[h].key /\ r.basket = cart
    BY <1>2 DEF Requests
  <2>4. RequestOK(r)
    BY <1>2, <1>9, <2>1, <2>3 DEF RequestOK, ReadItems
  <2> HIDE DEF r
  <2> QED
    BY <1>1, <1>9, <2>2, <2>4 DEF ReadItems
<1>8. FetchPayment(h) => \/ FetchPayment(h) /\ Finish(h)
                         \/ FetchPayment(h) /\ req[h].key \in captured /\ Continue(h, "complete")
  BY DEF FetchPayment
<1> QED
  BY <1>3, <1>4, <1>5, <1>6, <1>7, <1>8, <1>9

\* A new payment, of a new order or of an unpaid one.
LEMMA NewPayment ==
  ASSUME IInv, NEW k \in Keys, NEW p \in Payments, Unused(k),
         p.st \in {"PROCESSING", "PENDING"}, ~p.gw, p.method # "none",
         p.st = "PROCESSING" => p.method = "ONLINE",
         p.order = k \/ Founder(p.order),
         pay' = [pay EXCEPT ![k] = p],
         UNCHANGED <<baskets, captured, sent, hook>>
  PROVE  /\ \A j \in Keys \ {k} : pay'[j] = pay[j]
         /\ pay'[k] = p
         /\ PaymentsFounded' /\ CapturesKnown' /\ PaidMeansCaptured' /\ SettledOnce'
         /\ ProcessedMeansApplied' /\ (\A e \in sent : TrueEvent(e))'
         /\ \A o \in Keys : HasSuccess(o)' <=> HasSuccess(o)
         /\ Steady
<1>1. /\ \A j \in Keys \ {k} : pay'[j] = pay[j]
      /\ pay'[k] = p
  BY DEF IInv, TypeOK
<1>2. ~Exists(k) /\ k \notin captured /\ pay[k].st # "SUCCESS"
  BY DEF Unused, Exists, IInv, Tables, CapturesKnown
<1>3. \A o \in Keys : HasSuccess(o)' <=> HasSuccess(o)
  BY <1>1, <1>2 DEF HasSuccess
<1>4. \A o \in Keys : Founder(o) => Founder(o)'
  BY <1>1, <1>2 DEF Founder, Exists
<1>5. PaymentsFounded'
  <2> SUFFICES ASSUME NEW j \in Keys
               PROVE  /\ Exists(j)' => Founder(pay[j].order)'
                      /\ ~Exists(j)' => pay'[j] = NoPayment
    BY DEF PaymentsFounded, NoPayment
  <2>1. CASE j # k
    <3>1. CASE Exists(j)
      <4> PICK o \in Keys : o = pay[j].order /\ Founder(o)
        BY <3>1 DEF IInv, Tables, PaymentsFounded, Founder
      <4> QED
        BY <1>1, <1>4, <2>1, <3>1 DEF Exists, Founder
    <3>2. CASE ~Exists(j)
      BY <1>1, <2>1, <3>2 DEF IInv, Tables, PaymentsFounded, Exists
    <3> QED
      BY <3>1, <3>2
  <2>2. CASE j = k
    <3>1. Exists(k)'
      BY <1>1 DEF Exists
    <3>2. PICK o \in Keys : o = p.order /\ (o = k \/ Founder(o))
      BY DEF Founder
    <3>3. Founder(o)'
      BY <1>1, <1>4, <3>1, <3>2 DEF Founder, Exists
    <3> QED
      BY <1>1, <2>2, <3>1, <3>2, <3>3 DEF Founder
  <2> QED
    BY <2>1, <2>2
<1>6. CapturesKnown'
  BY <1>1, <1>2 DEF IInv, Tables, CapturesKnown, Exists, Payments
<1>7. PaidMeansCaptured' /\ SettledOnce'
  BY <1>1, <1>2 DEF IInv, Tables, PaidMeansCaptured, SettledOnce
<1>8. ProcessedMeansApplied' /\ (\A e \in sent : TrueEvent(e))'
  BY <1>1, <1>2 DEF IInv, Tables, ProcessedMeansApplied, TrueEvent
<1>9. Steady
  BY <1>1, <1>2, <1>3 DEF Steady, Exists
<1> QED
  BY <1>1, <1>3, <1>5, <1>6, <1>7, <1>8, <1>9

\* An order and its first payment are stored together.
LEMMA NewOrder ==
  ASSUME IInv, NEW h \in Handlers, NEW k \in Keys, NEW m \in {"ONLINE", "COD"},
         NEW s \in {"PROCESSING", "PENDING"}, NEW r \in Requests,
         m = "ONLINE" <=> s = "PROCESSING",
         Unused(k), cart # 0, NEW b \in 1..baskets,
         pay' = [pay EXCEPT ![k] = [st |-> s, method |-> m, order |-> k, gw |-> FALSE]],
         ord' = [ord EXCEPT ![k] = [st |-> "PENDING", basket |-> b, filling |-> cart]],
         cart' = (IF m = "COD" THEN 0 ELSE cart),
         req' = [req EXCEPT ![h] = r], r.pc \in {"idle", "gateway"}, r.key = k \/ r = Idle,
         r.basket = 0,
         UNCHANGED <<baskets, captured, sent, hook, lost>>
  PROVE  IInv'
<1> DEFINE p == [st |-> s, method |-> m, order |-> k, gw |-> FALSE]
<1>1. p \in Payments
  BY DEF Payments, PaymentStatus
<1>2. /\ \A j \in Keys \ {k} : pay'[j] = pay[j]
      /\ pay'[k] = p
      /\ PaymentsFounded' /\ CapturesKnown' /\ PaidMeansCaptured' /\ SettledOnce'
      /\ ProcessedMeansApplied' /\ (\A e \in sent : TrueEvent(e))'
      /\ \A o \in Keys : HasSuccess(o)' <=> HasSuccess(o)
      /\ Steady
  BY <1>1, NewPayment
<1>3. /\ \A j \in Keys \ {k} : ord'[j] = ord[j]
      /\ ord'[k] = [st |-> "PENDING", basket |-> b, filling |-> cart]
      /\ cart = baskets /\ cart \in 1..baskets /\ cart \in 0..MaxBaskets
      /\ b \in 1..cart /\ b \in 0..MaxBaskets
      /\ baskets \in 0..MaxBaskets
  BY BoundsAssumption DEF IInv, TypeOK, Tables, CartIsLatest
<1>4. TypeOK'
  BY <1>1, <1>3, BoundsAssumption DEF IInv, TypeOK, Orders
<1>5. OrderPaidHasPayment'
  BY <1>2, <1>3 DEF IInv, Tables, OrderPaidHasPayment
<1>6. CartIsLatest' /\ CodFillingsGone'
  BY <1>2, <1>3 DEF IInv, Tables, CodFillingsGone, CartIsLatest, Exists
<1>7. CodOncePerFilling'
  <2>1. \A j \in Keys \ {k} : pay[j].method = "COD" => ord[j].filling # cart
    BY DEF IInv, Tables, CodFillingsGone
  <2> QED
    BY <1>2, <1>3, <2>1 DEF IInv, Tables, CodOncePerFilling
<1>8. RequestOK(r)'
  BY <1>2 DEF RequestOK, Exists, Idle
<1>9. \A g \in Handlers : RequestOK(req[g])'
  BY <1>2, <1>8, RequestsKept
<1> QED
  BY <1>2, <1>4, <1>5, <1>6, <1>7, <1>9 DEF IInv, Tables

\* createDeliveryAttempt and placeCodOrder, which store an order with its payment.
LEMMA NewOrderSteps ==
  ASSUME IInv, NEW h \in Handlers, CreateAttempt(h) \/ PlaceCodOrder(h)
  PROVE  IInv'
<1>1. /\ req[h].key \in Keys
      /\ req[h] \in Requests /\ Idle \in Requests
      /\ [req[h] EXCEPT !.pc = "gateway"] \in Requests
  BY RequestsTyped DEF CreateAttempt, PlaceCodOrder, At, IInv, RequestOK, Steps
<1>b. PICK b \in 1..baskets : b = req[h].basket /\ cart # 0
  BY DEF CreateAttempt, PlaceCodOrder, HoldsCart, IInv, RequestOK
<1>2. CASE CreateAttempt(h)
  <2> DEFINE r == [pc |-> "gateway", key |-> req[h].key, order |-> req[h].key,
                   ev |-> NoEvent, basket |-> 0]
  <2>1. r.pc = "gateway" /\ r.key = req[h].key /\ r \in Requests
    BY <1>1, RequestsTyped DEF IInv, Steps
  <2>2. req' = [req EXCEPT ![h] = r]
    BY <1>2 DEF CreateAttempt, Goto
  <2>3. r.basket = 0
    OBVIOUS
  <2> HIDE DEF r
  <2> QED
    BY <1>1, <1>b, <1>2, <2>1, <2>2, <2>3, NewOrder DEF CreateAttempt, OrderOfCart, gateway
<1>3. CASE PlaceCodOrder(h)
  <2>1. Idle.pc = "idle" /\ Idle.basket = 0
    BY DEF Idle
  <2> QED
    BY <1>1, <1>b, <1>3, <2>1, NewOrder DEF PlaceCodOrder, OrderOfCart, Finish, gateway
<1> QED
  BY <1>2, <1>3

\* retry commits a further payment of the order it has locked.
LEMMA CommitRetryInv ==
  ASSUME IInv, NEW h \in Handlers, CommitRetry(h)
  PROVE  IInv'
<1>1. PICK k \in Keys, o \in Keys, r \in Requests :
        /\ k = req[h].key /\ o = req[h].order /\ Founder(o)
        /\ r = [req[h] EXCEPT !.pc = "gateway"]
  BY RequestsTyped DEF CommitRetry, At, IInv, RequestOK, Steps, Founder
<1> DEFINE p == [st |-> "PROCESSING", method |-> "ONLINE", order |-> o, gw |-> FALSE]
<1>2. p \in Payments
  BY <1>1 DEF Payments, PaymentStatus
<1>3. r.pc = "gateway" /\ r.key = k /\ r.basket = req[h].basket /\ req' = [req EXCEPT ![h] = r]
  BY <1>1, RequestsTyped DEF Requests, CommitRetry, Continue, IInv, TypeOK
<1>4. Unused(k) /\ pay' = [pay EXCEPT ![k] = p]
      /\ UNCHANGED <<cart, baskets, ord, captured, sent, hook, lost>>
  BY <1>1 DEF CommitRetry, gateway
<1>5. /\ \A j \in Keys \ {k} : pay'[j] = pay[j]
      /\ pay'[k] = p
      /\ PaymentsFounded' /\ CapturesKnown' /\ PaidMeansCaptured' /\ SettledOnce'
      /\ ProcessedMeansApplied' /\ (\A e \in sent : TrueEvent(e))'
      /\ \A q \in Keys : HasSuccess(q)' <=> HasSuccess(q)
      /\ Steady
  BY <1>1, <1>2, <1>4, NewPayment
<1>6. TypeOK'
  BY <1>1, <1>2, <1>3, <1>4 DEF IInv, TypeOK
<1>7. OrderPaidHasPayment' /\ CartIsLatest' /\ CodFillingsGone' /\ CodOncePerFilling'
  BY <1>4, <1>5 DEF IInv, Tables, OrderPaidHasPayment, CodFillingsGone, CartIsLatest, CodOncePerFilling, Exists
<1>b. (req[h].basket = 0 \/ req[h].basket \in 1..baskets) /\ UNCHANGED baskets
  BY <1>4 DEF IInv, RequestOK
<1>8. RequestOK(r)'
  BY <1>3, <1>5, <1>b DEF RequestOK, Exists
<1>9. \A g \in Handlers : RequestOK(req[g])'
  BY <1>3, <1>5, <1>8, RequestsKept
<1> QED
  BY <1>5, <1>6, <1>7, <1>9 DEF IInv, Tables

\* The gateway's order is stored while the payment is still PROCESSING.
LEMMA SaveGatewayOrderInv ==
  ASSUME IInv, NEW h \in Handlers, SaveGatewayOrder(h)
  PROVE  IInv'
<1>1. PICK k \in Keys : k = req[h].key /\ Exists(k)
  BY DEF SaveGatewayOrder, At, IInv, RequestOK
<1>2. /\ req' = [req EXCEPT ![h] = Idle] /\ Idle \in Requests /\ RequestOK(Idle)
      /\ UNCHANGED <<cart, baskets, ord, captured, sent, hook, lost>>
  BY RequestsTyped, IdleOK DEF SaveGatewayOrder, Finish, gateway, IInv
<1>3. CASE pay[k].st = "PROCESSING"
  <2>1. pay' = [pay EXCEPT ![k].st = "PENDING", ![k].gw = TRUE]
    BY <1>1, <1>3 DEF SaveGatewayOrder
  <2>2. pay \in [Keys -> Payments]
    BY DEF IInv, TypeOK
  <2>3. /\ \A j \in Keys \ {k} : pay'[j] = pay[j]
        /\ pay'[k] \in Payments
        /\ pay'[k].st = "PENDING" /\ pay'[k].gw
        /\ pay'[k].order = pay[k].order /\ pay'[k].method = pay[k].method
    BY <2>1, <2>2 DEF Payments, PaymentStatus
  <2>4. TypeOK'
    BY <1>2, <2>1, <2>2, <2>3 DEF IInv, TypeOK
  <2>5. PaymentsFounded'
    BY <1>1, <1>3, <2>3, FoundedKept DEF IInv, Tables, Exists
  <2>6. CapturesKnown'
    BY <1>2, <1>3, <2>3 DEF IInv, Tables, CapturesKnown, Exists
  <2>7. PaidMeansCaptured' /\ SettledOnce'
    BY <1>2, <2>3 DEF IInv, Tables, PaidMeansCaptured, SettledOnce
  <2>8. \A o \in Keys : HasSuccess(o)' <=> HasSuccess(o)
    BY <1>3, <2>3 DEF HasSuccess
  <2>9. OrderPaidHasPayment'
    BY <1>2, <2>8 DEF IInv, Tables, OrderPaidHasPayment
  <2>10. ProcessedMeansApplied' /\ (\A e \in sent : TrueEvent(e))'
    BY <1>2, <1>3, <2>3 DEF IInv, Tables, ProcessedMeansApplied, TrueEvent
  <2>11. CartIsLatest' /\ CodFillingsGone' /\ CodOncePerFilling'
    BY <1>1, <1>2, <2>3 DEF IInv, Tables, CodFillingsGone, CartIsLatest, CodOncePerFilling, Exists
  <2>12. Steady
    BY <1>2, <1>3, <2>3, <2>8 DEF Steady, Exists
  <2>13. \A g \in Handlers : RequestOK(req[g])'
    BY <1>2, <2>12, RequestsKept DEF RequestOK, Idle
  <2> QED
    BY <2>4, <2>5, <2>6, <2>7, <2>9, <2>10, <2>11, <2>13 DEF IInv, Tables
<1>4. CASE pay[k].st # "PROCESSING"
  <2>1. UNCHANGED pay
    BY <1>1, <1>4 DEF SaveGatewayOrder
  <2>2. lost' \in 0..MaxLost
    BY <1>2 DEF IInv, TypeOK
  <2> QED
    BY <1>2, <2>1, <2>2, OnlyRequest
<1> QED
  BY <1>3, <1>4

\* The steps that settle or fail a payment.
LEMMA SettlingSteps ==
  ASSUME IInv, NEW h \in Handlers,
         CompleteVerified(h) \/ ApplyCapture(h) \/ FailAttempt(h) \/ ApplyFailure(h)
  PROVE  IInv'
<1>1. /\ req[h] \in Requests /\ RequestOK(req[h])
      /\ Idle \in Requests /\ RequestOK(Idle)
  BY RequestsTyped, IdleOK DEF IInv
<1>b. req[h].basket = 0 \/ req[h].basket \in 1..baskets
  BY DEF IInv, RequestOK
<1>2. PICK r \in Requests :
        /\ req' = [req EXCEPT ![h] = r]
        /\ \/ CompleteVerified(h) /\ r = Idle
           \/ ApplyCapture(h) /\ r = [req[h] EXCEPT !.pc = "mark"]
           \/ FailAttempt(h) /\ r = Idle
           \/ ApplyFailure(h) /\ r = [req[h] EXCEPT !.pc = "mark"]
  BY RequestsTyped
  DEF CompleteVerified, ApplyCapture, FailAttempt, ApplyFailure, Finish, Continue, Steps,
      IInv, TypeOK
<1>3. UNCHANGED <<baskets, captured, sent, hook, lost>> /\ req' \in [Handlers -> Requests]
  BY <1>2 DEF CompleteVerified, ApplyCapture, FailAttempt, ApplyFailure, gateway, IInv, TypeOK
<1>4. RequestOK(Idle)'
  BY DEF RequestOK, Idle
<1>5. ASSUME TypeOK', Tables', Steady, RequestOK(r)'
      PROVE  IInv'
  BY <1>2, <1>5, RequestsKept DEF IInv
<1>6. CASE CompleteVerified(h)
  <2>1. PICK k \in captured : k = req[h].key
    BY <1>1, <1>6 DEF CompleteVerified, At, RequestOK
  <2>2. r = Idle
    BY <1>1, <1>2, <1>6 DEF CompleteVerified, ApplyCapture, FailAttempt, ApplyFailure, At
  <2>3. CASE CompletePayment(k)
    BY <1>3, <1>4, <1>5, <2>2, <2>3, CompleteEffect
  <2>4. CASE UNCHANGED <<pay, ord, cart>>
    <3>1. lost' \in 0..MaxLost
      BY <1>3 DEF IInv, TypeOK
    <3> QED
      BY <1>1, <1>2, <1>3, <2>2, <2>4, <3>1, OnlyRequest
  <2> QED
    BY <1>6, <2>1, <2>3, <2>4 DEF CompleteVerified
<1>7. CASE ApplyCapture(h)
  <2>1. r = [req[h] EXCEPT !.pc = "mark"]
    BY <1>1, <1>2, <1>7 DEF CompleteVerified, ApplyCapture, FailAttempt, ApplyFailure, At
  <2>2. PICK e \in Events : e = req[h].ev /\ e.of \in Keys /\ e.of \in captured
    BY <1>1, <1>7 DEF ApplyCapture, At, RequestOK, TrueEvent, Known
  <2>3. TypeOK' /\ Tables' /\ Steady /\ pay'[e.of].st = "SUCCESS"
    BY <1>3, <1>7, <2>2, CompleteEffect DEF ApplyCapture
  <2>4. r.pc = "mark" /\ r.ev = e /\ r.basket = req[h].basket
    BY <1>1, <2>1, <2>2 DEF Requests
  <2>5. RequestOK(r)'
    BY <1>b, <1>3, <2>2, <2>3, <2>4 DEF RequestOK, TrueEvent, Applied
  <2> QED
    BY <1>5, <2>3, <2>5
<1>8. CASE FailAttempt(h)
  <2>1. r = Idle
    BY <1>1, <1>2, <1>8 DEF CompleteVerified, ApplyCapture, FailAttempt, ApplyFailure, At
  <2>2. PICK k \in Keys : k = req[h].key /\ Exists(k)
    BY <1>1, <1>8 DEF FailAttempt, At, RequestOK
  <2> QED
    BY <1>3, <1>4, <1>5, <1>8, <2>1, <2>2, FailEffect DEF FailAttempt
<1>9. CASE ApplyFailure(h)
  <2>1. r = [req[h] EXCEPT !.pc = "mark"]
    BY <1>1, <1>2, <1>9 DEF CompleteVerified, ApplyCapture, FailAttempt, ApplyFailure, At
  <2>2. PICK e \in Events : /\ e = req[h].ev /\ e.of \in Keys /\ Exists(e.of)
                            /\ e.kind = "payment.failed" /\ TrueEvent(e)
    BY <1>1, <1>9 DEF ApplyFailure, At, RequestOK, TrueEvent, Known, IInv, Tables, CapturesKnown
  <2>3. TypeOK' /\ Tables' /\ Steady
    BY <1>3, <1>9, <2>2, FailEffect DEF ApplyFailure
  <2>4. r.pc = "mark" /\ r.ev = e /\ r.basket = req[h].basket
    BY <1>1, <2>1, <2>2 DEF Requests
  <2>5. e.kind \notin CaptureKinds
    BY <2>2 DEF CaptureKinds
  <2>6. RequestOK(r)'
    BY <1>b, <1>3, <2>2, <2>4, <2>5 DEF RequestOK, TrueEvent, Applied
  <2> QED
    BY <1>5, <2>3, <2>6
<1> QED
  BY <1>6, <1>7, <1>8, <1>9

\* The customer reports a failure.
LEMMA RecordFailureInv ==
  ASSUME IInv, NEW k \in Keys, RecordFailure(k)
  PROVE  IInv'
<1>1. /\ Exists(k) /\ FailPayment(k)
      /\ UNCHANGED <<baskets, captured, sent, hook, lost, req>>
      /\ req' \in [Handlers -> Requests]
  BY DEF RecordFailure, Unused, Exists, gateway, IInv, TypeOK
<1>2. TypeOK' /\ Tables' /\ Steady
  BY <1>1, FailEffect
<1> QED
  BY <1>1, <1>2, RequestsStill DEF IInv

\* The gateway only takes more money and says so.
LEMMA GatewaySteps ==
  ASSUME IInv,
         \/ \E k \in Keys : Capture(k) \/ Decline(k)
         \/ \E e \in Events : ForeignEvent(e)
  PROVE  IInv'
<1>1. /\ UNCHANGED <<cart, baskets, pay, ord, req, hook, lost>>
      /\ captured \subseteq captured' /\ captured' \subseteq Keys
      /\ \A k \in captured' : pay[k].gw
  BY DEF Capture, Decline, ForeignEvent, IInv, TypeOK, Tables, CapturesKnown
<1>2. /\ sent' \subseteq Events
      /\ \A e \in sent' \ sent : e.kind \in CaptureKinds /\ e.of \in Keys => e.of \in captured'
  <2>1. ASSUME NEW k \in Keys, Capture(k) PROVE <1>2!1 /\ <1>2!2
    BY <2>1 DEF Capture, IInv, TypeOK, Events, CaptureKinds
  <2>2. ASSUME NEW k \in Keys, Decline(k) PROVE <1>2!1 /\ <1>2!2
    BY <2>2 DEF Decline, IInv, TypeOK, Events, CaptureKinds
  <2>3. ASSUME NEW e \in Events, ForeignEvent(e) PROVE <1>2!1 /\ <1>2!2
    BY <2>3, ForeignAssumption DEF ForeignEvent, IInv, TypeOK
  <2> QED
    BY <2>1, <2>2, <2>3
<1>3. Steady
  BY <1>1 DEF Steady, Exists, HasSuccess
<1>4. TypeOK'
  BY <1>1, <1>2 DEF IInv, TypeOK
<1>5. (\A e \in sent : TrueEvent(e))'
  BY <1>1, <1>2 DEF IInv, Tables, TrueEvent
<1>6. Tables'
  BY <1>1, <1>5
  DEF IInv, Tables, PaymentsFounded, CapturesKnown, PaidMeansCaptured, SettledOnce,
      OrderPaidHasPayment, ProcessedMeansApplied, CodFillingsGone, CartIsLatest, CodOncePerFilling,
      Exists, Founder, HasSuccess
<1> QED
  BY <1>1, <1>3, <1>4, <1>6, RequestsStill DEF IInv

\* Filling and emptying the cart.
LEMMA CartSteps ==
  ASSUME IInv, AddItems \/ ClearCart
  PROVE  IInv'
<1>1. UNCHANGED <<pay, ord, req, captured, sent, hook, lost>>
  BY DEF AddItems, ClearCart, gateway
<1>2. /\ baskets \in 0..MaxBaskets /\ baskets' \in baskets..MaxBaskets
      /\ cart' = 0 \/ (cart' = baskets + 1 /\ cart' = baskets')
  BY BoundsAssumption DEF AddItems, ClearCart, IInv, TypeOK
<1>3. TypeOK'
  BY <1>1, <1>2, BoundsAssumption DEF IInv, TypeOK
<1>4. CartIsLatest' /\ CodFillingsGone'
  BY <1>1, <1>2, BoundsAssumption DEF IInv, Tables, CodFillingsGone, CartIsLatest, Exists
<1>5. Tables'
  BY <1>1, <1>4
  DEF IInv, Tables, PaymentsFounded, CapturesKnown, PaidMeansCaptured, SettledOnce,
      OrderPaidHasPayment, ProcessedMeansApplied, CodOncePerFilling,
      Exists, Founder, HasSuccess, TrueEvent
<1>6. Steady
  <2>1. 1..baskets \subseteq 1..baskets'
    BY <1>2, BoundsAssumption
  <2> QED
    BY <1>1, <2>1 DEF Steady, Exists, HasSuccess
<1> QED
  BY <1>1, <1>3, <1>5, <1>6, RequestsStill DEF IInv

\* The steps that write only the webhook events table.
LEMMA WebhookSteps ==
  ASSUME IInv, NEW h \in Handlers,
         SaveWebhook(h) \/ IgnoreWebhook(h) \/ MarkProcessed(h)
  PROVE  IInv'
<1>1. /\ req[h] \in Requests /\ RequestOK(req[h])
      /\ Idle \in Requests /\ RequestOK(Idle)
      /\ [req[h] EXCEPT !.pc = "dispatch"] \in Requests
  BY RequestsTyped, IdleOK DEF IInv, Steps
<1>2. UNCHANGED <<cart, baskets, pay, ord, captured, sent, lost>>
  BY DEF SaveWebhook, IgnoreWebhook, MarkProcessed, gateway
<1>3. PICK e \in Events : e = req[h].ev /\ TrueEvent(e)
  BY <1>1 DEF SaveWebhook, IgnoreWebhook, MarkProcessed, At, RequestOK, TrueEvent
<1>4. PICK r \in Requests : /\ req' = [req EXCEPT ![h] = r]
                            /\ r = Idle \/ (r = [req[h] EXCEPT !.pc = "dispatch"] /\ At(h, "store"))
  BY <1>1 DEF SaveWebhook, IgnoreWebhook, MarkProcessed, Finish, Continue, IInv, TypeOK
<1>5. RequestOK(r)
  <2>1. CASE r = Idle
    BY <1>1, <2>1
  <2>2. CASE r = [req[h] EXCEPT !.pc = "dispatch"]
    <3>1. r.pc = "dispatch" /\ r.ev = e /\ r.basket = req[h].basket
      BY <1>1, <1>3, <2>2 DEF Requests
    <3> QED
      BY <1>1, <1>3, <3>1 DEF RequestOK
  <2> QED
    BY <1>4, <2>1, <2>2
<1>6. /\ hook' \in [Events -> {"none", "new", "processed", "ignored"}]
      /\ \A f \in Events : hook'[f] = "processed" =>
           hook[f] = "processed" \/ (f = e /\ At(h, "mark"))
  BY <1>3 DEF SaveWebhook, IgnoreWebhook, MarkProcessed, IInv, TypeOK
<1>7. At(h, "mark") => Applied(e)
  BY <1>1, <1>3 DEF At, RequestOK
<1>8. ProcessedMeansApplied'
  BY <1>2, <1>6, <1>7 DEF IInv, Tables, ProcessedMeansApplied, Applied
<1>9. TypeOK'
  BY <1>2, <1>4, <1>6 DEF IInv, TypeOK
<1>10. Steady /\ RequestOK(r)'
  BY <1>2, <1>5
  DEF Steady, RequestOK, Exists, Founder, HasSuccess, TrueEvent, Applied
<1>11. Tables'
  BY <1>2, <1>8
  DEF IInv, Tables, PaymentsFounded, CapturesKnown, PaidMeansCaptured, SettledOnce,
      OrderPaidHasPayment, CodFillingsGone, CartIsLatest, CodOncePerFilling,
      Exists, Founder, HasSuccess, TrueEvent
<1> QED
  BY <1>4, <1>9, <1>10, <1>11, RequestsKept DEF IInv

\* A stuttering step keeps the invariant.
LEMMA StutterInv == IInv /\ UNCHANGED vars => IInv'
BY DEF vars, IInv, Tables, TypeOK, PaymentsFounded, CapturesKnown, PaidMeansCaptured,
    SettledOnce, OrderPaidHasPayment, RequestOK, ProcessedMeansApplied, CodFillingsGone, CartIsLatest,
    CodOncePerFilling, Exists, Founder, HasSuccess, TrueEvent, Applied

\* Every step of a started handler keeps the invariant.
LEMMA StepInv ==
  ASSUME IInv, NEW h \in Handlers, Step(h)
  PROVE  IInv'
BY LocalSteps, NewOrderSteps, SaveGatewayOrderInv, SettlingSteps, CommitRetryInv, WebhookSteps
DEF Step, WebhookStep

\* Every step keeps the invariant.
LEMMA NextInv == IInv /\ [Next]_vars => IInv'
<1> SUFFICES ASSUME IInv, [Next]_vars PROVE IInv'
  OBVIOUS
<1>1. ASSUME NEW h \in Handlers,
             \/ \E k \in Keys : RequestOnline(h, k) \/ RequestCod(h, k) \/ RequestVerify(h, k)
             \/ \E failed, k \in Keys : RequestRetry(h, failed, k)
             \/ \E e \in Events : ReceiveWebhook(h, e)
             \/ LoseRequest(h)
      PROVE  IInv'
  BY <1>1, LocalSteps
<1>2. ASSUME NEW h \in Handlers, Step(h) PROVE IInv'
  BY <1>2, StepInv
<1>3. CASE UNCHANGED vars
  BY <1>3, StutterInv
<1>4. CASE AddItems \/ ClearCart
  BY <1>4, CartSteps
<1>5. ASSUME NEW k \in Keys, RecordFailure(k) PROVE IInv'
  BY <1>5, RecordFailureInv
<1>6. CASE \/ \E k \in Keys : Capture(k) \/ Decline(k)
           \/ \E e \in Events : ForeignEvent(e)
  BY <1>6, GatewaySteps
<1> QED
  BY <1>1, <1>2, <1>3, <1>4, <1>5, <1>6
  DEF Next, PaymentRequest, OrderRequest, CodRequest

\* The inductive invariant holds of every reachable state of the payments,
\* orders, requests and webhook events.
THEOREM Invariance == Spec => []IInv
BY InitIInv, NextInv, PTL DEF Spec

-----------------------------------------------------------------------------

\* Every variable of the payment service keeps its type.
THEOREM TypeCorrect == Spec => []TypeOK
<1>1. IInv => TypeOK
  BY DEF IInv
<1> QED
  BY <1>1, Invariance, PTL

\* No order is ever settled by two payments (completePayment, retry).
THEOREM AtMostOneSettlement == Spec => []SettledOnce
<1>1. IInv => SettledOnce
  BY DEF IInv, Tables
<1> QED
  BY <1>1, Invariance, PTL

\* A successful payment is one whose money the gateway captured.
THEOREM PaidWasCaptured == Spec => []PaidMeansCaptured
<1>1. IInv => PaidMeansCaptured
  BY DEF IInv, Tables
<1> QED
  BY <1>1, Invariance, PTL

\* An order shown as paid was paid by one of its payments.
THEOREM PaidOrderHasPayment == Spec => []OrderPaidHasPayment
<1>1. IInv => OrderPaidHasPayment
  BY DEF IInv, Tables
<1> QED
  BY <1>1, Invariance, PTL

\* Every paid order rests on a payment, and every payment on captured money.
THEOREM NothingPaidUnpaid == Spec => []PaidForReal
BY PaidWasCaptured, PaidOrderHasPayment, PTL DEF PaidForReal

\* Money and orders agree: an order is settled once, and only for real.
THEOREM MoneyAlwaysSound == Spec => []MoneySound
BY AtMostOneSettlement, NothingPaidUnpaid, PTL DEF MoneySound

\* A processed capture event stays applied.
THEOREM ProcessedStaysApplied == Spec => []ProcessedMeansApplied
<1>1. IInv => ProcessedMeansApplied
  BY DEF IInv, Tables
<1> QED
  BY <1>1, Invariance, PTL

\* One filling of the cart makes at most one cash-on-delivery order.
THEOREM OneCodOrderPerFilling == Spec => []CodOncePerFilling
<1>1. IInv => CodOncePerFilling
  BY DEF IInv, Tables
<1> QED
  BY <1>1, Invariance, PTL

-----------------------------------------------------------------------------

(***************************************************************************)
(* What a step can do to the payments: nothing, add one for an unpaid     *)
(* order, store a gateway order, settle one or fail one.                  *)
(***************************************************************************)
Added(k) ==
  \E p \in Payments :
    /\ Unused(k) /\ pay' = [pay EXCEPT ![k] = p]
    /\ p.st \in {"PROCESSING", "PENDING"}
    /\ p.order \in Keys /\ ~HasSuccess(p.order)

Stored(k) ==
  /\ pay[k].st = "PROCESSING"
  /\ pay' = [pay EXCEPT ![k].st = "PENDING", ![k].gw = TRUE]

Settled(k) ==
  /\ k \in captured /\ ~HasSuccess(pay[k].order)
  /\ pay' = [pay EXCEPT ![k].st = "SUCCESS"]

Failed(k) ==
  /\ pay[k].st \notin {"none", "SUCCESS"}
  /\ pay' = [pay EXCEPT ![k].st = "FAILED"]

PaymentEffect ==
  \/ UNCHANGED pay
  \/ \E k \in Keys : Added(k) \/ Stored(k) \/ Settled(k) \/ Failed(k)

\* A transaction that inserts a payment is the effect Added.
LEMMA AddedEffect ==
  ASSUME IInv, NEW h \in Handlers, CreateAttempt(h) \/ PlaceCodOrder(h) \/ CommitRetry(h)
  PROVE  PaymentEffect
<1>1. RequestOK(req[h])
  BY DEF IInv
<1>2. PICK k \in Keys : k = req[h].key /\ Unused(k)
  BY <1>1 DEF CreateAttempt, PlaceCodOrder, CommitRetry, At, RequestOK
<1>3. CASE CreateAttempt(h) \/ PlaceCodOrder(h)
  <2>1. PICK m \in {"ONLINE", "COD"}, s \in {"PROCESSING", "PENDING"} :
          pay' = [pay EXCEPT ![k] = [st |-> s, method |-> m, order |-> k, gw |-> FALSE]]
    BY <1>2, <1>3 DEF CreateAttempt, PlaceCodOrder
  <2>2. ~HasSuccess(k)
    <3> SUFFICES ASSUME NEW j \in Keys, pay[j].order = k, pay[j].st = "SUCCESS"
                 PROVE  FALSE
      BY DEF HasSuccess
    <3> QED
      BY <1>2 DEF IInv, Tables, PaymentsFounded, Founder, Exists, Unused
  <2>3. [st |-> s, method |-> m, order |-> k, gw |-> FALSE] \in Payments
    BY DEF Payments, PaymentStatus
  <2>4. Added(k)
    BY <1>2, <2>1, <2>2, <2>3 DEF Added
  <2> QED
    BY <2>4 DEF PaymentEffect
<1>4. CASE CommitRetry(h)
  <2>1. PICK o \in Keys : o = req[h].order /\ ~HasSuccess(o)
    BY <1>1, <1>4 DEF CommitRetry, At, RequestOK, Founder
  <2> DEFINE p == [st |-> "PROCESSING", method |-> "ONLINE", order |-> o, gw |-> FALSE]
  <2>2. p \in Payments
    BY DEF Payments, PaymentStatus
  <2>3. pay' = [pay EXCEPT ![k] = p]
    BY <1>2, <1>4, <2>1 DEF CommitRetry
  <2>4. p.st = "PROCESSING" /\ p.order = o
    OBVIOUS
  <2> HIDE DEF p
  <2>5. Added(k)
    BY <1>2, <2>1, <2>2, <2>3, <2>4 DEF Added
  <2> QED
    BY <2>5 DEF PaymentEffect
<1> QED
  BY <1>3, <1>4

\* completePayment on captured money settles a payment or changes nothing.
LEMMA CompletedEffect ==
  ASSUME IInv, NEW k \in captured, CompletePayment(k)
  PROVE  PaymentEffect
BY DEF CompletePayment, PaymentEffect, Settled, IInv, TypeOK

\* failPayment fails a payment or changes nothing.
LEMMA FailedEffect ==
  ASSUME IInv, NEW k \in Keys, Exists(k), FailPayment(k)
  PROVE  PaymentEffect
BY DEF FailPayment, PaymentEffect, Failed, Exists

\* A started handler has one of the effects on the payments.
LEMMA StepEffect ==
  ASSUME IInv, NEW h \in Handlers, Step(h)
  PROVE  PaymentEffect
<1>1. RequestOK(req[h])
  BY DEF IInv
<1>2. CASE CreateAttempt(h) \/ PlaceCodOrder(h) \/ CommitRetry(h)
  BY <1>2, AddedEffect
<1>3. CASE SaveGatewayOrder(h)
  <2>1. req[h].key \in Keys
    BY <1>1, <1>3 DEF SaveGatewayOrder, At, RequestOK
  <2> QED
    BY <1>3, <2>1 DEF SaveGatewayOrder, PaymentEffect, Stored
<1>4. CASE CompleteVerified(h)
  <2>1. req[h].key \in captured
    BY <1>1, <1>4 DEF CompleteVerified, At, RequestOK
  <2>2. CASE CompletePayment(req[h].key)
    BY <2>1, <2>2, CompletedEffect
  <2>3. CASE UNCHANGED <<pay, ord, cart>>
    BY <2>3 DEF PaymentEffect
  <2> QED
    BY <1>4, <2>2, <2>3 DEF CompleteVerified
<1>5. CASE ApplyCapture(h)
  <2>1. req[h].ev.of \in captured /\ CompletePayment(req[h].ev.of)
    BY <1>1, <1>5 DEF ApplyCapture, At, Known, RequestOK, TrueEvent
  <2> QED
    BY <2>1, CompletedEffect
<1>6. CASE FailAttempt(h)
  <2>1. req[h].key \in Keys /\ Exists(req[h].key) /\ FailPayment(req[h].key)
    BY <1>1, <1>6 DEF FailAttempt, At, RequestOK
  <2> QED
    BY <2>1, FailedEffect
<1>7. CASE ApplyFailure(h)
  <2>1. req[h].ev.of \in Keys /\ Exists(req[h].ev.of) /\ FailPayment(req[h].ev.of)
    BY <1>7 DEF ApplyFailure, Known, IInv, Tables, CapturesKnown
  <2> QED
    BY <2>1, FailedEffect
<1>8. CASE \/ ReadItems(h) \/ RefuseCheckout(h) \/ GatewayAccepts(h) \/ GatewayRejects(h) \/ LockForRetry(h)
           \/ RefuseRetry(h) \/ RetryKeyTaken(h) \/ FetchPayment(h) \/ SaveWebhook(h)
           \/ IgnoreWebhook(h) \/ CaptureConflicts(h) \/ MarkProcessed(h)
  BY <1>8
  DEF ReadItems, RefuseCheckout, GatewayAccepts, GatewayRejects, LockForRetry, RefuseRetry,
      RetryKeyTaken, FetchPayment, SaveWebhook, IgnoreWebhook, CaptureConflicts, MarkProcessed, PaymentEffect
<1> QED
  BY <1>2, <1>3, <1>4, <1>5, <1>6, <1>7, <1>8 DEF Step, WebhookStep

\* Every step does one of these, and money is captured only by a step that
\* leaves the payments alone.
LEMMA NextEffect ==
  ASSUME IInv, [Next]_vars
  PROVE  /\ PaymentEffect
         /\ \/ UNCHANGED captured
            \/ UNCHANGED pay /\ \E k \in Keys : Capture(k)
<1>1. ASSUME NEW h \in Handlers, Step(h) PROVE PaymentEffect /\ UNCHANGED captured
  <2>1. UNCHANGED captured
    BY <1>1
    DEF Step, WebhookStep, ReadItems, CreateAttempt, RefuseCheckout, PlaceCodOrder, GatewayAccepts, GatewayRejects,
        SaveGatewayOrder, FailAttempt, LockForRetry, RefuseRetry, CommitRetry, RetryKeyTaken,
        FetchPayment, CompleteVerified, SaveWebhook, IgnoreWebhook, ApplyCapture,
        CaptureConflicts, ApplyFailure, MarkProcessed, gateway
  <2> QED
    BY <1>1, <2>1, StepEffect
<1>2. ASSUME NEW k \in Keys, RecordFailure(k) PROVE PaymentEffect /\ UNCHANGED captured
  BY <1>2, FailedEffect DEF RecordFailure, Unused, Exists, gateway
<1>3. ASSUME NEW h \in Handlers,
             \/ \E k \in Keys : RequestOnline(h, k) \/ RequestCod(h, k) \/ RequestVerify(h, k)
             \/ \E failed, k \in Keys : RequestRetry(h, failed, k)
             \/ \E e \in Events : ReceiveWebhook(h, e)
             \/ LoseRequest(h)
      PROVE  PaymentEffect /\ UNCHANGED captured
  BY <1>3
  DEF RequestOnline, RequestCod, RequestVerify, RequestRetry, ReceiveWebhook, LoseRequest,
      PaymentEffect, gateway
<1>4. CASE AddItems \/ ClearCart \/ UNCHANGED vars
  BY <1>4 DEF AddItems, ClearCart, vars, PaymentEffect, gateway
<1>5. CASE \/ \E k \in Keys : Decline(k)
           \/ \E e \in Events : ForeignEvent(e)
  BY <1>5 DEF Decline, ForeignEvent, PaymentEffect
<1>6. CASE \E k \in Keys : Capture(k)
  BY <1>6 DEF Capture, PaymentEffect
<1> QED
  BY <1>1, <1>2, <1>3, <1>4, <1>5, <1>6
  DEF Next, PaymentRequest, OrderRequest, CodRequest

\* Payment statuses only move forward (createGatewayOrder, completePayment,
\* failPayment).
THEOREM ForwardOnly == Spec => LegalMoves
<1>1. ASSUME IInv, [Next]_vars
      PROVE  [\A k \in Keys : LegalMove(pay[k].st, pay'[k].st)]_vars
  <2>1. PaymentEffect /\ pay \in [Keys -> Payments]
    BY <1>1, NextEffect DEF IInv, TypeOK
  <2>2. ASSUME NEW k \in Keys, Added(k) \/ Stored(k) \/ Settled(k) \/ Failed(k)
        PROVE  \A j \in Keys : LegalMove(pay[j].st, pay'[j].st)
    <3> SUFFICES ASSUME NEW j \in Keys PROVE LegalMove(pay[j].st, pay'[j].st)
      OBVIOUS
    <3>1. CASE j # k
      BY <2>1, <2>2, <3>1 DEF Added, Stored, Settled, Failed, LegalMove
    <3>2. CASE j = k /\ Added(k)
      BY <2>1, <3>2 DEF Added, Unused, LegalMove
    <3>3. CASE j = k /\ Stored(k)
      BY <2>1, <3>3 DEF Stored, LegalMove, Payments
    <3>4. CASE j = k /\ Settled(k)
      <4>1. pay'[k].st = "SUCCESS"
        BY <2>1, <3>4 DEF Settled, Payments
      <4>2. pay[k].st \in {"PENDING", "FAILED", "SUCCESS"}
        BY <1>1, <2>1, <3>4
        DEF Settled, IInv, Tables, CapturesKnown, Exists, Payments, PaymentStatus
      <4> QED
        BY <3>4, <4>1, <4>2 DEF LegalMove
    <3>5. CASE j = k /\ Failed(k)
      <4>1. pay'[k].st = "FAILED"
        BY <2>1, <3>5 DEF Failed, Payments
      <4>2. pay[k].st \in {"PROCESSING", "PENDING", "FAILED"}
        BY <2>1, <3>5 DEF Failed, Payments, PaymentStatus
      <4> QED
        BY <3>5, <4>1, <4>2 DEF LegalMove
    <3> QED
      BY <2>2, <3>1, <3>2, <3>3, <3>4, <3>5
  <2>3. CASE UNCHANGED pay
    BY <2>3 DEF LegalMove
  <2> QED
    BY <2>1, <2>2, <2>3 DEF PaymentEffect
<1> QED
  BY <1>1, Invariance, PTL DEF Spec, LegalMoves

\* No attempt is ever opened on a paid order (createDeliveryAttempt, retry).
THEOREM PaidOrdersClosed == Spec => NoAttemptOnPaidOrder
<1>1. ASSUME IInv, [Next]_vars
      PROVE  [\A k \in Keys : Unused(k) /\ pay'[k].st # "none"
                                => ~HasSuccess(pay'[k].order)]_vars
  <2>1. PaymentEffect /\ pay \in [Keys -> Payments]
    BY <1>1, NextEffect DEF IInv, TypeOK
  <2> SUFFICES ASSUME NEW j \in Keys, Unused(j), pay'[j].st # "none"
               PROVE  ~HasSuccess(pay'[j].order)
    OBVIOUS
  <2>2. PICK k \in Keys : Added(k) \/ Stored(k) \/ Settled(k) \/ Failed(k)
    BY <2>1 DEF PaymentEffect, Unused
  <2>3. j = k
    BY <2>1, <2>2 DEF Added, Stored, Settled, Failed, Unused
  <2>4. Added(k)
    BY <1>1, <2>2, <2>3
    DEF Stored, Settled, Failed, Unused, IInv, Tables, CapturesKnown, Exists
  <2> QED
    BY <2>1, <2>3, <2>4 DEF Added
<1> QED
  BY <1>1, Invariance, PTL DEF Spec, NoAttemptOnPaidOrder

\* Attempts only go forward, and none is opened on a paid order.
THEOREM AttemptsAlwaysSound == Spec => AttemptsSound
BY ForwardOnly, PaidOrdersClosed, PTL DEF AttemptsSound

-----------------------------------------------------------------------------

(***************************************************************************)
(* Orders that lose their payment status: what completePayment writes is  *)
(* undone by failPayment of another attempt of the order, and by nothing  *)
(* else.                                                                  *)
(***************************************************************************)
NoneSettles == \A k \in Keys : pay'[k].st = "SUCCESS" => pay[k].st = "SUCCESS"

OrderEffect ==
  \/ UNCHANGED ord /\ NoneSettles
  \/ \E k \in Keys :
       /\ ~HasSuccess(k) /\ NoneSettles
       /\ \E h \in Handlers : ord' = [ord EXCEPT ![k] = OrderOfCart(h)]
  \/ \E k \in Keys : Settled(k) /\ ord' = [ord EXCEPT ![pay[k].order].st = "SUCCESS"]
  \/ \E k \in Keys : Failed(k) /\ FailPayment(k)

LEMMA CompletedOrder ==
  ASSUME IInv, NEW k \in captured, CompletePayment(k)
  PROVE  OrderEffect
<1>1. CASE UNCHANGED <<pay, ord, cart>>
  BY <1>1 DEF OrderEffect, NoneSettles
<1>2. CASE /\ ~HasSuccess(pay[k].order)
           /\ pay' = [pay EXCEPT ![k].st = "SUCCESS"]
           /\ ord' = [ord EXCEPT ![pay[k].order].st = "SUCCESS"]
  BY <1>2 DEF OrderEffect, Settled, IInv, TypeOK
<1> QED
  BY <1>1, <1>2 DEF CompletePayment

LEMMA FailedOrder ==
  ASSUME IInv, NEW k \in Keys, Exists(k), FailPayment(k)
  PROVE  OrderEffect
<1>1. CASE pay[k].st = "SUCCESS"
  BY <1>1 DEF FailPayment, OrderEffect, NoneSettles
<1>2. CASE pay[k].st # "SUCCESS"
  BY <1>2 DEF FailPayment, OrderEffect, Failed, Exists
<1> QED
  BY <1>1, <1>2

LEMMA PlacedOrder ==
  ASSUME IInv, NEW h \in Handlers, CreateAttempt(h) \/ PlaceCodOrder(h)
  PROVE  OrderEffect
<1>1. PICK k \in Keys : k = req[h].key /\ Unused(k)
  BY DEF CreateAttempt, PlaceCodOrder, At, RequestOK, IInv
<1>2. ~HasSuccess(k)
  BY <1>1 DEF HasSuccess, IInv, Tables, PaymentsFounded, Founder, Exists, Unused
<1>3. ord' = [ord EXCEPT ![k] = OrderOfCart(h)]
  BY <1>1 DEF CreateAttempt, PlaceCodOrder
<1>4. PICK m \in {"ONLINE", "COD"}, s \in {"PROCESSING", "PENDING"} :
        pay' = [pay EXCEPT ![k] = [st |-> s, method |-> m, order |-> k, gw |-> FALSE]]
  BY <1>1 DEF CreateAttempt, PlaceCodOrder
<1>5. NoneSettles
  BY <1>1, <1>4 DEF NoneSettles, IInv, TypeOK
<1> QED
  BY <1>2, <1>3, <1>5 DEF OrderEffect

LEMMA StepOrders ==
  ASSUME IInv, NEW h \in Handlers, Step(h)
  PROVE  OrderEffect
<1>1. RequestOK(req[h])
  BY DEF IInv
<1>2. CASE CreateAttempt(h) \/ PlaceCodOrder(h)
  BY <1>2, PlacedOrder
<1>3. CASE CommitRetry(h)
  <2>1. PICK k : k = req[h].key
    OBVIOUS
  <2>2. UNCHANGED ord /\ Unused(k) /\ \E o : pay' =
          [pay EXCEPT ![k] = [st |-> "PROCESSING", method |-> "ONLINE", order |-> o, gw |-> FALSE]]
    BY <1>3, <2>1 DEF CommitRetry
  <2>3. NoneSettles
    BY <2>2 DEF NoneSettles, IInv, TypeOK
  <2> QED
    BY <2>2, <2>3 DEF OrderEffect
<1>4. CASE SaveGatewayOrder(h)
  <2>1. UNCHANGED ord /\ (UNCHANGED pay \/ Stored(req[h].key))
    BY <1>4 DEF SaveGatewayOrder, Stored
  <2>2. CASE UNCHANGED pay
    BY <2>1, <2>2 DEF OrderEffect, NoneSettles
  <2>3. CASE Stored(req[h].key)
    <3>1. PICK k : k = req[h].key
      OBVIOUS
    <3>2. pay' = [pay EXCEPT ![k].st = "PENDING", ![k].gw = TRUE]
      BY <2>3, <3>1 DEF Stored
    <3>3. pay \in [Keys -> Payments]
      BY DEF IInv, TypeOK
    <3>4. ASSUME NEW j \in Keys, pay'[j].st = "SUCCESS" PROVE pay[j].st = "SUCCESS"
      <4>1. CASE j = k
        <5>1. pay'[j].st = "PENDING"
          BY <3>2, <3>3, <4>1 DEF Payments
        <5> QED
          BY <3>4, <5>1
      <4>2. CASE j # k
        BY <3>2, <3>3, <3>4, <4>2
      <4> QED
        BY <4>1, <4>2
    <3> QED
      BY <2>1, <3>4 DEF OrderEffect, NoneSettles
  <2> QED
    BY <2>1, <2>2, <2>3
<1>5. CASE CompleteVerified(h)
  <2>1. req[h].key \in captured
    BY <1>1, <1>5 DEF CompleteVerified, At, RequestOK
  <2>2. CASE CompletePayment(req[h].key)
    BY <2>1, <2>2, CompletedOrder
  <2>3. CASE UNCHANGED <<pay, ord, cart>>
    BY <2>3 DEF OrderEffect, NoneSettles
  <2> QED
    BY <1>5, <2>2, <2>3 DEF CompleteVerified
<1>6. CASE ApplyCapture(h)
  <2>1. req[h].ev.of \in captured /\ CompletePayment(req[h].ev.of)
    BY <1>1, <1>6 DEF ApplyCapture, At, Known, RequestOK, TrueEvent
  <2> QED
    BY <2>1, CompletedOrder
<1>7. CASE FailAttempt(h)
  <2>1. req[h].key \in Keys /\ Exists(req[h].key) /\ FailPayment(req[h].key)
    BY <1>1, <1>7 DEF FailAttempt, At, RequestOK
  <2> QED
    BY <2>1, FailedOrder
<1>8. CASE ApplyFailure(h)
  <2>1. req[h].ev.of \in Keys /\ Exists(req[h].ev.of) /\ FailPayment(req[h].ev.of)
    BY <1>8 DEF ApplyFailure, Known, IInv, Tables, CapturesKnown
  <2> QED
    BY <2>1, FailedOrder
<1>9. CASE \/ ReadItems(h) \/ RefuseCheckout(h) \/ GatewayAccepts(h) \/ GatewayRejects(h) \/ LockForRetry(h)
           \/ RefuseRetry(h) \/ RetryKeyTaken(h) \/ FetchPayment(h) \/ SaveWebhook(h)
           \/ IgnoreWebhook(h) \/ CaptureConflicts(h) \/ MarkProcessed(h)
  <2>1. UNCHANGED <<pay, ord>>
    BY <1>9
    DEF ReadItems, RefuseCheckout, GatewayAccepts, GatewayRejects, LockForRetry, RefuseRetry,
        RetryKeyTaken, FetchPayment, SaveWebhook, IgnoreWebhook, CaptureConflicts, MarkProcessed
  <2> QED
    BY <2>1 DEF OrderEffect, NoneSettles
<1> QED
  BY <1>2, <1>3, <1>4, <1>5, <1>6, <1>7, <1>8, <1>9 DEF Step, WebhookStep

LEMMA NextOrders ==
  ASSUME IInv, [Next]_vars
  PROVE  OrderEffect
<1>1. ASSUME NEW k \in Keys, RecordFailure(k) PROVE OrderEffect
  BY <1>1, FailedOrder DEF RecordFailure, Unused, Exists
<1>2. CASE \/ \E h \in Handlers, k \in Keys :
                RequestOnline(h, k) \/ RequestCod(h, k) \/ RequestVerify(h, k)
           \/ \E h \in Handlers, failed, k \in Keys : RequestRetry(h, failed, k)
           \/ \E h \in Handlers, e \in Events : ReceiveWebhook(h, e)
           \/ \E h \in Handlers : LoseRequest(h)
           \/ AddItems \/ ClearCart \/ UNCHANGED vars
           \/ \E k \in Keys : Capture(k) \/ Decline(k)
           \/ \E e \in Events : ForeignEvent(e)
  <2>1. UNCHANGED <<pay, ord>>
    BY <1>2
    DEF RequestOnline, RequestCod, RequestVerify, RequestRetry, ReceiveWebhook, LoseRequest,
        AddItems, ClearCart, Capture, Decline, ForeignEvent, vars
  <2> QED
    BY <2>1 DEF OrderEffect, NoneSettles
<1> QED
  BY <1>1, <1>2, StepOrders DEF Next, PaymentRequest, OrderRequest, CodRequest

\* The order of a successful payment changes only where another attempt of it
\* is recorded as failed.
THEOREM OnlyFailuresUnpay == Spec => UnpaidByFailureOnly
<1>1. ASSUME IInv, [Next]_vars
      PROVE  [\A o \in Keys : HasSuccess(o) /\ ord'[o] # ord[o] =>
                \E k \in Keys : pay[k].order = o /\ pay[k].st # "SUCCESS" /\ FailPayment(k)]_vars
  <2> SUFFICES ASSUME NEW o \in Keys, HasSuccess(o), ord'[o] # ord[o]
               PROVE  \E k \in Keys : pay[k].order = o /\ pay[k].st # "SUCCESS" /\ FailPayment(k)
    OBVIOUS
  <2>1. ord \in [Keys -> Orders]
    BY <1>1 DEF IInv, TypeOK
  <2>2. PICK k \in Keys : Failed(k) /\ FailPayment(k)
    BY <1>1, <2>1, NextOrders DEF OrderEffect, Settled
  <2>3. pay[k].st # "SUCCESS" /\ ord' = [ord EXCEPT ![pay[k].order].st = "FAILED"]
    BY <2>2 DEF Failed, FailPayment
  <2>4. pay[k].order = o
    BY <2>1, <2>3
  <2> QED
    BY <2>2, <2>3, <2>4
<1> QED
  BY <1>1, Invariance, PTL DEF Spec, UnpaidByFailureOnly

\* An order paid at its first attempt goes on showing it.
THEOREM PaidAtOnceShows == Spec => []PaidUnlessRetried
<1>1. Init => PaidUnlessRetried
  BY DEF Init, PaidUnlessRetried, NoPayment
<1>2. ASSUME IInv, PaidUnlessRetried, [Next]_vars
      PROVE  PaidUnlessRetried'
  <2> SUFFICES ASSUME NEW k \in Keys, pay'[k].st = "SUCCESS",
                      \A j \in Keys \ {k} : pay'[j].order # pay'[k].order
               PROVE  ord'[pay'[k].order].st = "SUCCESS"
    BY DEF PaidUnlessRetried
  <2>1. /\ ord \in [Keys -> Orders] /\ pay \in [Keys -> Payments]
        /\ \A j \in Keys : Exists(j) => pay[j].order \in Keys /\ pay'[j].order = pay[j].order
        /\ \A j \in Keys : ~Exists(j) => pay[j].order \notin Keys
    <3>1. PaymentEffect /\ pay \in [Keys -> Payments] /\ ord \in [Keys -> Orders]
      BY <1>2, NextEffect DEF IInv, TypeOK
    <3>2. \A j \in Keys : ~Exists(j) => pay[j].order \notin Keys
      BY <1>2, NoKeyAssumption DEF IInv, Tables, PaymentsFounded, NoPayment
    <3>3. ASSUME NEW j \in Keys, Exists(j) PROVE pay[j].order \in Keys /\ pay'[j].order = pay[j].order
      <4>1. pay[j].order \in Keys
        BY <1>2, <3>3 DEF IInv, Tables, PaymentsFounded, Founder
      <4>2. ASSUME NEW i \in Keys, Added(i) PROVE pay'[j].order = pay[j].order
        <5>1. i # j
          BY <3>3, <4>2 DEF Added, Unused, Exists
        <5> QED
          BY <3>1, <4>2, <5>1 DEF Added
      <4>3. ASSUME NEW i \in Keys, Stored(i) PROVE pay'[j].order = pay[j].order
        BY <3>1, <4>3 DEF Stored, Payments
      <4>4. ASSUME NEW i \in Keys, Settled(i) \/ Failed(i) PROVE pay'[j].order = pay[j].order
        BY <3>1, <4>4 DEF Settled, Failed, Payments
      <4> QED
        BY <3>1, <4>1, <4>2, <4>3, <4>4 DEF PaymentEffect
    <3> QED
      BY <3>1, <3>2, <3>3
  <2>2. OrderEffect
    BY <1>2, NextOrders
  <2>3. CASE pay[k].st = "SUCCESS"
    <3>1. Exists(k) /\ HasSuccess(pay[k].order) /\ pay'[k].order = pay[k].order
      BY <2>1, <2>3 DEF Exists, HasSuccess
    <3>2. \A j \in Keys \ {k} : pay[j].order # pay[k].order
      BY <2>1, <3>1
    <3>3. ord[pay[k].order].st = "SUCCESS"
      BY <1>2, <2>3, <3>2 DEF PaidUnlessRetried
    <3>4. CASE UNCHANGED ord
      BY <3>1, <3>3, <3>4
    <3>5. ASSUME NEW j \in Keys, NEW h \in Handlers, ~HasSuccess(j),
                 ord' = [ord EXCEPT ![j] = OrderOfCart(h)]
          PROVE  ord'[pay'[k].order].st = "SUCCESS"
      BY <2>1, <3>1, <3>3, <3>5
    <3>6. ASSUME NEW j \in Keys, Settled(j), ord' = [ord EXCEPT ![pay[j].order].st = "SUCCESS"]
          PROVE  ord'[pay'[k].order].st = "SUCCESS"
      <4>1. pay[j].order # pay[k].order
        BY <3>1, <3>6 DEF Settled
      <4> QED
        BY <2>1, <3>1, <3>3, <3>6, <4>1
    <3>7. ASSUME NEW j \in Keys, Failed(j), FailPayment(j)
          PROVE  ord'[pay'[k].order].st = "SUCCESS"
      <4>1. j # k /\ ord' = [ord EXCEPT ![pay[j].order].st = "FAILED"]
        BY <2>3, <3>7 DEF Failed, FailPayment
      <4>2. pay[j].order # pay[k].order
        BY <3>2, <4>1
      <4> QED
        BY <2>1, <3>1, <3>3, <4>1, <4>2
    <3> QED
      BY <2>2, <3>4, <3>5, <3>6, <3>7 DEF OrderEffect
  <2>4. CASE pay[k].st # "SUCCESS"
    <3>1. ~NoneSettles
      BY <2>4 DEF NoneSettles
    <3>2. ASSUME NEW j \in Keys, Failed(j) PROVE FALSE
      BY <2>1, <2>4, <3>2 DEF Failed
    <3>3. PICK j \in Keys : Settled(j) /\ ord' = [ord EXCEPT ![pay[j].order].st = "SUCCESS"]
      BY <2>2, <3>1, <3>2 DEF OrderEffect
    <3>4. j = k
      BY <2>1, <2>4, <3>3 DEF Settled
    <3>5. Exists(k)
      BY <1>2, <3>3, <3>4 DEF Settled, IInv, Tables, CapturesKnown
    <3> QED
      BY <2>1, <3>3, <3>4, <3>5
  <2> QED
    BY <2>3, <2>4
<1> QED
  BY <1>1, <1>2, Invariance, PTL DEF Spec

-----------------------------------------------------------------------------

(***************************************************************************)
(* Work left behind.  An attempt that is PROCESSING and a stored event    *)
(* that is undecided are each in the hand of a request; only a lost        *)
(* request drops one, and it drops one at most.                            *)
(***************************************************************************)

\* A step of one handler leaves nothing behind when whatever is unfinished
\* afterwards is in that handler's hand now, or was not in it before.
LEMMA StillInHand ==
  ASSUME IInv, NEW h \in Handlers, NEW r, req' = [req EXCEPT ![h] = r],
         \A k \in Keys : pay'[k].st = "PROCESSING" =>
           \/ r.key = k /\ r.pc \in {"gateway", "save", "reject"}
           \/ pay[k].st = "PROCESSING" /\ ~Tends(h, k),
         \A e \in Events : hook'[e] = "new" /\ ~Decided(e)' =>
           \/ r.ev = e /\ r.pc \in {"dispatch", "mark"}
           \/ hook[e] = "new" /\ ~Decided(e) /\ ~Applies(h, e)
  PROVE  Abandoned' \subseteq Abandoned /\ Forgotten' \subseteq Forgotten
<1>1. req'[h] = r /\ \A g \in Handlers \ {h} : req'[g] = req[g]
  BY DEF IInv, TypeOK
<1>2. ASSUME NEW k \in Keys, k \in Abandoned' PROVE k \in Abandoned
  <2>1. pay'[k].st = "PROCESSING" /\ \A g \in Handlers : ~Tends(g, k)'
    BY <1>2 DEF Abandoned
  <2>2. pay[k].st = "PROCESSING" /\ ~Tends(h, k)
    BY <1>1, <2>1 DEF Tends
  <2>3. \A g \in Handlers \ {h} : ~Tends(g, k)
    BY <1>1, <2>1 DEF Tends
  <2> QED
    BY <2>2, <2>3 DEF Abandoned
<1>3. ASSUME NEW e \in Events, e \in Forgotten' PROVE e \in Forgotten
  <2>1. hook'[e] = "new" /\ ~Decided(e)' /\ \A g \in Handlers : ~Applies(g, e)'
    BY <1>3 DEF Forgotten
  <2>2. hook[e] = "new" /\ ~Decided(e) /\ ~Applies(h, e)
    BY <1>1, <2>1 DEF Applies
  <2>3. \A g \in Handlers \ {h} : ~Applies(g, e)
    BY <1>1, <2>1 DEF Applies
  <2> QED
    BY <2>2, <2>3 DEF Forgotten
<1>4. Abandoned' \subseteq Keys /\ Forgotten' \subseteq Events
  BY DEF Abandoned, Forgotten
<1> QED
  BY <1>2, <1>3, <1>4

\* A payment keeps its order, a settled one stays settled, and only a step
\* that adds a payment makes it PROCESSING.
LEMMA PaymentsKept ==
  ASSUME IInv, PaymentEffect
  PROVE  /\ \A k \in Keys : Exists(k) => pay'[k].order = pay[k].order
         /\ \A k \in Keys : pay[k].st = "SUCCESS" => pay'[k].st = "SUCCESS"
         /\ \A k \in Keys : pay'[k].st = "PROCESSING" => pay[k].st = "PROCESSING" \/ Added(k)
<1>1. pay \in [Keys -> Payments]
  BY DEF IInv, TypeOK
<1>2. CASE UNCHANGED pay
  BY <1>2
<1>3. ASSUME NEW k \in Keys, Added(k) \/ Stored(k) \/ Settled(k) \/ Failed(k)
      PROVE  /\ \A j \in Keys : Exists(j) => pay'[j].order = pay[j].order
             /\ \A j \in Keys : pay[j].st = "SUCCESS" => pay'[j].st = "SUCCESS"
             /\ \A j \in Keys : pay'[j].st = "PROCESSING" => pay[j].st = "PROCESSING" \/ Added(j)
  <2>1. \A j \in Keys \ {k} : pay'[j] = pay[j]
    BY <1>1, <1>3 DEF Added, Stored, Settled, Failed
  <2>2. Added(k) \/ (pay'[k].order = pay[k].order /\ pay'[k].st # "PROCESSING")
    BY <1>1, <1>3 DEF Stored, Settled, Failed, Payments
  <2>3. Added(k) => ~Exists(k) /\ pay[k].st # "SUCCESS"
    BY DEF Added, Unused, Exists
  <2>4. pay[k].st = "SUCCESS" => pay'[k].st = "SUCCESS"
    BY <1>1, <1>3, <2>3 DEF Stored, Settled, Failed, Payments
  <2> QED
    BY <2>1, <2>2, <2>3, <2>4
<1> QED
  BY <1>2, <1>3 DEF PaymentEffect

\* A decided event stays decided.
LEMMA DecidedKept ==
  ASSUME IInv, PaymentEffect, NEW e \in Events, hook'[e] = hook[e], Decided(e)
  PROVE  Decided(e)'
<1>1. CASE hook[e] \in {"processed", "ignored"}
  BY <1>1 DEF Decided
<1>2. CASE e.kind \in CaptureKinds /\ e.of \in Keys /\ HasSuccess(pay[e.of].order)
  <2>1. PICK j \in Keys : pay[j].order = pay[e.of].order /\ pay[j].st = "SUCCESS"
    BY <1>2 DEF HasSuccess
  <2>2. pay[j].order \in Keys /\ Exists(j)
    BY <2>1 DEF Exists, IInv, Tables, PaymentsFounded, Founder
  <2>3. Exists(e.of)
    BY <1>2, <2>1, <2>2, NoKeyAssumption DEF IInv, Tables, PaymentsFounded, NoPayment
  <2>4. pay'[j].order = pay'[e.of].order /\ pay'[j].st = "SUCCESS"
    BY <1>2, <2>1, <2>2, <2>3, PaymentsKept
  <2> QED
    BY <1>2, <2>4 DEF Decided, HasSuccess
<1> QED
  BY <1>1, <1>2 DEF Decided

\* Steps of a handler that had neither in hand, and open no attempt.
LEMMA EmptyHands ==
  ASSUME IInv, NEW h \in Handlers, NEW r, req' = [req EXCEPT ![h] = r], UNCHANGED hook,
         PaymentEffect, \A k \in Keys : pay'[k].st = "PROCESSING" => pay[k].st = "PROCESSING",
         req[h].pc \notin {"gateway", "save", "reject", "dispatch", "mark"}
  PROVE  Abandoned' \subseteq Abandoned /\ Forgotten' \subseteq Forgotten
<1>1. \A e \in Events : hook'[e] = "new" /\ ~Decided(e)' =>
        hook[e] = "new" /\ ~Decided(e) /\ ~Applies(h, e)
  BY DecidedKept DEF Applies
<1>2. \A k \in Keys : pay'[k].st = "PROCESSING" => pay[k].st = "PROCESSING" /\ ~Tends(h, k)
  BY DEF Tends
<1> QED
  BY <1>1, <1>2, StillInHand

\* Steps that move no handler.
LEMMA NoHands ==
  ASSUME IInv, UNCHANGED <<req, hook>>, PaymentEffect,
         \A k \in Keys : pay'[k].st = "PROCESSING" => pay[k].st = "PROCESSING"
  PROVE  Abandoned' \subseteq Abandoned /\ Forgotten' \subseteq Forgotten
<1>1. \A e \in Events : hook'[e] = "new" /\ ~Decided(e)' => hook[e] = "new" /\ ~Decided(e)
  BY DecidedKept
<1>2. \A g \in Handlers : /\ \A k \in Keys : Tends(g, k)' <=> Tends(g, k)
                          /\ \A e \in Events : Applies(g, e)' <=> Applies(g, e)
  BY DEF Tends, Applies
<1> QED
  BY <1>1, <1>2 DEF Abandoned, Forgotten

\* The requests that begin, and the steps before an attempt is stored or after
\* it is known to the gateway, hold nothing that could be left behind.
LEMMA UnburdenedSteps ==
  ASSUME IInv, NEW h \in Handlers,
         \/ \E k \in Keys : RequestOnline(h, k) \/ RequestCod(h, k) \/ RequestVerify(h, k)
         \/ \E failed, k \in Keys : RequestRetry(h, failed, k)
         \/ \E e \in Events : ReceiveWebhook(h, e)
         \/ ReadItems(h) \/ RefuseCheckout(h) \/ PlaceCodOrder(h) \/ LockForRetry(h)
         \/ RefuseRetry(h) \/ RetryKeyTaken(h) \/ FetchPayment(h) \/ CompleteVerified(h)
  PROVE  Abandoned' \subseteq Abandoned /\ Forgotten' \subseteq Forgotten
<1>1. req[h].pc \notin {"gateway", "save", "reject", "dispatch", "mark"} /\ UNCHANGED hook
  BY DEF RequestOnline, RequestCod, RequestVerify, RequestRetry, ReceiveWebhook, ReadItems, RefuseCheckout,
     PlaceCodOrder, LockForRetry, RefuseRetry, RetryKeyTaken, FetchPayment, CompleteVerified, At
<1>2. \E r : req' = [req EXCEPT ![h] = r]
  <2>1. req \in [Handlers -> Requests]
    BY DEF IInv, TypeOK
  <2>2. CASE LockForRetry(h) \/ (FetchPayment(h) /\ req[h].key \in captured)
    <3>1. PICK s \in {"commitRetry", "complete"} : req' = [req EXCEPT ![h].pc = s]
      BY <2>2 DEF LockForRetry, FetchPayment, Continue
    <3>2. req' = [req EXCEPT ![h] = [req[h] EXCEPT !.pc = s]]
      BY <2>1, <3>1
    <3> QED
      BY <3>2
  <2>3. CASE ReadItems(h)
    <3>1. req' = [req EXCEPT ![h] = [req[h] EXCEPT !.basket = cart]]
      BY <2>1, <2>3 DEF ReadItems
    <3> QED
      BY <3>1
  <2> QED
    BY <2>2, <2>3
    DEF RequestOnline, RequestCod, RequestVerify, RequestRetry, ReceiveWebhook, ReadItems, RefuseCheckout,
        PlaceCodOrder, RefuseRetry, RetryKeyTaken, FetchPayment, CompleteVerified, Goto, Finish
<1>3. PaymentEffect
  BY StepEffect
  DEF Step, RequestOnline, RequestCod, RequestVerify, RequestRetry, ReceiveWebhook, PaymentEffect
<1>4. \A k \in Keys : pay'[k].st = "PROCESSING" => pay[k].st = "PROCESSING"
  <2>1. CASE UNCHANGED pay
    BY <2>1
  <2>2. CASE PlaceCodOrder(h)
    BY <2>2 DEF PlaceCodOrder, IInv, TypeOK
  <2>3. CASE CompleteVerified(h) /\ CompletePayment(req[h].key)
    BY <2>3 DEF CompletePayment, IInv, TypeOK, Payments
  <2>4. CompleteVerified(h) => UNCHANGED pay \/ CompletePayment(req[h].key)
    BY DEF CompleteVerified
  <2> QED
    BY <2>1, <2>2, <2>3, <2>4
    DEF RequestOnline, RequestCod, RequestVerify, RequestRetry, ReceiveWebhook, ReadItems, RefuseCheckout,
        LockForRetry, RefuseRetry, RetryKeyTaken, FetchPayment
<1> QED
  BY <1>1, <1>2, <1>3, <1>4, EmptyHands

\* createDeliveryAttempt, retry and createGatewayOrder: the request that stores
\* an attempt carries it to its gateway order or to its failure.
LEMMA AttemptSteps ==
  ASSUME IInv, NEW h \in Handlers,
         \/ CreateAttempt(h) \/ CommitRetry(h) \/ GatewayAccepts(h) \/ GatewayRejects(h)
         \/ SaveGatewayOrder(h) \/ FailAttempt(h)
  PROVE  Abandoned' \subseteq Abandoned /\ Forgotten' \subseteq Forgotten
<1>1. /\ req \in [Handlers -> Requests] /\ pay \in [Keys -> Payments]
      /\ RequestOK(req[h]) /\ req[h].key \in Keys
  BY DEF IInv, TypeOK, RequestOK, CreateAttempt, CommitRetry, GatewayAccepts, GatewayRejects,
     SaveGatewayOrder, FailAttempt, At
<1>2. PaymentEffect
  BY StepEffect DEF Step
<1>3. /\ UNCHANGED hook
      /\ req[h].pc \notin {"dispatch", "mark"}
  BY DEF CreateAttempt, CommitRetry, GatewayAccepts, GatewayRejects, SaveGatewayOrder,
     FailAttempt, At
<1>4. \A e \in Events : hook'[e] = "new" /\ ~Decided(e)' =>
        hook[e] = "new" /\ ~Decided(e) /\ ~Applies(h, e)
  BY <1>2, <1>3, DecidedKept DEF Applies
<1>5. CASE CreateAttempt(h) \/ CommitRetry(h) \/ GatewayAccepts(h) \/ GatewayRejects(h)
  <2>1. PICK r : /\ req' = [req EXCEPT ![h] = r] /\ r.key = req[h].key
                 /\ r.pc \in {"gateway", "save", "reject"}
    <3>1. CASE CreateAttempt(h)
      <4> DEFINE q == [pc |-> "gateway", key |-> req[h].key, order |-> req[h].key,
                       ev |-> NoEvent, basket |-> 0]
      <4>1. req' = [req EXCEPT ![h] = q] /\ q.key = req[h].key /\ q.pc = "gateway"
        BY <3>1 DEF CreateAttempt, Goto
      <4> HIDE DEF q
      <4> QED
        BY <4>1
    <3>2. CASE CommitRetry(h) \/ GatewayAccepts(h) \/ GatewayRejects(h)
      <4>1. PICK s \in {"gateway", "save", "reject"} : req' = [req EXCEPT ![h].pc = s]
        BY <3>2 DEF CommitRetry, GatewayAccepts, GatewayRejects, Continue
      <4> DEFINE q == [req[h] EXCEPT !.pc = s]
      <4>2. req' = [req EXCEPT ![h] = q]
        BY <1>1, <4>1
      <4>3. q.pc = s /\ q.key = req[h].key
        BY <1>1 DEF Requests
      <4> HIDE DEF q
      <4> QED
        BY <4>2, <4>3
    <3> QED
      BY <1>5, <3>1, <3>2
  <2>4. \A k \in Keys \ {req[h].key} : pay'[k] = pay[k]
    BY <1>1, <1>5 DEF CreateAttempt, CommitRetry, GatewayAccepts, GatewayRejects
  <2>5. \A k \in Keys : pay'[k].st = "PROCESSING" =>
          \/ r.key = k /\ r.pc \in {"gateway", "save", "reject"}
          \/ pay[k].st = "PROCESSING" /\ ~Tends(h, k)
    BY <2>1, <2>4 DEF Tends
  <2> QED
    BY <1>4, <2>1, <2>5, StillInHand
<1>6. CASE SaveGatewayOrder(h) \/ FailAttempt(h)
  <2>1. req' = [req EXCEPT ![h] = Idle]
    BY <1>6 DEF SaveGatewayOrder, FailAttempt, Finish
  <2>2. /\ pay'[req[h].key].st # "PROCESSING"
        /\ \A k \in Keys \ {req[h].key} : pay'[k] = pay[k]
    BY <1>1, <1>6 DEF SaveGatewayOrder, FailAttempt, FailPayment, Payments
  <2>3. \A k \in Keys : pay'[k].st = "PROCESSING" => pay[k].st = "PROCESSING" /\ ~Tends(h, k)
    BY <2>2 DEF Tends
  <2> QED
    BY <1>4, <2>1, <2>3, StillInHand
<1> QED
  BY <1>5, <1>6

\* handleRazorpayWebhook: the request that stores an event carries it to its
\* mark, or leaves it to the payment that settled the order first.
LEMMA EventSteps ==
  ASSUME IInv, NEW h \in Handlers, WebhookStep(h)
  PROVE  Abandoned' \subseteq Abandoned /\ Forgotten' \subseteq Forgotten
<1>1. /\ req \in [Handlers -> Requests] /\ pay \in [Keys -> Payments]
      /\ hook \in [Events -> {"none", "new", "processed", "ignored"}]
      /\ req[h].ev \in Events /\ TrueEvent(req[h].ev)
  BY DEF IInv, TypeOK, RequestOK, TrueEvent, WebhookStep, SaveWebhook, IgnoreWebhook,
     ApplyCapture, CaptureConflicts, ApplyFailure, MarkProcessed, At
<1> PICK d \in Events : d = req[h].ev
  BY <1>1
<1>2. PaymentEffect
  BY StepEffect DEF Step
<1>3. \A k \in Keys : ~Tends(h, k)
  BY DEF WebhookStep, SaveWebhook, IgnoreWebhook, ApplyCapture, CaptureConflicts, ApplyFailure,
     MarkProcessed, At, Tends
<1>4. \A k \in Keys : pay'[k].st = "PROCESSING" => pay[k].st = "PROCESSING" /\ ~Tends(h, k)
  <2>1. \/ UNCHANGED pay
        \/ \E k \in Keys : CompletePayment(k) \/ FailPayment(k)
    BY DEF WebhookStep, SaveWebhook, IgnoreWebhook, ApplyCapture, CaptureConflicts,
       ApplyFailure, MarkProcessed, Known
  <2>2. ASSUME NEW k \in Keys, CompletePayment(k) \/ FailPayment(k)
        PROVE  \A j \in Keys : pay'[j].st = "PROCESSING" => pay[j].st = "PROCESSING"
    BY <1>1, <2>2 DEF CompletePayment, FailPayment, Payments
  <2> QED
    BY <1>3, <2>1, <2>2
<1>5. \A e \in Events \ {d} : ~Applies(h, e)
  BY DEF Applies
<1>6. CASE SaveWebhook(h)
  <2>1. \A e \in Events : ~Applies(h, e)
    BY <1>6 DEF SaveWebhook, At, Applies
  <2>2. CASE hook[d] = "none"
    <3>1. /\ hook' = [hook EXCEPT ![d] = "new"]
          /\ req' = [req EXCEPT ![h].pc = "dispatch"]
      BY <1>6, <2>2 DEF SaveWebhook, Continue
    <3> DEFINE r == [req[h] EXCEPT !.pc = "dispatch"]
    <3>2. req' = [req EXCEPT ![h] = r] /\ r.pc = "dispatch" /\ r.ev = d
      BY <1>1, <3>1 DEF Requests
    <3>3. \A e \in Events \ {d} : hook'[e] = hook[e]
      BY <1>1, <3>1
    <3> HIDE DEF r
    <3>4. \A e \in Events : hook'[e] = "new" /\ ~Decided(e)' =>
            \/ r.ev = e /\ r.pc \in {"dispatch", "mark"}
            \/ hook[e] = "new" /\ ~Decided(e) /\ ~Applies(h, e)
      BY <1>2, <2>1, <3>2, <3>3, DecidedKept
    <3> QED
      BY <1>4, <3>2, <3>4, StillInHand
  <2>3. CASE hook[d] # "none"
    <3>1. UNCHANGED hook /\ req' = [req EXCEPT ![h] = Idle]
      BY <1>6, <2>3 DEF SaveWebhook, Finish
    <3>2. \A e \in Events : hook'[e] = "new" /\ ~Decided(e)' =>
            hook[e] = "new" /\ ~Decided(e) /\ ~Applies(h, e)
      BY <1>2, <2>1, <3>1, DecidedKept
    <3> QED
      BY <1>4, <3>1, <3>2, StillInHand
  <2> QED
    BY <2>2, <2>3
<1>7. CASE ApplyCapture(h) \/ ApplyFailure(h)
  <2>1. UNCHANGED hook /\ req' = [req EXCEPT ![h].pc = "mark"]
    BY <1>7 DEF ApplyCapture, ApplyFailure, Continue
  <2> DEFINE r == [req[h] EXCEPT !.pc = "mark"]
  <2>2. req' = [req EXCEPT ![h] = r] /\ r.pc = "mark" /\ r.ev = d
    BY <1>1, <2>1 DEF Requests
  <2> HIDE DEF r
  <2>3. \A e \in Events : hook'[e] = "new" /\ ~Decided(e)' =>
          \/ r.ev = e /\ r.pc \in {"dispatch", "mark"}
          \/ hook[e] = "new" /\ ~Decided(e) /\ ~Applies(h, e)
    BY <1>2, <1>5, <2>1, <2>2, DecidedKept
  <2> QED
    BY <1>4, <2>2, <2>3, StillInHand
<1>8. CASE IgnoreWebhook(h) \/ MarkProcessed(h) \/ CaptureConflicts(h)
  <2>1. req' = [req EXCEPT ![h] = Idle] /\ UNCHANGED pay
    BY <1>8 DEF IgnoreWebhook, MarkProcessed, CaptureConflicts, Finish
  <2>2. \A e \in Events \ {d} : hook'[e] = hook[e]
    BY <1>1, <1>8 DEF IgnoreWebhook, MarkProcessed, CaptureConflicts
  <2>3. hook'[d] = "new" => Decided(d)'
    <3>1. CASE IgnoreWebhook(h) \/ MarkProcessed(h)
      BY <1>1, <3>1 DEF IgnoreWebhook, MarkProcessed
    <3>2. CASE CaptureConflicts(h)
      BY <2>1, <3>2 DEF CaptureConflicts, Known, AlreadyPaid, Decided, HasSuccess
    <3> QED
      BY <1>8, <3>1, <3>2
  <2>4. \A e \in Events : hook'[e] = "new" /\ ~Decided(e)' =>
          hook[e] = "new" /\ ~Decided(e) /\ ~Applies(h, e)
    BY <1>2, <1>5, <2>2, <2>3, DecidedKept
  <2> QED
    BY <1>4, <2>1, <2>4, StillInHand
<1> QED
  BY <1>6, <1>7, <1>8 DEF WebhookStep

\* Every other step leaves nothing behind.
LEMMA NothingDropped ==
  ASSUME IInv, [Next]_vars, ~ \E h \in Handlers : LoseRequest(h)
  PROVE  UNCHANGED lost /\ Abandoned' \subseteq Abandoned /\ Forgotten' \subseteq Forgotten
<1>1. ASSUME NEW h \in Handlers, Step(h)
      PROVE  UNCHANGED lost /\ Abandoned' \subseteq Abandoned /\ Forgotten' \subseteq Forgotten
  <2>1. UNCHANGED lost
    BY <1>1
    DEF Step, WebhookStep, ReadItems, CreateAttempt, RefuseCheckout, PlaceCodOrder, GatewayAccepts, GatewayRejects,
        SaveGatewayOrder, FailAttempt, LockForRetry, RefuseRetry, CommitRetry, RetryKeyTaken,
        FetchPayment, CompleteVerified, SaveWebhook, IgnoreWebhook, ApplyCapture,
        CaptureConflicts, ApplyFailure, MarkProcessed
  <2> QED
    BY <1>1, <2>1, UnburdenedSteps, AttemptSteps, EventSteps DEF Step
<1>2. ASSUME NEW h \in Handlers,
             \/ \E k \in Keys : RequestOnline(h, k) \/ RequestCod(h, k) \/ RequestVerify(h, k)
             \/ \E failed, k \in Keys : RequestRetry(h, failed, k)
             \/ \E e \in Events : ReceiveWebhook(h, e)
      PROVE  UNCHANGED lost /\ Abandoned' \subseteq Abandoned /\ Forgotten' \subseteq Forgotten
  <2>1. UNCHANGED lost
    BY <1>2 DEF RequestOnline, RequestCod, RequestVerify, RequestRetry, ReceiveWebhook
  <2> QED
    BY <1>2, <2>1, UnburdenedSteps
<1>3. ASSUME NEW k \in Keys, RecordFailure(k)
      PROVE  UNCHANGED lost /\ Abandoned' \subseteq Abandoned /\ Forgotten' \subseteq Forgotten
  <2>1. /\ UNCHANGED <<req, hook, lost>> /\ PaymentEffect
        /\ \A j \in Keys : pay'[j].st = "PROCESSING" => pay[j].st = "PROCESSING"
    BY <1>3, FailedEffect
    DEF RecordFailure, Unused, Exists, FailPayment, IInv, TypeOK, Payments
  <2> QED
    BY <2>1, NoHands
<1>4. CASE \/ AddItems \/ ClearCart \/ UNCHANGED vars
           \/ \E k \in Keys : Capture(k) \/ Decline(k)
           \/ \E e \in Events : ForeignEvent(e)
  <2>1. UNCHANGED <<pay, req, hook, lost>>
    BY <1>4 DEF AddItems, ClearCart, vars, Capture, Decline, ForeignEvent
  <2> QED
    BY <2>1, NoHands DEF PaymentEffect
<1> QED
  BY <1>1, <1>2, <1>3, <1>4
  DEF Next, PaymentRequest, OrderRequest, CodRequest

\* A lost request drops the attempt or the event it had in hand.
LEMMA OneDropped ==
  ASSUME IInv, NEW h \in Handlers, LoseRequest(h)
  PROVE  \/ Abandoned' \subseteq Abandoned \union {req[h].key} /\ Forgotten' \subseteq Forgotten
         \/ Abandoned' \subseteq Abandoned /\ Forgotten' \subseteq Forgotten \union {req[h].ev}
<1>1. /\ req \in [Handlers -> Requests]
      /\ \A g \in Handlers \ {h} : req'[g] = req[g]
      /\ pay' = pay /\ hook' = hook
  BY DEF IInv, TypeOK, LoseRequest, Finish
<1>2. \A e \in Events : Decided(e)' <=> Decided(e)
  BY <1>1 DEF Decided, HasSuccess
<1>3. ASSUME NEW k \in Keys, k \in Abandoned', ~Tends(h, k) PROVE k \in Abandoned
  BY <1>1, <1>3 DEF Abandoned, Tends
<1>4. ASSUME NEW e \in Events, e \in Forgotten', ~Applies(h, e) PROVE e \in Forgotten
  BY <1>1, <1>2, <1>4 DEF Forgotten, Applies
<1>5. Abandoned' \subseteq Keys /\ Forgotten' \subseteq Events
  BY DEF Abandoned, Forgotten
<1>6. CASE req[h].pc \in {"gateway", "save", "reject"}
  <2>1. \A e \in Events : ~Applies(h, e)
    BY <1>6 DEF Applies
  <2>2. \A k \in Keys : Tends(h, k) => k = req[h].key
    BY DEF Tends
  <2> QED
    BY <1>3, <1>4, <1>5, <2>1, <2>2
<1>7. CASE req[h].pc \notin {"gateway", "save", "reject"}
  <2>1. \A k \in Keys : ~Tends(h, k)
    BY <1>7 DEF Tends
  <2>2. \A e \in Events : Applies(h, e) => e = req[h].ev
    BY DEF Applies
  <2> QED
    BY <1>3, <1>4, <1>5, <2>1, <2>2
<1> QED
  BY <1>6, <1>7

\* The counts are of finite sets, however many keys and events there are.
LeftBehind ==
  /\ IsFiniteSet(Abandoned)
  /\ IsFiniteSet(Forgotten)
  /\ AbandonedByLossOnly

LEMMA LeftBehindKept ==
  ASSUME IInv, LeftBehind, [Next]_vars
  PROVE  LeftBehind'
<1>1. lost \in Nat
  BY BoundsAssumption DEF IInv, TypeOK
<1>2. PICK A : A = Abandoned'
  OBVIOUS
<1>3. PICK F : F = Forgotten'
  OBVIOUS
<1>4. CASE ~ \E h \in Handlers : LoseRequest(h)
  <2>1. UNCHANGED lost /\ A \subseteq Abandoned /\ F \subseteq Forgotten
    BY <1>2, <1>3, <1>4, NothingDropped
  <2>2. /\ IsFiniteSet(A) /\ Cardinality(A) \in Nat /\ Cardinality(Abandoned) \in Nat
        /\ Cardinality(A) <= Cardinality(Abandoned)
    BY <2>1, NoMore DEF LeftBehind
  <2>3. /\ IsFiniteSet(F) /\ Cardinality(F) \in Nat /\ Cardinality(Forgotten) \in Nat
        /\ Cardinality(F) <= Cardinality(Forgotten)
    BY <2>1, NoMore DEF LeftBehind
  <2>4. Cardinality(A) + Cardinality(F) <= lost'
    BY <1>1, <2>1, <2>2, <2>3 DEF LeftBehind, AbandonedByLossOnly
  <2> QED
    BY <1>2, <1>3, <2>2, <2>3, <2>4 DEF LeftBehind, AbandonedByLossOnly
<1>5. ASSUME NEW h \in Handlers, LoseRequest(h) PROVE LeftBehind'
  <2>1. lost' = lost + 1
    BY <1>5 DEF LoseRequest
  <2>2. \/ A \subseteq Abandoned \union {req[h].key} /\ F \subseteq Forgotten
        \/ A \subseteq Abandoned /\ F \subseteq Forgotten \union {req[h].ev}
    BY <1>2, <1>3, <1>5, OneDropped
  <2>3. /\ IsFiniteSet(A) /\ IsFiniteSet(F)
        /\ Cardinality(A) \in Nat /\ Cardinality(Abandoned) \in Nat
        /\ Cardinality(F) \in Nat /\ Cardinality(Forgotten) \in Nat
        /\ Cardinality(A) + Cardinality(F) <= Cardinality(Abandoned) + Cardinality(Forgotten) + 1
    <3>1. CASE A \subseteq Abandoned \union {req[h].key} /\ F \subseteq Forgotten
      <4>1. /\ IsFiniteSet(A) /\ Cardinality(A) \in Nat /\ Cardinality(Abandoned) \in Nat
            /\ Cardinality(A) <= Cardinality(Abandoned) + 1
        BY <3>1, OneMore DEF LeftBehind
      <4>2. /\ IsFiniteSet(F) /\ Cardinality(F) \in Nat /\ Cardinality(Forgotten) \in Nat
            /\ Cardinality(F) <= Cardinality(Forgotten)
        BY <3>1, NoMore DEF LeftBehind
      <4> QED
        BY <4>1, <4>2
    <3>2. CASE A \subseteq Abandoned /\ F \subseteq Forgotten \union {req[h].ev}
      <4>1. /\ IsFiniteSet(A) /\ Cardinality(A) \in Nat /\ Cardinality(Abandoned) \in Nat
            /\ Cardinality(A) <= Cardinality(Abandoned)
        BY <3>2, NoMore DEF LeftBehind
      <4>2. /\ IsFiniteSet(F) /\ Cardinality(F) \in Nat /\ Cardinality(Forgotten) \in Nat
            /\ Cardinality(F) <= Cardinality(Forgotten) + 1
        BY <3>2, OneMore DEF LeftBehind
      <4> QED
        BY <4>1, <4>2
    <3> QED
      BY <2>2, <3>1, <3>2
  <2>4. Cardinality(A) + Cardinality(F) <= lost'
    BY <1>1, <2>1, <2>3 DEF LeftBehind, AbandonedByLossOnly
  <2> QED
    BY <1>2, <1>3, <2>3, <2>4 DEF LeftBehind, AbandonedByLossOnly
<1> QED
  BY <1>4, <1>5

LEMMA LeftBehindStarts == Init => LeftBehind
<1> SUFFICES ASSUME Init PROVE LeftBehind
  OBVIOUS
<1>1. Abandoned = {} /\ Forgotten = {} /\ lost = 0
  BY DEF Init, Abandoned, Forgotten, NoPayment
<1> QED
  BY <1>1, FS_EmptySet DEF LeftBehind, AbandonedByLossOnly

\* Attempts that no request tends and stored events that no request applies are
\* at most as many as the requests that were lost (createGatewayOrder,
\* handleRazorpayWebhook).
THEOREM OnlyLossAbandons == Spec => []AbandonedByLossOnly
<1>1. LeftBehind => AbandonedByLossOnly
  BY DEF LeftBehind
<1> QED
  BY <1>1, LeftBehindStarts, LeftBehindKept, Invariance, PTL DEF Spec

-----------------------------------------------------------------------------

\* The empty payments table maps to no attempts.
LEMMA InitRefines == Init => Settlement!Init
BY DEF Init, Settlement!Init, NoPayment

\* Every step maps to a step of the abstract settlement, or to none.
LEMMA StepRefines ==
  ASSUME IInv, [Next]_vars
  PROVE  [Settlement!Next]_Settlement!svars
<1> DEFINE attempt == [k \in Keys |-> pay[k].order]
           settled == {k \in Keys : pay[k].st = "SUCCESS"}
<1>1. /\ PaymentEffect /\ pay \in [Keys -> Payments]
      /\ UNCHANGED captured \/ (UNCHANGED pay /\ \E k \in Keys : Capture(k))
  BY NextEffect DEF IInv, TypeOK
<1>2. CASE UNCHANGED pay /\ UNCHANGED captured
  BY <1>2 DEF Settlement!svars
<1>3. CASE UNCHANGED pay /\ \E k \in Keys : Capture(k)
  <2> PICK k \in Keys : Capture(k)
    BY <1>3
  <2>1. attempt[k] # NoKey
    BY NoKeyAssumption
    DEF Capture, IInv, Tables, CapturesKnown, PaymentsFounded, Founder
  <2>2. Settlement!Capture(k)
    BY <1>3, <2>1 DEF Capture, Settlement!Capture
  <2> QED
    BY <2>2 DEF Settlement!Next
<1>4. ASSUME NEW k \in Keys, Added(k), UNCHANGED captured
      PROVE  Settlement!Next
  <2> PICK p \in Payments : /\ Unused(k) /\ pay' = [pay EXCEPT ![k] = p]
                            /\ p.st \in {"PROCESSING", "PENDING"}
                            /\ p.order \in Keys /\ ~HasSuccess(p.order)
    BY <1>4 DEF Added
  <2>1. pay'[k] = p /\ \A j \in Keys \ {k} : pay'[j] = pay[j]
    BY <1>1
  <2>2. attempt[k] = NoKey
    BY DEF Unused, IInv, Tables, PaymentsFounded, Exists, NoPayment
  <2>3. Settlement!Unsettled(p.order)
    BY DEF Settlement!Unsettled, HasSuccess
  <2>4. attempt' = [attempt EXCEPT ![k] = p.order]
    <3>1. \A j \in Keys : pay'[j].order = IF j = k THEN p.order ELSE pay[j].order
      BY <2>1
    <3>2. attempt' = [j \in Keys |-> IF j = k THEN p.order ELSE pay[j].order]
      BY <3>1
    <3>3. [attempt EXCEPT ![k] = p.order]
            = [j \in Keys |-> IF j = k THEN p.order ELSE attempt[j]]
      OBVIOUS
    <3> QED
      BY <3>2, <3>3
  <2>5. settled' = settled
    <3>1. k \notin settled /\ k \notin settled'
      BY <2>1 DEF Unused
    <3> QED
      BY <2>1, <3>1
  <2>6. Settlement!Open(k, p.order)
    BY <1>4, <2>2, <2>3, <2>4, <2>5 DEF Settlement!Open
  <2> QED
    BY <2>6 DEF Settlement!Next
<1>5. ASSUME NEW k \in Keys, Settled(k), UNCHANGED captured
      PROVE  Settlement!Next
  <2>1. /\ pay'[k].st = "SUCCESS" /\ pay'[k].order = pay[k].order
        /\ \A j \in Keys \ {k} : pay'[j] = pay[j]
    BY <1>1, <1>5 DEF Settled, Payments
  <2>2. attempt' = attempt
    BY <2>1
  <2>3. settled' = settled \union {k}
    BY <2>1
  <2>4. Settlement!Unsettled(attempt[k])
    BY <1>5 DEF Settled, Settlement!Unsettled, HasSuccess
  <2>5. Settlement!Settle(k)
    BY <1>5, <2>2, <2>3, <2>4 DEF Settled, Settlement!Settle
  <2> QED
    BY <2>5 DEF Settlement!Next
<1>6. ASSUME NEW k \in Keys, Stored(k) \/ Failed(k), UNCHANGED captured
      PROVE  UNCHANGED Settlement!svars
  <2>1. /\ pay'[k].st # "SUCCESS" /\ pay[k].st # "SUCCESS" /\ pay'[k].order = pay[k].order
        /\ \A j \in Keys \ {k} : pay'[j] = pay[j]
    BY <1>1, <1>6 DEF Stored, Failed, Payments
  <2>2. attempt' = attempt /\ settled' = settled
    BY <2>1
  <2> QED
    BY <1>6, <2>2 DEF Settlement!svars
<1> QED
  BY <1>1, <1>2, <1>3, <1>4, <1>5, <1>6 DEF PaymentEffect

\* The payment service implements the abstract settlement of orders.
THEOREM ImplementsSettlement == Spec => SettlementSpec
BY InitRefines, StepRefines, Invariance, PTL DEF Spec, SettlementSpec, Settlement!Spec
=============================================================================
