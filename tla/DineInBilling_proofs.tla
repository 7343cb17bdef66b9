------------------------ MODULE DineInBilling_proofs ------------------------
(***************************************************************************)
(* Theorems about DineInBilling, for every set of orders, payments and    *)
(* handlers and every number of lost requests.                            *)
(***************************************************************************)
EXTENDS DineInBilling, TLAPS

\* The session's status follows the bill's; each transaction writes both.
SessionFollowsBill ==
  /\ session = "ACTIVE" <=> bill.st \in {"none", "CANCELLED"}
  /\ session = "BILL_REQUESTED" <=> bill.st = "REQUESTED"
  /\ session = "PAYMENT_PENDING" <=> bill.st = "PAYMENT_PENDING"

\* What the row of a payment tells about it.
AttemptsSound ==
  \A k \in Keys :
    /\ Unused(k) => pay[k] = NoPayment
    /\ ~Unused(k) => pay[k].method # "none"
    /\ pay[k].st \in {"PROCESSING", "PENDING"} => Online(k)
    /\ pay[k].st = "AWAITING_CASH_CONFIRMATION" => ~Online(k)
    /\ pay[k].gw => Online(k) /\ pay[k].st # "PROCESSING"
    /\ k \in captured \union declined => pay[k].gw

\* What a handler still knows when it takes its next step.
RequestOK(r) ==
  /\ r.pc # "idle" => r.key \in Keys /\ ~Unused(r.key)
  /\ r.pc \in {"gateway", "save", "reject", "query", "cancel"} => Online(r.key)
  /\ r.pc = "complete" /\ Online(r.key) => r.key \in captured

Tables ==
  /\ TicketsMatch
  /\ BillMatchesOrders
  /\ SessionFollowsBill
  /\ PaidOnce
  /\ PaidIsCaptured
  /\ OneOpenAttempt
  /\ AttemptsOnConfirmedBill
  /\ AttemptsSound

TablesTyped == OrdersTypeOK /\ bill \in Bills /\ pay \in [Keys -> Payments]

IInv ==
  /\ TypeOK
  /\ Tables
  /\ \A h \in Handlers : RequestOK(req[h])

\* A payment keeps its method, and money once captured stays captured.
Steady ==
  /\ \A k \in Keys : ~Unused(k) => ~Unused(k)' /\ pay'[k].method = pay[k].method
  /\ captured \subseteq captured'

-----------------------------------------------------------------------------

(***************************************************************************)
(* What a step may do to the tables.                                      *)
(***************************************************************************)
OrdersMove == OrderStep /\ UNCHANGED <<bill, pay>>

BillMoves == (RequestBill \/ ConfirmBill \/ CancelBillRequest)

Attempted(k) ==
  /\ MayAttempt(k)
  /\ \/ pay' = [pay EXCEPT ![k] = [st |-> "AWAITING_CASH_CONFIRMATION",
                                   method |-> "CASH", gw |-> FALSE]]
     \/ pay' = [pay EXCEPT ![k] = [st |-> "PROCESSING", method |-> "ONLINE", gw |-> FALSE]]
  /\ UNCHANGED <<dining, bill>>

Opened(k) ==
  /\ pay[k].st = "PROCESSING"
  /\ pay' = [pay EXCEPT ![k].st = "PENDING", ![k].gw = TRUE]
  /\ UNCHANGED <<dining, bill>>

\* An attempt that is neither paid nor cancelled ends.
Ended(k) ==
  /\ pay[k].st \notin {"none", "SUCCESS", "CANCELLED"}
  /\ \E st \in {"FAILED", "CANCELLED"} :
       /\ pay[k].st = "FAILED" => st = "FAILED"
       /\ pay' = [pay EXCEPT ![k].st = st]
  /\ UNCHANGED <<dining, bill>>

Settled(k) ==
  /\ ~Unused(k)
  /\ Online(k) => k \in captured
  /\ Payable /\ ~ \E j \in Keys : Succeeded(j)
  /\ Settle(k)
  /\ UNCHANGED <<ord, tickets>>

Effect ==
  \/ UNCHANGED <<dining, bill, pay>>
  \/ OrdersMove
  \/ BillMoves
  \/ \E k \in Keys : Attempted(k) \/ Opened(k) \/ Ended(k) \/ Settled(k)

GatewayMoves ==
  /\ captured \subseteq captured' /\ declined \subseteq declined'
  /\ \/ UNCHANGED gateway
     \/ /\ UNCHANGED <<dining, bill, pay>>
        /\ \A k \in captured' \union declined' : k \in Keys /\ pay[k].gw

-----------------------------------------------------------------------------

\* A new session, without a bill, satisfies the invariant.
LEMMA InitIInv == Init => IInv
<1> SUFFICES ASSUME Init PROVE IInv
  OBVIOUS
<1>1. TypeOK
  BY BoundsAssumption
  DEF Init, OrdersInit, TypeOK, OrdersTypeOK, OrderStatus, Bills, Payments, NoPayment,
      Requests, Idle
<1>2. Tables
  BY DEF Init, OrdersInit, Tables, TicketsMatch, BillMatchesOrders, SessionFollowsBill,
      PaidOnce, PaidIsCaptured, OneOpenAttempt, AttemptsOnConfirmedBill, AttemptsSound,
      NoPayment, Unused, Succeeded, IsOpen, Online
<1>3. \A h \in Handlers : RequestOK(req[h])
  BY DEF Init, RequestOK, Idle
<1> QED
  BY <1>1, <1>2, <1>3 DEF IInv

\* completeVerifiedPayment settles the bill or changes nothing.
LEMMA CompletedEffect ==
  ASSUME NEW k \in Keys, ~Unused(k), Online(k) => k \in captured, CompletePayment(k),
         UNCHANGED <<ord, tickets>>
  PROVE  Settled(k) \/ UNCHANGED <<dining, bill, pay>>
BY DEF CompletePayment, Settled, dining

\* recordGatewayFailure ends an attempt or changes nothing.
LEMMA FailedEffect ==
  ASSUME NEW k \in Keys, ~Unused(k), RecordGatewayFailure(k), UNCHANGED <<dining, bill>>
  PROVE  Ended(k) \/ UNCHANGED <<dining, bill, pay>>
<1>1. CASE pay[k].st \in {"SUCCESS", "CANCELLED"}
  BY <1>1 DEF RecordGatewayFailure
<1>2. CASE pay[k].st \notin {"SUCCESS", "CANCELLED"}
  BY <1>2 DEF RecordGatewayFailure, Ended, Unused
<1> QED
  BY <1>1, <1>2

\* A step of a started handler has one of the effects.
LEMMA StepEffect ==
  ASSUME IInv, NEW h \in Handlers, Step(h)
  PROVE  Effect /\ UNCHANGED gateway
<1> DEFINE k == req[h].key
<1>1. req[h].pc # "idle" => k \in Keys /\ ~Unused(k)
  BY DEF IInv, RequestOK
<1>2. CASE GatewayAccepts(h) \/ GatewayFails(h) \/ QueryGateway(h) \/ QueryFails(h)
  BY <1>2 DEF GatewayAccepts, GatewayFails, QueryGateway, QueryFails, Effect, gateway
<1>3. CASE SaveGatewayOrder(h)
  <2>1. k \in Keys
    BY <1>1, <1>3 DEF SaveGatewayOrder, At
  <2>2. Opened(k) \/ UNCHANGED <<dining, bill, pay>>
    BY <1>3 DEF SaveGatewayOrder, Opened, dining
  <2> QED
    BY <1>3, <2>1, <2>2 DEF SaveGatewayOrder, Effect
<1>4. CASE FailAttempt(h)
  <2>1. k \in Keys /\ ~Unused(k)
    BY <1>1, <1>4 DEF FailAttempt, At
  <2>2. RecordGatewayFailure(k) /\ UNCHANGED <<dining, bill>>
    BY <1>4 DEF FailAttempt
  <2> QED
    BY <1>4, <2>1, <2>2, FailedEffect DEF FailAttempt, Effect
<1>5. CASE CancelPayment(h)
  <2>1. k \in Keys /\ ~Unused(k)
    BY <1>1, <1>5 DEF CancelPayment, At
  <2>2. Ended(k) \/ UNCHANGED <<dining, bill, pay>>
    BY <1>5 DEF CancelPayment, Ended, dining
  <2> QED
    BY <1>5, <2>1, <2>2 DEF CancelPayment, Effect
<1>6. CASE CompleteVerified(h)
  <2>1. k \in Keys /\ ~Unused(k) /\ (Online(k) => k \in captured)
    BY <1>1, <1>6 DEF CompleteVerified, At, IInv, RequestOK
  <2>2. CompletePayment(k) /\ UNCHANGED <<ord, tickets>>
    BY <1>6 DEF CompleteVerified
  <2> QED
    BY <1>6, <2>1, <2>2, CompletedEffect DEF CompleteVerified, Effect
<1> QED
  BY <1>2, <1>3, <1>4, <1>5, <1>6 DEF Step

\* Every step has one of the effects.
LEMMA NextEffect ==
  ASSUME IInv, [Next]_vars
  PROVE  Effect /\ GatewayMoves
<1> USE DEF gateway, GatewayMoves
<1>1. \A k \in captured \union declined : k \in Keys /\ pay[k].gw /\ ~Unused(k)
  BY DEF IInv, TypeOK, Tables, AttemptsSound, Unused, NoPayment
<1>2. CASE UNCHANGED vars
  BY <1>2 DEF vars, dining, Effect
<1>3. CASE OrderStep /\ UNCHANGED <<bill, pay, req, gateway, lost>>
  BY <1>3 DEF OrdersMove, Effect
<1>4. CASE RequestBill \/ ConfirmBill \/ CancelBillRequest
  BY <1>4 DEF RequestBill, ConfirmBill, CancelBillRequest, BillMoves, Effect
<1>5. ASSUME NEW k \in Keys, InitiateCash(k) \/ \E h \in Handlers : InitiateOnline(h, k)
      PROVE  Effect /\ GatewayMoves
  BY <1>5 DEF InitiateCash, InitiateOnline, Attempted, Effect
<1>6. ASSUME NEW h \in Handlers,
             \/ LoseRequest(h)
             \/ \E k \in Keys : Verify(h, k) \/ RequestCancel(h, k) \/ ConfirmCash(h, k)
      PROVE  Effect /\ GatewayMoves
  BY <1>6 DEF LoseRequest, Verify, RequestCancel, ConfirmCash, Effect
<1>7. ASSUME NEW k \in Keys, RejectCash(k)
      PROVE  Effect /\ GatewayMoves
  BY <1>7 DEF RejectCash, Ended, Effect
<1>8. ASSUME NEW h \in Handlers, Step(h)
      PROVE  Effect /\ GatewayMoves
  BY <1>8, StepEffect
<1>9. ASSUME NEW k \in Keys, Capture(k) \/ Decline(k)
      PROVE  Effect /\ GatewayMoves
  BY <1>1, <1>9 DEF Capture, Decline, Effect
<1>10. ASSUME NEW k \in Keys, CaptureWebhook(k)
       PROVE  Effect /\ GatewayMoves
  BY <1>1, <1>10, CompletedEffect DEF CaptureWebhook, Effect
<1>11. ASSUME NEW k \in Keys, FailureWebhook(k)
       PROVE  Effect /\ GatewayMoves
  BY <1>1, <1>11, FailedEffect DEF FailureWebhook, Effect
<1> QED
  BY <1>2, <1>3, <1>4, <1>5, <1>6, <1>7, <1>8, <1>9, <1>10, <1>11
  DEF Next, BillManagement, PaymentRequest, CashDesk, Webhook

-----------------------------------------------------------------------------

(***************************************************************************)
(* Each effect keeps the tables consistent.                               *)
(***************************************************************************)
\* Orders move only before the bill is requested: later none is unfinished,
\* and none can be created.
LEMMA OrdersWhileActive ==
  ASSUME IInv, OrdersMove
  PROVE  session = "ACTIVE" /\ UNCHANGED session
<1>1. PICK o \in Orders : \/ CreateOrder(o) \/ CancelOrder(o) \/ ApproveOrder(o)
                          \/ RejectOrder(o) \/ UpdateKitchenStatus(o)
  BY DEF OrdersMove, OrderStep, CustomerOrder, ManagerOrder
<1>2. CASE CreateOrder(o)
  BY <1>2 DEF CreateOrder
<1>3. CASE o \in Unfinished
  <2>1. bill \in Bills /\ BillMatchesOrders /\ SessionFollowsBill
    BY DEF IInv, TypeOK, Tables
  <2> QED
    BY <1>1, <1>3, <2>1
    DEF BillMatchesOrders, SessionFollowsBill, Bills, CreateOrder, CancelOrder, ApproveOrder,
        RejectOrder, UpdateKitchenStatus
<1> QED
  BY <1>1, <1>2, <1>3
  DEF CancelOrder, ApproveOrder, RejectOrder, UpdateKitchenStatus, AfterKitchen, Unfinished

\* The kitchen's tickets follow the orders.
LEMMA OrdersInv ==
  ASSUME IInv, OrdersMove, UNCHANGED captured, UNCHANGED declined
  PROVE  TablesTyped' /\ Tables' /\ Steady
<1>1. PICK o \in Orders : \/ CreateOrder(o) \/ CancelOrder(o) \/ ApproveOrder(o)
                          \/ RejectOrder(o) \/ UpdateKitchenStatus(o)
  BY DEF OrdersMove, OrderStep, CustomerOrder, ManagerOrder
<1>2. /\ session \in {"ACTIVE", "BILL_REQUESTED", "PAYMENT_PENDING", "COMPLETED"}
      /\ ord \in [Orders -> OrderStatus] /\ tickets \subseteq Orders
      /\ bill \in Bills /\ pay \in [Keys -> Payments]
  BY DEF IInv, TypeOK, OrdersTypeOK
<1>3. UNCHANGED <<session, bill, pay>>
  BY <1>1 DEF OrdersMove, CreateOrder, CancelOrder, ApproveOrder, RejectOrder,
              UpdateKitchenStatus
<1>4. session = "ACTIVE"
  BY OrdersWhileActive
<1>5. TablesTyped' /\ TicketsMatch'
  <2>1. TicketsMatch
    BY DEF IInv, Tables
  <2>2. CASE CreateOrder(o) \/ CancelOrder(o) \/ RejectOrder(o)
    BY <1>2, <1>3, <2>1, <2>2
    DEF CreateOrder, CancelOrder, RejectOrder, TicketsMatch, TablesTyped, OrdersTypeOK,
        OrderStatus
  <2>3. CASE ApproveOrder(o)
    BY <1>2, <1>3, <2>1, <2>3
    DEF ApproveOrder, TicketsMatch, TablesTyped, OrdersTypeOK, OrderStatus
  <2>4. CASE UpdateKitchenStatus(o)
    BY <1>2, <1>3, <2>1, <2>4
    DEF UpdateKitchenStatus, AfterKitchen, TicketsMatch, TablesTyped, OrdersTypeOK, OrderStatus
  <2> QED
    BY <1>1, <2>2, <2>3, <2>4
<1>6. SessionFollowsBill' /\ BillMatchesOrders'
  BY <1>3, <1>4 DEF IInv, Tables, SessionFollowsBill, BillMatchesOrders
<1> QED
  BY <1>3, <1>5, <1>6
  DEF IInv, Tables, PaidOnce, PaidIsCaptured, OneOpenAttempt, AttemptsOnConfirmedBill,
      AttemptsSound, Steady, Succeeded, Unused, Online, IsOpen

\* A bill is requested, confirmed and taken back before anybody pays.
LEMMA BillInv ==
  ASSUME IInv, BillMoves, UNCHANGED captured, UNCHANGED declined
  PROVE  TablesTyped' /\ Tables' /\ Steady
<1>1. UNCHANGED <<ord, tickets, pay>>
  BY DEF BillMoves, RequestBill, ConfirmBill, CancelBillRequest
<1>2. TypeOK /\ Tables
  BY DEF IInv
<1>3. bill.st \in {"none", "CANCELLED", "REQUESTED"} /\ \A k \in Keys : Unused(k)
  BY <1>2 DEF BillMoves, RequestBill, ConfirmBill, CancelBillRequest, Tables,
              AttemptsOnConfirmedBill
<1>4. /\ bill'.st \in {"REQUESTED", "PAYMENT_PENDING", "CANCELLED"}
      /\ bill'.orders \subseteq Orders /\ bill' \in Bills
  BY <1>2 DEF BillMoves, RequestBill, Snapshot, ConfirmBill, CancelBillRequest, TypeOK, Bills, Served
<1>5. TablesTyped' /\ TicketsMatch'
  BY <1>1, <1>2, <1>4
  DEF BillMoves, RequestBill, ConfirmBill, CancelBillRequest, TablesTyped, TypeOK,
      OrdersTypeOK, Tables, TicketsMatch
<1>6. SessionFollowsBill' /\ BillMatchesOrders'
  <2>1. CASE RequestBill
    BY <1>1, <2>1 DEF RequestBill, Snapshot, SessionFollowsBill, BillMatchesOrders, Served, Unfinished
  <2>2. CASE ConfirmBill
    BY <1>1, <1>2, <2>2
    DEF ConfirmBill, Snapshot, MatchesFrozenInvoice, SessionFollowsBill, BillMatchesOrders, Served, Unfinished, TypeOK, Bills
  <2>3. CASE CancelBillRequest
    BY <1>1, <1>2, <2>3
    DEF CancelBillRequest, SessionFollowsBill, BillMatchesOrders, TypeOK, Bills
  <2> QED
    BY <2>1, <2>2, <2>3 DEF BillMoves
<1>7. session' # "COMPLETED"
  BY DEF BillMoves, RequestBill, ConfirmBill, CancelBillRequest
<1> QED
  BY <1>1, <1>2, <1>3, <1>4, <1>5, <1>6, <1>7
  DEF Tables, PaidOnce, PaidIsCaptured, OneOpenAttempt, AttemptsOnConfirmedBill,
      AttemptsSound, Steady, Succeeded, Unused, Online, IsOpen

\* A new attempt finds no other one open or paid.
LEMMA AttemptedInv ==
  ASSUME IInv, NEW k \in Keys, Attempted(k), UNCHANGED captured, UNCHANGED declined
  PROVE  TablesTyped' /\ Tables' /\ Steady
<1>1. UNCHANGED <<session, ord, tickets, bill>>
  BY DEF Attempted, dining
<1>2. TypeOK /\ Tables
  BY DEF IInv
<1>3. PICK p \in Payments :
        /\ pay' = [pay EXCEPT ![k] = p]
        /\ ~p.gw
        /\ \/ p.st = "AWAITING_CASH_CONFIRMATION" /\ p.method = "CASH"
           \/ p.st = "PROCESSING" /\ p.method = "ONLINE"
  <2> DEFINE cash == [st |-> "AWAITING_CASH_CONFIRMATION", method |-> "CASH", gw |-> FALSE]
             online == [st |-> "PROCESSING", method |-> "ONLINE", gw |-> FALSE]
  <2>1. cash \in Payments /\ online \in Payments
    BY DEF Payments
  <2>2. pay' = [pay EXCEPT ![k] = cash] \/ pay' = [pay EXCEPT ![k] = online]
    BY DEF Attempted
  <2>3. /\ ~cash.gw /\ cash.st = "AWAITING_CASH_CONFIRMATION" /\ cash.method = "CASH"
        /\ ~online.gw /\ online.st = "PROCESSING" /\ online.method = "ONLINE"
    OBVIOUS
  <2> HIDE DEF cash, online
  <2> QED
    BY <2>1, <2>2, <2>3
<1>4. /\ pay' \in [Keys -> Payments] /\ pay'[k] = p
      /\ \A j \in Keys \ {k} : pay'[j] = pay[j]
  BY <1>2, <1>3 DEF TypeOK
<1>5. /\ Unused(k) /\ bill.st = "PAYMENT_PENDING"
      /\ \A j \in Keys : ~Succeeded(j) /\ ~IsOpen(j)
  BY DEF Attempted, MayAttempt, Payable
<1>6. AttemptsSound'
  <2> SUFFICES ASSUME NEW j \in Keys
               PROVE  (/\ Unused(j) => pay[j] = NoPayment
                       /\ ~Unused(j) => pay[j].method # "none"
                       /\ pay[j].st \in {"PROCESSING", "PENDING"} => Online(j)
                       /\ pay[j].st = "AWAITING_CASH_CONFIRMATION" => ~Online(j)
                       /\ pay[j].gw => Online(j) /\ pay[j].st # "PROCESSING"
                       /\ j \in captured \union declined => pay[j].gw)'
    BY DEF AttemptsSound
  <2>1. CASE j = k
    BY <1>2, <1>3, <1>4, <1>5, <2>1 DEF Tables, AttemptsSound, Unused, Online, NoPayment
  <2>2. CASE j # k
    BY <1>2, <1>4, <2>2 DEF Tables, AttemptsSound, Unused, Online
  <2> QED
    BY <2>1, <2>2
<1>7. PaidOnce' /\ PaidIsCaptured' /\ OneOpenAttempt' /\ AttemptsOnConfirmedBill'
  <2>1. \A j \in Keys : ~Succeeded(j)'
    BY <1>3, <1>4, <1>5 DEF Succeeded
  <2>2. \A j \in Keys : IsOpen(j)' => j = k
    BY <1>4, <1>5 DEF IsOpen
  <2> QED
    BY <1>1, <1>2, <1>5, <2>1, <2>2
    DEF Tables, PaidOnce, PaidIsCaptured, OneOpenAttempt, AttemptsOnConfirmedBill
<1>8. Steady
  BY <1>3, <1>4, <1>5 DEF Steady, Unused
<1> QED
  BY <1>1, <1>2, <1>4, <1>6, <1>7, <1>8
  DEF TablesTyped, TypeOK, OrdersTypeOK, Tables, TicketsMatch, BillMatchesOrders, Served,
      Unfinished, SessionFollowsBill

\* Storing a gateway order, or ending an attempt that is not paid.
LEMMA AttemptInv ==
  ASSUME IInv, NEW k \in Keys, Opened(k) \/ Ended(k), UNCHANGED captured, UNCHANGED declined
  PROVE  TablesTyped' /\ Tables' /\ Steady
<1>1. UNCHANGED <<session, ord, tickets, bill>>
  BY DEF Opened, Ended, dining
<1>2. TypeOK /\ Tables
  BY DEF IInv
<1>3. /\ pay' \in [Keys -> Payments]
      /\ pay'[k].method = pay[k].method
      /\ \A j \in Keys \ {k} : pay'[j] = pay[j]
      /\ \/ /\ pay[k].st = "PROCESSING"
            /\ pay'[k].st = "PENDING" /\ pay'[k].gw
         \/ /\ pay[k].st \notin {"none", "SUCCESS"}
            /\ pay'[k].st \in {"FAILED", "CANCELLED"} /\ pay'[k].gw = pay[k].gw
  BY <1>2 DEF Opened, Ended, TypeOK, Payments
<1>4. AttemptsSound'
  <2> SUFFICES ASSUME NEW j \in Keys
               PROVE  (/\ Unused(j) => pay[j] = NoPayment
                       /\ ~Unused(j) => pay[j].method # "none"
                       /\ pay[j].st \in {"PROCESSING", "PENDING"} => Online(j)
                       /\ pay[j].st = "AWAITING_CASH_CONFIRMATION" => ~Online(j)
                       /\ pay[j].gw => Online(j) /\ pay[j].st # "PROCESSING"
                       /\ j \in captured \union declined => pay[j].gw)'
    BY DEF AttemptsSound
  <2>1. CASE j = k
    BY <1>2, <1>3, <2>1 DEF Tables, AttemptsSound, Unused, Online
  <2>2. CASE j # k
    BY <1>2, <1>3, <2>2 DEF Tables, AttemptsSound, Unused, Online
  <2> QED
    BY <2>1, <2>2
<1>5. PaidOnce' /\ PaidIsCaptured' /\ OneOpenAttempt' /\ AttemptsOnConfirmedBill'
  <2>1. \A j \in Keys : /\ Succeeded(j)' <=> Succeeded(j)
                        /\ Online(j)' <=> Online(j)
                        /\ IsOpen(j)' => IsOpen(j)
                        /\ Unused(j)' <=> Unused(j)
    BY <1>3 DEF Succeeded, Online, IsOpen, Unused
  <2> QED
    BY <1>1, <1>2, <2>1
    DEF Tables, PaidOnce, PaidIsCaptured, OneOpenAttempt, AttemptsOnConfirmedBill
<1>6. Steady
  BY <1>3 DEF Steady, Unused
<1> QED
  BY <1>1, <1>2, <1>3, <1>4, <1>5, <1>6
  DEF TablesTyped, TypeOK, OrdersTypeOK, Tables, TicketsMatch, BillMatchesOrders, Served,
      Unfinished, SessionFollowsBill

\* The only payment that settles the bill is captured, or cash.
LEMMA SettledInv ==
  ASSUME IInv, NEW k \in Keys, Settled(k), UNCHANGED captured, UNCHANGED declined
  PROVE  TablesTyped' /\ Tables' /\ Steady
<1>1. UNCHANGED <<ord, tickets>> /\ session' = "COMPLETED"
  BY DEF Settled, Settle
<1>2. TypeOK /\ Tables
  BY DEF IInv
<1>3. /\ bill' \in Bills /\ bill'.st = "PAID" /\ bill'.orders = bill.orders
      /\ bill.st = "PAYMENT_PENDING"
  BY <1>2 DEF Settled, Settle, Payable, TypeOK, Bills
<1>4. /\ pay' \in [Keys -> Payments] /\ ~Unused(k)
      /\ pay'[k].st = "SUCCESS" /\ pay'[k].method = pay[k].method /\ pay'[k].gw = pay[k].gw
      /\ \A j \in Keys \ {k} : pay'[j] = pay[j] /\ ~Succeeded(j)
      /\ Online(k) => k \in captured
  BY <1>2 DEF Settled, Settle, TypeOK, Payments
<1>5. AttemptsSound'
  <2> SUFFICES ASSUME NEW j \in Keys
               PROVE  (/\ Unused(j) => pay[j] = NoPayment
                       /\ ~Unused(j) => pay[j].method # "none"
                       /\ pay[j].st \in {"PROCESSING", "PENDING"} => Online(j)
                       /\ pay[j].st = "AWAITING_CASH_CONFIRMATION" => ~Online(j)
                       /\ pay[j].gw => Online(j) /\ pay[j].st # "PROCESSING"
                       /\ j \in captured \union declined => pay[j].gw)'
    BY DEF AttemptsSound
  <2>1. CASE j = k
    BY <1>2, <1>4, <2>1 DEF Tables, AttemptsSound, Unused, Online
  <2>2. CASE j # k
    BY <1>2, <1>4, <2>2 DEF Tables, AttemptsSound, Unused, Online
  <2> QED
    BY <2>1, <2>2
<1>6. PaidOnce' /\ PaidIsCaptured' /\ OneOpenAttempt' /\ AttemptsOnConfirmedBill'
  <2>1. \A j \in Keys : /\ Succeeded(j)' <=> j = k
                        /\ Online(j)' <=> Online(j)
                        /\ IsOpen(j)' => IsOpen(j)
    BY <1>4 DEF Succeeded, Online, IsOpen
  <2> QED
    BY <1>1, <1>2, <1>3, <1>4, <2>1
    DEF Tables, PaidOnce, PaidIsCaptured, OneOpenAttempt, AttemptsOnConfirmedBill
<1>7. Steady
  BY <1>4 DEF Steady, Unused
<1>8. SessionFollowsBill' /\ BillMatchesOrders'
  BY <1>1, <1>2, <1>3
  DEF SessionFollowsBill, BillMatchesOrders, Tables, Served, Unfinished
<1> QED
  BY <1>1, <1>2, <1>3, <1>4, <1>5, <1>6, <1>7, <1>8
  DEF TablesTyped, TypeOK, OrdersTypeOK, Tables, TicketsMatch

\* What the gateway does touches no table.
LEMMA StillInv ==
  ASSUME IInv, UNCHANGED <<dining, bill, pay>>, GatewayMoves
  PROVE  TablesTyped' /\ Tables' /\ Steady
<1>1. TypeOK /\ Tables /\ UNCHANGED <<session, ord, tickets, bill, pay>>
  BY DEF IInv, dining
<1>2. \A k \in Keys : k \in captured' \union declined' => pay[k].gw
  BY <1>1 DEF GatewayMoves, gateway, Tables, AttemptsSound
<1>3. AttemptsSound'
  BY <1>1, <1>2 DEF Tables, AttemptsSound, Unused, Online
<1>4. PaidIsCaptured' /\ PaidOnce' /\ OneOpenAttempt' /\ AttemptsOnConfirmedBill'
  BY <1>1
  DEF GatewayMoves, Tables, PaidIsCaptured, PaidOnce, OneOpenAttempt, Succeeded, Online,
      IsOpen, Unused, AttemptsOnConfirmedBill
<1> QED
  BY <1>1, <1>3, <1>4
  DEF TablesTyped, TypeOK, OrdersTypeOK, Tables, TicketsMatch, BillMatchesOrders, Served,
      Unfinished, SessionFollowsBill, Steady, Unused, GatewayMoves

\* Every effect keeps the tables consistent and is steady.
LEMMA EffectInv ==
  ASSUME IInv, Effect, GatewayMoves
  PROVE  TablesTyped' /\ Tables' /\ Steady
<1>1. CASE UNCHANGED <<dining, bill, pay>>
  BY <1>1, StillInv
<1>2. CASE UNCHANGED gateway
  BY <1>1, <1>2, OrdersInv, BillInv, AttemptedInv, AttemptInv, SettledInv
  DEF Effect, gateway
<1> QED
  BY <1>1, <1>2 DEF GatewayMoves

-----------------------------------------------------------------------------

(***************************************************************************)
(* What a handler remembers stays true while others step, and true of the *)
(* handler that steps.                                                    *)
(***************************************************************************)
\* Steps of other requests, customers and the gateway spoil no request.
LEMMA RequestKept ==
  ASSUME Steady, NEW r, RequestOK(r)
  PROVE  RequestOK(r)'
BY DEF Steady, RequestOK, Online

\* A handler's own step leaves it with a request that is sound before the
\* step's effect, or with the attempt the step made.
LEMMA RequestMade ==
  ASSUME IInv, NEW h \in Handlers, NEW k \in Keys,
         \/ Verify(h, k) \/ RequestCancel(h, k) \/ ConfirmCash(h, k)
  PROVE  \E r \in Requests : req' = [req EXCEPT ![h] = r] /\ RequestOK(r)
<1>1. \A step \in {"query", "cancel", "complete"} : [pc |-> step, key |-> k] \in Requests
  BY DEF Requests
<1>2. AttemptsSound
  BY DEF IInv, Tables
<1>3. CASE Verify(h, k)
  <2> DEFINE r == [pc |-> "complete", key |-> k]
  <2>1. r \in Requests /\ req' = [req EXCEPT ![h] = r]
    BY <1>1, <1>3 DEF Verify, Goto
  <2>2. RequestOK(r)
    BY <1>3 DEF Verify, RequestOK, Unused
  <2> QED
    BY <2>1, <2>2
<1>4. CASE RequestCancel(h, k)
  <2> DEFINE r == [pc |-> IF pay[k].gw THEN "query" ELSE "cancel", key |-> k]
  <2>1. r \in Requests /\ req' = [req EXCEPT ![h] = r]
    BY <1>1, <1>4 DEF RequestCancel, Goto
  <2>2. RequestOK(r)
    BY <1>4 DEF RequestCancel, RequestOK, Unused
  <2> QED
    BY <2>1, <2>2
<1>5. CASE ConfirmCash(h, k)
  <2> DEFINE r == [pc |-> "complete", key |-> k]
  <2>1. r \in Requests /\ req' = [req EXCEPT ![h] = r]
    BY <1>1, <1>5 DEF ConfirmCash, Goto
  <2>2. RequestOK(r)
    BY <1>2, <1>5 DEF ConfirmCash, RequestOK, Unused, AttemptsSound
  <2> QED
    BY <2>1, <2>2
<1> QED
  BY <1>3, <1>4, <1>5

\* A started handler continues with the same payment, or finishes.
LEMMA RequestContinued ==
  ASSUME IInv, NEW h \in Handlers, Step(h) \/ LoseRequest(h)
  PROVE  \E r \in Requests : req' = [req EXCEPT ![h] = r] /\ RequestOK(r)
<1> DEFINE k == req[h].key
<1>1. req[h] \in Requests /\ RequestOK(req[h])
  BY DEF IInv, TypeOK
<1>2. CASE req' = [req EXCEPT ![h] = Idle]
  <2>1. Idle \in Requests /\ RequestOK(Idle)
    BY DEF Idle, Requests, RequestOK
  <2> QED
    BY <1>2, <2>1
<1>3. ASSUME NEW step \in {"save", "reject", "cancel", "complete"},
             req[h].pc \in {"gateway", "save", "query"},
             Continue(h, step), step = "complete" => k \in captured
      PROVE  \E r \in Requests : req' = [req EXCEPT ![h] = r] /\ RequestOK(r)
  <2> DEFINE r == [pc |-> step, key |-> k]
  <2>1. r \in Requests
    BY <1>1 DEF Requests
  <2>2. [req[h] EXCEPT !.pc = step] = r
    BY <1>1 DEF Requests
  <2>3. req' = [req EXCEPT ![h] = r]
    BY <1>3, <2>2 DEF Continue
  <2>4. RequestOK(r)
    BY <1>1, <1>3 DEF RequestOK
  <2> QED
    BY <2>1, <2>3, <2>4
<1>4. CASE GatewayAccepts(h) \/ GatewayFails(h) \/ QueryGateway(h)
  BY <1>3, <1>4 DEF GatewayAccepts, GatewayFails, QueryGateway, At
<1> QED
  BY <1>2, <1>4
  DEF Step, LoseRequest, SaveGatewayOrder, FailAttempt, QueryFails, CancelPayment,
      CompleteVerified, Finish

\* Every step keeps every request sound.
LEMMA RequestsInv ==
  ASSUME IInv, [Next]_vars, Steady
  PROVE  req' \in [Handlers -> Requests] /\ \A h \in Handlers : RequestOK(req[h])'
<1>1. req \in [Handlers -> Requests] /\ \A h \in Handlers : RequestOK(req[h])
  BY DEF IInv, TypeOK
<1>2. ASSUME NEW r \in Requests, NEW h \in Handlers, req' = [req EXCEPT ![h] = r],
             RequestOK(r)'
      PROVE  req' \in [Handlers -> Requests] /\ \A g \in Handlers : RequestOK(req[g])'
  <2>1. \A g \in Handlers : req'[g] = IF g = h THEN r ELSE req[g]
    BY <1>1, <1>2
  <2>2. \A g \in Handlers \ {h} : RequestOK(req[g])'
    BY <1>1, <2>1, RequestKept DEF RequestOK, Steady, Online
  <2> QED
    BY <1>1, <1>2, <2>1, <2>2 DEF RequestOK, Unused, Online
<1>3. CASE UNCHANGED req
  BY <1>1, <1>3 DEF RequestOK, Steady, Online
<1>4. ASSUME NEW h \in Handlers, NEW r \in Requests, req' = [req EXCEPT ![h] = r], RequestOK(r)
      PROVE  req' \in [Handlers -> Requests] /\ \A g \in Handlers : RequestOK(req[g])'
  BY <1>2, <1>4 DEF RequestOK, Steady, Online, Unused
<1>5. ASSUME NEW h \in Handlers, NEW k \in Keys, InitiateOnline(h, k)
      PROVE  req' \in [Handlers -> Requests] /\ \A g \in Handlers : RequestOK(req[g])'
  <2> DEFINE r == [pc |-> "gateway", key |-> k]
  <2>1. r \in Requests /\ req' = [req EXCEPT ![h] = r]
    BY <1>5 DEF InitiateOnline, Goto, Requests
  <2>2. pay'[k].st = "PROCESSING" /\ pay'[k].method = "ONLINE"
    BY <1>5 DEF InitiateOnline, IInv, TypeOK
  <2>3. RequestOK(r)'
    BY <2>2 DEF RequestOK, Unused, Online
  <2> QED
    BY <1>2, <2>1, <2>3
<1>6. ASSUME NEW h \in Handlers, NEW k \in Keys,
             Verify(h, k) \/ RequestCancel(h, k) \/ ConfirmCash(h, k)
      PROVE  req' \in [Handlers -> Requests] /\ \A g \in Handlers : RequestOK(req[g])'
  BY <1>4, <1>6, RequestMade
<1>7. ASSUME NEW h \in Handlers, Step(h) \/ LoseRequest(h)
      PROVE  req' \in [Handlers -> Requests] /\ \A g \in Handlers : RequestOK(req[g])'
  BY <1>4, <1>7, RequestContinued
<1>8. \/ UNCHANGED req
      \/ \E h \in Handlers : \/ Step(h) \/ LoseRequest(h)
                            \/ \E k \in Keys : \/ InitiateOnline(h, k) \/ Verify(h, k)
                                               \/ RequestCancel(h, k) \/ ConfirmCash(h, k)
  BY DEF Next, BillManagement, PaymentRequest, CashDesk, Webhook,
         vars, RequestBill, ConfirmBill, CancelBillRequest, InitiateCash, RejectCash,
         Capture, Decline, CaptureWebhook, FailureWebhook
<1> QED
  BY <1>3, <1>5, <1>6, <1>7, <1>8

\* Only a lost request counts, and never above the bound.
LEMMA LostInv ==
  ASSUME IInv, [Next]_vars
  PROVE  lost' \in 0..MaxLost
<1>1. lost \in 0..MaxLost
  BY DEF IInv, TypeOK
<1>2. ASSUME NEW h \in Handlers, LoseRequest(h)
      PROVE  lost' \in 0..MaxLost
  BY <1>1, <1>2, BoundsAssumption DEF LoseRequest
<1>3. ASSUME NEW h \in Handlers, Step(h)
      PROVE  UNCHANGED lost
  BY <1>3 DEF Step, GatewayAccepts, GatewayFails, SaveGatewayOrder, FailAttempt, QueryGateway,
              QueryFails, CancelPayment, CompleteVerified
<1>4. UNCHANGED lost \/ \E h \in Handlers : LoseRequest(h)
  BY <1>3
  DEF Next, BillManagement, PaymentRequest, CashDesk, Webhook,
      vars, RequestBill, ConfirmBill, CancelBillRequest, InitiateCash, InitiateOnline,
      Verify, RequestCancel, ConfirmCash, RejectCash, Capture, Decline, CaptureWebhook,
      FailureWebhook
<1> QED
  BY <1>1, <1>2, <1>4

\* Every step keeps the invariant.
LEMMA NextInv ==
  ASSUME IInv, [Next]_vars
  PROVE  IInv' /\ Steady
<1>1. TablesTyped' /\ Tables' /\ Steady
  BY NextEffect, EffectInv
<1>2. captured' \subseteq Keys /\ declined' \subseteq Keys
  <2>1. captured \subseteq Keys /\ declined \subseteq Keys
    BY DEF IInv, TypeOK
  <2> QED
    BY <2>1, NextEffect DEF GatewayMoves, gateway
<1> QED
  BY <1>1, <1>2, RequestsInv, LostInv DEF IInv, TypeOK, TablesTyped

\* The inductive invariant holds in every state.
THEOREM Invariance == Spec => []IInv
<1>1. IInv /\ [Next]_vars => IInv'
  BY NextInv
<1> QED
  BY InitIInv, <1>1, PTL DEF Spec

\* Every value is in its set; the invariant contains the type invariant.
THEOREM TypeCorrect == Spec => []TypeOK
BY Invariance, PTL DEF IInv

\* The kitchen has a ticket for exactly the approved orders.
THEOREM TicketsAlwaysMatch == Spec => []TicketsMatch
BY Invariance, PTL DEF IInv, Tables

\* A standing bill lists exactly what was served, and nothing is outstanding.
THEOREM BillIsExact == Spec => []BillMatchesOrders
BY Invariance, PTL DEF IInv, Tables

\* The total of aggregateSessionOrders, which counts orders from their approval,
\* is the total of the standing bill.
THEOREM ShownTotalIsBilled == Spec => []BillAsShown
<1>1. IInv => BillAsShown
  <2> SUFFICES ASSUME IInv PROVE BillAsShown
    OBVIOUS
  <2>1. BillMatchesOrders
    BY DEF IInv, Tables
  <2>2. Unfinished = {} => PayableOrders = Served
    BY DEF Unfinished, PayableOrders, Served
  <2> QED
    BY <2>1, <2>2 DEF BillAsShown, BillMatchesOrders, ShownTotalIsBill
<1> QED
  BY Invariance, <1>1, PTL

\* A bill is paid by exactly one payment, which closes the session.
THEOREM BillPaidOnce == Spec => []PaidOnce
BY Invariance, PTL DEF IInv, Tables

\* A successful online payment was captured by the gateway.
THEOREM PaidWasCaptured == Spec => []PaidIsCaptured
BY Invariance, PTL DEF IInv, Tables

\* One payment closes the bill, and it stands on money.
THEOREM PaidSoundly == Spec => []PaidSound
BY BillPaidOnce, PaidWasCaptured, PTL DEF PaidSound

\* Two attempts on a bill are never open together.
THEOREM OneAttemptOpen == Spec => []OneOpenAttempt
BY Invariance, PTL DEF IInv, Tables

\* There are attempts on a confirmed or paid bill only.
THEOREM AttemptsAfterConfirmation == Spec => []AttemptsOnConfirmedBill
BY Invariance, PTL DEF IInv, Tables

-----------------------------------------------------------------------------

(***************************************************************************)
(* Attempts that hold the table up: one that is PROCESSING is in the hand *)
(* of the request that opened it, until a request is lost.                 *)
(***************************************************************************)
\* A step of one handler keeps this when every attempt that is PROCESSING
\* afterwards is in its hand now, or was not in it before.
LEMMA StillInHand ==
  ASSUME IInv, OpenIsTended, lost \in Nat, lost' = lost, NEW h \in Handlers, NEW r,
         req' = [req EXCEPT ![h] = r],
         \A k \in Keys : pay'[k].st = "PROCESSING" =>
           \/ r.key = k /\ r.pc \in {"gateway", "save", "reject"}
           \/ pay[k].st = "PROCESSING" /\ ~Tends(h, k)
  PROVE  OpenIsTended'
<1>1. req'[h] = r /\ \A g \in Handlers \ {h} : req'[g] = req[g]
  BY DEF IInv, TypeOK
<1> SUFFICES ASSUME NEW k \in Keys, pay'[k].st = "PROCESSING", lost = 0
             PROVE  \E g \in Handlers : Tends(g, k)'
  BY DEF OpenIsTended
<1>2. CASE r.key = k /\ r.pc \in {"gateway", "save", "reject"}
  BY <1>1, <1>2 DEF Tends
<1>3. CASE pay[k].st = "PROCESSING" /\ ~Tends(h, k)
  <2>1. PICK g \in Handlers : Tends(g, k)
    BY <1>3 DEF OpenIsTended
  <2>2. req'[g] = req[g]
    BY <1>1, <1>3, <2>1
  <2> QED
    BY <2>1, <2>2 DEF Tends
<1> QED
  BY <1>2, <1>3

\* Only initiate makes a payment PROCESSING.
LEMMA ProcessingKept ==
  ASSUME IInv, Effect, NEW k \in Keys, pay'[k].st = "PROCESSING"
  PROVE  pay[k].st = "PROCESSING" \/ Attempted(k)
<1>1. pay \in [Keys -> Payments]
  BY DEF IInv, TypeOK
<1>2. CASE UNCHANGED pay
  BY <1>2
<1>3. ASSUME NEW j \in Keys, Attempted(j) \/ Opened(j) \/ Ended(j) \/ Settled(j)
      PROVE  j = k => Attempted(j) \/ pay[k].st = "PROCESSING"
  BY <1>1, <1>3 DEF Opened, Ended, Settled, Settle, Payments
<1>4. ASSUME NEW j \in Keys \ {k}, Attempted(j) \/ Opened(j) \/ Ended(j) \/ Settled(j)
      PROVE  pay'[k] = pay[k]
  BY <1>1, <1>4 DEF Attempted, Opened, Ended, Settled, Settle
<1>5. UNCHANGED pay \/ \E j \in Keys : Attempted(j) \/ Opened(j) \/ Ended(j) \/ Settled(j)
  BY DEF Effect, OrdersMove, BillMoves, RequestBill, ConfirmBill, CancelBillRequest
<1> QED
  BY <1>2, <1>3, <1>4, <1>5

\* A started handler ends its attempt or keeps it in hand.
LEMMA StepTends ==
  ASSUME IInv, OpenIsTended, lost \in Nat, NEW h \in Handlers, Step(h)
  PROVE  OpenIsTended'
<1>1. /\ req \in [Handlers -> Requests] /\ pay \in [Keys -> Payments]
      /\ req[h].key \in Keys /\ lost' = lost
  BY DEF IInv, TypeOK, RequestOK, Step, GatewayAccepts, GatewayFails, SaveGatewayOrder,
     FailAttempt, QueryGateway, QueryFails, CancelPayment, CompleteVerified, At
<1>2. CASE GatewayAccepts(h) \/ GatewayFails(h)
  <2>1. PICK s \in {"save", "reject"} : req' = [req EXCEPT ![h].pc = s]
    BY <1>2 DEF GatewayAccepts, GatewayFails, Continue
  <2> DEFINE r == [req[h] EXCEPT !.pc = s]
  <2>2. req' = [req EXCEPT ![h] = r]
    BY <1>1, <2>1
  <2>3. r.pc = s /\ r.key = req[h].key
    BY <1>1 DEF Requests
  <2>4. UNCHANGED pay
    BY <1>2 DEF GatewayAccepts, GatewayFails
  <2> HIDE DEF r
  <2>5. \A k \in Keys : pay'[k].st = "PROCESSING" =>
          \/ r.key = k /\ r.pc \in {"gateway", "save", "reject"}
          \/ pay[k].st = "PROCESSING" /\ ~Tends(h, k)
    BY <2>3, <2>4 DEF Tends
  <2> QED
    BY <1>1, <2>2, <2>5, StillInHand
<1>3. CASE SaveGatewayOrder(h) \/ FailAttempt(h)
  <2>1. req' = [req EXCEPT ![h] = Idle]
    BY <1>3 DEF SaveGatewayOrder, FailAttempt, Finish
  <2>2. /\ pay'[req[h].key].st # "PROCESSING"
        /\ \A k \in Keys \ {req[h].key} : pay'[k] = pay[k]
    BY <1>1, <1>3 DEF SaveGatewayOrder, FailAttempt, RecordGatewayFailure, Payments
  <2>3. \A k \in Keys : pay'[k].st = "PROCESSING" => pay[k].st = "PROCESSING" /\ ~Tends(h, k)
    BY <2>2 DEF Tends
  <2> QED
    BY <1>1, <2>1, <2>3, StillInHand
<1>4. CASE QueryGateway(h)
  <2>1. PICK s \in {"complete", "cancel"} : req' = [req EXCEPT ![h].pc = s]
    BY <1>4 DEF QueryGateway, Continue
  <2> DEFINE r == [req[h] EXCEPT !.pc = s]
  <2>2. req' = [req EXCEPT ![h] = r]
    BY <1>1, <2>1
  <2>3. req[h].pc = "query" /\ UNCHANGED pay
    BY <1>4 DEF QueryGateway, At
  <2> HIDE DEF r
  <2> QED
    BY <1>1, <2>2, <2>3, StillInHand DEF Tends
<1>5. CASE QueryFails(h) \/ CancelPayment(h) \/ CompleteVerified(h)
  <2>1. req' = [req EXCEPT ![h] = Idle] /\ req[h].pc \in {"query", "cancel", "complete"}
    BY <1>5 DEF QueryFails, CancelPayment, CompleteVerified, Finish, At
  <2>2. \A k \in Keys : pay'[k].st = "PROCESSING" => pay[k].st = "PROCESSING"
    BY <1>1, <1>5 DEF QueryFails, CancelPayment, CompleteVerified, CompletePayment, Settle,
       Payments
  <2> QED
    BY <1>1, <2>1, <2>2, StillInHand DEF Tends
<1> QED
  BY <1>2, <1>3, <1>4, <1>5 DEF Step

\* Every step keeps it; a lost request is what it allows for.
LEMMA NextTends ==
  ASSUME IInv, OpenIsTended, [Next]_vars
  PROVE  OpenIsTended'
<1>1. lost \in Nat /\ Effect
  BY BoundsAssumption, NextEffect DEF IInv, TypeOK
<1>2. ASSUME NEW h \in Handlers, Step(h) PROVE OpenIsTended'
  BY <1>1, <1>2, StepTends
<1>3. ASSUME NEW h \in Handlers, LoseRequest(h) PROVE OpenIsTended'
  BY <1>1, <1>3 DEF LoseRequest, OpenIsTended
<1>4. ASSUME NEW h \in Handlers, NEW k \in Keys,
             \/ InitiateOnline(h, k) \/ Verify(h, k) \/ RequestCancel(h, k) \/ ConfirmCash(h, k)
      PROVE  OpenIsTended'
  <2>1. PICK s : /\ req' = [req EXCEPT ![h] = [pc |-> s, key |-> k]]
                 /\ s = "gateway" \/ UNCHANGED pay
    BY <1>4 DEF InitiateOnline, Verify, RequestCancel, ConfirmCash, Goto
  <2>2. req[h].pc = "idle" /\ lost' = lost /\ \A j \in Keys \ {k} : pay'[j] = pay[j]
    BY <1>4 DEF InitiateOnline, Verify, RequestCancel, ConfirmCash, At, IInv, TypeOK
  <2> DEFINE r == [pc |-> s, key |-> k]
  <2>3. \A j \in Keys : pay'[j].st = "PROCESSING" =>
          \/ r.key = j /\ r.pc \in {"gateway", "save", "reject"}
          \/ pay[j].st = "PROCESSING" /\ ~Tends(h, j)
    BY <2>1, <2>2 DEF Tends
  <2>4. req' = [req EXCEPT ![h] = r]
    BY <2>1
  <2> HIDE DEF r
  <2> QED
    BY <1>1, <2>2, <2>3, <2>4, StillInHand
<1>5. ASSUME UNCHANGED <<req, lost>>,
             \A k \in Keys : pay'[k].st = "PROCESSING" => pay[k].st = "PROCESSING"
      PROVE  OpenIsTended'
  BY <1>5 DEF OpenIsTended, Tends
<1>6. ASSUME NEW k \in Keys, InitiateCash(k) PROVE OpenIsTended'
  <2>1. \A j \in Keys : pay'[j].st = "PROCESSING" => pay[j].st = "PROCESSING"
    BY <1>6 DEF InitiateCash, IInv, TypeOK
  <2> QED
    BY <1>5, <1>6, <2>1 DEF InitiateCash
<1>7. ASSUME UNCHANGED <<req, lost>>, \A k \in Keys : ~Attempted(k) PROVE OpenIsTended'
  BY <1>1, <1>5, <1>7, ProcessingKept
<1>8. ASSUME NEW k \in Keys,
             \/ RejectCash(k) \/ CaptureWebhook(k) \/ FailureWebhook(k)
             \/ Capture(k) \/ Decline(k)
      PROVE  OpenIsTended'
  <2>1. \A j \in Keys : pay'[j].st = "PROCESSING" => pay[j].st = "PROCESSING"
    BY <1>8 DEF RejectCash, CaptureWebhook, CompletePayment, Settle, FailureWebhook,
       RecordGatewayFailure, Capture, Decline, IInv, TypeOK, Payments
  <2> QED
    BY <1>5, <1>8, <2>1 DEF RejectCash, CaptureWebhook, FailureWebhook, Capture, Decline
<1>9. CASE \/ OrderStep /\ UNCHANGED <<bill, pay, req, gateway, lost>>
           \/ RequestBill \/ ConfirmBill \/ CancelBillRequest
           \/ UNCHANGED vars
  BY <1>5, <1>9 DEF RequestBill, ConfirmBill, CancelBillRequest, vars
<1> QED
  BY <1>2, <1>3, <1>4, <1>6, <1>8, <1>9
  DEF Next, BillManagement, PaymentRequest, CashDesk, Webhook

\* Attempts exclude each other, and one that is PROCESSING is in the hand of its
\* request while none was lost (initiate).
THEOREM AttemptsAlwaysInHand == Spec => []AttemptsInHand
<1>1. Init => OpenIsTended
  BY DEF Init, OpenIsTended, NoPayment
<1>2. IInv /\ OpenIsTended /\ [Next]_vars => OpenIsTended'
  BY NextTends
<1>3. IInv /\ OpenIsTended => AttemptsInHand
  BY DEF IInv, Tables, AttemptsInHand
<1> QED
  BY <1>1, <1>2, <1>3, Invariance, PTL DEF Spec

-----------------------------------------------------------------------------

\* A capture event that is answered leaves the bill paid, whatever became of its
\* attempt before: failed, cancelled, or its handler lost (handleRazorpayWebhook).
\* With the deliveries that repeat, this is why captured money settles the bill.
THEOREM CaptureSettlesAtOnce ==
  Spec => [][\A k \in Keys : CaptureWebhook(k) => bill'.st = "PAID"]_vars
<1>1. ASSUME IInv, NEW k \in Keys, CaptureWebhook(k)
      PROVE  bill'.st = "PAID"
  <2>1. k \in captured /\ CompletePayment(k)
    BY <1>1 DEF CaptureWebhook
  <2>2. ~Unused(k)
    BY <1>1, <2>1 DEF IInv, TypeOK, Tables, AttemptsSound, Unused, NoPayment
  <2>3. bill \in Bills /\ bill.st \in {"PAYMENT_PENDING", "PAID"}
    BY <1>1, <2>2 DEF IInv, TypeOK, Tables, AttemptsOnConfirmedBill
  <2>4. CASE bill.st = "PAYMENT_PENDING"
    <3>1. Payable /\ ~ \E j \in Keys : Succeeded(j)
      BY <1>1, <2>4 DEF IInv, Tables, SessionFollowsBill, PaidOnce, Payable
    <3>2. bill' = [bill EXCEPT !.st = "PAID"]
      BY <2>1, <3>1 DEF CompletePayment, Settle
    <3> QED
      BY <2>3, <3>2 DEF Bills
  <2>5. CASE bill.st = "PAID"
    BY <2>1, <2>3, <2>5 DEF CompletePayment, Settle, Payable, Bills
  <2> QED
    BY <2>3, <2>4, <2>5
<1>2. IInv /\ [Next]_vars => [\A k \in Keys : CaptureWebhook(k) => bill'.st = "PAID"]_vars
  BY <1>1
<1> QED
  BY <1>2, Invariance, PTL DEF Spec

\* The guards of ConfirmBill.
Confirmable ==
  /\ bill.st = "REQUESTED" /\ session = "BILL_REQUESTED"
  /\ Unfinished = {} /\ MatchesFrozenInvoice

RequestedStaysConfirmable == bill.st = "REQUESTED" => Confirmable

\* With a column that keeps the order of keys, nothing that guests or kitchen do
\* gets a requested bill stuck: the restaurant can confirm it (confirm).
THEOREM KeptOrderConfirms ==
  ASSUME KeepsKeyOrder
  PROVE  Spec => []RequestedStaysConfirmable
<1>1. IInv => RequestedStaysConfirmable
  BY DEF IInv, Tables, RequestedStaysConfirmable, Confirmable, SessionFollowsBill,
     BillMatchesOrders, MatchesFrozenInvoice, Snapshot
<1> QED
  BY <1>1, Invariance, PTL

\* Nothing to pay, and a requested bill lists an order.
NeverConfirmed ==
  /\ bill.st \notin {"PAYMENT_PENDING", "PAID"}
  /\ bill.st = "REQUESTED" => bill.orders # {}

\* With the schema's jsonb, which does not, no bill of any session is ever
\* confirmed, and so no attempt to pay one is ever made (matchesFrozenInvoice).
THEOREM LostOrderNeverConfirms ==
  ASSUME ~KeepsKeyOrder
  PROVE  Spec => [](NeverConfirmed /\ \A k \in Keys : Unused(k))
<1>1. Init => NeverConfirmed
  BY DEF Init, NeverConfirmed
<1>2. ASSUME IInv, NeverConfirmed, [Next]_vars PROVE NeverConfirmed'
  <2>1. Effect /\ bill \in Bills
    BY <1>2, NextEffect DEF IInv, TypeOK
  <2>2. CASE UNCHANGED bill
    BY <1>2, <2>2 DEF NeverConfirmed
  <2>3. CASE RequestBill
    BY <2>3 DEF RequestBill, NeverConfirmed, Snapshot
  <2>4. CASE ConfirmBill
    BY <1>2, <2>4 DEF ConfirmBill, MatchesFrozenInvoice, NeverConfirmed
  <2>5. CASE CancelBillRequest
    BY <2>1, <2>5 DEF CancelBillRequest, NeverConfirmed, Bills
  <2>6. CASE \E k \in Keys : Settled(k)
    BY <1>2, <2>6 DEF Settled, Payable, NeverConfirmed
  <2> QED
    BY <2>1, <2>2, <2>3, <2>4, <2>5, <2>6
    DEF Effect, OrdersMove, BillMoves, Attempted, Opened, Ended
<1>3. IInv /\ NeverConfirmed => \A k \in Keys : Unused(k)
  BY DEF IInv, Tables, AttemptsOnConfirmedBill, NeverConfirmed
<1> QED
  BY <1>1, <1>2, <1>3, Invariance, PTL DEF Spec

-----------------------------------------------------------------------------

(***************************************************************************)
(* Action properties: finished attempts, and the abstract visit.          *)
(***************************************************************************)
\* No effect reopens a failed or cancelled attempt or undoes a payment.
LEMMA FinishedKept ==
  ASSUME IInv, [Next]_vars, NEW k \in Keys
  PROVE  /\ Succeeded(k) => Succeeded(k)'
         /\ pay[k].st \in {"FAILED", "CANCELLED"} => pay'[k].st \in {pay[k].st, "SUCCESS"}
<1>1. pay \in [Keys -> Payments]
  BY DEF IInv, TypeOK
<1>2. CASE UNCHANGED pay
  BY <1>2 DEF Succeeded
<1>3. ASSUME NEW j \in Keys, Attempted(j) \/ Opened(j) \/ Ended(j) \/ Settled(j)
      PROVE  /\ pay[j].st # "SUCCESS"
             /\ \A i \in Keys \ {j} : pay'[i] = pay[i]
             /\ pay[j].st \in {"FAILED", "CANCELLED"} => pay'[j].st \in {pay[j].st, "SUCCESS"}
  <2>1. CASE Attempted(j)
    BY <1>1, <2>1 DEF Attempted, MayAttempt, Unused
  <2>2. CASE Opened(j)
    BY <1>1, <2>2 DEF Opened
  <2>3. CASE Ended(j)
    BY <1>1, <2>3 DEF Ended, Payments
  <2>4. CASE Settled(j)
    BY <1>1, <2>4 DEF Settled, Settle, Succeeded, Payments
  <2> QED
    BY <1>3, <2>1, <2>2, <2>3, <2>4
<1>4. UNCHANGED pay \/ \E j \in Keys : Attempted(j) \/ Opened(j) \/ Ended(j) \/ Settled(j)
  BY NextEffect
  DEF Effect, OrdersMove, BillMoves, RequestBill, ConfirmBill, CancelBillRequest
<1> QED
  BY <1>2, <1>3, <1>4 DEF Succeeded

\* A late gateway answer never reopens a finished attempt, and a paid one
\* stays paid.
THEOREM FinishedForGood == Spec => FinishedStaysFinished
<1> DEFINE Kept == \A k \in Keys :
             /\ Succeeded(k) => Succeeded(k)'
             /\ pay[k].st \in {"FAILED", "CANCELLED"} => pay'[k].st \in {pay[k].st, "SUCCESS"}
<1>1. IInv /\ [Next]_vars => [Kept]_vars
  BY FinishedKept
<1> QED
  BY Invariance, <1>1, PTL DEF Spec, FinishedStaysFinished

\* What DineInSessions supposes of the bill is what the bill does: a session's
\* status moves as AfterBilling says, and orders do not move it.
THEOREM SessionMovesOnlySo == Spec => SessionMovesKnown
<1>1. ASSUME IInv, [Next]_vars
      PROVE  [session' \in AfterBilling(session)]_session
  <2>1. Effect
    BY <1>1, NextEffect
  <2>2. CASE BillMoves
    BY <2>2 DEF BillMoves, RequestBill, ConfirmBill, CancelBillRequest, AfterBilling
  <2>3. ASSUME NEW k \in Keys, Settled(k) PROVE session' \in AfterBilling(session)
    BY <2>3 DEF Settled, Settle, Payable, AfterBilling
  <2>4. CASE OrdersMove
    BY <2>4 DEF OrdersMove, OrderStep, CustomerOrder, ManagerOrder, CreateOrder,
       CancelOrder, ApproveOrder, RejectOrder, UpdateKitchenStatus
  <2>5. ASSUME NEW k \in Keys, Attempted(k) \/ Opened(k) \/ Ended(k) PROVE UNCHANGED session
    BY <2>5 DEF Attempted, Opened, Ended, dining
  <2>6. CASE UNCHANGED <<dining, bill, pay>>
    BY <2>6 DEF dining
  <2> QED
    BY <2>1, <2>2, <2>3, <2>4, <2>5, <2>6 DEF Effect
<1> QED
  BY Invariance, <1>1, PTL DEF Spec, SessionMovesKnown

\* Creating an order is the guest's Order, cancelling and rejecting it Drop,
\* serving it Serve; approving and cooking it is not seen.
LEMMA OrdersVisit ==
  ASSUME IInv, OrdersMove
  PROVE  [Visit!Next]_Visit!visit
<1>1. PICK o \in Orders : \/ CreateOrder(o) \/ CancelOrder(o) \/ ApproveOrder(o)
                          \/ RejectOrder(o) \/ UpdateKitchenStatus(o)
  BY DEF OrdersMove, OrderStep, CustomerOrder, ManagerOrder
<1>2. ord \in [Orders -> OrderStatus] /\ UNCHANGED bill
  BY DEF IInv, TypeOK, OrdersTypeOK, OrdersMove
<1>3. session = "ACTIVE" /\ session' = "ACTIVE" /\ Phase["ACTIVE"] = "dining"
  BY OrdersWhileActive DEF Phase
<1>4. CASE CreateOrder(o)
  BY <1>2, <1>3, <1>4 DEF CreateOrder, Visit!Order, Visit!Next, Unfinished, Served
<1>5. CASE CancelOrder(o) \/ RejectOrder(o)
  BY <1>2, <1>3, <1>5 DEF CancelOrder, RejectOrder, Visit!Drop, Visit!Next, Unfinished, Served
<1>6. CASE ApproveOrder(o)
  BY <1>2, <1>3, <1>6 DEF ApproveOrder, Visit!visit, Unfinished, Served
<1>7. CASE UpdateKitchenStatus(o) /\ ord[o] # "READY"
  BY <1>2, <1>3, <1>7 DEF UpdateKitchenStatus, AfterKitchen, Visit!visit, Unfinished, Served
<1>8. CASE UpdateKitchenStatus(o) /\ ord[o] = "READY"
  BY <1>2, <1>3, <1>8
  DEF UpdateKitchenStatus, AfterKitchen, Visit!Serve, Visit!Next, Unfinished, Served
<1> QED
  BY <1>1, <1>4, <1>5, <1>6, <1>7, <1>8

\* The three transactions on the bill are Bill, Agree and Reopen.
LEMMA BillVisit ==
  ASSUME IInv, BillMoves
  PROVE  Visit!Next
<1>1. /\ Phase["ACTIVE"] = "dining" /\ Phase["BILL_REQUESTED"] = "billed"
      /\ Phase["PAYMENT_PENDING"] = "paying"
  BY DEF Phase
<1>2. bill \in Bills
  BY DEF IInv, TypeOK
<1>3. CASE RequestBill
  BY <1>1, <1>2, <1>3 DEF RequestBill, Snapshot, Visit!Bill, Visit!Next, Unfinished, Served
<1>4. CASE ConfirmBill
  BY <1>1, <1>2, <1>4 DEF ConfirmBill, Snapshot, MatchesFrozenInvoice, Visit!Agree, Visit!Next, Unfinished, Served, Bills
<1>5. CASE CancelBillRequest
  BY <1>1, <1>2, <1>5 DEF CancelBillRequest, Visit!Reopen, Visit!Next, Unfinished, Served
<1> QED
  BY <1>3, <1>4, <1>5 DEF BillMoves

\* Completing a payment is Settle.
LEMMA SettledVisit ==
  ASSUME IInv, NEW k \in Keys, Settled(k)
  PROVE  Visit!Next
<1>1. Phase["PAYMENT_PENDING"] = "paying" /\ Phase["COMPLETED"] = "settled"
  BY DEF Phase
<1>2. bill \in Bills
  BY DEF IInv, TypeOK
<1>3. bill'.orders = bill.orders
  BY <1>2 DEF Settled, Settle, Bills
<1> QED
  BY <1>1, <1>3 DEF Settled, Settle, Payable, Visit!Settle, Visit!Next, Unfinished, Served

\* Every step is a step of the visit, or is not seen.
LEMMA NextVisit ==
  ASSUME IInv, [Next]_vars
  PROVE  [Visit!Next]_Visit!visit
<1>1. CASE UNCHANGED <<dining, bill>>
  BY <1>1 DEF dining, Visit!visit, Unfinished, Served
<1>2. CASE OrdersMove
  BY <1>2, OrdersVisit
<1>3. CASE BillMoves
  BY <1>3, BillVisit
<1>4. CASE \E k \in Keys : Settled(k)
  BY <1>4, SettledVisit
<1> QED
  BY <1>1, <1>2, <1>3, <1>4, NextEffect DEF Effect, Attempted, Opened, Ended

\* The session, its bill and its payments implement the visit of a table:
\* whatever races and fails, guests see one bill of what was served, settled
\* once.
THEOREM ImplementsVisit == Spec => VisitSpec
<1>1. Init => Visit!Init
  BY DEF Init, OrdersInit, Visit!Init, Phase, Unfinished, Served
<1>2. IInv /\ [Next]_vars => [Visit!Next]_Visit!visit
  BY NextVisit
<1> QED
  BY Invariance, <1>1, <1>2, PTL DEF Spec, VisitSpec, Visit!Spec

=============================================================================
