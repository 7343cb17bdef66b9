-------------------------- MODULE OrderSettlement --------------------------
(***************************************************************************)
(* What the delivery payment service promises, with the database, the     *)
(* handlers, the webhooks and the idempotency keys left out: a payment    *)
(* attempt is opened for an order, the gateway may capture money on it,   *)
(* and an order is settled by at most one attempt, a captured one.        *)
(* DeliveryPayments implements it.                                        *)
(***************************************************************************)
CONSTANTS
  Keys,     \* names of payment attempts; an order is named by its first attempt
  NoKey     \* no attempt, no order; not one of Keys

VARIABLES
  attempt,  \* attempt[k]: the order that attempt k pays for, NoKey before it exists
  captured, \* the attempts on which the gateway has taken the money
  settled   \* the attempts accepted as the payment of their order

svars == <<attempt, captured, settled>>

Init ==
  /\ attempt = [k \in Keys |-> NoKey]
  /\ captured = {}
  /\ settled = {}

Unsettled(o) == \A k \in settled : attempt[k] # o

\* No attempt is opened for an order that is already paid.
Open(k, o) ==
  /\ attempt[k] = NoKey
  /\ Unsettled(o)
  /\ attempt' = [attempt EXCEPT ![k] = o]
  /\ UNCHANGED <<captured, settled>>

Capture(k) ==
  /\ attempt[k] # NoKey
  /\ k \notin captured
  /\ captured' = captured \union {k}
  /\ UNCHANGED <<attempt, settled>>

\* Only captured money settles an order, and only once.
Settle(k) ==
  /\ k \in captured
  /\ Unsettled(attempt[k])
  /\ settled' = settled \union {k}
  /\ UNCHANGED <<attempt, captured>>

Next ==
  \/ \E k, o \in Keys : Open(k, o)
  \/ \E k \in Keys : Capture(k)
  \/ \E k \in Keys : Settle(k)

Spec == Init /\ [][Next]_svars

-----------------------------------------------------------------------------

\* What follows from these rules, and what they are for: an order is paid by
\* one attempt at most, and that one brought money.
PaidOnceWithMoney ==
  /\ settled \subseteq captured
  /\ \A j, k \in settled : attempt[j] = attempt[k] => j = k

=============================================================================
