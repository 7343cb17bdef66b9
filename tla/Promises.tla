------------------------------ MODULE Promises ------------------------------
(***************************************************************************)
(* What the abstract specifications promise.  Each is small enough to be  *)
(* read as a contract, and says how orders, rooms, bills and tables may   *)
(* change; here is proved what its reader would rely on.  By the           *)
(* refinements (ImplementsSettlement, ImplementsStock, ImplementsVisit,    *)
(* ImplementsSeating) the same holds of the services.                     *)
(***************************************************************************)
EXTENDS Integers, TLAPS

CONSTANTS Keys, NoKey, Bookings, LastNight, MaxRooms, Capacity, Orders,
          Guests, Tables, Sessions, None

VARIABLES attempt, captured, settled, reserved, hold,
          phase, ordered, waiting, served, bill, stage, spot, party

Settlement == INSTANCE OrderSettlement
Stock == INSTANCE RoomStock
Visit == INSTANCE TableVisit
House == INSTANCE TableSeating

-----------------------------------------------------------------------------

\* Nothing is captured on an attempt that does not exist.
Attempts ==
  /\ attempt \in [Keys -> Keys \union {NoKey}]
  /\ captured \subseteq {k \in Keys : attempt[k] # NoKey}
  /\ Settlement!PaidOnceWithMoney

\* An order is paid once, with captured money.
THEOREM SettlementPromise == Settlement!Spec => []Settlement!PaidOnceWithMoney
<1> USE DEF Settlement!PaidOnceWithMoney
<1>1. Settlement!Init => Attempts
  BY DEF Settlement!Init, Attempts
<1>2. Attempts /\ [Settlement!Next]_Settlement!svars => Attempts'
  <2> SUFFICES ASSUME Attempts, [Settlement!Next]_Settlement!svars PROVE Attempts'
    OBVIOUS
  <2>1. ASSUME NEW k \in Keys, NEW o \in Keys, Settlement!Open(k, o) PROVE Attempts'
    <3>1. \A j \in captured : j # k /\ attempt'[j] = attempt[j]
      BY <2>1 DEF Settlement!Open, Attempts
    <3> QED
      BY <2>1, <3>1 DEF Settlement!Open, Attempts
  <2>2. ASSUME NEW k \in Keys, Settlement!Capture(k) PROVE Attempts'
    BY <2>2 DEF Settlement!Capture, Attempts
  <2>3. ASSUME NEW k \in Keys, Settlement!Settle(k) PROVE Attempts'
    BY <2>3 DEF Settlement!Settle, Settlement!Unsettled, Attempts
  <2>4. CASE UNCHANGED Settlement!svars
    BY <2>4 DEF Settlement!svars, Attempts
  <2> QED
    BY <2>1, <2>2, <2>3, <2>4 DEF Settlement!Next
<1>3. Attempts => Settlement!PaidOnceWithMoney
  BY DEF Attempts
<1> QED
  BY <1>1, <1>2, <1>3, PTL DEF Settlement!Spec

-----------------------------------------------------------------------------

\* Counters are numbers, and what is held is a number of rooms.
Holds ==
  /\ reserved \in [1..LastNight -> Int]
  /\ hold \in [Bookings -> [st : {"none", "held", "released"},
                            nights : SUBSET (1..LastNight), rooms : Nat]]
  /\ Stock!NeverOversold

\* No night is oversold, whatever its capacity.
THEOREM StockPromise ==
  ASSUME Capacity \in [1..LastNight -> Nat], LastNight \in Nat, MaxRooms \in Nat
  PROVE  Stock!Spec => []Stock!NeverOversold
<1> USE DEF Stock!NeverOversold, Stock!Nights
<1>1. Stock!Init => Holds
  BY DEF Stock!Init, Stock!NoHold, Holds
<1>2. Holds /\ [Stock!Next]_Stock!rvars => Holds'
  <2> SUFFICES ASSUME Holds, [Stock!Next]_Stock!rvars PROVE Holds'
    OBVIOUS
  <2>1. ASSUME NEW b \in Bookings, NEW nights \in Stock!Stays, NEW rooms \in 1..MaxRooms,
               Stock!Hold(b, nights, rooms)
        PROVE  Holds'
    <3>1. nights \subseteq 1..LastNight /\ rooms \in Nat
      BY DEF Stock!Stays
    <3>2. [st |-> "held", nights |-> nights, rooms |-> rooms] \in
            [st : {"none", "held", "released"}, nights : SUBSET (1..LastNight), rooms : Nat]
      BY <3>1
    <3>3. \A n \in nights : reserved[n] + rooms <= Capacity[n]
      BY <2>1 DEF Stock!Hold, Stock!Free
    <3>4. /\ hold' = [hold EXCEPT ![b] = [st |-> "held", nights |-> nights, rooms |-> rooms]]
          /\ reserved' = [n \in 1..LastNight |->
                            IF n \in nights THEN reserved[n] + rooms ELSE reserved[n]]
      BY <2>1 DEF Stock!Hold
    <3>5. Stock!NeverOversold'
      BY <3>1, <3>3, <3>4 DEF Holds
    <3> QED
      BY <3>1, <3>2, <3>4, <3>5 DEF Holds
  <2>2. ASSUME NEW b \in Bookings, Stock!Release(b) PROVE Holds'
    <3>1. /\ hold' = [hold EXCEPT ![b].st = "released"]
          /\ reserved' = [n \in 1..LastNight |->
                            IF n \in hold[b].nights THEN reserved[n] - hold[b].rooms
                                                    ELSE reserved[n]]
          /\ hold[b].rooms \in Nat
      BY <2>2 DEF Stock!Release, Holds
    <3>2. Stock!NeverOversold' /\ reserved' \in [1..LastNight -> Int]
      BY <3>1 DEF Holds
    <3> QED
      BY <3>1, <3>2 DEF Holds
  <2>3. CASE UNCHANGED Stock!rvars
    BY <2>3 DEF Stock!rvars, Holds
  <2> QED
    BY <2>1, <2>2, <2>3 DEF Stock!Next
<1>3. Holds => Stock!NeverOversold
  BY DEF Holds
<1> QED
  BY <1>1, <1>2, <1>3, PTL DEF Stock!Spec

-----------------------------------------------------------------------------

\* What is waiting or served was ordered.
VisitSound ==
  /\ waiting \subseteq ordered /\ served \subseteq ordered
  /\ Visit!BillIsTheVisit

\* The bill is the visit, from when it is made until it is settled.
THEOREM VisitPromise == Visit!Spec => []Visit!BillIsTheVisit
<1> USE DEF Visit!BillIsTheVisit
<1>1. Visit!Init => VisitSound
  BY DEF Visit!Init, VisitSound
<1>2. VisitSound /\ [Visit!Next]_Visit!visit => VisitSound'
  <2> SUFFICES ASSUME VisitSound, [Visit!Next]_Visit!visit PROVE VisitSound'
    OBVIOUS
  <2>1. ASSUME NEW o \in Orders, Visit!Order(o) \/ Visit!Drop(o) \/ Visit!Serve(o)
        PROVE  VisitSound'
    BY <2>1 DEF Visit!Order, Visit!Drop, Visit!Serve, VisitSound
  <2>2. CASE Visit!Bill \/ Visit!Reopen \/ Visit!Agree \/ Visit!Settle
    BY <2>2 DEF Visit!Bill, Visit!Reopen, Visit!Agree, Visit!Settle, VisitSound
  <2>3. CASE UNCHANGED Visit!visit
    BY <2>3 DEF Visit!visit, VisitSound
  <2> QED
    BY <2>1, <2>2, <2>3 DEF Visit!Next
<1>3. VisitSound => Visit!BillIsTheVisit
  BY DEF VisitSound
<1> QED
  BY <1>1, <1>2, <1>3, PTL DEF Visit!Spec

-----------------------------------------------------------------------------

\* A visit is in one of four stages; one that has not begun has no guests.
Parties ==
  /\ stage \in [Sessions -> {"new", "dining", "paying", "over"}]
  /\ spot \in [Sessions -> Tables \union {None}]
  /\ party \in [Sessions -> SUBSET Guests]
  /\ House!NothingShared

\* A table is one party's, and a guest is of one party.
THEOREM SeatingPromise == House!Spec => []House!NothingShared
<1> USE DEF House!NothingShared, House!Underway
<1>1. House!Init => Parties
  BY DEF House!Init, Parties
<1>2. Parties /\ [House!Next]_House!seating => Parties'
  <2> SUFFICES ASSUME Parties, [House!Next]_House!seating PROVE Parties'
    OBVIOUS
  <2>1. ASSUME NEW s \in Sessions, NEW t \in Tables, NEW g \in Guests, House!SitDown(s, t, g)
        PROVE  Parties'
    <3>1. /\ stage' = [stage EXCEPT ![s] = "dining"]
          /\ spot' = [spot EXCEPT ![s] = t]
          /\ party' = [party EXCEPT ![s] = {g}]
          /\ \A r \in Sessions \ {s} : House!Underway(r) => spot[r] # t /\ g \notin party[r]
      BY <2>1 DEF House!SitDown, House!Vacant, House!AwayFrom
    <3> QED
      BY <3>1 DEF Parties
  <2>2. ASSUME NEW s \in Sessions, NEW g \in Guests, House!Join(s, g) PROVE Parties'
    BY <2>2 DEF House!Join, House!AwayFrom, Parties
  <2>3. ASSUME NEW s \in Sessions, NEW g \in Guests, House!Leave(s, g) PROVE Parties'
    BY <2>3 DEF House!Leave, Parties
  <2>4. ASSUME NEW s \in Sessions, House!Bill(s) \/ House!Resume(s) \/ House!Close(s)
        PROVE  Parties'
    BY <2>4 DEF House!Bill, House!Resume, House!Close, Parties
  <2>5. CASE UNCHANGED House!seating
    BY <2>5 DEF House!seating, Parties
  <2> QED
    BY <2>1, <2>2, <2>3, <2>4, <2>5 DEF House!Next
<1>3. Parties => House!NothingShared
  BY DEF Parties
<1> QED
  BY <1>1, <1>2, <1>3, PTL DEF House!Spec

=============================================================================
