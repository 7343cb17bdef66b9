----------------------------- MODULE RoomStock -----------------------------
(***************************************************************************)
(* What the bookings of a hotel room promise about its inventory, with    *)
(* payments, requests and webhooks left out: rooms are held for every     *)
(* night of a stay only if every night has them free, and are given back  *)
(* once.  RoomBooking implements it.                                      *)
(***************************************************************************)
EXTENDS Naturals

CONSTANTS
  Bookings,  \* names of bookings
  LastNight, \* the nights on sale are 1..LastNight
  MaxRooms,  \* the most rooms one booking takes
  Capacity   \* rooms on sale each night: total less blocked, 0 without a row

VARIABLES
  reserved,  \* reserved rooms of each night
  hold       \* hold[b]: what booking b holds, and whether it gave it back

rvars == <<reserved, hold>>

Nights == 1..LastNight
Stays == {i..j : i, j \in Nights} \ {{}}

NoHold == [st |-> "none", nights |-> {}, rooms |-> 0]

Init ==
  /\ reserved = [n \in Nights |-> 0]
  /\ hold = [b \in Bookings |-> NoHold]

Free(nights, rooms) == \A n \in nights : reserved[n] + rooms <= Capacity[n]

Hold(b, nights, rooms) ==
  /\ hold[b] = NoHold
  /\ Free(nights, rooms)
  /\ hold' = [hold EXCEPT ![b] = [st |-> "held", nights |-> nights, rooms |-> rooms]]
  /\ reserved' = [n \in Nights |->
                    IF n \in nights THEN reserved[n] + rooms ELSE reserved[n]]

Release(b) ==
  /\ hold[b].st = "held"
  /\ hold' = [hold EXCEPT ![b].st = "released"]
  /\ reserved' = [n \in Nights |->
                    IF n \in hold[b].nights THEN reserved[n] - hold[b].rooms
                                            ELSE reserved[n]]

Next ==
  \/ \E b \in Bookings, nights \in Stays, rooms \in 1..MaxRooms : Hold(b, nights, rooms)
  \/ \E b \in Bookings : Release(b)

Spec == Init /\ [][Next]_rvars

-----------------------------------------------------------------------------

\* What follows from these rules: no night is sold more often than it has
\* rooms.
NeverOversold == \A n \in Nights : reserved[n] <= Capacity[n]

=============================================================================
