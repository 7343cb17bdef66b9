--------------------------- MODULE MCRoomBooking ---------------------------
EXTENDS RoomBooking, TLC

\* Three nights with different stock: stays overlap on the scarce ones.
ThreeNights == 1 :> 2 @@ 2 :> 3 @@ 3 :> 1
OneNight == 1 :> 1

Symmetry == Permutations(Bookings) \union Permutations(Keys) \union Permutations(Handlers)
=============================================================================
