--------------------------- MODULE Basket_proofs ---------------------------
(***************************************************************************)
(* Theorems about Basket, for every catalogue, every number of rows and   *)
(* of concurrent requests, and every bound on a quantity.                 *)
(*                                                                         *)
(* Why additions do not mix restaurants in a cart needs the lock: an      *)
(* addition that found a row of its food holds the cart until it saves    *)
(* it, so nobody else gives the cart another restaurant meanwhile, and    *)
(* the name of a row stands for one food.  Why a spent cart is not sold   *)
(* needs the two rows together: whatever gives the cart a restaurant also *)
(* ends its being spent, and a checkout needs a restaurant.  Quantities   *)
(* need what each request knows of the rows it will write, and the        *)
(* payments that are waiting what each request that settles one takes.    *)
(***************************************************************************)
EXTENDS Basket, FiniteSetTheorems, TLAPS

\* The cart names a restaurant only while something was added to it since it
\* was last sold for cash or cleared.
Restocked == cart \in Restaurants => ~ spent

\* A request that adds has a food to add.
Adds(r) == r.op = "add" => r.food \in Foods /\ r.qty \in Quantities

\* Every request that settles an order has one to settle.
Owed == Cardinality(Settling) <= due

Shapes ==
  /\ TypeOK
  /\ \A h \in Handlers : Adds(req[h])
  /\ Owed

\* The name of a row stands for one food as long as the row is there or some
\* request remembers it.
IsNamed(i, f) ==
  /\ items[i] # NoRow => items[i].food = f
  /\ \A h \in Handlers : req[h].rows[i] # NoRow => req[h].rows[i].food = f
Named == \A i \in Ids : \E f \in Foods \union {None} : IsNamed(i, f)

\* An addition that found a row to write holds the cart, which it does not
\* conflict with.
Addition(h) ==
  /\ req[h].pc = "wait" => req[h].rows = NoRows /\ ~ req[h].creates
  /\ req[h].creates => req[h].rows = NoRows
  /\ HoldsCart(h) => cart # Absent
  /\ req[h].rows # NoRows => HoldsCart(h) /\ ~ Conflicts(h)
  /\ \A i \in Ids : req[h].rows[i] # NoRow => req[h].rows[i].food = req[h].food
Additions == \A h \in Handlers : req[h].op = "add" => Addition(h)

Exclusive == \A g, h \in Handlers : HoldsCart(g) /\ HoldsCart(h) => g = h

Locks == Named /\ Additions /\ Exclusive

IInv ==
  /\ Shapes
  /\ Locks
  /\ MixedByStaleRequestsOnly
  /\ Restocked
  /\ SpentCartIsNotSold

-----------------------------------------------------------------------------
(***************************************************************************)
(* Requests.                                                              *)
(***************************************************************************)
LEMMA NoRowsIsTable == NoRows \in [Ids -> Row \union {NoRow}]
BY DEF NoRows

LEMMA IdleIsRequest == Idle \in Requests
BY QuantityAssumption, NoRowsIsTable DEF Idle, Requests, NoRow

\* What a request may become: each form keeps a request a request.
LEMMA Starts ==
  ASSUME NEW op \in {"save", "remove", "cash", "online", "settle"},
         NEW step \in {"wait", "compare"},
         NEW table \in [Ids -> Row \union {NoRow}]
  PROVE  [Idle EXCEPT !.op = op, !.pc = step, !.rows = table] \in Requests
BY IdleIsRequest DEF Requests

LEMMA StartsAdding ==
  ASSUME NEW f \in Foods, NEW q \in Quantities, NEW b \in BOOLEAN
  PROVE  LET r == [Idle EXCEPT !.op = "add", !.pc = "wait", !.food = f,
                               !.qty = q, !.replace = b]
         IN  r \in Requests /\ Adds(r)
<1> DEFINE r == [Idle EXCEPT !.op = "add", !.pc = "wait", !.food = f,
                             !.qty = q, !.replace = b]
<1>1. q \in 0..MaxQuantity
  BY QuantityAssumption DEF Quantities
<1>2. r \in Requests
  BY <1>1, IdleIsRequest DEF Requests
<1>3. Adds(r)
  BY DEF Adds, Idle
<1> QED BY <1>2, <1>3

LEMMA Moves ==
  ASSUME NEW r \in Requests, NEW step \in {"wait", "compare", "commit"}
  PROVE  [r EXCEPT !.pc = step] \in Requests
BY DEF Requests

LEMMA MovesAndCreates ==
  ASSUME NEW r \in Requests
  PROVE  [r EXCEPT !.pc = "commit", !.creates = TRUE] \in Requests
BY DEF Requests

LEMMA MovesAndResets ==
  ASSUME NEW r \in Requests, NEW b \in BOOLEAN
  PROVE  [r EXCEPT !.pc = "commit", !.resets = b] \in Requests
BY DEF Requests

LEMMA MovesWithRows ==
  ASSUME NEW r \in Requests, NEW table \in [Ids -> Row \union {NoRow}]
  PROVE  [r EXCEPT !.pc = "compare", !.rows = table] \in Requests
BY DEF Requests

LEMMA MovesToWrite ==
  ASSUME NEW r \in Requests, NEW A \in SUBSET Ids, NEW B \in SUBSET Ids
  PROVE  [r EXCEPT !.pc = "commit", !.inserts = A, !.updates = B] \in Requests
BY DEF Requests

\* A step of one request, written field by field, keeps all of them requests.
LEMMA Continues ==
  ASSUME req \in [Handlers -> Requests], NEW h \in Handlers,
         NEW r \in Requests, Continue(h, r)
  PROVE  /\ req' \in [Handlers -> Requests]
         /\ req'[h] = r
         /\ \A g \in Handlers : g # h => req'[g] = req[g]
BY DEF Continue

LEMMA RowsOfRequest ==
  ASSUME NEW r \in Requests
  PROVE  r.rows \in [Ids -> Row \union {NoRow}]
BY DEF Requests

LEMMA RowFields ==
  ASSUME NEW row \in Row \union {NoRow}, row # NoRow
  PROVE  row.food \in Foods /\ row.qty \in Quantities
BY DEF Row

\* What a step of one request does to the requests together: unless it sets
\* out to settle an order, no more of them settle one than before.
LEMMA Carries ==
  ASSUME Shapes, NEW h \in Handlers, NEW r \in Requests, Adds(r),
         Continue(h, r), r.op # "settle" \/ r.op = req[h].op
  PROVE  /\ req' \in [Handlers -> Requests]
         /\ \A g \in Handlers : Adds(req'[g])
         /\ Cardinality(Settling') \in Nat
         /\ Cardinality(Settling') <= Cardinality(Settling)
<1>1. req \in [Handlers -> Requests] /\ \A g \in Handlers : Adds(req[g])
  BY DEF Shapes, TypeOK
<1>2. /\ req' \in [Handlers -> Requests]
      /\ req'[h] = r
      /\ \A g \in Handlers : g # h => req'[g] = req[g]
  BY <1>1, Continues
<1>3. \A g \in Handlers : Adds(req'[g])
  BY <1>1, <1>2
<1>4. IsFiniteSet(Settling)
  <2>1. Settling \subseteq Handlers
    BY DEF Settling
  <2> QED BY <2>1, HandlersAssumption, FS_Subset
<1>5. Settling' = {g \in Handlers : req'[g].op = "settle"}
  BY DEF Settling
<1>6. Settling' \subseteq Settling
  BY <1>2, <1>5 DEF Settling
<1>7. /\ IsFiniteSet(Settling')
      /\ Cardinality(Settling') <= Cardinality(Settling)
  BY <1>4, <1>6, FS_Subset
<1>8. Cardinality(Settling') \in Nat
  BY <1>7, FS_CardinalityType
<1> QED BY <1>2, <1>3, <1>7, <1>8

\* The same of a step that leaves the payments alone.
LEMMA CarriesDue ==
  ASSUME Shapes, NEW h \in Handlers, NEW r \in Requests, Adds(r),
         Continue(h, r), r.op # "settle" \/ r.op = req[h].op, due' = due
  PROVE  /\ req' \in [Handlers -> Requests]
         /\ \A g \in Handlers : Adds(req'[g])
         /\ Owed'
         /\ due' \in 0..MaxDue
<1>1. /\ req' \in [Handlers -> Requests]
      /\ \A g \in Handlers : Adds(req'[g])
      /\ Cardinality(Settling') \in Nat
      /\ Cardinality(Settling') <= Cardinality(Settling)
  BY Carries
<1>2. /\ Settling \subseteq Handlers
      /\ due \in 0..MaxDue
      /\ Cardinality(Settling) <= due
  BY DEF Settling, Shapes, Owed, TypeOK
<1>3. Cardinality(Settling) \in Nat
  BY <1>2, HandlersAssumption, FS_Subset, FS_CardinalityType
<1>4. Cardinality(Settling') <= due'
  BY <1>1, <1>2, <1>3, DueAssumption
<1>5. Owed'
  BY <1>4 DEF Owed
<1> QED BY <1>1, <1>2, <1>5

LEMMA IdleAdds == Adds(Idle) /\ Idle.op = "none"
BY DEF Adds, Idle

-----------------------------------------------------------------------------
(***************************************************************************)
(* The shapes of the state.                                               *)
(***************************************************************************)
LEMMA InitShapes == Init => Shapes
<1> SUFFICES ASSUME Init PROVE Shapes
  OBVIOUS
<1>1. req \in [Handlers -> Requests] /\ \A h \in Handlers : req[h] = Idle
  BY IdleIsRequest DEF Init
<1>2. Settling = {}
  BY <1>1, IdleAdds DEF Settling
<1>3. Owed
  BY <1>2, FS_EmptySet DEF Owed, Init
<1>4. TypeOK
  <2>1. due \in 0..MaxDue
    BY DueAssumption DEF Init
  <2>2. /\ sold = {} /\ cart = Absent /\ items = NoRows
        /\ resold = FALSE /\ spent = FALSE /\ stale = FALSE
    BY DEF Init
  <2> QED BY <1>1, <2>1, <2>2, NoRowsIsTable DEF TypeOK
<1> QED BY <1>1, <1>3, <1>4, IdleAdds DEF Shapes

\* A step that writes neither rows nor history keeps their shape.
LEMMA OnlyRequests ==
  ASSUME Shapes, NEW h \in Handlers, NEW r \in Requests, Adds(r),
         Continue(h, r), r.op # "settle" \/ r.op = req[h].op,
         UNCHANGED <<sold, rows, due, history>>
  PROVE  Shapes'
<1>1. due' = due
  OBVIOUS
<1>2. /\ req' \in [Handlers -> Requests]
      /\ \A g \in Handlers : Adds(req'[g])
      /\ Owed'
      /\ due' \in 0..MaxDue
  BY <1>1, CarriesDue
<1>3. TypeOK'
  BY <1>2 DEF Shapes, TypeOK, rows, history
<1> QED BY <1>2, <1>3 DEF Shapes

LEMMA LockCartShapes ==
  ASSUME Shapes, NEW h \in Handlers, LockCart(h)
  PROVE  Shapes'
<1> DEFINE r == req[h]
<1>1. r \in Requests /\ Adds(r) /\ r.op = "add"
  BY DEF Shapes, TypeOK, LockCart, At
<1>2. r.food \in Foods /\ r.qty \in Quantities
  BY <1>1 DEF Adds
<1>u. UNCHANGED <<sold, rows, due, history>>
  BY DEF LockCart
<1>3. CASE Continue(h, [req[h] EXCEPT !.pc = "commit", !.creates = TRUE])
  <2> DEFINE n == [r EXCEPT !.pc = "commit", !.creates = TRUE]
  <2>1. n \in Requests
    BY <1>1, MovesAndCreates
  <2>2. n.op = r.op /\ Adds(n)
    BY <1>1, <1>2 DEF Adds, Requests
  <2> QED BY <2>1, <2>2, <1>3, <1>u, OnlyRequests
<1>4. CASE Continue(h, [req[h] EXCEPT !.pc = "commit"])
  <2> DEFINE n == [r EXCEPT !.pc = "commit"]
  <2>1. n \in Requests
    BY <1>1, Moves
  <2>2. n.op = r.op /\ Adds(n)
    BY <1>1, <1>2 DEF Adds, Requests
  <2> QED BY <2>1, <2>2, <1>4, <1>u, OnlyRequests
<1>5. CASE \E i \in Holding(req[h].food) :
             /\ EnsureQuantity(items[i].qty + req[h].qty)
             /\ Continue(h, [req[h] EXCEPT !.pc = "compare",
                  !.rows = [NoRows EXCEPT ![i] =
                    [food |-> items[i].food, qty |-> items[i].qty + req[h].qty]]])
  <2>1. PICK i \in Holding(req[h].food) :
             /\ EnsureQuantity(items[i].qty + req[h].qty)
             /\ Continue(h, [req[h] EXCEPT !.pc = "compare",
                  !.rows = [NoRows EXCEPT ![i] =
                    [food |-> items[i].food, qty |-> items[i].qty + req[h].qty]]])
    BY <1>5
  <2> DEFINE row == [food |-> items[i].food, qty |-> items[i].qty + req[h].qty]
             table == [NoRows EXCEPT ![i] = row]
             n == [r EXCEPT !.pc = "compare", !.rows = table]
  <2>2. i \in Ids /\ items[i] \in Row \union {NoRow} /\ items[i] # NoRow
    BY DEF Holding, Present, Shapes, TypeOK
  <2>3. row \in Row
    BY <2>1, <2>2, RowFields DEF Row, EnsureQuantity
  <2>4. table \in [Ids -> Row \union {NoRow}]
    BY <2>3, NoRowsIsTable
  <2>5. n \in Requests
    BY <1>1, <2>4, MovesWithRows
  <2>6. n.op = r.op /\ Adds(n)
    BY <1>1, <1>2 DEF Adds, Requests
  <2>7. Continue(h, n)
    BY <2>1
  <2> HIDE DEF n
  <2> QED BY <2>5, <2>6, <2>7, <1>u, OnlyRequests
<1> QED BY <1>3, <1>4, <1>5 DEF LockCart

LEMMA CommitAddShapes ==
  ASSUME Shapes, NEW h \in Handlers, CommitAdd(h)
  PROVE  Shapes'
<1>1. req[h] \in Requests /\ Adds(req[h]) /\ req[h].op = "add"
  BY DEF Shapes, TypeOK, CommitAdd, At
<1>2. req[h].food \in Foods /\ req[h].qty \in Quantities
  BY <1>1 DEF Adds
<1>3. Continue(h, Idle) /\ due' = due
  BY DEF CommitAdd, Finish
<1>4. /\ req' \in [Handlers -> Requests]
      /\ \A g \in Handlers : Adds(req'[g])
      /\ Owed'
      /\ due' \in 0..MaxDue
  BY <1>3, IdleIsRequest, IdleAdds, CarriesDue
<1>5. cart' \in Restaurants
  BY <1>2, KitchenAssumption DEF CommitAdd
<1>6. items' \in [Ids -> Row \union {NoRow}]
  <2>1. items \in [Ids -> Row \union {NoRow}] /\ req[h].rows \in [Ids -> Row \union {NoRow}]
    BY <1>1, RowsOfRequest DEF Shapes, TypeOK
  <2>2. CASE items' = Saved(h, items)
    BY <2>1, <2>2 DEF Saved
  <2>3. CASE \E i \in Ids :
               /\ Unnamed(i)
               /\ items' = [IF Conflicts(h) THEN NoRows ELSE items EXCEPT ![i] =
                              [food |-> req[h].food, qty |-> req[h].qty]]
    <3>1. PICK i \in Ids :
            items' = [IF Conflicts(h) THEN NoRows ELSE items EXCEPT ![i] =
                        [food |-> req[h].food, qty |-> req[h].qty]]
      BY <2>3
    <3>2. [food |-> req[h].food, qty |-> req[h].qty] \in Row
      BY <1>2 DEF Row
    <3>3. (IF Conflicts(h) THEN NoRows ELSE items) \in [Ids -> Row \union {NoRow}]
      BY <2>1, NoRowsIsTable
    <3> QED BY <3>1, <3>2, <3>3
  <2> QED BY <2>2, <2>3 DEF CommitAdd
<1>7. spent' = FALSE /\ sold' = sold /\ resold' = resold /\ stale' \in BOOLEAN
  BY DEF CommitAdd
<1>8. TypeOK'
  BY <1>4, <1>5, <1>6, <1>7 DEF Shapes, TypeOK
<1> QED BY <1>4, <1>8 DEF Shapes

\* Nothing but items, and perhaps the cart, changes as the request ends.
LEMMA ItemsShapes ==
  ASSUME Shapes, NEW h \in Handlers, Finish(h),
         items' \in [Ids -> Row \union {NoRow}],
         cart' \in {cart, None}, stale' \in BOOLEAN,
         spent' = spent, sold' = sold, resold' = resold, due' = due
  PROVE  Shapes'
<1>1. Continue(h, Idle)
  BY DEF Finish
<1>4. /\ req' \in [Handlers -> Requests]
      /\ \A g \in Handlers : Adds(req'[g])
      /\ Owed'
      /\ due' \in 0..MaxDue
  BY <1>1, IdleIsRequest, IdleAdds, CarriesDue
<1>5. TypeOK'
  BY <1>4 DEF Shapes, TypeOK
<1> QED BY <1>4, <1>5 DEF Shapes

LEMMA CommitItemsShapes ==
  ASSUME Shapes, NEW h \in Handlers, CommitItems(h)
  PROVE  Shapes'
<1>1. items \in [Ids -> Row \union {NoRow}] /\ req[h].rows \in [Ids -> Row \union {NoRow}]
  BY RowsOfRequest DEF Shapes, TypeOK
<1>2. items' \in [Ids -> Row \union {NoRow}]
  BY <1>1 DEF Saved, CommitItems
<1>3. stale' \in BOOLEAN
  BY DEF CommitItems
<1> QED BY <1>2, <1>3, ItemsShapes DEF CommitItems

LEMMA UpdateItemQuantityShapes ==
  ASSUME Shapes, NEW h \in Handlers, NEW i \in Ids, NEW q \in Quantities,
         UpdateItemQuantity(h, i, q)
  PROVE  Shapes'
<1> DEFINE row == [food |-> items[i].food, qty |-> q]
           table == [NoRows EXCEPT ![i] = row]
           n == [Idle EXCEPT !.op = "save", !.pc = "compare", !.rows = table]
<1>1. items[i] \in Row \union {NoRow} /\ items[i] # NoRow
  BY DEF UpdateItemQuantity, Present, Shapes, TypeOK
<1>2. row \in Row
  BY <1>1, RowFields DEF Row
<1>3. table \in [Ids -> Row \union {NoRow}]
  BY <1>2, NoRowsIsTable
<1>4. n \in Requests
  BY <1>3, Starts
<1>5. n.op = "save"
  BY DEF Idle
<1>6. Continue(h, n) /\ UNCHANGED <<sold, rows, due, history>>
  BY DEF UpdateItemQuantity, Begin
<1> HIDE DEF n
<1>7. Adds(n)
  BY <1>5 DEF Adds
<1> QED BY <1>4, <1>5, <1>6, <1>7, OnlyRequests

\* A request that begins with rows it read, and is not an addition.
LEMMA BeginShapes ==
  ASSUME Shapes, NEW h \in Handlers,
         NEW op \in {"save", "remove", "cash", "online"},
         NEW step \in {"wait", "compare"},
         NEW table \in [Ids -> Row \union {NoRow}],
         Begin(h, op, step, table), UNCHANGED <<sold, rows, due, history>>
  PROVE  Shapes'
<1> DEFINE n == [Idle EXCEPT !.op = op, !.pc = step, !.rows = table]
<1>1. n \in Requests
  BY Starts
<1>2. n.op = op
  BY DEF Idle
<1>3. Continue(h, n)
  BY DEF Begin
<1> HIDE DEF n
<1>4. Adds(n)
  BY <1>2 DEF Adds
<1> QED BY <1>1, <1>2, <1>3, <1>4, OnlyRequests

\* The request moves on, at the same operation, which is no addition.
LEMMA MoveShapes ==
  ASSUME Shapes, NEW h \in Handlers, NEW n \in Requests, n.op = req[h].op,
         n.food = req[h].food, n.qty = req[h].qty,
         Continue(h, n), UNCHANGED <<sold, rows, due, history>>
  PROVE  Shapes'
<1>1. Adds(n)
  BY DEF Shapes, Adds
<1> QED BY <1>1, OnlyRequests

LEMMA DeleteItemShapes ==
  ASSUME Shapes, NEW h \in Handlers, DeleteItem(h)
  PROVE  Shapes'
<1> DEFINE r == req[h]
           n == [r EXCEPT !.pc = "compare"]
           left == [i \in Ids |-> IF req[h].rows[i] = NoRow THEN items[i] ELSE NoRow]
<1>1. r \in Requests
  BY DEF Shapes, TypeOK
<1>2. CASE Continue(h, n) /\ items' = items
  <2>1. n \in Requests
    BY <1>1, Moves
  <2>2. n.op = r.op /\ n.food = r.food /\ n.qty = r.qty
    BY <1>1 DEF Requests
  <2>3. UNCHANGED <<sold, rows, due, history>>
    BY <1>2 DEF DeleteItem, rows
  <2> QED BY <1>2, <2>1, <2>2, <2>3, MoveShapes
<1>3. CASE Finish(h) /\ items' = left
  <2>1. items' \in [Ids -> Row \union {NoRow}]
    BY <1>3 DEF Shapes, TypeOK
  <2>2. stale \in BOOLEAN
    BY DEF Shapes, TypeOK
  <2> QED BY <1>3, <2>1, <2>2, ItemsShapes DEF DeleteItem, history
<1> QED BY <1>2, <1>3 DEF DeleteItem

LEMMA CompareShapes ==
  ASSUME Shapes, NEW h \in Handlers, CompareItems(h) \/ CompareCart(h)
  PROVE  Shapes'
<1> DEFINE r == req[h]
           A == Present(req[h].rows) \ Present(items)
           B == Present(req[h].rows) \intersect Present(items)
           n == [r EXCEPT !.pc = "commit", !.inserts = A, !.updates = B]
           m == [r EXCEPT !.pc = "commit", !.resets = cart # None]
<1>1. r \in Requests
  BY DEF Shapes, TypeOK
<1>2. UNCHANGED <<sold, rows, due, history>>
  BY DEF CompareItems, CompareCart
<1>3. CASE CompareItems(h)
  <2>1. A \in SUBSET Ids /\ B \in SUBSET Ids
    BY DEF Present
  <2>2. n \in Requests
    BY <1>1, <2>1, MovesToWrite
  <2>3. n.op = r.op /\ n.food = r.food /\ n.qty = r.qty
    BY <1>1 DEF Requests
  <2>4. Continue(h, n)
    BY <1>3 DEF CompareItems
  <2> QED BY <1>2, <2>2, <2>3, <2>4, MoveShapes
<1>4. CASE CompareCart(h)
  <2>1. (cart # None) \in BOOLEAN
    OBVIOUS
  <2>2. m \in Requests
    BY <1>1, <2>1, MovesAndResets
  <2>3. m.op = r.op /\ m.food = r.food /\ m.qty = r.qty
    BY <1>1 DEF Requests
  <2>4. Continue(h, m)
    BY <1>4 DEF CompareCart
  <2> QED BY <1>2, <2>2, <2>3, <2>4, MoveShapes
<1> QED BY <1>3, <1>4

LEMMA EmptyPaidCartShapes ==
  ASSUME Shapes, NEW h \in Handlers, EmptyPaidCart(h)
  PROVE  Shapes'
<1> DEFINE n == [Idle EXCEPT !.op = "settle", !.pc = "compare", !.rows = items]
<1>1. req \in [Handlers -> Requests] /\ \A g \in Handlers : Adds(req[g])
  BY DEF Shapes, TypeOK
<1>2. n \in Requests
  BY Starts DEF Shapes, TypeOK
<1>3. n.op = "settle"
  BY DEF Idle
<1>4. Continue(h, n) /\ Cardinality(Settling) < due
  BY DEF EmptyPaidCart, Begin
<1> HIDE DEF n
<1>5. /\ req' \in [Handlers -> Requests]
      /\ req'[h] = n
      /\ \A g \in Handlers : g # h => req'[g] = req[g]
  BY <1>1, <1>2, <1>4, Continues
<1>6. \A g \in Handlers : Adds(req'[g])
  BY <1>1, <1>3, <1>5 DEF Adds
<1>7. Settling' \subseteq Settling \union {h}
  <2>1. Settling' = {g \in Handlers : req'[g].op = "settle"}
    BY DEF Settling
  <2> QED BY <2>1, <1>5 DEF Settling
<1>8. IsFiniteSet(Settling)
  <2>1. Settling \subseteq Handlers
    BY DEF Settling
  <2> QED BY <2>1, HandlersAssumption, FS_Subset
<1>9. /\ IsFiniteSet(Settling \union {h})
      /\ Cardinality(Settling \union {h}) \in {Cardinality(Settling), Cardinality(Settling) + 1}
  BY <1>8, FS_AddElement
<1>10. /\ IsFiniteSet(Settling')
       /\ Cardinality(Settling') <= Cardinality(Settling \union {h})
  BY <1>7, <1>9, FS_Subset
<1>11. /\ Cardinality(Settling) \in Nat
       /\ Cardinality(Settling') \in Nat
  BY <1>8, <1>10, FS_CardinalityType
<1>12. due' = due /\ due \in 0..MaxDue
  BY DEF EmptyPaidCart, Shapes, TypeOK
<1>13. Cardinality(Settling') <= due'
  BY <1>4, <1>9, <1>10, <1>11, <1>12, DueAssumption
<1>14. Owed'
  BY <1>13 DEF Owed
<1>15. TypeOK'
  BY <1>5, <1>12 DEF EmptyPaidCart, Shapes, TypeOK, rows, history
<1> QED BY <1>6, <1>14, <1>15 DEF Shapes

LEMMA CommitDeletionShapes ==
  ASSUME Shapes, NEW h \in Handlers, CommitDeletion(h)
  PROVE  Shapes'
<1> DEFINE left == [i \in Ids |-> IF req[h].rows[i] = NoRow THEN items[i] ELSE NoRow]
<1>1. items' \in [Ids -> Row \union {NoRow}]
  <2>1. items' = left
    BY DEF CommitDeletion
  <2> QED BY <2>1 DEF Shapes, TypeOK
<1>2. cart' \in {cart, None}
  BY DEF CommitDeletion
<1>3. Finish(h) /\ sold' = sold /\ resold' = resold /\ spent' = spent
  BY DEF CommitDeletion
<1>4. stale' \in BOOLEAN
  BY DEF CommitDeletion
<1>5. CASE req[h].op # "settle"
  <2>1. due' = due
    BY <1>5 DEF CommitDeletion
  <2> QED BY <2>1, <1>1, <1>2, <1>3, <1>4, ItemsShapes
<1>6. CASE req[h].op = "settle"
  <2>1. due' = due - 1
    BY <1>6 DEF CommitDeletion
  <2>2. req \in [Handlers -> Requests] /\ \A g \in Handlers : Adds(req[g])
    BY DEF Shapes, TypeOK
  <2>3. Continue(h, Idle)
    BY <1>3 DEF Finish
  <2>4. /\ req' \in [Handlers -> Requests]
        /\ req'[h] = Idle
        /\ \A g \in Handlers : g # h => req'[g] = req[g]
    BY <2>2, <2>3, IdleIsRequest, Continues
  <2>5. \A g \in Handlers : Adds(req'[g])
    BY <2>2, <2>4, IdleAdds
  <2>6. h \in Settling /\ Settling' = Settling \ {h}
    <3>1. Settling' = {g \in Handlers : req'[g].op = "settle"}
      BY DEF Settling
    <3> QED BY <3>1, <2>4, <1>6, IdleAdds DEF Settling
  <2>7. IsFiniteSet(Settling)
    <3>1. Settling \subseteq Handlers
      BY DEF Settling
    <3> QED BY <3>1, HandlersAssumption, FS_Subset
  <2>8. Cardinality(Settling') = Cardinality(Settling) - 1
    BY <2>6, <2>7, FS_RemoveElement
  <2>9. /\ Cardinality(Settling) \in Nat
        /\ Cardinality(Settling') \in Nat
    <3>1. IsFiniteSet(Settling')
      BY <2>6, <2>7, FS_RemoveElement
    <3> QED BY <3>1, <2>7, FS_CardinalityType
  <2>10. Cardinality(Settling) <= due /\ due \in 0..MaxDue
    BY DEF Shapes, TypeOK, Owed
  <2>11. due' \in 0..MaxDue /\ Cardinality(Settling') <= due'
    BY <2>1, <2>8, <2>9, <2>10, DueAssumption
  <2>12. Owed'
    BY <2>11 DEF Owed
  <2>13. TypeOK'
    BY <2>4, <2>11, <1>1, <1>2, <1>3, <1>4 DEF Shapes, TypeOK
  <2> QED BY <2>5, <2>12, <2>13 DEF Shapes
<1> QED BY <1>5, <1>6

LEMMA ClearCartShapes ==
  ASSUME Shapes, NEW h \in Handlers, ClearCart(h)
  PROVE  Shapes'
<1>1. /\ items' = NoRows /\ cart' = None /\ spent' = TRUE /\ stale' = FALSE
      /\ UNCHANGED <<sold, due, resold, req>>
  BY DEF ClearCart, Emptied
<1>2. TypeOK'
  BY <1>1, NoRowsIsTable DEF Shapes, TypeOK
<1>3. Settling' = Settling
  BY <1>1 DEF Settling
<1>4. Owed'
  BY <1>1, <1>3 DEF Shapes, Owed
<1>5. \A g \in Handlers : Adds(req'[g])
  BY <1>1 DEF Shapes
<1> QED BY <1>2, <1>4, <1>5 DEF Shapes

LEMMA PlaceOrderShapes ==
  ASSUME Shapes, NEW h \in Handlers, PlaceOrder(h)
  PROVE  Shapes'
<1>1. Continue(h, Idle)
  BY DEF PlaceOrder, Finish
<1>2. /\ req' \in [Handlers -> Requests]
      /\ \A g \in Handlers : Adds(req'[g])
      /\ Cardinality(Settling') \in Nat
      /\ Cardinality(Settling') <= Cardinality(Settling)
  BY <1>1, IdleIsRequest, IdleAdds, Carries
<1>3. Cardinality(Settling) <= due /\ due \in 0..MaxDue
  BY DEF Shapes, TypeOK, Owed
<1>4. Cardinality(Settling) \in Nat
  <2>1. Settling \subseteq Handlers
    BY DEF Settling
  <2> QED BY <2>1, HandlersAssumption, FS_Subset, FS_CardinalityType
<1>5. due' = due \/ (due < MaxDue /\ due' = due + 1)
  BY DEF PlaceOrder
<1>6. due' \in 0..MaxDue /\ Cardinality(Settling') <= due'
  BY <1>2, <1>3, <1>4, <1>5, DueAssumption
<1>7. Owed'
  BY <1>6 DEF Owed
<1>8. resold' \in BOOLEAN
  BY DEF PlaceOrder
<1>10. /\ items' \in [Ids -> Row \union {NoRow}]
       /\ cart' \in {cart, None}
       /\ spent' \in BOOLEAN /\ stale' \in BOOLEAN
       /\ sold' = sold
  BY NoRowsIsTable DEF PlaceOrder, Emptied, rows, Shapes, TypeOK
<1>11. TypeOK'
  BY <1>2, <1>6, <1>8, <1>10 DEF Shapes, TypeOK
<1> QED BY <1>2, <1>7, <1>11 DEF Shapes

LEMMA ShapesInductive == Shapes /\ [Next]_vars => Shapes'
<1> SUFFICES ASSUME Shapes, [Next]_vars PROVE Shapes'
  OBVIOUS
<1>t. items \in [Ids -> Row \union {NoRow}]
  BY DEF Shapes, TypeOK
<1>1. CASE ChangeCatalogue
  <2>1. sold' \subseteq Foods /\ UNCHANGED <<cart, items, due, resold, spent, stale, req>>
    BY <1>1 DEF ChangeCatalogue, rows, history
  <2>2. Settling' = Settling
    BY <2>1 DEF Settling
  <2> QED BY <2>1, <2>2 DEF Shapes, TypeOK, Owed
<1>2. ASSUME NEW h \in Handlers, Request(h) PROVE Shapes'
  <2>1. ASSUME NEW f \in Foods, NEW q \in Quantities, NEW b \in BOOLEAN, AddItem(h, f, q, b)
        PROVE  Shapes'
    <3> DEFINE n == [Idle EXCEPT !.op = "add", !.pc = "wait", !.food = f,
                                 !.qty = q, !.replace = b]
    <3>1. n \in Requests /\ Adds(n)
      BY StartsAdding
    <3>2. n.op # "settle"
      BY DEF Idle
    <3>3. Continue(h, n) /\ UNCHANGED <<sold, rows, due, history>>
      BY <2>1 DEF AddItem
    <3> HIDE DEF n
    <3> QED BY <3>1, <3>2, <3>3, OnlyRequests
  <2>2. ASSUME NEW i \in Ids, NEW q \in Quantities, UpdateItemQuantity(h, i, q)
        PROVE  Shapes'
    BY <2>2, UpdateItemQuantityShapes
  <2>3. ASSUME NEW changed \in SUBSET Ids, UpdateCartItemPrices(h, changed)
        PROVE  Shapes'
    <3> DEFINE table == [i \in Ids |-> IF i \in changed THEN items[i] ELSE NoRow]
    <3>1. table \in [Ids -> Row \union {NoRow}]
      BY <1>t
    <3>2. Begin(h, "save", "compare", table) /\ UNCHANGED <<sold, rows, due, history>>
      BY <2>3 DEF UpdateCartItemPrices
    <3> HIDE DEF table
    <3> QED BY <3>1, <3>2, BeginShapes
  <2>4. ASSUME NEW i \in Ids, RemoveItem(h, i)
        PROVE  Shapes'
    <3> DEFINE table == [NoRows EXCEPT ![i] = items[i]]
    <3>1. table \in [Ids -> Row \union {NoRow}]
      BY <1>t, NoRowsIsTable
    <3>2. Begin(h, "remove", "wait", table) /\ UNCHANGED <<sold, rows, due, history>>
      BY <2>4 DEF RemoveItem
    <3> HIDE DEF table
    <3> QED BY <3>1, <3>2, BeginShapes
  <2>5. CASE EmptyPaidCart(h)
    BY <2>5, EmptyPaidCartShapes
  <2>6. CASE ClearCart(h)
    BY <2>6, ClearCartShapes
  <2>7. ASSUME NEW op \in {"cash", "online"}, Checkout(h, op)
        PROVE  Shapes'
    <3>1. Begin(h, op, "wait", items) /\ UNCHANGED <<sold, rows, due, history>>
      BY <2>7 DEF Checkout
    <3> QED BY <3>1, <1>t, BeginShapes
  <2> QED BY <1>2, <2>1, <2>2, <2>3, <2>4, <2>5, <2>6, <2>7
          DEF Request, GetCurrentCart, PreviewCheckout
<1>3. ASSUME NEW h \in Handlers, Step(h) PROVE Shapes'
  <2>1. CASE RollBack(h)
    <3>1. Continue(h, Idle) /\ UNCHANGED <<sold, rows, due, history>>
      BY <2>1 DEF RollBack, Finish
    <3> QED BY <3>1, IdleIsRequest, IdleAdds, OnlyRequests
  <2> QED BY <1>3, <2>1, LockCartShapes, CompareShapes, CommitAddShapes,
             CommitItemsShapes, DeleteItemShapes, CommitDeletionShapes,
             PlaceOrderShapes DEF Step
<1>4. CASE UNCHANGED vars
  <2>1. Settling' = Settling
    BY <1>4 DEF vars, Settling
  <2> QED BY <1>4, <2>1 DEF vars, Shapes, TypeOK, Owed
<1> QED BY <1>1, <1>2, <1>3, <1>4 DEF Next

-----------------------------------------------------------------------------
(***************************************************************************)
(* What is sold.                                                          *)
(***************************************************************************)
\* The cart is named and stops being spent by the same step.
LEMMA RestockedInductive == Shapes /\ Restocked /\ [Next]_vars => Restocked'
<1> SUFFICES ASSUME Shapes, Restocked, [Next]_vars PROVE Restocked'
  OBVIOUS
<1>0. None \notin Restaurants
  BY NamesAssumption
<1>1. CASE cart' = cart /\ spent' = spent
  BY <1>1 DEF Restocked
<1>2. ASSUME NEW h \in Handlers, CommitAdd(h) PROVE Restocked'
  BY <1>2 DEF CommitAdd, Restocked
<1>3. CASE cart' = None
  BY <1>0, <1>3 DEF Restocked
<1>4. CASE ChangeCatalogue
  BY <1>4, <1>1 DEF ChangeCatalogue, rows, history
<1>5. ASSUME NEW h \in Handlers, Request(h) PROVE Restocked'
  <2>1. CASE ClearCart(h)
    BY <2>1, <1>3 DEF ClearCart, Emptied
  <2> QED BY <1>5, <2>1, <1>1 DEF Request, AddItem, UpdateItemQuantity,
             GetCurrentCart, PreviewCheckout, UpdateCartItemPrices, RemoveItem, EmptyPaidCart, Checkout, rows, history
<1>6. ASSUME NEW h \in Handlers, Step(h) PROVE Restocked'
  <2>1. CASE PlaceOrder(h)
    BY <2>1, <1>1, <1>3 DEF PlaceOrder, Emptied, rows
  <2>2. CASE CommitDeletion(h)
    BY <2>2, <1>1, <1>3 DEF CommitDeletion, history
  <2>3. CASE CommitItems(h) \/ DeleteItem(h)
    BY <2>3, <1>1 DEF CommitItems, DeleteItem, history
  <2> QED BY <1>6, <2>1, <2>2, <2>3, <1>1, <1>2 DEF Step, LockCart, CompareItems,
             CompareCart, RollBack, rows, history
<1>7. CASE UNCHANGED vars
  BY <1>7, <1>1 DEF vars
<1> QED BY <1>4, <1>5, <1>6, <1>7 DEF Next

\* An order is placed by PlaceOrder alone, of a cart that names a restaurant.
LEMMA NotResold ==
  IInv /\ [Next]_vars => SpentCartIsNotSold'
<1> SUFFICES ASSUME IInv, [Next]_vars PROVE SpentCartIsNotSold'
  OBVIOUS
<1>1. ASSUME NEW h \in Handlers, PlaceOrder(h)
      PROVE  SpentCartIsNotSold'
  BY <1>1 DEF PlaceOrder, Consistent, IInv, Restocked, SpentCartIsNotSold
<1>2. CASE resold' = resold
  BY <1>2 DEF IInv, SpentCartIsNotSold
<1>3. ASSUME NEW h \in Handlers, Request(h)
      PROVE  resold' = resold
  BY <1>3 DEF Request, AddItem, UpdateItemQuantity, GetCurrentCart,
     PreviewCheckout, UpdateCartItemPrices,
     RemoveItem, EmptyPaidCart, ClearCart, Checkout, history
<1>4. ASSUME NEW h \in Handlers, Step(h), ~ PlaceOrder(h)
      PROVE  resold' = resold
  BY <1>4 DEF Step, LockCart, CompareItems, CommitAdd, CommitItems, DeleteItem,
     CompareCart, CommitDeletion, RollBack, history
<1> QED BY <1>1, <1>2, <1>3, <1>4 DEF Next, ChangeCatalogue, vars, history

-----------------------------------------------------------------------------
(***************************************************************************)
(* What the cart holds.                                                   *)
(***************************************************************************)
LEMMA NoRowsIsEmpty == \A i \in Ids : NoRows[i] = NoRow
BY DEF NoRows

LEMMA IdleIsFree == Idle.op = "none" /\ Idle.pc = "idle" /\ Idle.rows = NoRows
BY DEF Idle

\* A request begins, knowing at most rows that are there, or is given up.
LEMMA FreshKeeps ==
  ASSUME Shapes, Locks, NEW h \in Handlers, NEW n \in Requests, Continue(h, n),
         UNCHANGED rows,
         n.op = "add" => n.pc = "wait" /\ n.rows = NoRows /\ ~ n.creates,
         \A i \in Ids : n.rows[i] # NoRow => items[i] # NoRow /\ n.rows[i].food = items[i].food
  PROVE  Locks'
<1>1. /\ req'[h] = n /\ \A g \in Handlers : g # h => req'[g] = req[g]
      /\ cart' = cart /\ items' = items
  BY Continues DEF Shapes, TypeOK, rows
<1>2. Named'
  <2> SUFFICES ASSUME NEW i \in Ids PROVE \E f \in Foods \union {None} : IsNamed(i, f)'
    BY DEF Named
  <2>1. PICK f \in Foods \union {None} : IsNamed(i, f)
    BY DEF Locks, Named
  <2>2. \A g \in Handlers : req'[g].rows[i] # NoRow => req'[g].rows[i].food = f
    <3> SUFFICES ASSUME NEW g \in Handlers, req'[g].rows[i] # NoRow
                 PROVE  req'[g].rows[i].food = f
      OBVIOUS
    <3>1. CASE g = h
      BY <1>1, <2>1, <3>1 DEF IsNamed
    <3>2. CASE g # h
      BY <1>1, <2>1, <3>2 DEF IsNamed
    <3> QED BY <3>1, <3>2
  <2>3. items'[i] # NoRow => items'[i].food = f
    BY <1>1, <2>1 DEF IsNamed
  <2>4. IsNamed(i, f)'
    BY <2>2, <2>3 DEF IsNamed
  <2> QED BY <2>4
<1>3. Additions'
  <2> SUFFICES ASSUME NEW g \in Handlers, req'[g].op = "add" PROVE Addition(g)'
    BY DEF Additions
  <2>1. CASE g = h
    BY <1>1, <2>1, NoRowsIsEmpty DEF Addition, HoldsCart
  <2>2. CASE g # h
    BY <1>1, <2>2 DEF Locks, Additions, Addition, HoldsCart, Conflicts
  <2> QED BY <2>1, <2>2
<1>4. Exclusive'
  BY <1>1 DEF Locks, Exclusive, HoldsCart
<1> QED BY <1>2, <1>3, <1>4 DEF Locks

\* A request moves on with the rows it has.
LEMMA MoveKeeps ==
  ASSUME Shapes, Locks, NEW h \in Handlers, NEW n \in Requests, Continue(h, n),
         UNCHANGED rows,
         n.op = req[h].op, n.food = req[h].food, n.rows = req[h].rows,
         n.creates = req[h].creates,
         n.op = "add" => req[h].pc = "compare" /\ n.pc = "commit"
  PROVE  Locks'
<1>1. /\ req'[h] = n /\ \A g \in Handlers : g # h => req'[g] = req[g]
      /\ cart' = cart /\ items' = items
  BY Continues DEF Shapes, TypeOK, rows
<1>2. Named'
  BY <1>1 DEF Locks, Named, IsNamed
<1>3. Additions'
  BY <1>1 DEF Locks, Additions, Addition, HoldsCart, Conflicts
<1>4. Exclusive'
  BY <1>1 DEF Locks, Exclusive, HoldsCart
<1> QED BY <1>2, <1>3, <1>4 DEF Locks

\* Requests end, rows go or are written as a request remembers them, and the
\* cart is reset when nobody holds it.
LEMMA EndKeeps ==
  ASSUME Locks, \A g \in Handlers : req'[g] = req[g] \/ req'[g] = Idle,
         \A i \in Ids : \/ items'[i] = NoRow \/ items'[i] = items[i]
                        \/ \E g \in Handlers : items'[i] = req[g].rows[i],
         cart' = cart \/ (cart' = None /\ ~ CartLocked)
  PROVE  Locks'
<1>1. Named'
  <2> SUFFICES ASSUME NEW i \in Ids PROVE \E f \in Foods \union {None} : IsNamed(i, f)'
    BY DEF Named
  <2>1. PICK f \in Foods \union {None} : IsNamed(i, f)
    BY DEF Locks, Named
  <2> QED BY <2>1, IdleIsFree, NoRowsIsEmpty DEF IsNamed
<1>2. \A g \in Handlers : HoldsCart(g)' => HoldsCart(g) /\ req'[g] = req[g]
  BY IdleIsFree DEF HoldsCart
<1>3. Additions'
  <2> SUFFICES ASSUME NEW g \in Handlers, req'[g].op = "add"
               PROVE  Addition(g)'
    BY DEF Additions
  <2>1. req'[g] = req[g] /\ Addition(g)
    BY IdleIsFree DEF Locks, Additions
  <2>2. CASE cart' = cart
    BY <2>1, <2>2 DEF Addition, HoldsCart, Conflicts
  <2>3. CASE cart' = None /\ ~ CartLocked
    BY <2>1, <2>3 DEF Addition, HoldsCart, CartLocked
  <2> QED BY <2>2, <2>3
<1>4. Exclusive'
  BY <1>2 DEF Locks, Exclusive
<1> QED BY <1>1, <1>3, <1>4 DEF Locks

LEMMA LockCartKeeps ==
  ASSUME Shapes, Locks, NEW h \in Handlers, LockCart(h)
  PROVE  Locks'
<1>1. /\ req[h].op = "add" /\ req[h].pc = "wait" /\ ~ CartLocked
      /\ req[h].rows = NoRows /\ cart' = cart /\ items' = items
      /\ req[h] \in Requests
  BY DEF LockCart, At, Locks, Additions, Addition, rows, Shapes, TypeOK
<1>2. ASSUME NEW n \in Requests, Continue(h, n), n.op = "add", n.food = req[h].food,
             n.pc \in {"compare", "commit"}, n.creates \/ cart # Absent,
             n.rows = NoRows \/ (~ n.creates /\ ~ Conflicts(h)),
             \A i \in Ids : n.rows[i] # NoRow =>
               items[i] # NoRow /\ items[i].food = n.rows[i].food /\ n.rows[i].food = n.food
      PROVE  Locks'
  <2>1. req'[h] = n /\ \A g \in Handlers : g # h => req'[g] = req[g]
    BY <1>2, Continues DEF Shapes, TypeOK
  <2>2. Named'
    <3> SUFFICES ASSUME NEW i \in Ids PROVE \E f \in Foods \union {None} : IsNamed(i, f)'
      BY DEF Named
    <3>1. PICK f \in Foods \union {None} : IsNamed(i, f)
      BY DEF Locks, Named
    <3> QED BY <1>1, <1>2, <2>1, <3>1 DEF IsNamed
  <2>3. Additions'
    BY <1>1, <1>2, <2>1 DEF Locks, Additions, Addition, HoldsCart, Conflicts
  <2>4. Exclusive'
    BY <1>1, <2>1 DEF CartLocked, Exclusive, HoldsCart
  <2> QED BY <2>2, <2>3, <2>4 DEF Locks
<1>3. CASE cart = Absent /\ Continue(h, [req[h] EXCEPT !.pc = "commit", !.creates = TRUE])
  <2> DEFINE n == [req[h] EXCEPT !.pc = "commit", !.creates = TRUE]
  <2>1. n \in Requests
    BY <1>1, MovesAndCreates
  <2>2. n.op = "add" /\ n.food = req[h].food /\ n.pc = "commit" /\ n.creates /\ n.rows = NoRows
    BY <1>1 DEF Requests
  <2>3. Continue(h, n)
    BY <1>3
  <2> HIDE DEF n
  <2> QED BY <1>2, <2>1, <2>2, <2>3, NoRowsIsEmpty
<1>4. CASE cart # Absent /\ Continue(h, [req[h] EXCEPT !.pc = "commit"])
  <2> DEFINE n == [req[h] EXCEPT !.pc = "commit"]
  <2>1. n \in Requests
    BY <1>1, Moves
  <2>2. n.op = "add" /\ n.food = req[h].food /\ n.pc = "commit" /\ n.rows = NoRows
    BY <1>1 DEF Requests
  <2>3. Continue(h, n)
    BY <1>4
  <2> HIDE DEF n
  <2> QED BY <1>2, <1>4, <2>1, <2>2, <2>3, NoRowsIsEmpty
<1>5. ASSUME cart # Absent, ~ Conflicts(h), NEW i \in Holding(req[h].food),
             EnsureQuantity(items[i].qty + req[h].qty),
             Continue(h, [req[h] EXCEPT !.pc = "compare",
                  !.rows = [NoRows EXCEPT ![i] =
                    [food |-> items[i].food, qty |-> items[i].qty + req[h].qty]]])
      PROVE  Locks'
  <2> DEFINE e == [food |-> items[i].food, qty |-> items[i].qty + req[h].qty]
             table == [NoRows EXCEPT ![i] = e]
             n == [req[h] EXCEPT !.pc = "compare", !.rows = table]
  <2>1. /\ i \in Ids /\ items[i] \in Row \union {NoRow} /\ items[i] # NoRow
        /\ items[i].food = req[h].food
    BY DEF Holding, Present, Shapes, TypeOK
  <2>2. e \in Row /\ e.food = req[h].food
    BY <1>5, <2>1, RowFields DEF Row, EnsureQuantity
  <2>3. table \in [Ids -> Row \union {NoRow}]
    BY <2>2, NoRowsIsTable
  <2>4. \A j \in Ids : table[j] # NoRow => j = i /\ table[j] = e
    BY <2>1, NoRowsIsTable, NoRowsIsEmpty
  <2>5. n \in Requests
    BY <1>1, <2>3, MovesWithRows
  <2>6. n.op = "add" /\ n.food = req[h].food /\ n.pc = "compare" /\ n.rows = table
    BY <1>1 DEF Requests
  <2>7. ~ n.creates
    BY <1>1 DEF Requests, Locks, Additions, Addition
  <2>8. Continue(h, n)
    BY <1>5
  <2> HIDE DEF n, table, e
  <2>9. \A j \in Ids : n.rows[j] # NoRow =>
          items[j] # NoRow /\ items[j].food = n.rows[j].food /\ n.rows[j].food = n.food
    BY <2>1, <2>2, <2>4, <2>6
  <2> QED BY <1>2, <1>5, <2>5, <2>6, <2>7, <2>8, <2>9
<1> QED BY <1>3, <1>4, <1>5 DEF LockCart

\* A cart that is not mixed is not made so by a food that does not conflict.
LEMMA CommitAddKeeps ==
  ASSUME Shapes, Locks, MixedByStaleRequestsOnly, NEW h \in Handlers, CommitAdd(h)
  PROVE  Locks' /\ MixedByStaleRequestsOnly'
<1> DEFINE r == req[h]
           k == Kitchen[req[h].food]
<1>1. /\ r.op = "add" /\ r.pc = "commit" /\ r \in Requests /\ Addition(h)
      /\ r.food \in Foods /\ k \in Restaurants
      /\ cart' = k /\ (r.creates => cart = Absent)
      /\ Absent \notin Restaurants /\ None \notin Restaurants
  BY KitchenAssumption, NamesAssumption
  DEF CommitAdd, At, Locks, Additions, Shapes, TypeOK, Adds
<1>2. req'[h] = Idle /\ \A g \in Handlers : g # h => req'[g] = req[g]
  BY IdleIsRequest, Continues DEF CommitAdd, Finish, Shapes, TypeOK
<1>3. \A g \in Handlers : g # h => ~ HoldsCart(g)
  BY <1>1 DEF Locks, Exclusive, Additions, Addition, HoldsCart
<1>4. Additions'
  <2> SUFFICES ASSUME NEW g \in Handlers, req'[g].op = "add"
               PROVE  Addition(g)'
    BY DEF Additions
  <2>1. g # h /\ req'[g] = req[g] /\ Addition(g) /\ ~ HoldsCart(g)
    BY <1>2, <1>3, IdleIsFree DEF Locks, Additions
  <2> QED BY <2>1 DEF Addition, HoldsCart
<1>5. Exclusive'
  BY <1>2, <1>3, IdleIsFree DEF Exclusive, HoldsCart
<1>6. CASE r.rows # NoRows
  <2>1. /\ items' = Saved(h, items) /\ ~ Conflicts(h) /\ cart # Absent
        /\ \A i \in Ids : r.rows[i] # NoRow => r.rows[i].food = r.food
    BY <1>1, <1>6 DEF CommitAdd, Addition
  <2>2. \A i \in Ids : items'[i] = items[i] \/ items'[i] = r.rows[i]
    BY <2>1 DEF Saved
  <2>3. Named'
    <3> SUFFICES ASSUME NEW i \in Ids PROVE \E f \in Foods \union {None} : IsNamed(i, f)'
      BY DEF Named
    <3>1. PICK f \in Foods \union {None} : IsNamed(i, f)
      BY DEF Locks, Named
    <3> QED BY <1>2, <2>2, <3>1, IdleIsFree, NoRowsIsEmpty DEF IsNamed
  <2>4. stale' = (stale /\ ~ Conflicts(h))
    BY DEF CommitAdd
  <2>5. MixedByStaleRequestsOnly'
    <3> SUFFICES ASSUME NEW i \in Ids, items'[i] # NoRow, Kitchen[items'[i].food] # k
                 PROVE  stale'
      BY <1>1 DEF MixedByStaleRequestsOnly, Present
    <3>1. items'[i] = items[i] /\ items[i] # NoRow
      BY <2>1, <2>2
    <3>2. Kitchen[items[i].food] \in Restaurants
      BY <3>1, RowFields, KitchenAssumption DEF Shapes, TypeOK
    <3>3. Kitchen[items[i].food] # cart
      BY <1>1, <2>1, <3>1, <3>2 DEF Conflicts
    <3>4. stale
      BY <3>1, <3>3 DEF MixedByStaleRequestsOnly, Present
    <3> QED BY <2>1, <2>4, <3>4
  <2> QED BY <1>4, <1>5, <2>3, <2>5 DEF Locks
<1>7. CASE r.rows = NoRows
  <2> DEFINE e == [food |-> r.food, qty |-> r.qty]
             left == IF Conflicts(h) THEN NoRows ELSE items
  <2>1. PICK j \in Ids : Unnamed(j) /\ items' = [left EXCEPT ![j] = e]
    BY <1>7 DEF CommitAdd
  <2>2. /\ left \in [Ids -> Row \union {NoRow}]
        /\ \A i \in Ids : left[i] = NoRow \/ (~ Conflicts(h) /\ left[i] = items[i])
    BY NoRowsIsTable, NoRowsIsEmpty DEF Shapes, TypeOK
  <2>3. e.food = r.food
    OBVIOUS
  <2> HIDE DEF e, left
  <2>4. items'[j] = e /\ \A i \in Ids : i # j => items'[i] = left[i]
    BY <2>1, <2>2
  <2>5. Named'
    <3> SUFFICES ASSUME NEW i \in Ids PROVE \E f \in Foods \union {None} : IsNamed(i, f)'
      BY DEF Named
    <3>1. CASE i = j
      <4>1. \A g \in Handlers : req'[g].rows[i] = NoRow
        BY <1>2, <2>1, <3>1, IdleIsFree, NoRowsIsEmpty DEF Unnamed
      <4> QED BY <1>1, <2>3, <2>4, <3>1, <4>1 DEF IsNamed
    <3>2. CASE i # j
      <4>1. PICK f \in Foods \union {None} : IsNamed(i, f)
        BY DEF Locks, Named
      <4> QED BY <1>2, <2>2, <2>4, <3>2, <4>1, IdleIsFree, NoRowsIsEmpty DEF IsNamed
    <3> QED BY <3>1, <3>2
  <2>6. stale' = (stale /\ ~ Conflicts(h))
    BY DEF CommitAdd
  <2>7. MixedByStaleRequestsOnly'
    <3> SUFFICES ASSUME NEW i \in Ids, items'[i] # NoRow, Kitchen[items'[i].food] # k
                 PROVE  stale'
      BY <1>1 DEF MixedByStaleRequestsOnly, Present
    <3>1. ~ Conflicts(h) /\ items'[i] = items[i] /\ items[i] # NoRow
      BY <2>2, <2>3, <2>4
    <3>2. Kitchen[items[i].food] \in Restaurants
      BY <3>1, RowFields, KitchenAssumption DEF Shapes, TypeOK
    <3>3. Kitchen[items[i].food] # cart
      BY <1>1, <3>1, <3>2 DEF Conflicts
    <3>4. stale
      BY <3>1, <3>3 DEF MixedByStaleRequestsOnly, Present
    <3> QED BY <2>6, <3>1, <3>4
  <2> QED BY <1>4, <1>5, <2>5, <2>7 DEF Locks
<1> QED BY <1>6, <1>7

LEMMA InitLocks == Init => Locks /\ MixedByStaleRequestsOnly
<1> SUFFICES ASSUME Init PROVE Locks /\ MixedByStaleRequestsOnly
  OBVIOUS
<1>1. items = NoRows /\ \A h \in Handlers : req[h] = Idle
  BY DEF Init
<1>2. Named
  <2>1. Present(items) = {}
    BY <1>1, NoRowsIsEmpty DEF Present
  <2> QED BY <1>1, <2>1, IdleIsFree, NoRowsIsEmpty DEF Named, IsNamed
<1>3. Additions /\ Exclusive /\ MixedByStaleRequestsOnly
  BY <1>1, IdleIsFree, NoRowsIsEmpty
  DEF Additions, Exclusive, HoldsCart, MixedByStaleRequestsOnly, Present
<1> QED BY <1>2, <1>3 DEF Locks

\* Rows that go, or are written again as they were, are of the cart's restaurant
\* if they were before; what is written to a row that is gone makes a stale cart.
LEMMA EndsUnmixed ==
  ASSUME Shapes, Locks, MixedByStaleRequestsOnly, NEW h \in Handlers,
         \A i \in Ids : \/ items'[i] = NoRow \/ items'[i] = items[i]
                        \/ items[i] # NoRow /\ items'[i] = req[h].rows[i],
         cart' = cart, stale' = stale
  PROVE  MixedByStaleRequestsOnly'
<1> SUFFICES ASSUME NEW i \in Ids, items'[i] # NoRow, Kitchen[items'[i].food] # cart
             PROVE  stale
  BY DEF MixedByStaleRequestsOnly, Present
<1>1. PICK f \in Foods \union {None} : IsNamed(i, f)
  BY DEF Locks, Named
<1>2. items[i] # NoRow /\ items'[i].food = items[i].food
  BY <1>1 DEF IsNamed
<1> QED BY <1>2 DEF MixedByStaleRequestsOnly, Present

LEMMA WritesKeep ==
  ASSUME Shapes, Locks, MixedByStaleRequestsOnly, NEW h \in Handlers,
         CommitItems(h) \/ DeleteItem(h) \/ CommitDeletion(h) \/ PlaceOrder(h) \/ ClearCart(h)
  PROVE  Locks' /\ MixedByStaleRequestsOnly'
<1>0. req \in [Handlers -> Requests] /\ req[h] \in Requests
      /\ items \in [Ids -> Row \union {NoRow}]
  BY DEF Shapes, TypeOK
<1>1. ASSUME Finish(h) PROVE \A g \in Handlers : req'[g] = req[g] \/ req'[g] = Idle
  BY <1>0, <1>1, IdleIsRequest, Continues DEF Finish
<1>2. CASE CommitItems(h)
  <2>1. Finish(h) /\ items' = Saved(h, items) /\ cart' = cart
        /\ stale' = (stale \/ req[h].inserts # {})
    BY <1>2 DEF CommitItems
  <2>2. \A i \in Ids : \/ items'[i] = items[i]
                       \/ /\ items'[i] = req[h].rows[i]
                          /\ i \in req[h].inserts \/ items[i] # NoRow
    BY <2>1 DEF Saved
  <2>3. Locks'
    <3>1. \A i \in Ids : \/ items'[i] = NoRow \/ items'[i] = items[i]
                         \/ \E g \in Handlers : items'[i] = req[g].rows[i]
      BY <2>2
    <3> QED BY <1>1, <2>1, <3>1, EndKeeps
  <2>4. ASSUME req[h].inserts # {} PROVE MixedByStaleRequestsOnly'
    BY <2>1, <2>4 DEF MixedByStaleRequestsOnly
  <2>5. ASSUME req[h].inserts = {} PROVE MixedByStaleRequestsOnly'
    <3>1. stale' = stale
      BY <2>1, <2>5 DEF Shapes, TypeOK
    <3> QED BY <2>1, <2>2, <2>5, <3>1, EndsUnmixed
  <2> QED BY <2>3, <2>4, <2>5
<1>3. CASE DeleteItem(h)
  <2> DEFINE n == [req[h] EXCEPT !.pc = "compare"]
  <2>1. cart' = cart /\ stale' = stale /\ req[h].op = "remove"
    BY <1>3 DEF DeleteItem, At, history
  <2>2. \A i \in Ids : items'[i] = NoRow \/ items'[i] = items[i]
    BY <1>3 DEF DeleteItem
  <2>3. MixedByStaleRequestsOnly'
    BY <2>1, <2>2, EndsUnmixed
  <2>4. CASE Continue(h, n) /\ items' = items
    <3>1. n \in Requests
      BY <1>0, Moves
    <3>2. /\ n.op = req[h].op /\ n.food = req[h].food /\ n.rows = req[h].rows
          /\ n.creates = req[h].creates /\ n.op # "add"
      BY <1>0, <2>1 DEF Requests
    <3>3. UNCHANGED rows /\ Continue(h, n)
      BY <2>1, <2>4 DEF rows
    <3> HIDE DEF n
    <3> QED BY <2>3, <3>1, <3>2, <3>3, MoveKeeps
  <2>5. CASE Finish(h)
    BY <1>1, <2>1, <2>2, <2>3, <2>5, EndKeeps
  <2> QED BY <1>3, <2>4, <2>5 DEF DeleteItem
<1>4. CASE CommitDeletion(h)
  <2>1. \A i \in Ids : items'[i] = NoRow \/ items'[i] = items[i]
    BY <1>4 DEF CommitDeletion
  <2>2. /\ Finish(h) /\ stale' = (stale \/ (req[h].resets /\ items' # NoRows))
        /\ \/ req[h].resets /\ ~ CartLocked /\ cart' = None
           \/ ~ req[h].resets /\ cart' = cart
    BY <1>4 DEF CommitDeletion
  <2>3. Locks'
    BY <1>1, <2>1, <2>2, EndKeeps
  <2>4. ASSUME req[h].resets PROVE MixedByStaleRequestsOnly'
    BY <2>2, <2>4, NoRowsIsEmpty DEF MixedByStaleRequestsOnly, Present
  <2>5. ASSUME ~ req[h].resets PROVE MixedByStaleRequestsOnly'
    <3>1. stale' = stale
      BY <2>2, <2>5 DEF Shapes, TypeOK
    <3> QED BY <2>1, <2>2, <2>5, <3>1, EndsUnmixed
  <2> QED BY <2>3, <2>4, <2>5
<1>5. ASSUME Emptied, ~ CartLocked, \A g \in Handlers : req'[g] = req[g] \/ req'[g] = Idle
      PROVE  Locks' /\ MixedByStaleRequestsOnly'
  <2>1. items' = NoRows /\ cart' = None /\ \A i \in Ids : items'[i] = NoRow
    BY <1>5, NoRowsIsEmpty DEF Emptied
  <2> QED BY <1>5, <2>1, EndKeeps DEF MixedByStaleRequestsOnly, Present
<1>6. CASE PlaceOrder(h)
  <2>1. Finish(h) /\ ~ CartLocked
    BY <1>6 DEF PlaceOrder
  <2>2. CASE Emptied
    BY <1>1, <1>5, <2>1, <2>2
  <2>3. CASE UNCHANGED <<rows, spent, stale>>
    BY <1>1, <2>1, <2>3, EndKeeps, EndsUnmixed DEF rows
  <2> QED BY <1>6, <2>2, <2>3 DEF PlaceOrder
<1>7. CASE ClearCart(h)
  BY <1>5, <1>7 DEF ClearCart
<1> QED BY <1>2, <1>3, <1>4, <1>6, <1>7

LEMMA LocksInductive ==
  ASSUME Shapes, Locks, MixedByStaleRequestsOnly, [Next]_vars
  PROVE  Locks' /\ MixedByStaleRequestsOnly'
<1>0. items \in [Ids -> Row \union {NoRow}] /\ req \in [Handlers -> Requests]
  BY DEF Shapes, TypeOK
<1>1. ASSUME UNCHANGED <<rows, history>> PROVE MixedByStaleRequestsOnly'
  BY <1>1 DEF rows, history, MixedByStaleRequestsOnly, Present
<1>2. ASSUME UNCHANGED <<rows, history, req>> PROVE Locks' /\ MixedByStaleRequestsOnly'
  BY <1>1, <1>2 DEF rows, Locks, Named, IsNamed, Additions, Addition, Exclusive, HoldsCart, Conflicts
\* A request that begins with some of the rows it read, perhaps of other quantities.
<1>3. ASSUME NEW h \in Handlers, NEW op \in {"save", "remove", "cash", "online", "settle"},
             NEW step \in {"wait", "compare"}, NEW table \in [Ids -> Row \union {NoRow}],
             Begin(h, op, step, table), UNCHANGED <<rows, history>>,
             \A i \in Ids : table[i] # NoRow => items[i] # NoRow /\ table[i].food = items[i].food
      PROVE  Locks' /\ MixedByStaleRequestsOnly'
  <2> DEFINE n == [Idle EXCEPT !.op = op, !.pc = step, !.rows = table]
  <2>1. n \in Requests
    BY Starts
  <2>2. n.op = op /\ n.op # "add" /\ n.rows = table
    BY DEF Idle
  <2>3. Continue(h, n)
    BY <1>3 DEF Begin
  <2> HIDE DEF n
  <2>4. \A i \in Ids : n.rows[i] # NoRow => items[i] # NoRow /\ n.rows[i].food = items[i].food
    BY <1>3, <2>2
  <2> QED BY <1>1, <1>3, <2>1, <2>2, <2>3, <2>4, FreshKeeps
<1>4. ASSUME NEW h \in Handlers, Request(h) PROVE Locks' /\ MixedByStaleRequestsOnly'
  <2>1. ASSUME NEW f \in Foods, NEW q \in Quantities, NEW b \in BOOLEAN, AddItem(h, f, q, b)
        PROVE  Locks' /\ MixedByStaleRequestsOnly'
    <3> DEFINE n == [Idle EXCEPT !.op = "add", !.pc = "wait", !.food = f,
                                 !.qty = q, !.replace = b]
    <3>1. n \in Requests
      BY StartsAdding
    <3>2. n.pc = "wait" /\ n.rows = NoRows /\ ~ n.creates
      BY DEF Idle
    <3>3. Continue(h, n) /\ UNCHANGED <<rows, history>>
      BY <2>1 DEF AddItem
    <3> HIDE DEF n
    <3>4. \A i \in Ids : n.rows[i] # NoRow => items[i] # NoRow /\ n.rows[i].food = items[i].food
      BY <3>2, NoRowsIsEmpty
    <3> QED BY <1>1, <3>1, <3>2, <3>3, <3>4, FreshKeeps
  <2>2. ASSUME NEW i \in Ids, NEW q \in Quantities, UpdateItemQuantity(h, i, q)
        PROVE  Locks' /\ MixedByStaleRequestsOnly'
    <3> DEFINE e == [food |-> items[i].food, qty |-> q]
               table == [NoRows EXCEPT ![i] = e]
    <3>1. items[i] \in Row \union {NoRow} /\ items[i] # NoRow
      BY <1>0, <2>2 DEF UpdateItemQuantity, Present
    <3>2. e \in Row /\ e.food = items[i].food
      BY <3>1, RowFields DEF Row
    <3>3. table \in [Ids -> Row \union {NoRow}]
      BY <3>2, NoRowsIsTable
    <3>4. \A j \in Ids : table[j] # NoRow => j = i /\ table[j] = e
      BY NoRowsIsTable, NoRowsIsEmpty
    <3>5. Begin(h, "save", "compare", table) /\ UNCHANGED <<rows, history>>
      BY <2>2 DEF UpdateItemQuantity
    <3> HIDE DEF table, e
    <3>6. \A j \in Ids : table[j] # NoRow => items[j] # NoRow /\ table[j].food = items[j].food
      BY <3>1, <3>2, <3>4
    <3> QED BY <1>3, <3>3, <3>5, <3>6
  <2>3. ASSUME NEW changed \in SUBSET Ids, UpdateCartItemPrices(h, changed)
        PROVE  Locks' /\ MixedByStaleRequestsOnly'
    <3> DEFINE table == [i \in Ids |-> IF i \in changed THEN items[i] ELSE NoRow]
    <3>1. table \in [Ids -> Row \union {NoRow}]
      BY <1>0
    <3>2. \A i \in Ids : table[i] # NoRow => items[i] # NoRow /\ table[i].food = items[i].food
      OBVIOUS
    <3>3. Begin(h, "save", "compare", table) /\ UNCHANGED <<rows, history>>
      BY <2>3 DEF UpdateCartItemPrices
    <3> HIDE DEF table
    <3> QED BY <1>3, <3>1, <3>2, <3>3
  <2>4. ASSUME NEW i \in Ids, RemoveItem(h, i)
        PROVE  Locks' /\ MixedByStaleRequestsOnly'
    <3> DEFINE table == [NoRows EXCEPT ![i] = items[i]]
    <3>1. table \in [Ids -> Row \union {NoRow}]
      BY <1>0, NoRowsIsTable
    <3>2. \A j \in Ids : table[j] # NoRow => items[j] # NoRow /\ table[j].food = items[j].food
      BY NoRowsIsTable, NoRowsIsEmpty
    <3>3. Begin(h, "remove", "wait", table) /\ UNCHANGED <<rows, history>>
      BY <2>4 DEF RemoveItem
    <3> HIDE DEF table
    <3> QED BY <1>3, <3>1, <3>2, <3>3
  <2>5. CASE EmptyPaidCart(h)
    BY <1>0, <1>3, <2>5 DEF EmptyPaidCart
  <2>6. CASE ClearCart(h)
    BY <2>6, WritesKeep
  <2>7. ASSUME NEW op \in {"cash", "online"}, Checkout(h, op)
        PROVE  Locks' /\ MixedByStaleRequestsOnly'
    BY <1>0, <1>3, <2>7 DEF Checkout
  <2> QED BY <1>4, <2>1, <2>2, <2>3, <2>4, <2>5, <2>6, <2>7
          DEF Request, GetCurrentCart, PreviewCheckout
<1>5. ASSUME NEW h \in Handlers, LockCart(h) PROVE Locks' /\ MixedByStaleRequestsOnly'
  <2>1. Locks'
    BY <1>5, LockCartKeeps
  <2>2. UNCHANGED <<rows, history>>
    BY <1>5 DEF LockCart
  <2> QED BY <1>1, <2>1, <2>2
<1>6. ASSUME NEW h \in Handlers, RollBack(h) PROVE Locks' /\ MixedByStaleRequestsOnly'
  <2>1. Continue(h, Idle) /\ UNCHANGED <<rows, history>>
    BY <1>6 DEF RollBack, Finish
  <2>2. Locks'
    BY <2>1, IdleIsRequest, IdleIsFree, NoRowsIsEmpty, FreshKeeps
  <2> QED BY <1>1, <2>1, <2>2
<1>7. ASSUME NEW h \in Handlers, CompareItems(h) \/ CompareCart(h)
      PROVE  Locks' /\ MixedByStaleRequestsOnly'
  <2> DEFINE A == Present(req[h].rows) \ Present(items)
             B == Present(req[h].rows) \intersect Present(items)
             n == [req[h] EXCEPT !.pc = "commit", !.inserts = A, !.updates = B]
             m == [req[h] EXCEPT !.pc = "commit", !.resets = cart # None]
  <2>1. UNCHANGED <<rows, history>> /\ req[h] \in Requests
    BY <1>0, <1>7 DEF CompareItems, CompareCart
  <2>2. CASE CompareItems(h)
    <3>1. n \in Requests
      BY <2>1, MovesToWrite DEF Present
    <3>2. /\ n.op = req[h].op /\ n.food = req[h].food /\ n.rows = req[h].rows
          /\ n.creates = req[h].creates /\ n.pc = "commit" /\ req[h].pc = "compare"
      BY <2>1, <2>2 DEF Requests, CompareItems, At
    <3>3. Continue(h, n)
      BY <2>2 DEF CompareItems
    <3> HIDE DEF n
    <3> QED BY <1>1, <2>1, <3>1, <3>2, <3>3, MoveKeeps
  <2>3. CASE CompareCart(h)
    <3>1. m \in Requests
      BY <2>1, MovesAndResets
    <3>2. /\ m.op = req[h].op /\ m.food = req[h].food /\ m.rows = req[h].rows
          /\ m.creates = req[h].creates /\ m.op # "add"
      BY <2>1, <2>3 DEF Requests, CompareCart, At
    <3>3. Continue(h, m)
      BY <2>3 DEF CompareCart
    <3> HIDE DEF m
    <3> QED BY <1>1, <2>1, <3>1, <3>2, <3>3, MoveKeeps
  <2> QED BY <1>7, <2>2, <2>3
<1>8. ASSUME NEW h \in Handlers, Step(h) PROVE Locks' /\ MixedByStaleRequestsOnly'
  BY <1>5, <1>6, <1>7, <1>8, CommitAddKeeps, WritesKeep DEF Step
<1> QED BY <1>2, <1>4, <1>8 DEF Next, ChangeCatalogue, vars, rows, history

-----------------------------------------------------------------------------
LEMMA InitRest == Init => Restocked /\ SpentCartIsNotSold
BY DEF Init, Restocked, SpentCartIsNotSold

\* The parts together are an inductive invariant.
THEOREM Invariance == Spec => []IInv
<1>1. Init => IInv
  BY InitShapes, InitLocks, InitRest DEF IInv
<1>2. IInv /\ [Next]_vars => IInv'
  BY ShapesInductive, LocksInductive, RestockedInductive, NotResold DEF IInv
<1> QED BY <1>1, <1>2, PTL DEF Spec

\* Rows and requests keep their shape, and no quantity leaves its range
\* (cart.service.ts, ensureQuantity).
THEOREM TypeCorrect == Spec => []TypeOK
<1>1. IInv => TypeOK
  BY DEF IInv, Shapes
<1> QED BY <1>1, Invariance, PTL

\* Additions never mix two restaurants' foods in a cart: only the unlocked
\* resets and saves do (cart.service.ts, addItem and restaurantConflict).
THEOREM AdditionsNeverMix == Spec => []MixedByStaleRequestsOnly
<1>1. IInv => MixedByStaleRequestsOnly
  BY DEF IInv
<1> QED BY <1>1, Invariance, PTL

\* A cart that was sold for cash or cleared is not sold again as it was
\* (payments.service.ts, createOrderFromCart).
THEOREM SpentNeverSold == Spec => []SpentCartIsNotSold
<1>1. IInv => SpentCartIsNotSold
  BY DEF IInv
<1> QED BY <1>1, Invariance, PTL
=============================================================================
