------------------------------- MODULE Basket -------------------------------
(***************************************************************************)
(* One customer's cart (src/src/cart), and the checkouts that sell it     *)
(* (src/src/checkout, src/src/payments).                                  *)
(*                                                                         *)
(* Adding an item, clearing the cart and checking out lock the cart's row *)
(* and only that row; changing a quantity, removing an item, refreshing   *)
(* the prices and emptying the cart of a paid order do not.  A statement  *)
(* that waited for the lock sees the new cart row, but the items as they  *)
(* were when it began.  Entities read earlier are saved as TypeORM saves  *)
(* them: the row is read again, inserted if it is gone, else updated      *)
(* where it differs.  A step ends where another request may get between;  *)
(* the last one is the commit.                                            *)
(*                                                                         *)
(* Prices, instructions and coupons are left out: a refresh saves any of  *)
(* the items it read.  What the catalogue says of a food and of its       *)
(* restaurant is one set of the foods that can be ordered now.            *)
(***************************************************************************)
EXTENDS Integers, FiniteSets

CONSTANTS
  Foods,        \* food_items
  Restaurants,  \* restaurants
  Kitchen,      \* the restaurant of each food
  Ids,          \* names of cart_items rows
  Handlers,     \* concurrently served requests
  None,         \* no restaurant, no food
  Absent,       \* the cart's row before the first item is added
  MaxQuantity,  \* MAX_CART_ITEM_QUANTITY, 20 in the code
  MaxDue        \* bound: online orders waiting for their payment

ASSUME KitchenAssumption == Kitchen \in [Foods -> Restaurants]
ASSUME NamesAssumption ==
  None \notin Foods \union Restaurants /\ Absent \notin Restaurants \union {None}
ASSUME QuantityAssumption == MaxQuantity \in Nat \ {0}
ASSUME DueAssumption == MaxDue \in Nat
ASSUME HandlersAssumption == IsFiniteSet(Handlers)

VARIABLES
  sold,   \* foods that are active and available in a restaurant that is open
  cart,   \* restaurant_id of the cart's row
  items,  \* cart_items rows
  due,    \* online orders whose payment has not emptied the cart yet
  resold, \* history: an order was placed of a cart that was spent
  spent,  \* history: the cart was sold for cash or cleared, nothing added since
  stale,  \* history: since the cart was last emptied under its lock, it was
          \* reset with items left in it, or an item deleted from it was saved again
  req     \* local state of each request

vars == <<sold, cart, items, due, resold, spent, stale, req>>
rows == <<cart, items>>
history == <<resold, spent, stale>>

Quantities == 1..MaxQuantity
Row == [food : Foods, qty : Quantities]
NoRow == [food |-> None, qty |-> 0]
NoRows == [i \in Ids |-> NoRow]
Present(table) == {i \in Ids : table[i] # NoRow}

Requests == [pc : {"idle", "wait", "compare", "commit"},
             op : {"none", "add", "save", "remove", "cash", "online", "settle"},
             food : Foods \union {None}, qty : 0..MaxQuantity,
             replace : BOOLEAN, creates : BOOLEAN,
             rows : [Ids -> Row \union {NoRow}],
             inserts : SUBSET Ids, updates : SUBSET Ids, resets : BOOLEAN]
Idle == [pc |-> "idle", op |-> "none", food |-> None, qty |-> 0,
         replace |-> FALSE, creates |-> FALSE, rows |-> NoRows,
         inserts |-> {}, updates |-> {}, resets |-> FALSE]

Init ==
  /\ sold = {}
  /\ cart = Absent
  /\ items = NoRows
  /\ due = 0
  /\ resold = FALSE /\ spent = FALSE /\ stale = FALSE
  /\ req = [h \in Handlers |-> Idle]

At(h, op, step) == req[h].op = op /\ req[h].pc = step
Free(h) == req[h].pc = "idle"
Continue(h, r) == req' = [req EXCEPT ![h] = r]
Finish(h) == Continue(h, Idle)
Begin(h, op, step, table) ==
  Continue(h, [Idle EXCEPT !.op = op, !.pc = step, !.rows = table])

\* Mutant: the cart is read without its lock.
HoldsNothing(h) == FALSE

\* Row locks: the cart's, of an addition past the step that waits for it;
\* an item's, of a transaction that deleted it and has not committed.
HoldsCart(h) ==
  req[h].op = "add" /\ req[h].pc \in {"compare", "commit"} /\ ~ req[h].creates
CartLocked == \E h \in Handlers : HoldsCart(h)
Deletes(h) ==
  IF req[h].op \in {"remove", "settle"} /\ req[h].pc \in {"compare", "commit"}
  THEN Present(req[h].rows) ELSE {}
ItemsLocked(S) == \E h \in Handlers : S \intersect Deletes(h) # {}

(***************************************************************************)
(* The catalogue.                                                         *)
(***************************************************************************)
ChangeCatalogue ==
  /\ sold' \in SUBSET Foods
  /\ UNCHANGED <<rows, due, history, req>>

(***************************************************************************)
(* addItem.                                                               *)
(***************************************************************************)
AddItem(h, f, q, replace) ==
  /\ Free(h) /\ f \in sold
  /\ Continue(h, [Idle EXCEPT !.op = "add", !.pc = "wait",
                   !.food = f, !.qty = q, !.replace = replace])
  /\ UNCHANGED <<sold, rows, due, history>>

\* Mutant: no upper bound.
EnsurePositive(q) == q >= 1

EnsureQuantity(q) == q \in Quantities

\* findCartItemByFoodId
Holding(f) == {i \in Present(items) : items[i].food = f}
Conflicts(h) == cart \in Restaurants /\ cart # Kitchen[req[h].food]

\* The row of the food is found under the lock too: nothing that happens
\* between the two depends on the order.
LockCart(h) ==
  /\ At(h, "add", "wait") /\ ~ CartLocked
  /\ \/ /\ cart = Absent
        /\ Continue(h, [req[h] EXCEPT !.pc = "commit", !.creates = TRUE])
     \/ /\ cart # Absent
        /\ IF Conflicts(h) THEN req[h].replace ELSE Holding(req[h].food) = {}
        /\ Continue(h, [req[h] EXCEPT !.pc = "commit"])
     \/ /\ cart # Absent /\ ~ Conflicts(h)
        /\ \E i \in Holding(req[h].food) :
             /\ EnsureQuantity(items[i].qty + req[h].qty)
             /\ Continue(h, [req[h] EXCEPT !.pc = "compare",
                  !.rows = [NoRows EXCEPT ![i] =
                    [food |-> items[i].food, qty |-> items[i].qty + req[h].qty]]])
  /\ UNCHANGED <<sold, rows, due, history>>

Unnamed(i) ==
  items[i] = NoRow /\ \A h \in Handlers : req[h].rows[i] = NoRow

\* The table after a request's entities are saved.
Saved(h, table) ==
  [i \in Ids |->
     IF i \in req[h].inserts \/ (i \in req[h].updates /\ table[i] # NoRow)
     THEN req[h].rows[i] ELSE table[i]]

\* An insertion of the cart's row fails when another made it meanwhile.
CommitAdd(h) ==
  /\ At(h, "add", "commit")
  /\ req[h].creates => cart = Absent
  /\ ~ ItemsLocked(IF Conflicts(h) THEN Present(items) ELSE req[h].updates)
  /\ IF req[h].rows # NoRows
     THEN items' = Saved(h, items)
     ELSE \E i \in Ids :
            /\ Unnamed(i)
            /\ items' = [IF Conflicts(h) THEN NoRows ELSE items EXCEPT ![i] =
                           [food |-> req[h].food, qty |-> req[h].qty]]
  /\ cart' = Kitchen[req[h].food]
  /\ spent' = FALSE
  /\ stale' = (stale /\ ~ Conflicts(h))
  /\ Finish(h)
  /\ UNCHANGED <<sold, due, resold>>

(***************************************************************************)
(* Requests that save items they read without a lock.                     *)
(***************************************************************************)
UpdateItemQuantity(h, i, q) ==
  /\ Free(h) /\ i \in Present(items) /\ items[i].food \in sold
  /\ Begin(h, "save", "compare",
           [NoRows EXCEPT ![i] = [food |-> items[i].food, qty |-> q]])
  /\ UNCHANGED <<sold, rows, due, history>>

\* The items in changed are those whose price is no longer the food's.
UpdateCartItemPrices(h, changed) ==
  /\ Free(h) /\ changed # {} /\ changed \subseteq Present(items)
  /\ Begin(h, "save", "compare",
           [i \in Ids |-> IF i \in changed THEN items[i] ELSE NoRow])
  /\ UNCHANGED <<sold, rows, due, history>>

\* A cart is shown, by itself or as the answer of the requests above.
GetCurrentCart(h, changed) == cart # Absent /\ UpdateCartItemPrices(h, changed)

\* The preview refreshes the prices whatever keeps the cart from being sold.
PreviewCheckout(h, changed) ==
  Present(items) # {} /\ UpdateCartItemPrices(h, changed)

CompareItems(h) ==
  /\ At(h, "add", "compare") \/ At(h, "save", "compare")
  /\ Continue(h, [req[h] EXCEPT !.pc = "commit",
                   !.inserts = Present(req[h].rows) \ Present(items),
                   !.updates = Present(req[h].rows) \intersect Present(items)])
  /\ UNCHANGED <<sold, rows, due, history>>

CommitItems(h) ==
  /\ At(h, "save", "commit") /\ ~ ItemsLocked(req[h].updates)
  /\ items' = Saved(h, items)
  /\ stale' = (stale \/ req[h].inserts # {})
  /\ Finish(h)
  /\ UNCHANGED <<sold, cart, due, resold, spent>>

(***************************************************************************)
(* removeItem, and emptying the cart of an order that was paid.           *)
(***************************************************************************)
RemoveItem(h, i) ==
  /\ Free(h) /\ i \in Present(items)
  /\ Begin(h, "remove", "wait", [NoRows EXCEPT ![i] = items[i]])
  /\ UNCHANGED <<sold, rows, due, history>>

\* deleteCartItem and countCartItems: the cart's restaurant is reset only
\* when no other row is visible.
DeleteItem(h) ==
  /\ At(h, "remove", "wait") /\ ~ ItemsLocked(Present(req[h].rows))
  /\ IF Present(items) \subseteq Present(req[h].rows)
     THEN /\ Continue(h, [req[h] EXCEPT !.pc = "compare"])
          /\ items' = items
     ELSE /\ items' = [i \in Ids |->
                         IF req[h].rows[i] = NoRow THEN items[i] ELSE NoRow]
          /\ Finish(h)
  /\ UNCHANGED <<sold, cart, due, history>>

\* Each paid order is settled once: its attempt is locked.
Settling == {g \in Handlers : req[g].op = "settle"}

\* completePayment: deleteCartItemsForUser without the cart's lock.
EmptyPaidCart(h) ==
  /\ Free(h) /\ ~ ItemsLocked(Present(items))
  /\ Cardinality(Settling) < due
  /\ Begin(h, "settle", "compare", items)
  /\ UNCHANGED <<sold, rows, due, history>>

CompareCart(h) ==
  /\ At(h, "remove", "compare") \/ At(h, "settle", "compare")
  /\ Continue(h, [req[h] EXCEPT !.pc = "commit", !.resets = cart # None])
  /\ UNCHANGED <<sold, rows, due, history>>

CommitDeletion(h) ==
  /\ At(h, "remove", "commit") \/ At(h, "settle", "commit")
  /\ items' = [i \in Ids |-> IF req[h].rows[i] = NoRow THEN items[i] ELSE NoRow]
  /\ \/ req[h].resets /\ ~ CartLocked /\ cart' = None
     \/ ~ req[h].resets /\ cart' = cart
  /\ stale' = (stale \/ (req[h].resets /\ items' # NoRows))
  /\ due' = IF req[h].op = "settle" THEN due - 1 ELSE due
  /\ Finish(h)
  /\ UNCHANGED <<sold, resold, spent>>

(***************************************************************************)
(* clearCart and the checkouts.                                           *)
(***************************************************************************)
\* Mutant: only the items are deleted.
EmptiedItems ==
  /\ ~ ItemsLocked(Present(items))
  /\ items' = NoRows /\ cart' = cart /\ spent' = TRUE /\ stale' = FALSE

\* deleteAllCartItems and deleteCartItemsForUser, and the reset of the cart.
Emptied ==
  /\ ~ ItemsLocked(Present(items))
  /\ items' = NoRows /\ cart' = None /\ spent' = TRUE /\ stale' = FALSE

ClearCart(h) ==
  /\ Free(h) /\ cart # Absent /\ ~ CartLocked
  /\ Emptied
  /\ UNCHANGED <<sold, due, resold, req>>

\* ensureCartReady and ensureRestaurantReady, of the items as they are when
\* lockCartForUser begins.
CartReady(table) ==
  Present(table) # {} /\ \A i \in Present(table) : table[i].food \in sold

Checkout(h, op) ==
  /\ Free(h) /\ CartReady(items)
  /\ Begin(h, op, "wait", items)
  /\ UNCHANGED <<sold, rows, due, history>>

\* ensureCartRestaurantConsistency, of the cart's row as the lock finds it.
Consistent(h) ==
  /\ cart \in Restaurants
  /\ \A i \in Present(req[h].rows) : Kitchen[req[h].rows[i].food] = cart

PlaceOrder(h) ==
  /\ ~ CartLocked /\ Consistent(h)
  /\ resold' = (resold \/ spent)
  /\ Finish(h)
  /\ \/ /\ At(h, "cash", "wait")
        /\ Emptied
        /\ due' = due
     \/ /\ At(h, "online", "wait") /\ due < MaxDue
        /\ due' = due + 1
        /\ UNCHANGED <<rows, spent, stale>>
  /\ UNCHANGED sold

\* A check refuses the request, the database makes it the victim of a
\* deadlock, or its connection is lost: nothing of it is committed.
RollBack(h) ==
  /\ ~ Free(h)
  /\ Finish(h)
  /\ UNCHANGED <<sold, rows, due, history>>

Request(h) ==
  \/ \E f \in Foods, q \in Quantities, replace \in BOOLEAN :
       AddItem(h, f, q, replace)
  \/ \E i \in Ids, q \in Quantities : UpdateItemQuantity(h, i, q)
  \/ \E changed \in SUBSET Ids :
       GetCurrentCart(h, changed) \/ PreviewCheckout(h, changed)
  \/ \E i \in Ids : RemoveItem(h, i)
  \/ EmptyPaidCart(h)
  \/ ClearCart(h)
  \/ \E op \in {"cash", "online"} : Checkout(h, op)

Step(h) ==
  \/ LockCart(h) \/ CompareItems(h) \/ CommitAdd(h) \/ CommitItems(h)
  \/ DeleteItem(h) \/ CompareCart(h) \/ CommitDeletion(h)
  \/ PlaceOrder(h) \/ RollBack(h)

Next == ChangeCatalogue \/ \E h \in Handlers : Request(h) \/ Step(h)

Spec == Init /\ [][Next]_vars

(***************************************************************************)
(* Properties.                                                            *)
(***************************************************************************)
\* Rows, requests and history keep their shape; a quantity never leaves
\* 1..MaxQuantity, whether it is set, added to or written back by a refresh.
TypeOK ==
  /\ sold \subseteq Foods
  /\ cart \in Restaurants \union {None, Absent}
  /\ items \in [Ids -> Row \union {NoRow}]
  /\ due \in 0..MaxDue
  /\ resold \in BOOLEAN /\ spent \in BOOLEAN /\ stale \in BOOLEAN
  /\ req \in [Handlers -> Requests]

\* Additions, even of two restaurants' foods at once, never mix them in a cart,
\* nor leave food in a cart without a restaurant: the cart's lock keeps what the
\* conflict check found true until the item is saved.  A food of another
\* restaurant than the cart's is there only since an unlocked request reset a
\* cart that was not empty, or saved again an item that had been deleted.
MixedByStaleRequestsOnly ==
  \A i \in Present(items) : Kitchen[items[i].food] # cart => stale

\* A cart that was sold for cash or cleared is not sold again before an item
\* is added: a checkout that waited for the lock still sees the old items.
SpentCartIsNotSold == ~ resold
=============================================================================
