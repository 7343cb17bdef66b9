-------------------------- MODULE Catalogue_proofs --------------------------
(***************************************************************************)
(* Theorems about Catalogue, for any restaurants, categories and foods,   *)
(* any number of concurrent requests and any number of edits.             *)
(*                                                                         *)
(* The requests write rows that they read some time ago, so an invariant  *)
(* of the rows must be one of the entities the requests hold as well.     *)
(* What was shut stays shut because, until an administrator decides       *)
(* otherwise, the row and every entity read from it agree on the status   *)
(* and are shut each: columns taken from several of them cannot add up to *)
(* a row that is not.                                                     *)
(*                                                                         *)
(* A menu keeps what lasted: it was on the menu when either query was     *)
(* taken, and so was the category it has had throughout.                  *)
(***************************************************************************)
EXTENDS Catalogue, TLAPS

\* The categories a food may have.
Own(f) == {None} \union {c \in Categories : Kitchen[c] = Kitchen[f]}

\* What any row, and any entity read from one, is like when V were approved.
Good(V, x, e) ==
  /\ e \in RowsOf(x)
  /\ x \in Restaurants /\ e.status = "APPROVED" => x \in V
  /\ x \in Foods => e.category \in Own(x)

\* How an entity of a row that was shut relates to the row.
Kin(x, e, r) == Shut(x, e) /\ (x \in Restaurants => e.status = r.status)

RowsSound == \A x \in Rows : Good(vetted, x, row[x])

RequestsSound ==
  \A h \in Handlers :
    /\ req[h].pc = "idle" => req[h].row = None
    /\ req[h].pc # "idle" => /\ req[h].row \in Rows \intersect created
                             /\ Good(vetted, req[h].row, req[h].entity)
    /\ req[h].pc = "check" => req[h].row \in Foods

CategoriesSound == \A c \in Categories : shown[c] => c \in created

StillShut ==
  /\ withdrawn \subseteq created
  /\ \A x \in withdrawn, h \in Handlers :
       req[h].row = x => Kin(x, req[h].entity, row[x])

Shapes ==
  /\ created \subseteq Rows \union Categories
  /\ row \in [Rows -> RestaurantRow \union FoodRow]
  /\ shown \in [Categories -> CategoryRow]
  /\ vetted \subseteq Restaurants
  /\ withdrawn \subseteq Rows
  /\ edits \in 0..MaxEdits
  /\ req \in [Handlers -> Requests]

\* What lasts is still on the menu, was there for each query, and only vetted
\* restaurants have menus.
MenuSound(m, items) ==
  /\ \A item \in items : Kitchen[item[1]] = m.of
  /\ "categories" \in m.read => \A item \in items : item[2] = None \/ item[2] \in m.categories
  /\ "foods" \in m.read => items \subseteq m.items

MenusSound ==
  /\ menu \in [Handlers -> MenuRequests]
  /\ lasting \in [Handlers -> SUBSET Items]
  /\ \A h \in Handlers :
       /\ lasting[h] \subseteq OnMenu
       /\ MenuSound(menu[h], lasting[h])
       /\ \A item \in menu[h].items : Kitchen[item[1]] \in vetted

IInv ==
  /\ Shapes
  /\ RowsSound
  /\ RequestsSound
  /\ CategoriesSound
  /\ StillShut
  /\ WithdrawnStaysShut
  /\ MenusSound

-----------------------------------------------------------------------------
(***************************************************************************)
(* Rows and entities.                                                     *)
(***************************************************************************)
LEMMA PendingIsRow == Pending \in RestaurantRow
BY DEF Pending, RestaurantRow, Statuses

LEMMA IdleIsRequest == Idle \in Requests /\ Idle.pc = "idle" /\ Idle.row = None
BY PendingIsRow DEF Idle, Requests

LEMMA RowsApart ==
  ASSUME NEW x \in Rows
  PROVE  /\ x \in Restaurants => x \notin Foods /\ RowsOf(x) = RestaurantRow
         /\ x \in Foods => x \notin Restaurants /\ RowsOf(x) = FoodRow
         /\ RowsOf(x) \subseteq RestaurantRow \union FoodRow
         /\ x # None
BY NamesAssumption DEF Rows, RowsOf

LEMMA ApprovalGrows ==
  ASSUME NEW V, NEW W, V \subseteq W, NEW x, NEW e, Good(V, x, e)
  PROVE  Good(W, x, e)
BY DEF Good

\* A row is written column by column, from the row and an entity.
LEMMA WrittenRestaurant ==
  ASSUME NEW r \in RestaurantRow, NEW e \in RestaurantRow, NEW cols
  PROVE  LET w == Written(r, e, cols) IN
         /\ w \in RestaurantRow
         /\ w.status \in {r.status, e.status}
         /\ w.active = r.active \/ w.active = e.active
         /\ w.open = r.open \/ w.open = e.open
BY DEF Written, RestaurantRow

LEMMA WrittenFood ==
  ASSUME NEW r \in FoodRow, NEW e \in FoodRow, NEW cols
  PROVE  LET w == Written(r, e, cols) IN
         /\ w \in FoodRow
         /\ w.category \in {r.category, e.category}
         /\ w.active = r.active \/ w.active = e.active
         /\ w.available = r.available \/ w.available = e.available
BY DEF Written, FoodRow

LEMMA WrittenIsGood ==
  ASSUME NEW V, NEW x \in Rows, NEW r, NEW e, NEW cols, Good(V, x, r), Good(V, x, e)
  PROVE  Good(V, x, Written(r, e, cols))
<1>1. CASE x \in Restaurants
  BY <1>1, RowsApart, WrittenRestaurant DEF Good
<1>2. CASE x \in Foods
  BY <1>2, RowsApart, WrittenFood DEF Good
<1> QED BY <1>1, <1>2 DEF Rows

LEMMA WrittenIsKin ==
  ASSUME NEW x \in Rows, NEW r \in RowsOf(x), NEW e \in RowsOf(x), NEW cols,
         Shut(x, r), Kin(x, e, r)
  PROVE  Shut(x, Written(r, e, cols)) /\ (x \in Restaurants => Written(r, e, cols).status = r.status)
<1>1. CASE x \in Restaurants
  <2> DEFINE w == Written(r, e, cols)
  <2>1. r \in RestaurantRow /\ e \in RestaurantRow
    BY <1>1, RowsApart
  <2>2. /\ w.status = r.status
        /\ w.active = r.active \/ w.active = e.active
        /\ w.open = r.open \/ w.open = e.open
    BY <1>1, <2>1, WrittenRestaurant DEF Kin
  <2>3. Shut(x, w)
    BY <1>1, <2>1, <2>2 DEF Kin, Shut, RestaurantRow
  <2> QED BY <2>2, <2>3
<1>2. CASE x \in Foods
  <2> DEFINE w == Written(r, e, cols)
  <2>1. r \in FoodRow /\ e \in FoodRow /\ x \notin Restaurants
    BY <1>2, RowsApart
  <2>2. /\ w.active = r.active \/ w.active = e.active
        /\ w.available = r.available \/ w.available = e.available
    BY <2>1, WrittenFood
  <2>3. Shut(x, w)
    BY <2>1, <2>2 DEF Kin, Shut
  <2> QED BY <2>1, <2>3
<1> QED BY <1>1, <1>2 DEF Rows

LEMMA RestaurantColumns ==
  ASSUME NEW e \in RestaurantRow
  PROVE  DOMAIN e = {"status", "active", "open"} /\ e = [c \in DOMAIN e |-> e[c]]
<1>1. DOMAIN e = {"status", "active", "open"}
  BY DEF RestaurantRow
<1>2. e = [c \in DOMAIN e |-> e[c]]
  BY Zenon DEF RestaurantRow
<1> QED BY <1>1, <1>2

LEMMA FoodColumns ==
  ASSUME NEW e \in FoodRow
  PROVE  DOMAIN e = {"category", "active", "available"} /\ e = [c \in DOMAIN e |-> e[c]]
<1>1. DOMAIN e = {"category", "active", "available"}
  BY DEF FoodRow
<1>2. e = [c \in DOMAIN e |-> e[c]]
  BY Zenon DEF FoodRow
<1> QED BY <1>1, <1>2

LEMMA ChangedColumns ==
  ASSUME NEW x \in Rows, NEW e \in RowsOf(x), NEW r
  PROVE  Changed(e, r) \in SUBSET Columns
<1>1. DOMAIN e \subseteq Columns
  <2>1. CASE x \in Restaurants
    BY <2>1, RowsApart, RestaurantColumns DEF Columns
  <2>2. CASE x \in Foods
    BY <2>2, RowsApart, FoodColumns DEF Columns
  <2> QED BY <2>1, <2>2 DEF Rows
<1> QED BY <1>1 DEF Changed

-----------------------------------------------------------------------------
(***************************************************************************)
(* Menus.                                                                 *)
(***************************************************************************)
LEMMA OnMenuItems ==
  ASSUME IInv
  PROVE  /\ \A r \in Restaurants : MenuItems(r) \subseteq OnMenu
         /\ OnMenu \subseteq Items
         /\ \A r \in Restaurants : \A item \in MenuItems(r) :
              Kitchen[item[1]] = r /\ r \in vetted
         /\ \A item \in OnMenu :
              /\ item \in MenuItems(Kitchen[item[1]])
              /\ item[2] = None \/ item[2] \in PublicCategories(Kitchen[item[1]])
<1>1. ASSUME NEW r \in Restaurants, NEW item \in MenuItems(r)
      PROVE  /\ item \in Items /\ Kitchen[item[1]] = r /\ r \in vetted
             /\ item[2] = None \/ item[2] \in PublicCategories(r)
  <2>1. PICK f \in MenuFoods(r) : item = <<f, row[f].category>>
    BY <1>1 DEF MenuItems
  <2>2. f \in Foods /\ f \in Rows /\ Kitchen[f] = r /\ Public(r) /\ r \in Rows
    BY DEF MenuFoods, OfRestaurant, ActiveFoods, Rows
  <2>3. row[f].category \in Own(f)
    BY <2>2 DEF IInv, RowsSound, Good
  <2>4. r \in vetted
    BY <2>2 DEF IInv, RowsSound, Good, Public
  <2>5. row[f].category # None => shown[row[f].category]
    BY DEF MenuFoods
  <2>6. row[f].category = None \/ row[f].category \in PublicCategories(r)
    BY <2>2, <2>3, <2>5 DEF Own, PublicCategories, CategoriesOf, IInv, CategoriesSound
  <2> QED BY <2>1, <2>2, <2>3, <2>4, <2>6 DEF Items, Own
<1>2. ASSUME NEW item \in OnMenu PROVE \E r \in Restaurants : item \in MenuItems(r)
  BY <1>2 DEF OnMenu
<1> QED BY <1>1, <1>2 DEF OnMenu

\* A step that writes no row and leaves the menus alone.
LEMMA MenusKept ==
  ASSUME IInv, UNCHANGED <<created, row, shown, menu, lasting>>, vetted \subseteq vetted'
  PROVE  MenusSound'
<1>1. OnMenu' = OnMenu
  BY DEF OnMenu, MenuItems, MenuFoods, OfRestaurant, ActiveFoods, Public
<1> QED BY <1>1 DEF IInv, MenusSound

\* A step that writes a row.
LEMMA MenusRemembered ==
  ASSUME IInv, Remember, vetted' = vetted
  PROVE  MenusSound'
<1>1. /\ menu' = menu /\ lasting' \in [Handlers -> SUBSET Items]
      /\ \A h \in Handlers : lasting'[h] = lasting[h] \intersect OnMenu'
  BY DEF Remember, IInv, MenusSound
<1>2. \A h \in Handlers : MenuSound(menu[h], lasting'[h])
  BY <1>1 DEF MenuSound, IInv, MenusSound
<1> QED BY <1>1, <1>2 DEF IInv, MenusSound, MenuSound

-----------------------------------------------------------------------------
(***************************************************************************)
(* Steps of a request.                                                    *)
(***************************************************************************)
\* What a request may become.
LEMMA Compares ==
  ASSUME NEW r \in Requests, NEW C \in SUBSET Columns
  PROVE  LET n == [r EXCEPT !.pc = "save", !.cols = C] IN
         /\ n \in Requests
         /\ n.pc = "save" /\ n.row = r.row /\ n.entity = r.entity /\ n.cols = C
BY DEF Requests

LEMMA Continues ==
  ASSUME req \in [Handlers -> Requests], NEW h \in Handlers,
         NEW r \in Requests, Continue(h, r)
  PROVE  /\ req' \in [Handlers -> Requests]
         /\ req'[h] = r
         /\ \A g \in Handlers : g # h => req'[g] = req[g]
BY DEF Continue

\* Beginning a request.
LEMMA BeginKeeps ==
  ASSUME IInv, NEW h \in Handlers, NEW x \in Rows, NEW step \in {"check", "compare"},
         NEW e \in RowsOf(x), Begin(h, x, step, e), step = "check" => x \in Foods,
         vetted \subseteq vetted', vetted' \subseteq Restaurants,
         withdrawn' \subseteq withdrawn,
         Good(vetted', x, e), x \in withdrawn' => Kin(x, e, row[x])
  PROVE  IInv'
<1> DEFINE n == [Idle EXCEPT !.pc = step, !.row = x, !.entity = e]
<1>1. n \in Requests /\ n.pc = step /\ n.row = x /\ n.entity = e
  <2>1. e \in RestaurantRow \union FoodRow
    BY RowsApart
  <2> QED BY <2>1, IdleIsRequest DEF Requests
<1> HIDE DEF n
<1>2. /\ req' \in [Handlers -> Requests]
      /\ req'[h] = n
      /\ \A g \in Handlers : g # h => req'[g] = req[g]
  <2>1. Continue(h, n)
    BY DEF Begin, n
  <2> QED BY <1>1, <2>1, Continues DEF IInv, Shapes
<1>3. /\ x \in created /\ created' = created /\ row' = row /\ shown' = shown
      /\ edits' \in 0..MaxEdits /\ req[h].pc = "idle" /\ x # None
      /\ UNCHANGED <<menu, lasting>>
  BY EditsAssumption, RowsApart DEF Begin, Free, rows, menus, IInv, Shapes
<1>5. Shapes'
  BY <1>2, <1>3 DEF IInv, Shapes
<1>6. RowsSound'
  BY <1>3, ApprovalGrows DEF IInv, RowsSound
<1>7. RequestsSound'
  BY <1>1, <1>2, <1>3, ApprovalGrows DEF IInv, RequestsSound
<1>8. MenusSound'
  BY <1>3, MenusKept
<1>9. CategoriesSound'
  BY <1>3 DEF IInv, CategoriesSound
<1>10. StillShut' /\ WithdrawnStaysShut'
  BY <1>1, <1>2, <1>3 DEF IInv, StillShut, WithdrawnStaysShut
<1> QED BY <1>5, <1>6, <1>7, <1>8, <1>9, <1>10 DEF IInv

\* Changing the entity of a food.
LEMMA ChangeKeeps ==
  ASSUME IInv, NEW h \in Handlers, req[h].pc = "check",
         NEW e \in FoodRow, Change(h, e),
         Good(vetted, req[h].row, e),
         Shut(req[h].row, req[h].entity) => Shut(req[h].row, e)
  PROVE  IInv'
<1> DEFINE n == [req[h] EXCEPT !.pc = "compare", !.entity = e]
           x == req[h].row
<1>1. req[h] \in Requests
  BY DEF IInv, Shapes
<1>2. n \in Requests /\ n.pc = "compare" /\ n.row = x /\ n.entity = e
  BY <1>1 DEF Requests
<1> HIDE DEF n
<1>3. /\ req' \in [Handlers -> Requests]
      /\ req'[h] = n
      /\ \A g \in Handlers : g # h => req'[g] = req[g]
  <2>1. Continue(h, n)
    BY DEF Change, n
  <2> QED BY <1>2, <2>1, Continues DEF IInv, Shapes
<1>4. UNCHANGED <<created, row, shown, vetted, withdrawn, edits, menu, lasting>>
  BY DEF Change, rows, history, menus
<1>5. x \in Foods /\ x \notin Restaurants
  BY RowsApart DEF IInv, RequestsSound, Rows
<1>6. Shapes'
  BY <1>3, <1>4 DEF IInv, Shapes
<1>7. RowsSound'
  BY <1>4 DEF IInv, RowsSound
<1>8. RequestsSound'
  BY <1>2, <1>3, <1>4 DEF IInv, RequestsSound
<1>9. MenusSound'
  BY <1>4, MenusKept
<1>10. CategoriesSound'
  BY <1>4 DEF IInv, CategoriesSound
<1>11. StillShut' /\ WithdrawnStaysShut'
  BY <1>2, <1>3, <1>4, <1>5 DEF IInv, StillShut, WithdrawnStaysShut, Kin
<1> QED BY <1>6, <1>7, <1>8, <1>9, <1>10, <1>11 DEF IInv

\* Comparing the entity with the row.
LEMMA CompareKeeps ==
  ASSUME IInv, NEW h \in Handlers, Compare(h)
  PROVE  IInv'
<1> DEFINE x == req[h].row
           C == Changed(req[h].entity, row[x])
           n == [req[h] EXCEPT !.pc = "save", !.cols = C]
<1>1. req[h] \in Requests /\ x \in Rows /\ req[h].entity \in RowsOf(x)
  BY DEF Compare, IInv, Shapes, RequestsSound, Good
<1>2. C \in SUBSET Columns
  BY <1>1, ChangedColumns
<1> HIDE DEF C
<1>3. /\ n \in Requests /\ n.pc = "save" /\ n.row = x
      /\ n.entity = req[h].entity /\ n.cols = C
  BY <1>1, <1>2, Compares
<1> HIDE DEF n
<1>4. /\ req' \in [Handlers -> Requests]
      /\ req'[h] = n
      /\ \A g \in Handlers : g # h => req'[g] = req[g]
  <2>1. Continue(h, n)
    BY DEF Compare, n, C
  <2> QED BY <1>3, <2>1, Continues DEF IInv, Shapes
<1>5. UNCHANGED <<created, row, shown, vetted, withdrawn, edits, menu, lasting>>
      /\ req[h].pc = "compare"
  BY DEF Compare, rows, history, menus
<1>6. Shapes'
  BY <1>4, <1>5 DEF IInv, Shapes
<1>7. RowsSound'
  BY <1>5 DEF IInv, RowsSound
<1>8. RequestsSound'
  BY <1>3, <1>4, <1>5 DEF IInv, RequestsSound
<1>9. MenusSound'
  BY <1>5, MenusKept
<1>10. CategoriesSound'
  BY <1>5 DEF IInv, CategoriesSound
<1>11. StillShut' /\ WithdrawnStaysShut'
  BY <1>3, <1>4, <1>5 DEF IInv, StillShut, WithdrawnStaysShut
<1> QED BY <1>6, <1>7, <1>8, <1>9, <1>10, <1>11 DEF IInv

\* Ending a request without a change.
LEMMA FailKeeps ==
  ASSUME IInv, NEW h \in Handlers, Fail(h)
  PROVE  IInv'
<1>1. /\ req' \in [Handlers -> Requests]
      /\ req'[h] = Idle
      /\ \A g \in Handlers : g # h => req'[g] = req[g]
  BY IdleIsRequest, Continues DEF Fail, IInv, Shapes
<1>2. UNCHANGED <<created, row, shown, vetted, withdrawn, edits, menu, lasting>>
  BY DEF Fail, rows, history, menus
<1>3. Shapes'
  BY <1>1, <1>2 DEF IInv, Shapes
<1>4. RowsSound'
  BY <1>2 DEF IInv, RowsSound
<1>5. RequestsSound'
  BY <1>1, <1>2, IdleIsRequest DEF IInv, RequestsSound
<1>6. MenusSound'
  BY <1>2, MenusKept
<1>7. CategoriesSound'
  BY <1>2 DEF IInv, CategoriesSound
<1>8. StillShut' /\ WithdrawnStaysShut'
  <2>1. \A y \in withdrawn : y # None
    BY NamesAssumption DEF IInv, Shapes, Rows
  <2> QED BY <1>1, <1>2, <2>1, IdleIsRequest DEF IInv, StillShut, WithdrawnStaysShut
<1> QED BY <1>3, <1>4, <1>5, <1>6, <1>7, <1>8 DEF IInv

\* Saving an entity.
LEMMA SaveKeeps ==
  ASSUME IInv, NEW h \in Handlers, Save(h)
  PROVE  IInv'
<1> DEFINE x == req[h].row
           e == req[h].entity
           w == Written(row[x], e, req[h].cols)
<1> HIDE DEF w
<1>1. /\ x \in Rows /\ x \in created /\ Good(vetted, x, e) /\ Good(vetted, x, row[x])
      /\ e \in RowsOf(x) /\ row[x] \in RowsOf(x) /\ x # None
  BY RowsApart DEF Save, IInv, RequestsSound, RowsSound, Good
<1>2. Good(vetted, x, w) /\ w \in RestaurantRow \union FoodRow
  BY <1>1, WrittenIsGood, RowsApart DEF Good, w
<1>3. x \in withdrawn => Shut(x, w) /\ (x \in Restaurants => w.status = row[x].status)
  BY <1>1, WrittenIsKin DEF w, IInv, StillShut, WithdrawnStaysShut
<1>4. Others(h, x) = {} => \A g \in Handlers : g # h => req[g].row # x
  BY DEF Others
<1>5. /\ row' = [row EXCEPT ![x] = w]
      /\ withdrawn' = IF Shut(x, row'[x]) /\ Others(h, x) = {} THEN withdrawn \union {x} ELSE withdrawn
      /\ Remember
      /\ UNCHANGED <<created, shown, vetted, edits>>
  BY DEF Save, w
<1>6. row' \in [Rows -> RestaurantRow \union FoodRow] /\ row'[x] = w
      /\ \A y \in Rows : y # x => row'[y] = row[y]
  BY <1>1, <1>2, <1>5 DEF IInv, Shapes
<1>7. /\ req' \in [Handlers -> Requests]
      /\ req'[h] = Idle
      /\ \A g \in Handlers : g # h => req'[g] = req[g]
  BY IdleIsRequest, Continues DEF Save, IInv, Shapes
<1>8. Shapes'
  BY <1>1, <1>5, <1>6, <1>7 DEF IInv, Shapes
<1>9. RowsSound'
  BY <1>2, <1>5, <1>6 DEF IInv, RowsSound
<1>10. RequestsSound'
  BY <1>5, <1>7, IdleIsRequest DEF IInv, RequestsSound
<1>11. MenusSound'
  BY <1>5, MenusRemembered
<1>12. CategoriesSound'
  BY <1>5 DEF IInv, CategoriesSound
<1>13. WithdrawnStaysShut'
  <2>1. ASSUME NEW y \in withdrawn' PROVE Shut(y, row'[y])
    <3>1. CASE y = x
      <4>1. CASE y \in withdrawn
        <5>1. Shut(x, w)
          BY <1>3, <3>1, <4>1, Zenon
        <5>2. Shut(x, row'[x])
          BY <1>6, <5>1, Zenon
        <5> QED BY <3>1, <5>2, Zenon
      <4>2. CASE y \notin withdrawn
        BY <1>5, <2>1, <3>1, <4>2, Zenon
      <4> QED BY <4>1, <4>2
    <3>2. CASE y # x
      BY <1>5, <1>6, <2>1, <3>2 DEF IInv, WithdrawnStaysShut, Shapes
    <3> QED BY <3>1, <3>2
  <2> QED BY <2>1 DEF WithdrawnStaysShut
<1>14. StillShut'
  <2>1. withdrawn' \subseteq created'
    BY <1>1, <1>5 DEF IInv, StillShut
  <2>2. ASSUME NEW y \in withdrawn', NEW g \in Handlers, req'[g].row = y
        PROVE  Kin(y, req'[g].entity, row'[y])
    <3>1. y \in Rows /\ y # None /\ g # h
      BY <1>7, <1>8, <2>2, IdleIsRequest, RowsApart DEF Shapes
    <3>2. req[g].row = y /\ req'[g].entity = req[g].entity
      BY <1>7, <2>2, <3>1
    <3>3. y \in withdrawn
      BY <1>4, <1>5, <3>1, <3>2
    <3>4. Kin(y, req[g].entity, row[y])
      BY <3>2, <3>3 DEF IInv, StillShut
    <3>5. CASE y = x
      <4>1. Shut(y, req[g].entity) /\ (y \in Restaurants => req[g].entity.status = row[y].status)
        BY <3>4 DEF Kin
      <4>2. y \in Restaurants => row'[y].status = row[y].status
        <5>1. x \in Restaurants => w.status = row[x].status
          BY <1>3, <3>3, <3>5, Zenon
        <5>2. x \in Restaurants => row'[x].status = row[x].status
          BY <1>6, <5>1, Zenon
        <5> QED BY <3>5, <5>2, Zenon
      <4> QED BY <3>2, <4>1, <4>2 DEF Kin
    <3>6. CASE y # x
      BY <1>6, <3>1, <3>2, <3>4, <3>6
    <3> QED BY <3>5, <3>6
  <2> QED BY <2>1, <2>2 DEF StillShut
<1> QED BY <1>8, <1>9, <1>10, <1>11, <1>12, <1>13, <1>14 DEF IInv

-----------------------------------------------------------------------------
(***************************************************************************)
(* The operations.                                                        *)
(***************************************************************************)
\* A row that is inserted was nobody's.
LEMMA InsertKeeps ==
  ASSUME IInv, NEW x \in Rows, NEW e \in RowsOf(x), Good(vetted, x, e),
         x \notin created, created' = created \union {x}, row' = [row EXCEPT ![x] = e],
         UNCHANGED <<shown, history, edits, req>>, Remember
  PROVE  IInv'
<1>1. UNCHANGED <<shown, vetted, withdrawn, edits, req>>
  BY DEF history
<1>2. e \in RestaurantRow \union FoodRow
  BY RowsApart
<1>3. /\ row' \in [Rows -> RestaurantRow \union FoodRow] /\ row'[x] = e
      /\ \A y \in Rows : y # x => row'[y] = row[y]
  BY <1>2 DEF IInv, Shapes
<1>4. x \notin withdrawn /\ \A h \in Handlers : req[h].row # x
  BY RowsApart DEF IInv, StillShut, RequestsSound
<1>5. Shapes'
  BY <1>1, <1>3 DEF IInv, Shapes
<1>6. RowsSound'
  BY <1>1, <1>3 DEF IInv, RowsSound
<1>7. RequestsSound'
  BY <1>1 DEF IInv, RequestsSound
<1>8. MenusSound'
  BY <1>1, MenusRemembered
<1>9. CategoriesSound'
  BY <1>1 DEF IInv, CategoriesSound
<1>10. StillShut' /\ WithdrawnStaysShut'
  <2>1. \A y \in withdrawn : row'[y] = row[y]
    BY <1>3, <1>4 DEF IInv, Shapes
  <2> QED BY <1>1, <2>1 DEF IInv, StillShut, WithdrawnStaysShut
<1> QED BY <1>5, <1>6, <1>7, <1>8, <1>9, <1>10 DEF IInv

LEMMA RestaurantKeeps ==
  ASSUME IInv, NEW h \in Handlers, NEW r \in Restaurants,
         \/ UpdateOwnedRestaurant(h, r)
         \/ DeactivateOwnedRestaurant(h, r)
         \/ \E isOpen \in BOOLEAN : SetOpenStatus(h, r, isOpen)
         \/ ApproveRestaurant(h, r)
         \/ RejectRestaurant(h, r)
         \/ SuspendRestaurant(h, r)
  PROVE  IInv'
<1> DEFINE e == row[r]
<1>1. r \in Rows /\ r \notin Foods /\ RowsOf(r) = RestaurantRow
  BY RowsApart DEF Rows
<1>2. /\ e \in RestaurantRow
      /\ e.status \in Statuses /\ e.active \in BOOLEAN /\ e.open \in BOOLEAN
      /\ e.status = "APPROVED" => r \in vetted
  <2>1. Good(vetted, r, e)
    BY <1>1 DEF IInv, RowsSound
  <2>2. e \in RestaurantRow /\ (e.status = "APPROVED" => r \in vetted)
    BY <1>1, <2>1 DEF Good
  <2> QED BY <2>2 DEF RestaurantRow
<1>3. r \in withdrawn => Shut(r, e)
  BY DEF IInv, WithdrawnStaysShut
<1>4. vetted \subseteq Restaurants
  BY DEF IInv, Shapes
<1>5. CASE UpdateOwnedRestaurant(h, r)
  <2>1. Begin(h, r, "compare", e) /\ vetted' = vetted /\ withdrawn' = withdrawn
    BY <1>5 DEF UpdateOwnedRestaurant, history
  <2>2. Good(vetted', r, e)
    BY <1>1, <1>2, <2>1 DEF Good
  <2>3. r \in withdrawn' => Kin(r, e, row[r])
    BY <1>3, <2>1 DEF Kin
  <2> QED BY <1>1, <1>2, <1>4, <2>1, <2>2, <2>3, BeginKeeps
<1>6. CASE DeactivateOwnedRestaurant(h, r)
  <2> DEFINE n == [e EXCEPT !.active = FALSE, !.open = FALSE]
  <2>1. Begin(h, r, "compare", n) /\ vetted' = vetted /\ withdrawn' = withdrawn
    BY <1>6 DEF DeactivateOwnedRestaurant, history
  <2>2. n \in RestaurantRow /\ n.status = e.status /\ ~ n.active /\ ~ n.open
    BY <1>2 DEF RestaurantRow
  <2> HIDE DEF n
  <2>3. Good(vetted', r, n)
    BY <1>1, <1>2, <2>1, <2>2 DEF Good
  <2>4. Kin(r, n, row[r])
    BY <2>2 DEF Kin, Shut
  <2> QED BY <1>1, <1>4, <2>1, <2>2, <2>3, <2>4, BeginKeeps
<1>7. ASSUME NEW isOpen \in BOOLEAN, SetOpenStatus(h, r, isOpen)
      PROVE  IInv'
  <2> DEFINE n == [e EXCEPT !.open = isOpen]
  <2>1. /\ Begin(h, r, "compare", n) /\ vetted' = vetted /\ withdrawn' = withdrawn
        /\ isOpen => e.active /\ e.status # "SUSPENDED"
    BY <1>7 DEF SetOpenStatus, history
  <2>2. n \in RestaurantRow /\ n.status = e.status /\ n.active = e.active /\ n.open = isOpen
    BY <1>2 DEF RestaurantRow
  <2> HIDE DEF n
  <2>3. Good(vetted', r, n)
    BY <1>1, <1>2, <2>1, <2>2 DEF Good
  <2>4. r \in withdrawn' => Kin(r, n, row[r])
    BY <1>3, <2>1, <2>2 DEF Kin, Shut
  <2> QED BY <1>1, <1>4, <2>1, <2>2, <2>3, <2>4, BeginKeeps
<1>8. ASSUME NEW status \in Statuses, NEW isActive \in BOOLEAN, SetStatus(h, r, status, isActive),
             vetted \subseteq vetted', vetted' \subseteq Restaurants,
             status = "APPROVED" => r \in vetted'
      PROVE  IInv'
  <2> DEFINE n == [status |-> status, active |-> isActive, open |-> e.open /\ isActive]
  <2>1. Begin(h, r, "compare", n) /\ withdrawn' = withdrawn \ {r}
    BY <1>8 DEF SetStatus
  <2>2. n \in RestaurantRow /\ n.status = status
    BY <1>2 DEF RestaurantRow
  <2> HIDE DEF n
  <2>3. Good(vetted', r, n)
    BY <1>1, <1>8, <2>2 DEF Good
  <2> QED BY <1>1, <1>8, <2>1, <2>2, <2>3, BeginKeeps
<1>9. CASE ApproveRestaurant(h, r)
  BY <1>4, <1>8, <1>9 DEF ApproveRestaurant, Statuses
<1>10. CASE RejectRestaurant(h, r)
  BY <1>4, <1>8, <1>10 DEF RejectRestaurant, Statuses
<1>11. CASE SuspendRestaurant(h, r)
  <2> DEFINE n == [e EXCEPT !.status = "SUSPENDED", !.open = FALSE]
  <2>1. Begin(h, r, "compare", n) /\ vetted' = vetted /\ withdrawn' = withdrawn \ {r}
    BY <1>11 DEF SuspendRestaurant
  <2>2. n \in RestaurantRow /\ n.status = "SUSPENDED"
    BY <1>2 DEF RestaurantRow, Statuses
  <2> HIDE DEF n
  <2>3. Good(vetted', r, n)
    BY <1>1, <2>2 DEF Good
  <2> QED BY <1>1, <1>4, <2>1, <2>2, <2>3, BeginKeeps
<1> QED BY <1>5, <1>6, <1>7, <1>9, <1>10, <1>11

LEMMA ValidIsOwn ==
  ASSUME NEW f \in Foods
  PROVE  ValidCategories(Kitchen[f]) \subseteq Own(f)
BY DEF ValidCategories, CategoriesOf, Own

LEMMA FoodKeeps ==
  ASSUME IInv, NEW h \in Handlers,
         \/ \E f \in Foods : FindFood(h, f)
         \/ \E c \in Categories \union {None} : UpdateOwnedFood(h, c)
         \/ \E isAvailable \in BOOLEAN : UpdateAvailability(h, isAvailable)
         \/ DeactivateOwnedFood(h)
  PROVE  IInv'
<1>1. ASSUME NEW f \in Foods, FindFood(h, f)
      PROVE  IInv'
  <2>1. Begin(h, f, "check", row[f]) /\ vetted' = vetted /\ withdrawn' = withdrawn
    BY <1>1 DEF FindFood, history
  <2>2. f \in Rows /\ f \notin Restaurants /\ Good(vetted, f, row[f]) /\ row[f] \in RowsOf(f)
    BY RowsApart DEF Rows, IInv, RowsSound, Good
  <2>3. f \in withdrawn => Kin(f, row[f], row[f])
    BY <2>2 DEF IInv, WithdrawnStaysShut, Kin
  <2>4. vetted \subseteq Restaurants
    BY DEF IInv, Shapes
  <2> QED BY <2>1, <2>2, <2>3, <2>4, BeginKeeps
<1>2. ASSUME req[h].pc = "check"
      PROVE  /\ req[h].row \in Foods /\ req[h].row \in Rows /\ req[h].row \notin Restaurants
             /\ RowsOf(req[h].row) = FoodRow
             /\ req[h].entity \in FoodRow /\ req[h].entity.category \in Own(req[h].row)
  BY <1>2, RowsApart DEF IInv, RequestsSound, Good, Rows
<1>3. ASSUME NEW n \in FoodRow, req[h].pc = "check", Change(h, n), n.category \in Own(req[h].row),
             ~ req[h].entity.active /\ ~ req[h].entity.available => ~ n.active /\ ~ n.available
      PROVE  IInv'
  <2>1. Good(vetted, req[h].row, n)
    BY <1>2, <1>3 DEF Good
  <2>2. Shut(req[h].row, req[h].entity) => Shut(req[h].row, n)
    BY <1>2, <1>3 DEF Shut
  <2> QED BY <1>3, <2>1, <2>2, ChangeKeeps
<1>4. ASSUME NEW c \in Categories \union {None}, UpdateOwnedFood(h, c)
      PROVE  IInv'
  <2> DEFINE n == [req[h].entity EXCEPT !.category = c]
  <2>1. req[h].pc = "check" /\ Change(h, n)
    BY <1>4 DEF UpdateOwnedFood
  <2>2. c \in Own(req[h].row)
    BY <1>2, <1>4, <2>1, ValidIsOwn DEF UpdateOwnedFood
  <2>3. /\ n \in FoodRow /\ n.category = c
        /\ n.active = req[h].entity.active /\ n.available = req[h].entity.available
    BY <1>2, <2>1 DEF FoodRow
  <2> HIDE DEF n
  <2> QED BY <1>3, <2>1, <2>2, <2>3
<1>5. ASSUME NEW isAvailable \in BOOLEAN, UpdateAvailability(h, isAvailable)
      PROVE  IInv'
  <2> DEFINE n == [req[h].entity EXCEPT !.available = isAvailable]
  <2>1. req[h].pc = "check" /\ Change(h, n) /\ (isAvailable => req[h].entity.active)
    BY <1>5 DEF UpdateAvailability
  <2>2. /\ n \in FoodRow /\ n.category = req[h].entity.category
        /\ n.active = req[h].entity.active /\ n.available = isAvailable
    BY <1>2, <2>1 DEF FoodRow
  <2> HIDE DEF n
  <2> QED BY <1>2, <1>3, <2>1, <2>2
<1>6. CASE DeactivateOwnedFood(h)
  <2> DEFINE n == [req[h].entity EXCEPT !.active = FALSE, !.available = FALSE]
  <2>1. req[h].pc = "check" /\ Change(h, n)
    BY <1>6 DEF DeactivateOwnedFood
  <2>2. /\ n \in FoodRow /\ n.category = req[h].entity.category
        /\ ~ n.active /\ ~ n.available
    BY <1>2, <2>1 DEF FoodRow
  <2> HIDE DEF n
  <2> QED BY <1>2, <1>3, <2>1, <2>2
<1> QED BY <1>1, <1>4, <1>5, <1>6

LEMMA CategoryKeeps ==
  ASSUME IInv,
         \/ \E r \in Restaurants : ReorderCategories(r)
         \/ \E c \in Categories :
              \/ CreateCategory(c)
              \/ \E isActive \in BOOLEAN : UpdateCategory(c, isActive)
              \/ DeactivateCategory(c)
  PROVE  IInv'
<1>1. ASSUME created \subseteq created', created' \subseteq created \union Categories, CategoriesSound',
             shown' \in [Categories -> CategoryRow], Remember,
             UNCHANGED <<row, history, edits, req>>
      PROVE  IInv'
  <2>1. UNCHANGED <<row, vetted, withdrawn, edits, req>>
    BY <1>1 DEF history
  <2>2. Shapes' /\ StillShut' /\ WithdrawnStaysShut'
    BY <1>1, <2>1 DEF IInv, Shapes, StillShut, WithdrawnStaysShut
  <2>3. RowsSound' /\ RequestsSound'
    BY <1>1, <2>1 DEF IInv, RowsSound, RequestsSound
  <2>4. MenusSound'
    BY <1>1, <2>1, MenusRemembered
  <2> QED BY <1>1, <2>2, <2>3, <2>4 DEF IInv
<1>2. ASSUME NEW r \in Restaurants, ReorderCategories(r)
      PROVE  IInv'
  <2>1. PICK S \in SUBSET CategoriesOf(r) : \E was \in [S -> BOOLEAN] :
          shown' = [c \in Categories |-> IF c \in S THEN was[c] ELSE shown[c]]
    BY <1>2 DEF ReorderCategories
  <2>2. created' = created /\ Remember /\ UNCHANGED <<row, history, edits, req>>
    BY <1>2 DEF ReorderCategories
  <2>3. shown' \in [Categories -> CategoryRow] /\ CategoriesSound'
    BY <2>1, <2>2 DEF CategoriesOf, CategoriesSound, IInv, Shapes, CategoryRow
  <2> QED BY <1>1, <2>2, <2>3
<1>3. ASSUME NEW c \in Categories, CreateCategory(c)
      PROVE  IInv'
  <2>1. /\ created' = created \union {c} /\ Remember /\ UNCHANGED <<row, history, edits, req>>
        /\ shown' \in [Categories -> CategoryRow] /\ CategoriesSound'
    BY <1>3 DEF CreateCategory, CategoriesSound, IInv, Shapes, CategoryRow
  <2> QED BY <1>1, <2>1
<1>4. ASSUME NEW c \in Categories, NEW isActive \in BOOLEAN, UpdateCategory(c, isActive)
      PROVE  IInv'
  <2>1. /\ created' = created /\ Remember /\ UNCHANGED <<row, history, edits, req>>
        /\ shown' \in [Categories -> CategoryRow] /\ CategoriesSound'
    BY <1>4 DEF UpdateCategory, CategoriesSound, IInv, Shapes, CategoryRow
  <2> QED BY <1>1, <2>1
<1> QED BY <1>2, <1>3, <1>4 DEF DeactivateCategory

\* Asking for a menu, its two queries and its answer.
LEMMA MenuKeeps ==
  ASSUME IInv, NEW h \in Handlers, AnswerMenu(h)
  PROVE  IInv'
<1> DEFINE r == menu[h].of
<1>1. UNCHANGED <<created, row, shown, vetted, withdrawn, req>>
  BY DEF AnswerMenu, FindRestaurantMenu, ReadCategories, ReadFoods, Read, EndMenu, rows, history
<1>2. edits' \in 0..MaxEdits
  BY EditsAssumption
  DEF AnswerMenu, FindRestaurantMenu, ReadCategories, ReadFoods, Read, EndMenu, IInv, Shapes
<1>3. Shapes' /\ RowsSound' /\ RequestsSound' /\ CategoriesSound' /\ StillShut' /\ WithdrawnStaysShut'
  BY <1>1, <1>2
  DEF IInv, Shapes, RowsSound, RequestsSound, CategoriesSound, StillShut, WithdrawnStaysShut
<1>4. OnMenu' = OnMenu
  BY <1>1 DEF OnMenu, MenuItems, MenuFoods, OfRestaurant, ActiveFoods, Public
<1>5. ASSUME NEW m \in MenuRequests, NEW items \in SUBSET Items,
             menu' = [menu EXCEPT ![h] = m], lasting' = [lasting EXCEPT ![h] = items],
             items \subseteq OnMenu, MenuSound(m, items),
             \A item \in m.items : Kitchen[item[1]] \in vetted
      PROVE  MenusSound'
  <2>1. /\ menu' \in [Handlers -> MenuRequests] /\ menu'[h] = m
        /\ lasting' \in [Handlers -> SUBSET Items] /\ lasting'[h] = items
        /\ \A g \in Handlers : g # h => menu'[g] = menu[g] /\ lasting'[g] = lasting[g]
    BY <1>5 DEF IInv, MenusSound
  <2>2. ASSUME NEW g \in Handlers
        PROVE  /\ lasting'[g] \subseteq OnMenu
               /\ MenuSound(menu'[g], lasting'[g])
               /\ \A item \in menu'[g].items : Kitchen[item[1]] \in vetted
    BY <1>5, <2>1 DEF IInv, MenusSound
  <2>3. ASSUME NEW g \in Handlers PROVE MenuSound(menu[g], lasting[g])'
    BY <2>2 DEF MenuSound
  <2> QED BY <1>1, <1>4, <2>1, <2>2, <2>3 DEF MenusSound
<1>6. ASSUME NEW x \in Restaurants, FindRestaurantMenu(h, x)
      PROVE  MenusSound'
  <2> DEFINE m == [NoMenu EXCEPT !.of = x]
  <2>1. m \in MenuRequests /\ m.of = x /\ m.read = {} /\ m.items = {}
    BY DEF NoMenu, MenuRequests
  <2>2. menu' = [menu EXCEPT ![h] = m] /\ lasting' = [lasting EXCEPT ![h] = MenuItems(x)]
    BY <1>6 DEF FindRestaurantMenu
  <2> HIDE DEF m
  <2>3. /\ MenuItems(x) \subseteq OnMenu /\ MenuItems(x) \in SUBSET Items
        /\ \A item \in MenuItems(x) : Kitchen[item[1]] = x
    BY OnMenuItems
  <2>4. MenuSound(m, MenuItems(x))
    BY <2>1, <2>3 DEF MenuSound
  <2> QED BY <1>5, <2>1, <2>2, <2>3, <2>4
<1>7. /\ menu[h] \in MenuRequests /\ lasting[h] \in SUBSET Items /\ lasting[h] \subseteq OnMenu
      /\ MenuSound(menu[h], lasting[h])
      /\ \A item \in menu[h].items : Kitchen[item[1]] \in vetted
      /\ lasting = [lasting EXCEPT ![h] = lasting[h]]
  BY DEF IInv, MenusSound
<1>8. ASSUME NEW query \in {"categories", "foods"}, NEW categories \in SUBSET Categories,
             NEW items \in SUBSET Items, Read(h, query, categories, items),
             query = "categories" => /\ items = menu[h].items
                                     /\ \A item \in lasting[h] : item[2] = None \/ item[2] \in categories,
             query = "foods" => categories = menu[h].categories /\ lasting[h] \subseteq items,
             \A item \in items : Kitchen[item[1]] \in vetted
      PROVE  MenusSound'
  <2> DEFINE m == [of |-> r, read |-> menu[h].read \union {query},
                   categories |-> categories, items |-> items]
  <2>1. menu' = [menu EXCEPT ![h] = m] /\ lasting' = lasting
    BY <1>8 DEF Read
  <2>2. /\ m \in MenuRequests /\ m.of = r /\ m.read = menu[h].read \union {query}
        /\ m.categories = categories /\ m.items = items
    BY <1>7 DEF MenuRequests
  <2> HIDE DEF m
  <2>3. MenuSound(m, lasting[h])
    BY <1>7, <1>8, <2>2 DEF MenuSound
  <2> QED BY <1>5, <1>7, <1>8, <2>1, <2>2, <2>3
<1>9. ASSUME ReadCategories(h) PROVE MenusSound'
  <2>1. PICK x \in Restaurants : x = r
    BY <1>7, <1>9 DEF ReadCategories, Read, MenuRequests
  <2>2. /\ \A item \in lasting[h] : item[2] = None \/ item[2] \in PublicCategories(x)
        /\ PublicCategories(x) \in SUBSET Categories /\ menu[h].items \in SUBSET Items
    BY <1>7, <2>1, OnMenuItems DEF MenuSound, PublicCategories, CategoriesOf, MenuRequests
  <2>3. Read(h, "categories", PublicCategories(x), menu[h].items)
    BY <1>9, <2>1 DEF ReadCategories
  <2>4. \A item \in menu[h].items : Kitchen[item[1]] \in vetted
    BY <1>7
  <2> QED BY <1>8, <2>2, <2>3, <2>4
<1>10. ASSUME ReadFoods(h) PROVE MenusSound'
  <2>1. PICK x \in Restaurants : x = r
    BY <1>7, <1>10 DEF ReadFoods, Read, MenuRequests
  <2>2. /\ lasting[h] \subseteq MenuItems(x)
        /\ MenuItems(x) \in SUBSET Items /\ menu[h].categories \in SUBSET Categories
        /\ \A item \in MenuItems(x) : Kitchen[item[1]] \in vetted
    BY <1>7, <2>1, OnMenuItems DEF MenuSound, MenuRequests
  <2>3. Read(h, "foods", menu[h].categories, MenuItems(x))
    BY <1>10, <2>1 DEF ReadFoods
  <2>4. \A item \in MenuItems(x) : Kitchen[item[1]] \in vetted
    BY <2>2
  <2> QED BY <1>8, <2>2, <2>3, <2>4
<1>11. ASSUME EndMenu(h) PROVE MenusSound'
  <2>1. NoMenu \in MenuRequests /\ NoMenu.read = {} /\ NoMenu.items = {}
    BY DEF NoMenu, MenuRequests
  <2>2. MenuSound(NoMenu, {})
    BY <2>1 DEF MenuSound
  <2>3. menu' = [menu EXCEPT ![h] = NoMenu] /\ lasting' = [lasting EXCEPT ![h] = {}]
    BY <1>11 DEF EndMenu
  <2>4. {} \in SUBSET Items /\ {} \subseteq OnMenu
    OBVIOUS
  <2>5. \A item \in NoMenu.items : Kitchen[item[1]] \in vetted
    BY <2>1
  <2> QED BY <1>5, <2>1, <2>2, <2>3, <2>4, <2>5
<1> QED BY <1>3, <1>6, <1>9, <1>10, <1>11 DEF AnswerMenu, IInv

LEMMA InitIInv == Init => IInv
<1> SUFFICES ASSUME Init PROVE IInv
  OBVIOUS
<1>1. \A x \in Rows : row[x] \in RowsOf(x) /\ row[x] \in RestaurantRow \union FoodRow
  BY PendingIsRow DEF Init, RowsOf, NoFood, FoodRow
<1>2. Shapes
  BY <1>1, IdleIsRequest, EditsAssumption DEF Init, Shapes, CategoryRow
<1>3. RowsSound
  BY <1>1, NamesAssumption DEF Init, RowsSound, Good, Pending, NoFood, Own
<1>4. RequestsSound /\ MenusSound
  BY IdleIsRequest DEF Init, RequestsSound, MenusSound, MenuSound, NoMenu, MenuRequests
<1>5. CategoriesSound /\ StillShut /\ WithdrawnStaysShut
  BY DEF Init, CategoriesSound, StillShut, WithdrawnStaysShut
<1> QED BY <1>2, <1>3, <1>4, <1>5 DEF IInv

LEMMA NextIInv == IInv /\ [Next]_vars => IInv'
<1> SUFFICES ASSUME IInv, [Next]_vars PROVE IInv'
  OBVIOUS
<1>1. CASE UNCHANGED vars
  <2>1. MenusSound'
    BY <1>1, MenusKept DEF vars
  <2> QED BY <1>1, <2>1 DEF vars, IInv, Shapes, RowsSound, RequestsSound, CategoriesSound,
                            StillShut, WithdrawnStaysShut
<1>2. ASSUME NEW r \in Restaurants, CreateForOwner(r)
      PROVE  IInv'
  <2>1. r \in Rows /\ Pending \in RowsOf(r) /\ Good(vetted, r, Pending)
    BY PendingIsRow, RowsApart DEF Rows, RowsOf, Good, Pending
  <2> QED BY <1>2, <2>1, InsertKeeps DEF CreateForOwner
<1>3. ASSUME NEW f \in Foods, NEW c \in Categories \union {None}, CreateFood(f, c)
      PROVE  IInv'
  <2> DEFINE e == [category |-> c, active |-> TRUE, available |-> TRUE]
  <2>1. f \in Rows /\ RowsOf(f) = FoodRow /\ f \notin Restaurants
    BY RowsApart DEF Rows
  <2>2. e \in FoodRow /\ e.category \in Own(f)
    BY <1>3, ValidIsOwn DEF CreateFood, FoodRow
  <2>3. /\ f \notin created /\ created' = created \union {f} /\ row' = [row EXCEPT ![f] = e]
        /\ Remember /\ UNCHANGED <<shown, history, edits, req>>
    BY <1>3 DEF CreateFood
  <2> HIDE DEF e
  <2>4. Good(vetted, f, e)
    BY <2>1, <2>2 DEF Good
  <2> QED BY <2>1, <2>2, <2>3, <2>4, InsertKeeps
<1>4. ASSUME NEW h \in Handlers, Manage(h)
      PROVE  IInv'
  BY <1>4, RestaurantKeeps, FoodKeeps, CompareKeeps, SaveKeeps, FailKeeps DEF Manage, ManageRestaurant, Administer, ManageFood
<1>5. ASSUME NEW h \in Handlers, AnswerMenu(h)
      PROVE  IInv'
  BY <1>5, MenuKeeps
<1> QED BY <1>1, <1>2, <1>3, <1>4, <1>5, CategoryKeeps DEF Next, ManageCategory

-----------------------------------------------------------------------------
(***************************************************************************)
(* Theorems.                                                              *)
(***************************************************************************)
LEMMA PublicIsVetted ==
  ASSUME IInv
  PROVE  /\ PublicRestaurants \subseteq vetted
         /\ \A f \in ActiveFoods : Kitchen[f] \in vetted
<1>1. \A r \in Restaurants : Public(r) => r \in vetted
  <2>1. Restaurants \subseteq Rows
    BY DEF Rows
  <2> QED BY <2>1 DEF IInv, RowsSound, Good, Public
<1>2. \A f \in Foods : Kitchen[f] \in Restaurants
  BY KitchenAssumption
<1> QED BY <1>1, <1>2 DEF PublicRestaurants, ActiveFoods

LEMMA AnswersSelect ==
  ASSUME NEW S
  PROVE  \A T \in Answers(S) : T \subseteq S
BY DEF Answers, Filtered, Page

\* The foods a query of discovery or of one restaurant may answer with, and those
\* of the menus being answered.
LEMMA FoodsShownAreVetted ==
  ASSUME IInv, NEW shownFood \in FoodsShown
  PROVE  Kitchen[shownFood] \in vetted
<1>1. PublicFoods \subseteq ActiveFoods
  BY DEF PublicFoods
<1>2. \A a \in Home : a.bestsellers \union a.foods \subseteq PublicFoods
  BY AnswersSelect DEF Home, BestsellerFoods
<1>3. \A T \in SearchFoods \union CombinedFoods \union FoodSuggestions : T \subseteq PublicFoods
  BY AnswersSelect DEF SearchFoods, CombinedFoods, FoodSuggestions, Page
<1>4. \A a \in Search \union Suggestions : a.foods \in CombinedFoods \union FoodSuggestions
  BY DEF Search, Suggestions
<1>5. ASSUME NEW r \in Restaurants, NEW b \in BOOLEAN, NEW S \in ListedFoods(r, b)
      PROVE  S \subseteq ActiveFoods
  <2>1. S \subseteq {f \in MenuFoods(r) : row[f].available = b}
    BY <1>5, AnswersSelect DEF ListedFoods
  <2> QED BY <2>1 DEF MenuFoods, OfRestaurant
<1>6. ASSUME NEW r \in Restaurants, NEW c \in Categories, NEW b \in BOOLEAN,
             NEW S \in FoodsByCategory(r, c, b)
      PROVE  S \subseteq ActiveFoods
  <2>1. S \subseteq {f \in OfRestaurant(r) : row[f].category = c /\ row[f].available = b}
    BY <1>6, AnswersSelect DEF FoodsByCategory
  <2> QED BY <2>1 DEF OfRestaurant
<1>7. ASSUME NEW h \in Handlers,
             \/ shownFood \in Menu(menu[h]).uncategorizedItems
             \/ \E c \in menu[h].categories : shownFood \in Menu(menu[h]).categories[c]
      PROVE  Kitchen[shownFood] \in vetted
  <2>1. PICK c : <<shownFood, c>> \in menu[h].items
    BY <1>7 DEF Menu
  <2> QED BY <2>1 DEF IInv, MenusSound
<1>8. shownFood \in ActiveFoods \/ \E h \in Handlers :
             \/ shownFood \in Menu(menu[h]).uncategorizedItems
             \/ \E c \in menu[h].categories : shownFood \in Menu(menu[h]).categories[c]
  BY <1>1, <1>2, <1>3, <1>4, <1>5, <1>6 DEF FoodsShown
<1> QED BY <1>7, <1>8, PublicIsVetted

LEMMA RestaurantsShownArePublic == RestaurantsShown \subseteq PublicRestaurants
<1>1. \A S \in RestaurantList : S \subseteq PublicRestaurants
  BY AnswersSelect DEF RestaurantList
<1>2. \A a \in Home : a.popular \union a.recommended \subseteq PublicRestaurants
  BY AnswersSelect DEF Home, PopularRestaurants
<1>3. \A T \in SearchRestaurants \union CombinedRestaurants \union RestaurantSuggestions :
        T \subseteq PublicRestaurants
  BY AnswersSelect DEF SearchRestaurants, CombinedRestaurants, RestaurantSuggestions, Page
<1>4. \A a \in Search \union Suggestions :
        a.restaurants \in CombinedRestaurants \union RestaurantSuggestions
  BY DEF Search, Suggestions
<1> QED BY <1>1, <1>2, <1>3, <1>4 DEF RestaurantsShown

LEMMA Invariance == Spec => []IInv
BY InitIInv, NextIInv, PTL DEF Spec

\* Rows, requests and what is remembered of them keep their shape.
THEOREM TypeCorrect == Spec => []TypeOK
<1>1. IInv => TypeOK
  BY DEF IInv, Shapes, RowsSound, RequestsSound, MenusSound, Good, TypeOK
<1> QED BY <1>1, Invariance, PTL

\* What is shut stays shut, whatever is requested at the same time.
THEOREM ShutForGood == Spec => []WithdrawnStaysShut
<1>1. IInv => WithdrawnStaysShut
  BY DEF IInv
<1> QED BY <1>1, Invariance, PTL

\* No answer shows what no administrator approved.
THEOREM NothingUnvetted == Spec => []ShownIsVetted
<1>1. IInv => ShownIsVetted
  BY PublicIsVetted, RestaurantsShownArePublic, FoodsShownAreVetted DEF ShownIsVetted
<1> QED BY <1>1, Invariance, PTL

\* A menu holds what was on it all the time it was being read.
THEOREM MenusComplete == Spec => []MenuIsComplete
<1>1. ASSUME IInv PROVE MenuIsComplete
  <2> SUFFICES ASSUME NEW h \in Handlers, menu[h].read = {"categories", "foods"},
                      NEW item \in lasting[h]
               PROVE  IF item[2] = None THEN item[1] \in Menu(menu[h]).uncategorizedItems
                      ELSE /\ item[2] \in menu[h].categories
                           /\ item[1] \in Menu(menu[h]).categories[item[2]]
    BY DEF MenuIsComplete
  <2>1. /\ item \in menu[h].items
        /\ item[2] = None \/ item[2] \in menu[h].categories
        /\ item \in Items
    BY <1>1 DEF IInv, MenusSound, MenuSound
  <2>2. item[1] \in Foods /\ item = <<item[1], item[2]>>
    BY <2>1 DEF Items
  <2>3. /\ Menu(menu[h]).uncategorizedItems = {f \in Foods : <<f, None>> \in menu[h].items}
        /\ \A c \in menu[h].categories :
             Menu(menu[h]).categories[c] = {f \in Foods : <<f, c>> \in menu[h].items}
    BY DEF Menu
  <2> QED BY <2>1, <2>2, <2>3
<1> QED BY <1>1, Invariance, PTL

=============================================================================
