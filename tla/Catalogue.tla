----------------------------- MODULE Catalogue -----------------------------
(***************************************************************************)
(* Restaurants, menu categories and foods, and what the public sees of    *)
(* them (src/src/restaurants, src/src/menu-categories, src/src/foods,     *)
(* src/src/discovery).                                                    *)
(*                                                                         *)
(* No request of a manager runs in a transaction: it reads the row of a   *)
(* restaurant, or those of a food and of its restaurant, checks and       *)
(* changes the entity, and saves it (EntityRows).  Prices, names, images  *)
(* and opening hours are left out: an update that changes nothing else    *)
(* still saves the entity it read.                                        *)
(*                                                                         *)
(* A category has one column that matters, so a stale save of one leaves  *)
(* a value that some other request could have saved: its changes are one  *)
(* step each, and reordering may leave any of the values.  An insertion   *)
(* is one step too: that the restaurant was active when it was read says  *)
(* nothing of the moment of the insertion.                                *)
(***************************************************************************)
EXTENDS Integers, FiniteSets, EntityRows

CONSTANTS
  Restaurants,  \* restaurants
  Categories,   \* menu_categories
  Foods,        \* food_items
  Kitchen,      \* the restaurant of each category and each food
  Handlers,     \* concurrently served requests
  None,         \* no category, no row
  MaxEdits      \* bound: requests for a menu, or to change a restaurant or a food

ASSUME KitchenAssumption == Kitchen \in [Categories \union Foods -> Restaurants]
ASSUME NamesAssumption ==
  /\ None \notin Restaurants \union Categories \union Foods
  /\ Restaurants \intersect Foods = {}
ASSUME EditsAssumption == MaxEdits \in Nat

VARIABLES
  created,    \* ids in use
  row,        \* rows of restaurants and foods
  shown,      \* is_active of each category
  vetted,     \* history: restaurants an administrator decided to approve
  withdrawn,  \* history: rows that were shut when no other request had them in
              \* hand, since when no administrator took another decision on them
  edits,      \* number of requests begun
  req,        \* local state of each request that changes a row
  menu,       \* local state of each request for a menu
  lasting     \* history: what was on that menu ever since it was asked for

vars == <<created, row, shown, vetted, withdrawn, edits, req, menu, lasting>>
rows == <<created, row, shown>>
history == <<vetted, withdrawn>>
menus == <<menu, lasting>>

Statuses == {"PENDING", "APPROVED", "REJECTED", "SUSPENDED"}
RestaurantRow == [status : Statuses, active : BOOLEAN, open : BOOLEAN]
FoodRow == [category : Categories \union {None}, active : BOOLEAN, available : BOOLEAN]
CategoryRow == BOOLEAN  \* is_active
Rows == Restaurants \union Foods
RowsOf(x) == IF x \in Restaurants THEN RestaurantRow ELSE FoodRow
Columns == {"status", "active", "open", "category", "available"}

Requests == [pc : {"idle", "check", "compare", "save"}, row : Rows \union {None},
             entity : RestaurantRow \union FoodRow, cols : SUBSET Columns]

\* A food as the menu has it: with its category.
Items == Foods \X (Categories \union {None})
MenuRequests == [of : Restaurants \union {None}, read : SUBSET {"categories", "foods"},
                 categories : SUBSET Categories, items : SUBSET Items]

\* The row an owner's restaurant begins with.
Pending == [status |-> "PENDING", active |-> TRUE, open |-> FALSE]
NoFood == [category |-> None, active |-> FALSE, available |-> FALSE]
Idle == [pc |-> "idle", row |-> None, entity |-> Pending, cols |-> {}]
NoMenu == [of |-> None, read |-> {}, categories |-> {}, items |-> {}]

Init ==
  /\ created = {}
  /\ row = [x \in Rows |-> IF x \in Restaurants THEN Pending ELSE NoFood]
  /\ shown = [c \in Categories |-> FALSE]
  /\ vetted = {} /\ withdrawn = {}
  /\ edits = 0
  /\ req = [h \in Handlers |-> Idle]
  /\ menu = [h \in Handlers |-> NoMenu]
  /\ lasting = [h \in Handlers |-> {}]

Others(h, x) == {g \in Handlers : g # h /\ req[g].row = x}
Continue(h, r) == req' = [req EXCEPT ![h] = r]
Free(h) == req[h].pc = "idle" /\ menu[h].of = None

\* findOneForManagement, findFoodForManagement: entity is the row as it was
\* read, changed already if nothing else has to be read for that.
Begin(h, x, step, entity) ==
  /\ Free(h) /\ x \in created /\ edits < MaxEdits
  /\ edits' = edits + 1
  /\ Continue(h, [Idle EXCEPT !.pc = step, !.row = x, !.entity = entity])
  /\ UNCHANGED <<rows, menus>>

(***************************************************************************)
(* What the public sees.  A query is the set of the rows it selects from. *)
(***************************************************************************)
CategoriesOf(r) == {c \in Categories \intersect created : Kitchen[c] = r}

Public(r) == r \in created /\ row[r].active /\ row[r].status = "APPROVED"
PublicRestaurants == {r \in Restaurants : Public(r)}

ActiveFoods == {f \in Foods \intersect created : row[f].active /\ Public(Kitchen[f])}
PublicFoods == {f \in ActiveFoods : row[f].available}

\* Of one restaurant, if findOnePublic finds it.
PublicCategories(r) == {c \in CategoriesOf(r) : shown[c]}
OfRestaurant(r) == {f \in ActiveFoods : Kitchen[f] = r}
MenuFoods(r) ==
  {f \in OfRestaurant(r) : row[f].category = None \/ shown[row[f].category]}

MenuItems(r) == {<<f, row[f].category>> : f \in MenuFoods(r)}
OnMenu == UNION {MenuItems(r) : r \in Restaurants}

\* A step that writes a row may take something off the menus.
Remember ==
  /\ lasting' = [h \in Handlers |-> lasting[h] \intersect OnMenu']
  /\ UNCHANGED menu

(***************************************************************************)
(* Restaurants.                                                           *)
(***************************************************************************)
\* Mutant: what an owner creates needs no approval.
CreateApproved(r) ==
  /\ r \notin created
  /\ created' = created \union {r}
  /\ row' = [row EXCEPT ![r] = [Pending EXCEPT !.status = "APPROVED"]]
  /\ UNCHANGED <<shown, history, edits, req>>
  /\ Remember

CreateForOwner(r) ==
  /\ r \notin created
  /\ created' = created \union {r}
  /\ row' = [row EXCEPT ![r] = Pending]
  /\ UNCHANGED <<shown, history, edits, req>>
  /\ Remember

\* isPureVeg and the other editable fields are not modelled.
UpdateOwnedRestaurant(h, r) ==
  Begin(h, r, "compare", row[r]) /\ UNCHANGED history

DeactivateOwnedRestaurant(h, r) ==
  /\ Begin(h, r, "compare", [row[r] EXCEPT !.active = FALSE, !.open = FALSE])
  /\ UNCHANGED history

\* Mutant: any restaurant may be opened.
SetOpenUnchecked(h, r, isOpen) ==
  /\ Begin(h, r, "compare", [row[r] EXCEPT !.open = isOpen])
  /\ UNCHANGED history

SetOpenStatus(h, r, isOpen) ==
  /\ isOpen => row[r].active /\ row[r].status # "SUSPENDED"
  /\ Begin(h, r, "compare", [row[r] EXCEPT !.open = isOpen])
  /\ UNCHANGED history

\* What administrators decide; no controller calls these yet.
SetStatus(h, r, status, isActive) ==
  /\ Begin(h, r, "compare", [status |-> status, active |-> isActive,
                             open |-> row[r].open /\ isActive])
  /\ withdrawn' = withdrawn \ {r}

\* Mutant: a status the column does not know.
ApproveUnknown(h, r) ==
  SetStatus(h, r, "ACTIVE", TRUE) /\ vetted' = vetted \union {r}

\* Reactivating does the same.
ApproveRestaurant(h, r) ==
  SetStatus(h, r, "APPROVED", TRUE) /\ vetted' = vetted \union {r}

RejectRestaurant(h, r) ==
  SetStatus(h, r, "REJECTED", FALSE) /\ UNCHANGED vetted

SuspendRestaurant(h, r) ==
  /\ Begin(h, r, "compare", [row[r] EXCEPT !.status = "SUSPENDED", !.open = FALSE])
  /\ withdrawn' = withdrawn \ {r}
  /\ UNCHANGED vetted

(***************************************************************************)
(* Categories.                                                            *)
(***************************************************************************)
CreateCategory(c) ==
  /\ c \notin created /\ Kitchen[c] \in created
  /\ created' = created \union {c}
  /\ shown' = [shown EXCEPT ![c] = TRUE]
  /\ UNCHANGED <<row, history, edits, req>>
  /\ Remember

UpdateCategory(c, isActive) ==
  /\ c \in created
  /\ shown' = [shown EXCEPT ![c] = isActive]
  /\ UNCHANGED <<created, row, history, edits, req>>
  /\ Remember

DeactivateCategory(c) == UpdateCategory(c, FALSE)

\* One transaction saves the entities of some of a restaurant's categories.
ReorderCategories(r) ==
  /\ \E S \in SUBSET CategoriesOf(r) : \E was \in [S -> BOOLEAN] :
       shown' = [c \in Categories |-> IF c \in S THEN was[c] ELSE shown[c]]
  /\ UNCHANGED <<created, row, history, edits, req>>
  /\ Remember

(***************************************************************************)
(* Foods.                                                                 *)
(***************************************************************************)
\* Mutant: the category may be another restaurant's.
AnyCategory(r) == {None} \union (Categories \intersect created)

\* ensureValidCategory
ValidCategories(r) == {None} \union CategoriesOf(r)

CreateFood(f, c) ==
  /\ f \notin created /\ Kitchen[f] \in created
  /\ c \in ValidCategories(Kitchen[f])
  /\ created' = created \union {f}
  /\ row' = [row EXCEPT ![f] = [category |-> c, active |-> TRUE, available |-> TRUE]]
  /\ UNCHANGED <<shown, history, edits, req>>
  /\ Remember

FindFood(h, f) == Begin(h, f, "check", row[f]) /\ UNCHANGED history

Restaurant(h) == row[Kitchen[req[h].row]]
Change(h, entity) ==
  /\ Continue(h, [req[h] EXCEPT !.pc = "compare", !.entity = entity])
  /\ UNCHANGED <<rows, history, edits, menus>>

UpdateOwnedFood(h, c) ==
  /\ req[h].pc = "check"
  /\ Restaurant(h).active
  /\ c \in ValidCategories(Kitchen[req[h].row]) \union {req[h].entity.category}
  /\ Change(h, [req[h].entity EXCEPT !.category = c])

UpdateAvailability(h, isAvailable) ==
  /\ req[h].pc = "check"
  /\ isAvailable => /\ req[h].entity.active /\ Restaurant(h).active
                    /\ Restaurant(h).status # "SUSPENDED"
  /\ Change(h, [req[h].entity EXCEPT !.available = isAvailable])

DeactivateOwnedFood(h) ==
  /\ req[h].pc = "check"
  /\ Change(h, [req[h].entity EXCEPT !.active = FALSE, !.available = FALSE])

(***************************************************************************)
(* saveRestaurant and saveFood, and what may happen to any request.       *)
(***************************************************************************)
Compare(h) ==
  /\ req[h].pc = "compare"
  /\ Continue(h, [req[h] EXCEPT !.pc = "save",
                    !.cols = Changed(req[h].entity, row[req[h].row])])
  /\ UNCHANGED <<rows, history, edits, menus>>

Shut(x, entity) ==
  IF x \in Restaurants
  THEN (~ entity.active \/ entity.status = "SUSPENDED") /\ ~ entity.open
  ELSE ~ entity.active /\ ~ entity.available

Save(h) ==
  LET x == req[h].row IN
  /\ req[h].pc = "save"
  /\ row' = [row EXCEPT ![x] = Written(row[x], req[h].entity, req[h].cols)]
  /\ withdrawn' = IF Shut(x, row'[x]) /\ Others(h, x) = {}
                  THEN withdrawn \union {x} ELSE withdrawn
  /\ Continue(h, Idle)
  /\ UNCHANGED <<created, shown, vetted, edits>>
  /\ Remember

\* Refused, or its process or its connection dies.
Fail(h) ==
  /\ req[h].pc # "idle"
  /\ Continue(h, Idle)
  /\ UNCHANGED <<rows, history, edits, menus>>

(***************************************************************************)
(* A menu.  Its categories and its foods are two queries, taken in either *)
(* order, and rows may be written between them.                           *)
(***************************************************************************)
FindRestaurantMenu(h, r) ==
  /\ Free(h) /\ Public(r) /\ edits < MaxEdits
  /\ edits' = edits + 1
  /\ menu' = [menu EXCEPT ![h] = [NoMenu EXCEPT !.of = r]]
  /\ lasting' = [lasting EXCEPT ![h] = MenuItems(r)]
  /\ UNCHANGED <<rows, history, req>>

Read(h, query, categories, items) ==
  /\ menu[h].of # None /\ query \notin menu[h].read
  /\ menu' = [menu EXCEPT ![h] = [of |-> menu[h].of, read |-> menu[h].read \union {query},
                                  categories |-> categories, items |-> items]]
  /\ UNCHANGED <<rows, history, edits, req, lasting>>

ReadCategories(h) == Read(h, "categories", PublicCategories(menu[h].of), menu[h].items)
ReadFoods(h) == Read(h, "foods", menu[h].categories, MenuItems(menu[h].of))

\* Each food that was read goes under its category, if that was read too.
Menu(m) ==
  [categories |-> [c \in m.categories |-> {f \in Foods : <<f, c>> \in m.items}],
   uncategorizedItems |-> {f \in Foods : <<f, None>> \in m.items}]

\* The menu is answered, or a query fails.
EndMenu(h) ==
  /\ menu[h].of # None
  /\ menu' = [menu EXCEPT ![h] = NoMenu]
  /\ lasting' = [lasting EXCEPT ![h] = {}]
  /\ UNCHANGED <<rows, history, edits, req>>

ManageRestaurant(h, r) ==
  \/ UpdateOwnedRestaurant(h, r)
  \/ DeactivateOwnedRestaurant(h, r)
  \/ \E isOpen \in BOOLEAN : SetOpenStatus(h, r, isOpen)

Administer(h, r) ==
  ApproveRestaurant(h, r) \/ RejectRestaurant(h, r) \/ SuspendRestaurant(h, r)

ManageFood(h) ==
  \/ \E f \in Foods : FindFood(h, f)
  \/ \E c \in Categories \union {None} : UpdateOwnedFood(h, c)
  \/ \E isAvailable \in BOOLEAN : UpdateAvailability(h, isAvailable)
  \/ DeactivateOwnedFood(h)

ManageCategory(c) ==
  \/ CreateCategory(c)
  \/ \E isActive \in BOOLEAN : UpdateCategory(c, isActive)
  \/ DeactivateCategory(c)

Manage(h) ==
  \/ \E r \in Restaurants : ManageRestaurant(h, r) \/ Administer(h, r)
  \/ ManageFood(h)
  \/ Compare(h)
  \/ Save(h)
  \/ Fail(h)

AnswerMenu(h) ==
  \/ \E r \in Restaurants : FindRestaurantMenu(h, r)
  \/ ReadCategories(h)
  \/ ReadFoods(h)
  \/ EndMenu(h)

Next ==
  \/ \E r \in Restaurants : CreateForOwner(r) \/ ReorderCategories(r)
  \/ \E c \in Categories : ManageCategory(c)
  \/ \E f \in Foods, c \in Categories \union {None} : CreateFood(f, c)
  \/ \E h \in Handlers : Manage(h) \/ AnswerMenu(h)

Spec == Init /\ [][Next]_vars

-----------------------------------------------------------------------------
(***************************************************************************)
(* The lists the public sees.  Filters, limits and pages leave some of    *)
(* the rows of a query.                                                   *)
(***************************************************************************)
\* applyRestaurantFilters and applyFoodFilters; text, order and page.
Filtered(S) == SUBSET S
Page(S) == SUBSET S
Answers(S) == UNION {Page(T) : T \in Filtered(S)}

\* RestaurantsRepository.findPublicList
RestaurantList == Answers(PublicRestaurants)

\* The home page; what it recommends leaves out what it shows above that.
PopularRestaurants == Answers(PublicRestaurants)
RecommendedRestaurants(excludeIds) == Answers(PublicRestaurants \ excludeIds)
BestsellerFoods == Answers(PublicFoods)
RecommendedFoods(excludeIds) == Answers(PublicFoods \ excludeIds)
Home ==
  {a \in [popular : PopularRestaurants, recommended : Answers(PublicRestaurants),
          bestsellers : BestsellerFoods, foods : Answers(PublicFoods)] :
     /\ a.recommended \in RecommendedRestaurants(a.popular)
     /\ a.foods \in RecommendedFoods(a.bestsellers)}

SearchRestaurants == Answers(PublicRestaurants)
SearchFoods == Answers(PublicFoods)
CombinedRestaurants == Answers(PublicRestaurants)
CombinedFoods == Answers(PublicFoods)
Search == [restaurants : CombinedRestaurants, foods : CombinedFoods]
RestaurantSuggestions == Page(PublicRestaurants)
FoodSuggestions == Page(PublicFoods)
Suggestions == [restaurants : RestaurantSuggestions, foods : FoodSuggestions]

\* Foods of a restaurant that cannot be ordered are listed only for a query that
\* asks for them.
ListedFoods(r, isAvailable) ==
  Answers({f \in MenuFoods(r) : row[f].available = isAvailable})
FoodsByCategory(r, c, isAvailable) ==
  IF c \in PublicCategories(r)
  THEN Answers({f \in OfRestaurant(r) : row[f].category = c
                                        /\ row[f].available = isAvailable})
  ELSE {}

-----------------------------------------------------------------------------
TypeOK ==
  /\ created \subseteq Rows \union Categories
  /\ row \in [Rows -> RestaurantRow \union FoodRow]
  /\ \A x \in Rows : row[x] \in RowsOf(x)
  /\ shown \in [Categories -> CategoryRow]
  /\ vetted \subseteq Restaurants
  /\ withdrawn \subseteq Rows
  /\ edits \in 0..MaxEdits
  /\ req \in [Handlers -> Requests]
  /\ \A h \in Handlers : req[h].pc # "idle" =>
       req[h].row \in Rows /\ req[h].entity \in RowsOf(req[h].row)
  /\ menu \in [Handlers -> MenuRequests]
  /\ lasting \in [Handlers -> SUBSET Items]

\* A restaurant that was suspended, rejected or taken off comes back, or opens,
\* only by an administrator's decision or by a request that had it in hand when
\* it was shut, and a food that was taken off only by such a request: none that
\* begins later brings it back, however many there are at the same time.
WithdrawnStaysShut == \A x \in withdrawn : Shut(x, row[x])

RestaurantsShown ==
  UNION (RestaurantList
         \union {a.popular \union a.recommended : a \in Home}
         \union SearchRestaurants
         \union {a.restaurants : a \in Search \union Suggestions})

FoodsShown ==
  UNION ({ActiveFoods} \union SearchFoods
         \union {a.bestsellers \union a.foods : a \in Home}
         \union {a.foods : a \in Search \union Suggestions}
         \union (UNION {ListedFoods(r, b) : r \in Restaurants, b \in BOOLEAN})
         \union (UNION {FoodsByCategory(r, c, b) : r \in Restaurants,
                                      c \in Categories, b \in BOOLEAN})
         \union {Menu(menu[h]).uncategorizedItems : h \in Handlers}
         \union (UNION {{Menu(menu[h]).categories[c] : c \in menu[h].categories} : h \in Handlers}))

\* No answer of the public endpoints shows a restaurant, or a food of one,
\* that no administrator ever decided to approve.
ShownIsVetted ==
  RestaurantsShown \union {Kitchen[f] : f \in FoodsShown} \subseteq vetted

\* A menu loses no food: one that was on it under one category ever since the
\* request began is in the answer, whichever query was taken first and whatever
\* was switched, moved or saved between them.  (A food whose category is switched
\* on, or that is moved to one switched on, between the queries can be lost.)
MenuIsComplete ==
  \A h \in Handlers : menu[h].read = {"categories", "foods"} =>
    \A item \in lasting[h] :
      LET f == item[1]
          c == item[2]
      IN IF c = None THEN f \in Menu(menu[h]).uncategorizedItems
         ELSE c \in menu[h].categories /\ f \in Menu(menu[h]).categories[c]

=============================================================================
