-------------------------------- MODULE Menu --------------------------------
(***************************************************************************)
(* What an owner edits: the restaurants of the account, the cuisine types  *)
(* and dishes of one of them, and the input photos of the dishes           *)
(* (RestaurantsService, MenuCategoriesService, MenuItemsService).          *)
(*                                                                         *)
(* Requests run in the slots Reqs (tabs, devices, a button pressed twice)  *)
(* and interleave between the reads that decide and the write; a request   *)
(* whose write does not depend on what was read is one step.  The reads    *)
(* a request makes before its first write are one step; none is used with  *)
(* another.  Ownership and suspension are among them: a request they refuse *)
(* changes nothing.  The database's unique indexes and foreign keys hold   *)
(* at each write, and a write they refuse changes nothing.                 *)
(***************************************************************************)
EXTENDS Integers, Sequences, FiniteSets

CONSTANTS Reqs,          \* concurrent requests
          Slugs,         \* restaurant slugs the owner asks for
          Names,         \* of cuisine types and of dishes
          MaxOwned,      \* MAX_RESTAURANTS_PER_OWNER
          MaxItems,      \* maxItems of the restaurant's package
          MaxItemPhotos, \* MAX_ITEM_PHOTOS
          None,          \* SQL NULL
          Gone,          \* a row that was deleted
          MaxCategories, \* bounds: rows ever made before a request for one more
          MaxDishes,
          MaxPhotos,
          MaxFaults      \* bound: crashes, failed calls, rejected files

ASSUME NumbersAssumption ==
    /\ MaxOwned \in Nat /\ MaxItems \in Nat \cup {None} /\ MaxItemPhotos \in Nat \ {0}
    /\ MaxCategories \in Nat /\ MaxDishes \in Nat /\ MaxPhotos \in Nat
    /\ MaxFaults \in Nat
ASSUME SetsAssumption ==
    /\ IsFiniteSet(Reqs) /\ Reqs # {} /\ IsFiniteSet(Slugs)
    /\ {None, Gone} \cap (Names \cup Slugs \cup Nat) = {}

VARIABLES owned,       \* the slugs of the owner's restaurants
          categories,  \* the name of each cuisine type, by id
          dishes,      \* the menu_items rows, by id
          photos,      \* the menu_item_photos rows, by id
          reqs,        \* what each slot is doing
          overlapped,  \* history: two requests for photos overlapped, or one failed
          faults

vars == <<owned, categories, dishes, photos, reqs, overlapped, faults>>

\* photoUrl is the id of the display photo, 0 for none.
DishRows == [name : Names, category : Nat, photoUrl : Nat]

PhotoRows == [dish : Nat, order : Nat]

ASSUME GoneAssumption == Gone \notin DishRows \cup PhotoRows

Steps == {"idle", "restaurant", "category", "rename", "dropCategory", "dish", "edit",
          "rows", "added", "delete", "renumber"}

\* left: the photos that remain, in order, each with the order it was read with.
Work == [pc : Steps, slug : Slugs \cup {None}, category : Nat, dish : Nat,
         name : Names \cup {None}, count : Nat, files : Nat, photo : Nat, left : Seq([id : Nat, order : Nat])]

Idle == [pc |-> "idle", slug |-> None, category |-> 0, dish |-> 0, name |-> None,
         count |-> 0, files |-> 0, photo |-> 0, left |-> <<>>]

TypeOK == /\ owned \in SUBSET Slugs
          /\ categories \in Seq(Names \cup {Gone})
          /\ dishes \in Seq(DishRows \cup {Gone})
          /\ photos \in Seq(PhotoRows \cup {Gone})
          /\ reqs \in [Reqs -> Work]
          /\ overlapped \in BOOLEAN
          /\ faults \in 0..MaxFaults

Init == /\ owned = {}
        /\ categories = <<>>
        /\ dishes = <<>>
        /\ photos = <<>>
        /\ reqs = [h \in Reqs |-> Idle]
        /\ overlapped = FALSE
        /\ faults = 0

-----------------------------------------------------------------------------

At(h, pc) == reqs[h].pc = pc

Go(h, work) == reqs' = [reqs EXCEPT ![h] = work]

Quit(h) == Go(h, Idle)

Photos == <<photos, overlapped>>
Rows == <<categories, dishes>>

Kept == {c \in DOMAIN categories : categories[c] # Gone}
OnMenu == {d \in DOMAIN dishes : dishes[d] # Gone}

Stored == {p \in DOMAIN photos : photos[p] # Gone}

PhotosOf(d) == {p \in Stored : photos[p].dish = d}
OrdersOf(d) == {photos[p].order : p \in PhotosOf(d)}
DishesOf(c) == {d \in OnMenu : dishes[d].category = c}
DishesNamed(name) == {d \in OnMenu : dishes[d].name = name}
CategoriesNamed(name) == {c \in Kept : categories[c] = name}

-----------------------------------------------------------------------------
(* Restaurants.                                                            *)

SlugAvailable(s) == s \notin owned

RestaurantCheck(h, s) ==
    /\ At(h, "idle") /\ SlugAvailable(s) /\ Cardinality(owned) < MaxOwned
    /\ Go(h, [Idle EXCEPT !.pc = "restaurant", !.slug = s])
    /\ UNCHANGED <<owned, Rows, Photos, faults>>

\* The slug is unique.
RestaurantCreate(h) ==
    /\ At(h, "restaurant")
    /\ owned' = owned \cup {reqs[h].slug}
    /\ Quit(h)
    /\ UNCHANGED <<Rows, Photos, faults>>

\* The write stands whenever the index lets it, whatever the check has read.
RestaurantEdit(s, slug) ==
    /\ s \in owned /\ SlugAvailable(slug)
    /\ owned' = (owned \ {s}) \cup {slug}
    /\ UNCHANGED <<Rows, Photos, reqs, faults>>

RestaurantRemove(s) ==
    /\ s \in owned
    /\ owned' = owned \ {s}
    /\ UNCHANGED <<Rows, Photos, reqs, faults>>

-----------------------------------------------------------------------------
(* Cuisine types.                                                          *)

CategoryCheck(h, name) ==
    /\ At(h, "idle") /\ CategoriesNamed(name) = {} /\ Len(categories) < MaxCategories
    /\ Go(h, [Idle EXCEPT !.pc = "category", !.name = name])
    /\ UNCHANGED <<owned, Rows, Photos, faults>>

\* Mutant: without the unique index on (restaurant_id, name).
NoUniqueName(name, c) == TRUE

\* The unique index on (restaurant_id, name).
UniqueName(name, c) == CategoriesNamed(name) \subseteq {c}

CategoryCreate(h) ==
    LET name == reqs[h].name
    IN  /\ At(h, "category")
        /\ categories' = IF UniqueName(name, 0) THEN Append(categories, name)
                                                ELSE categories
        /\ Quit(h)
        /\ UNCHANGED <<owned, dishes, Photos, faults>>

CategoryRenameCheck(h, c, name) ==
    /\ At(h, "idle") /\ c \in Kept /\ CategoriesNamed(name) \subseteq {c}
    /\ Go(h, [Idle EXCEPT !.pc = "rename", !.category = c, !.name = name])
    /\ UNCHANGED <<owned, Rows, Photos, faults>>

CategoryRename(h) ==
    LET c == reqs[h].category
        name == reqs[h].name
    IN  /\ At(h, "rename")
        /\ categories' = IF c \in Kept /\ UniqueName(name, c)
                         THEN [categories EXCEPT ![c] = name] ELSE categories
        /\ Quit(h)
        /\ UNCHANGED <<owned, dishes, Photos, faults>>

CategoryRemoveCheck(h, c) ==
    /\ At(h, "idle") /\ c \in Kept /\ DishesOf(c) = {}
    /\ Go(h, [Idle EXCEPT !.pc = "dropCategory", !.category = c])
    /\ UNCHANGED <<owned, Rows, Photos, faults>>

\* ON DELETE RESTRICT.
Restricts(c) == DishesOf(c) # {}

CategoryRemove(h) ==
    LET c == reqs[h].category
    IN  /\ At(h, "dropCategory")
        /\ categories' = IF c \in Kept /\ ~Restricts(c)
                         THEN [categories EXCEPT ![c] = Gone] ELSE categories
        /\ Quit(h)
        /\ UNCHANGED <<owned, dishes, Photos, faults>>

-----------------------------------------------------------------------------
(* Dishes.                                                                 *)

\* Mutant: a plan of maxItems dishes lets one more in.
OneMoreDish == MaxItems = None \/ Cardinality(OnMenu) =< MaxItems

UnderPlanItemLimit == MaxItems = None \/ Cardinality(OnMenu) < MaxItems

\* Mutant: the name is not looked up.
AnyName(name, d) == TRUE

NameAvailable(name, d) == DishesNamed(name) \subseteq {d}

DishCheck(h, name, c) ==
    /\ At(h, "idle") /\ Len(dishes) < MaxDishes
    /\ NameAvailable(name, 0) /\ c \in Kept /\ UnderPlanItemLimit
    /\ Go(h, [Idle EXCEPT !.pc = "dish", !.name = name, !.category = c])
    /\ UNCHANGED <<owned, Rows, Photos, faults>>

DishCreate(h) ==
    LET row == [name |-> reqs[h].name, category |-> reqs[h].category, photoUrl |-> 0]
    IN  /\ At(h, "dish")
        /\ dishes' = IF row.category \in Kept THEN Append(dishes, row) ELSE dishes
        /\ Quit(h)
        /\ UNCHANGED <<owned, categories, Photos, faults>>

\* A new name (or None), another cuisine type (or 0).
DishEditCheck(h, d, name, c) ==
    /\ At(h, "idle") /\ d \in OnMenu
    /\ name # None => NameAvailable(name, d)
    /\ c # 0 => c \in Kept
    /\ Go(h, [Idle EXCEPT !.pc = "edit", !.dish = d, !.name = name, !.category = c])
    /\ UNCHANGED <<owned, Rows, Photos, faults>>

DishEdit(h) ==
    LET d == reqs[h].dish
        name == reqs[h].name
        c == reqs[h].category
    IN  /\ At(h, "edit")
        /\ IF d \in OnMenu /\ c \in Kept \cup {0}
           THEN dishes' = [dishes EXCEPT
                             ![d].name = IF name = None THEN @ ELSE name,
                             ![d].category = IF c = 0 THEN @ ELSE c]
           ELSE UNCHANGED dishes
        /\ Quit(h)
        /\ UNCHANGED <<owned, categories, Photos, faults>>

\* Its photos go with it (ON DELETE CASCADE).
DishRemove(d) ==
    /\ d \in OnMenu
    /\ dishes' = [dishes EXCEPT ![d] = Gone]
    /\ photos' = [p \in DOMAIN photos |-> IF p \in PhotosOf(d) THEN Gone ELSE photos[p]]
    /\ UNCHANGED <<owned, categories, reqs, overlapped, faults>>

-----------------------------------------------------------------------------
(* Photos.                                                                 *)

\* The include PHOTOS_ORDERED: by sort_order, then in the order they were made.
Before(q, p) == \/ photos[q].order < photos[p].order
                \/ photos[q].order = photos[p].order /\ q < p

\* Each photo is at the place that has as many others before it.
PhotoAt(S, i) == CHOOSE p \in S : Cardinality({q \in S : Before(q, p)}) = i - 1

Ordered(S) == [i \in 1..Cardinality(S) |->
                 [id |-> PhotoAt(S, i), order |-> photos[PhotoAt(S, i)].order]]

HandlesPhotos(h) == reqs[h].pc \in {"rows", "added", "delete", "renumber"}

StartPhotos(h, work) ==
    /\ At(h, "idle")
    /\ Go(h, work)
    /\ overlapped' = (overlapped \/ \E i \in Reqs : HandlesPhotos(i))

\* addPhotos counts the dish's photos, stores the files one after the other,
\* then inserts their rows, all or none.
AddCheck(h, d, n) ==
    LET count == Cardinality(PhotosOf(d))
    IN  /\ d \in OnMenu /\ count + n =< MaxItemPhotos /\ Len(photos) < MaxPhotos
        /\ StartPhotos(h, [Idle EXCEPT !.pc = "rows", !.dish = d, !.count = count,
                                       !.files = n])
        /\ UNCHANGED <<owned, Rows, photos, faults>>

\* Mutant: without the unique index on (menu_item_id, sort_order).
NoUniqueOrder(d, orders) == TRUE

\* The unique index on (menu_item_id, sort_order).
UniqueOrder(d, orders) == orders \cap OrdersOf(d) = {}

\* sortOrder of the i-th of the photos added to count others.
OrderOf(count, i) == count + i - 1

AddRows(h) ==
    LET d == reqs[h].dish
        added == [i \in 1 .. reqs[h].files |->
                    [dish |-> d, order |-> OrderOf(reqs[h].count, i)]]
        orders == {added[i].order : i \in DOMAIN added}
    IN  /\ At(h, "rows")
        /\ IF d \in OnMenu /\ UniqueOrder(d, orders)
           THEN /\ photos' = photos \o added
                /\ Go(h, [reqs[h] EXCEPT !.pc = "added", !.photo = Len(photos) + 1])
           ELSE Quit(h) /\ UNCHANGED photos
        /\ UNCHANGED <<owned, Rows, overlapped, faults>>

\* The first photo becomes the dish's display photo (the model's invalidation
\* is ModelPipeline's).
AddUpdate(h) ==
    LET d == reqs[h].dish
    IN  /\ At(h, "added")
        /\ dishes' = IF d \in OnMenu /\ reqs[h].count = 0
                     THEN [dishes EXCEPT ![d].photoUrl = reqs[h].photo] ELSE dishes
        /\ Quit(h)
        /\ UNCHANGED <<owned, categories, Photos, faults>>

RemoveLoad(h, p) ==
    LET d == photos[p].dish
    IN  /\ p \in Stored
        /\ StartPhotos(h, [Idle EXCEPT !.pc = "delete", !.dish = d, !.photo = p,
                             !.left = Ordered(PhotosOf(d) \ {p})])
        /\ UNCHANGED <<owned, Rows, photos, faults>>

RemoveDelete(h) ==
    LET p == reqs[h].photo
    IN  /\ At(h, "delete")
        /\ IF p \notin Stored
           THEN Quit(h) /\ UNCHANGED photos
           ELSE /\ photos' = [photos EXCEPT ![p] = Gone]
                /\ Go(h, [reqs[h] EXCEPT !.pc = "renumber"])
        /\ UNCHANGED <<owned, Rows, overlapped, faults>>

\* Those that were read with another order than their place, from place
\* reqs[h].count on (places count from 0).
Misplaced(h) == {i \in DOMAIN reqs[h].left : i > reqs[h].count /\ reqs[h].left[i].order # i - 1}

FirstOf(S) == CHOOSE i \in S : \A j \in S : i =< j

\* Each is written by its own call; one that fails ends the request.
Renumber(h) ==
    LET i == FirstOf(Misplaced(h))
        p == reqs[h].left[i].id
    IN  /\ At(h, "renumber") /\ Misplaced(h) # {}
        /\ IF p \notin Stored \/ ~UniqueOrder(reqs[h].dish, {i - 1})
           THEN Quit(h) /\ UNCHANGED photos
           ELSE /\ photos' = [photos EXCEPT ![p].order = i - 1]
                /\ Go(h, [reqs[h] EXCEPT !.count = i])
        /\ UNCHANGED <<owned, Rows, overlapped, faults>>

\* Mutant: the display photo is left as it was.
SamePhotoUrl(d, left) == dishes[d].photoUrl

\* The first of those that remain, or none.
NewPhotoUrl(d, left) == IF left = <<>> THEN 0 ELSE left[1].id

RemoveUpdate(h) ==
    /\ At(h, "renumber") /\ Misplaced(h) = {}
    /\ LET d == reqs[h].dish
       IN  dishes' = IF d \in OnMenu
                     THEN [dishes EXCEPT ![d].photoUrl = NewPhotoUrl(d, reqs[h].left)]
                     ELSE dishes
    /\ Quit(h)
    /\ UNCHANGED <<owned, categories, Photos, faults>>

-----------------------------------------------------------------------------

\* A crash, a call that fails, a file that is refused.  The requests of one
\* write that fail so are as if never made.
Fail(h) ==
    /\ HandlesPhotos(h) /\ faults < MaxFaults
    /\ faults' = faults + 1
    /\ overlapped' = TRUE
    /\ Quit(h)
    /\ UNCHANGED <<owned, Rows, photos>>

Next == \/ \E h \in Reqs :
             \/ \E s \in Slugs : RestaurantCheck(h, s)
             \/ RestaurantCreate(h)
             \/ \E name \in Names : CategoryCheck(h, name)
             \/ \E c \in DOMAIN categories, name \in Names : CategoryRenameCheck(h, c, name)
             \/ \E c \in DOMAIN categories : CategoryRemoveCheck(h, c)
             \/ CategoryCreate(h) \/ CategoryRename(h) \/ CategoryRemove(h)
             \/ \E name \in Names, c \in DOMAIN categories : DishCheck(h, name, c)
             \/ \E d \in DOMAIN dishes, name \in Names \cup {None}, c \in 0..Len(categories) :
                   DishEditCheck(h, d, name, c)
             \/ DishCreate(h) \/ DishEdit(h)
             \/ \E d \in DOMAIN dishes, n \in 1..MaxItemPhotos : AddCheck(h, d, n)
             \/ \E p \in DOMAIN photos : RemoveLoad(h, p)
             \/ AddRows(h) \/ AddUpdate(h)
             \/ RemoveDelete(h) \/ Renumber(h) \/ RemoveUpdate(h)
             \/ Fail(h)
        \/ \E s \in Slugs : \/ RestaurantRemove(s)
                           \/ \E slug \in Slugs : RestaurantEdit(s, slug)
        \/ \E d \in DOMAIN dishes : DishRemove(d)

Spec == Init /\ [][Next]_vars

-----------------------------------------------------------------------------

\* The checks before a write hold back all but the requests that passed them
\* together: a limit on the dishes of a plan or the restaurants of an account
\* is passed by fewer than there are requests at a time.
LimitsAreNearlyKept ==
    /\ MaxItems # None => Cardinality(OnMenu) < MaxItems + Cardinality(Reqs)
    /\ Cardinality(owned) < MaxOwned + Cardinality(Reqs)

\* Dish names have no unique index: dishes of one name there are, but no more
\* than requests at a time, however long they are created and renamed.
NamesakesAreBounded == \A name \in Names : Cardinality(DishesNamed(name)) =< Cardinality(Reqs)

\* A cuisine type keeps its name to itself and stays while a dish uses it, even
\* when the requests that checked it overlap.
CategoriesAreSound ==
    /\ \A name \in Names : Cardinality(CategoriesNamed(name)) =< 1
    /\ \A d \in OnMenu : dishes[d].category \in Kept

\* However uploads and removals overlap, a dish never has more photos than the
\* multiview generation takes.
PhotosFit == \A d \in OnMenu : Cardinality(PhotosOf(d)) =< MaxItemPhotos

\* "sortOrder is contiguous 0..n-1 and index 0 is always the item's display
\* photo (mirrored onto MenuItem.photoUrl)": for a dish no request is at.
InOrder(d) == /\ OrdersOf(d) = 0 .. (Cardinality(PhotosOf(d)) - 1)
              /\ IF PhotosOf(d) = {} THEN dishes[d].photoUrl = 0
                 ELSE \E p \in PhotosOf(d) : photos[p].order = 0 /\ dishes[d].photoUrl = p

PhotosInOrder == \A d \in OnMenu : (\A h \in Reqs : reqs[h].dish # d) => InOrder(d)

\* One request for photos at a time, each to its end, keeps them in order.
AloneInOrder == ~overlapped => PhotosInOrder

-----------------------------------------------------------------------------
(* The inductive invariant.                                                *)

\* The unique indexes and the foreign keys, and that an order is one of the
\* places a dish has for its photos.
RowsSound ==
    /\ \A b, c \in Kept : categories[b] = categories[c] => b = c
    /\ \A d \in OnMenu : dishes[d].category \in Kept
    /\ \A p \in Stored : photos[p].dish \in DOMAIN dishes /\ photos[p].order < MaxItemPhotos
    /\ \A p, q \in Stored : photos[p].dish = photos[q].dish /\ photos[p].order = photos[q].order
                               => p = q

\* A request has what its write needs, and the photos it is about are its dish's.
IsOf(p, d) == p \in DOMAIN photos /\ (p \in Stored => photos[p].dish = d)

WorkSound(work) ==
    /\ work.pc = "restaurant" => work.slug # None
    /\ work.pc \in {"category", "rename", "dish"} => work.name # None
    /\ work.pc \in {"rows", "added", "delete", "renumber"} => work.dish \in DOMAIN dishes
    /\ work.pc = "rows" => work.count + work.files =< MaxItemPhotos
    /\ work.pc = "delete" => IsOf(work.photo, work.dish)
    /\ work.pc \in {"delete", "renumber"} =>
          /\ Len(work.left) < MaxItemPhotos
          /\ \A i \in DOMAIN work.left : IsOf(work.left[i].id, work.dish)

RequestsSound == \A h \in Reqs : WorkSound(reqs[h])

\* What was checked together with the limits counts towards them.
LimitsSound ==
    /\ MaxItems # None =>
          Cardinality(OnMenu) + Cardinality({h \in Reqs : At(h, "dish")})
             < MaxItems + Cardinality(Reqs)
    /\ Cardinality(owned) + Cardinality({h \in Reqs : At(h, "restaurant")})
          < MaxOwned + Cardinality(Reqs)

\* The dishes that have a name or are being given it, and those being made.
Creating(name) == {h \in Reqs : At(h, "dish") /\ reqs[h].name = name}
Renaming(name) == {h \in Reqs : At(h, "edit") /\ reqs[h].name = name}
Renamed(name) == {reqs[h].dish : h \in Renaming(name)}

NamesSound ==
    \A name \in Names :
       Cardinality(DishesNamed(name) \cup Renamed(name)) + Cardinality(Creating(name))
          =< Cardinality(Reqs)

\* The photos that are left when the one with order k is gone: all from there
\* on were read one too far, and those up to the count are back in place.
LeftOf(work, remaining, k) ==
    LET left == work.left
    IN  /\ remaining = {left[i].id : i \in DOMAIN left}
        /\ \A i, j \in DOMAIN left : left[i].id = left[j].id => i = j
        /\ \A i \in DOMAIN left :
              /\ left[i].order = IF i =< k THEN i - 1 ELSE i
              /\ photos[left[i].id].order = IF i =< work.count THEN i - 1 ELSE left[i].order

\* How far the only request for photos is.
Underway(work) ==
    LET d == work.dish
        p == work.photo
        n == Cardinality(PhotosOf(d))
    IN  /\ work.pc = "rows" => InOrder(d) /\ work.count = n /\ work.files # 0
        /\ work.pc = "added" =>
              /\ OrdersOf(d) = 0..(n - 1)
              /\ IF work.count = 0 THEN p \in PhotosOf(d) /\ photos[p].order = 0
                                   ELSE InOrder(d)
        /\ work.pc = "delete" =>
              /\ InOrder(d) /\ p \in PhotosOf(d) /\ work.count = 0
              /\ LeftOf(work, PhotosOf(d) \ {p}, photos[p].order)
        /\ work.pc = "renumber" => \E k \in 0..MaxItemPhotos : LeftOf(work, PhotosOf(d), k)

PhotosSettled ==
    ~overlapped =>
       /\ \A g, h \in Reqs : HandlesPhotos(g) /\ HandlesPhotos(h) => g = h
       /\ \A d \in OnMenu : (\A h \in Reqs : HandlesPhotos(h) => reqs[h].dish # d) => InOrder(d)
       /\ \A h \in Reqs : HandlesPhotos(h) /\ reqs[h].dish \in OnMenu => Underway(reqs[h])

IInv == /\ TypeOK /\ RowsSound /\ RequestsSound
        /\ LimitsSound /\ NamesSound /\ PhotosSettled
=============================================================================
