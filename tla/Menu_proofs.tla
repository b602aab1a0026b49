----------------------------- MODULE Menu_proofs -----------------------------
(***************************************************************************)
(* Proofs about Menu, for every choice of its constants.                   *)
(*                                                                         *)
(* The invariant has four parts that are proved one after the other: the   *)
(* types with what the rows and the requests say of each other (Sound),    *)
(* the limits (LimitsSound), the names (NamesSound) and the order of the   *)
(* photos (PhotosSettled).                                                 *)
(***************************************************************************)
EXTENDS Menu, FiniteSetTheorems, SequenceTheorems, WellFoundedInduction, TLAPS

Sound == TypeOK /\ RowsSound /\ RequestsSound

-----------------------------------------------------------------------------
(* Types.                                                                  *)

\* A function on 1..n is a sequence of length n.
LEMMA FunctionIsASeq ==
    ASSUME NEW T, NEW n \in Nat, NEW f \in [1..n -> T]
    PROVE f \in Seq(T) /\ Len(f) = n
  <1>1. f \in Seq(T)
    BY SeqDef
  <1>2. QED
    BY <1>1, LenProperties

\* What some of the rows of a table are is finite.
LEMMA RowsAreFinite ==
    ASSUME NEW n \in Nat, NEW S, S \subseteq 1..n
    PROVE IsFiniteSet(S)
  <1>1. IsFiniteSet(1..n)
    BY FS_Interval
  <1>2. QED
    BY <1>1, FS_Subset

\* The fields of a request.
LEMMA RequestIsTyped ==
    ASSUME TypeOK, NEW h \in Reqs
    PROVE /\ reqs[h] \in Work
          /\ reqs[h].pc \in Steps /\ reqs[h].slug \in Slugs \cup {None}
          /\ reqs[h].category \in Nat /\ reqs[h].dish \in Nat
          /\ reqs[h].name \in Names \cup {None} /\ reqs[h].count \in Nat
          /\ reqs[h].files \in Nat /\ reqs[h].photo \in Nat
          /\ reqs[h].left \in Seq([id : Nat, order : Nat])
  BY DEF TypeOK, Work

\* A free slot.
LEMMA IdleIsTyped ==
    Idle \in Work /\ Idle.pc = "idle" /\ Idle.dish = 0
  <1>1. <<>> \in Seq([id : Nat, order : Nat])
    BY EmptySeq
  <1>2. QED
    BY <1>1 DEF Idle, Work, Steps

\* A step of a request changes its slot only.
LEMMA GoChangesOne ==
    ASSUME TypeOK, NEW h \in Reqs, NEW work \in Work, Go(h, work)
    PROVE /\ reqs' \in [Reqs -> Work] /\ reqs'[h] = work
          /\ \A g \in Reqs : g # h => reqs'[g] = reqs[g]
  BY DEF TypeOK, Go

\* The rows of menu_categories.
LEMMA CategoriesAreTyped ==
    ASSUME TypeOK
    PROVE /\ categories \in Seq(Names \cup {Gone}) /\ Len(categories) \in Nat
          /\ DOMAIN categories = 1..Len(categories)
          /\ \A c \in DOMAIN categories : categories[c] \in Names \cup {Gone}
          /\ \A c \in Kept : categories[c] \in Names
          /\ IsFiniteSet(Kept) /\ 0 \notin Kept /\ Kept \subseteq Nat
  <1>1. categories \in Seq(Names \cup {Gone})
    BY DEF TypeOK
  <1>2. /\ Len(categories) \in Nat /\ DOMAIN categories = 1..Len(categories)
        /\ \A c \in DOMAIN categories : categories[c] \in Names \cup {Gone}
    BY <1>1, LenProperties
  <1>3. IsFiniteSet(Kept)
    BY <1>2, RowsAreFinite DEF Kept
  <1>4. QED
    BY <1>1, <1>2, <1>3 DEF Kept

\* The rows of menu_items.
LEMMA DishesAreTyped ==
    ASSUME TypeOK
    PROVE /\ dishes \in Seq(DishRows \cup {Gone}) /\ Len(dishes) \in Nat
          /\ DOMAIN dishes = 1..Len(dishes)
          /\ \A d \in DOMAIN dishes : dishes[d] \in DishRows \cup {Gone}
          /\ \A d \in OnMenu : /\ dishes[d] \in DishRows /\ dishes[d].name \in Names
                               /\ dishes[d].category \in Nat /\ dishes[d].photoUrl \in Nat
          /\ IsFiniteSet(OnMenu) /\ 0 \notin OnMenu
          /\ OnMenu \subseteq DOMAIN dishes /\ OnMenu \subseteq Nat
  <1>1. dishes \in Seq(DishRows \cup {Gone})
    BY DEF TypeOK
  <1>2. /\ Len(dishes) \in Nat /\ DOMAIN dishes = 1..Len(dishes)
        /\ \A d \in DOMAIN dishes : dishes[d] \in DishRows \cup {Gone}
    BY <1>1, LenProperties
  <1>3. IsFiniteSet(OnMenu)
    BY <1>2, RowsAreFinite DEF OnMenu
  <1>4. \A d \in OnMenu : dishes[d] \in DishRows
    BY <1>2 DEF OnMenu
  <1>5. QED
    BY <1>1, <1>2, <1>3, <1>4 DEF OnMenu, DishRows

\* The rows of menu_item_photos.
LEMMA PhotosAreTyped ==
    ASSUME TypeOK
    PROVE /\ photos \in Seq(PhotoRows \cup {Gone}) /\ Len(photos) \in Nat
          /\ DOMAIN photos = 1..Len(photos)
          /\ \A p \in DOMAIN photos : photos[p] \in PhotoRows \cup {Gone}
          /\ \A p \in Stored : /\ photos[p] \in PhotoRows
                               /\ photos[p].dish \in Nat /\ photos[p].order \in Nat
          /\ IsFiniteSet(Stored) /\ 0 \notin Stored
          /\ Stored \subseteq DOMAIN photos /\ Stored \subseteq Nat
  <1>1. photos \in Seq(PhotoRows \cup {Gone})
    BY DEF TypeOK
  <1>2. /\ Len(photos) \in Nat /\ DOMAIN photos = 1..Len(photos)
        /\ \A p \in DOMAIN photos : photos[p] \in PhotoRows \cup {Gone}
    BY <1>1, LenProperties
  <1>3. IsFiniteSet(Stored)
    BY <1>2, RowsAreFinite DEF Stored
  <1>4. \A p \in Stored : photos[p] \in PhotoRows
    BY <1>2 DEF Stored
  <1>5. QED
    BY <1>1, <1>2, <1>3, <1>4 DEF Stored, PhotoRows

\* The photos of a dish are finitely many, all of them stored.
LEMMA PhotosOfAreStored ==
    ASSUME TypeOK, NEW d
    PROVE PhotosOf(d) \subseteq Stored /\ IsFiniteSet(PhotosOf(d))
  BY PhotosAreTyped, FS_Subset DEF PhotosOf

-----------------------------------------------------------------------------
(* The order of photos.                                                    *)

\* Of two photos one is before the other, and what is before the first of
\* them is before the second.
LEMMA BeforeIsAnOrder ==
    ASSUME TypeOK, NEW p \in Stored, NEW q \in Stored
    PROVE /\ ~Before(p, p)
          /\ p # q => Before(p, q) \/ Before(q, p)
          /\ \A r \in Stored : Before(r, p) /\ Before(p, q) => Before(r, q)
  BY PhotosAreTyped DEF Before

\* A photo's place: how many of the set are before it.
Place(S, p) == Cardinality({q \in S : Before(q, p)})

\* The places of n photos are 0..n-1, each taken once.
LEMMA PlacesAreTakenOnce ==
    ASSUME TypeOK, NEW S \in SUBSET Stored
    PROVE /\ IsFiniteSet(S) /\ Cardinality(S) \in Nat
          /\ \A p \in S : Place(S, p) \in 0..(Cardinality(S) - 1)
          /\ \A p, q \in S : Before(p, q) => Place(S, p) < Place(S, q)
          /\ \A p, q \in S : Place(S, p) = Place(S, q) => p = q
          /\ \A i \in 0..(Cardinality(S) - 1) : \E p \in S : Place(S, p) = i
  <1>1. IsFiniteSet(S) /\ Cardinality(S) \in Nat
    BY PhotosAreTyped, FS_Subset, FS_CardinalityType
  <1>2. ASSUME NEW p \in S
        PROVE Place(S, p) \in 0..(Cardinality(S) - 1)
    <2>1. IsFiniteSet(S \ {p}) /\ Cardinality(S \ {p}) = Cardinality(S) - 1
      BY <1>1, FS_RemoveElement
    <2>2. {q \in S : Before(q, p)} \subseteq S \ {p}
      BY BeforeIsAnOrder
    <2>3. IsFiniteSet({q \in S : Before(q, p)})
      BY <1>1, FS_Subset
    <2>4. Place(S, p) \in Nat /\ Place(S, p) =< Cardinality(S) - 1
      BY <2>1, <2>2, <2>3, FS_Subset, FS_CardinalityType DEF Place
    <2>5. QED
      BY <1>1, <2>4
  <1>3. ASSUME NEW p \in S, NEW q \in S, Before(p, q)
        PROVE Place(S, p) < Place(S, q)
    <2>1. IsFiniteSet({r \in S : Before(r, p)}) /\ IsFiniteSet({r \in S : Before(r, q)})
      BY <1>1, FS_Subset
    <2>2. {r \in S : Before(r, p)} \subseteq {r \in S : Before(r, q)}
      BY <1>3, BeforeIsAnOrder
    <2>3. p \in {r \in S : Before(r, q)} /\ p \notin {r \in S : Before(r, p)}
      BY <1>3, BeforeIsAnOrder
    <2>4. /\ Cardinality({r \in S : Before(r, p)}) =< Cardinality({r \in S : Before(r, q)})
          /\ Cardinality({r \in S : Before(r, p)}) # Cardinality({r \in S : Before(r, q)})
      BY <2>1, <2>2, <2>3, FS_Subset
    <2>5. QED
      BY <2>1, <2>4, FS_CardinalityType DEF Place
  <1>4. ASSUME NEW p \in S, NEW q \in S, Place(S, p) = Place(S, q)
        PROVE p = q
    <2>1. Place(S, p) \in Nat
      BY <1>2
    <2>2. ~Before(p, q) /\ ~Before(q, p)
      BY <1>3, <1>4, <2>1
    <2>3. QED
      BY <2>2, BeforeIsAnOrder
  <1>5. ASSUME NEW i \in 0..(Cardinality(S) - 1)
        PROVE \E p \in S : Place(S, p) = i
    <2> DEFINE T == 0..(Cardinality(S) - 1)
               f == [p \in S |-> Place(S, p)]
    <2>1. f \in Injection(S, T)
      BY <1>2, <1>4 DEF Injection, IsInjective
    <2>2. IsFiniteSet(T) /\ Cardinality(T) = Cardinality(S)
      BY <1>1, FS_Interval
    <2>3. f \in Surjection(S, T)
      <3> HIDE DEF f, T
      <3> QED
        BY <2>1, <2>2, FS_Injection
    <2>4. QED
      BY <2>3 DEF Surjection
  <1>6. QED
    BY <1>1, <1>2, <1>3, <1>4, <1>5

\* Ordered lists the photos of the set, each once, in order.
LEMMA OrderedListsAll ==
    ASSUME TypeOK, NEW S \in SUBSET Stored
    PROVE /\ Ordered(S) \in Seq([id : Nat, order : Nat])
          /\ Len(Ordered(S)) = Cardinality(S) /\ DOMAIN Ordered(S) = 1..Cardinality(S)
          /\ \A i \in 1..Cardinality(S) :
                /\ Ordered(S)[i].id \in S /\ Place(S, Ordered(S)[i].id) = i - 1
                /\ Ordered(S)[i].order = photos[Ordered(S)[i].id].order
          /\ \A p \in S : \E i \in 1..Cardinality(S) : Ordered(S)[i].id = p
  <1> DEFINE n == Cardinality(S)
  <1>1. n \in Nat
    BY PlacesAreTakenOnce
  <1>2. ASSUME NEW i \in 1..n
        PROVE PhotoAt(S, i) \in S /\ Place(S, PhotoAt(S, i)) = i - 1
    <2>1. i - 1 \in 0..(n - 1)
      BY <1>1
    <2>2. \E p \in S : Place(S, p) = i - 1
      BY <2>1, PlacesAreTakenOnce
    <2>3. QED
      BY <2>2 DEF PhotoAt, Place
  <1>3. \A i \in 1..n : PhotoAt(S, i) \in Nat /\ photos[PhotoAt(S, i)].order \in Nat
    BY <1>2, PhotosAreTyped
  <1>4. /\ DOMAIN Ordered(S) = 1..n
        /\ \A i \in 1..n : /\ Ordered(S)[i].id = PhotoAt(S, i)
                           /\ Ordered(S)[i].order = photos[PhotoAt(S, i)].order
                           /\ Ordered(S)[i] \in [id : Nat, order : Nat]
    BY <1>3 DEF Ordered
  <1>5. Ordered(S) \in [1..n -> [id : Nat, order : Nat]]
    BY <1>3 DEF Ordered
  <1>6. Ordered(S) \in Seq([id : Nat, order : Nat]) /\ Len(Ordered(S)) = n
    BY <1>1, <1>5, FunctionIsASeq
  <1>8. ASSUME NEW p \in S
        PROVE \E i \in 1..n : Ordered(S)[i].id = p
    <2>1. Place(S, p) \in 0..(n - 1)
      BY PlacesAreTakenOnce
    <2>2. Place(S, p) + 1 \in 1..n /\ (Place(S, p) + 1) - 1 = Place(S, p)
      BY <1>1, <2>1
    <2>3. Place(S, PhotoAt(S, Place(S, p) + 1)) = Place(S, p)
      BY <1>2, <2>2
    <2>4. PhotoAt(S, Place(S, p) + 1) = p
      BY <1>2, <2>2, <2>3, PlacesAreTakenOnce
    <2>5. QED
      BY <1>4, <2>2, <2>4
  <1>9. QED
    BY <1>2, <1>4, <1>6, <1>8

-----------------------------------------------------------------------------
(* Rows and requests.                                                      *)

\* Each photo of a dish has one of its MAX_ITEM_PHOTOS places to itself.
LEMMA PhotosAreFew ==
    ASSUME TypeOK, RowsSound, NEW d
    PROVE /\ IsFiniteSet(PhotosOf(d)) /\ Cardinality(PhotosOf(d)) \in Nat
          /\ Cardinality(PhotosOf(d)) =< MaxItemPhotos
  <1> DEFINE places == 0..(MaxItemPhotos - 1)
             f == [p \in PhotosOf(d) |-> photos[p].order]
  <1>1. MaxItemPhotos \in Nat \ {0}
    BY NumbersAssumption
  <1>2. ASSUME NEW p \in PhotosOf(d)
        PROVE photos[p].order \in places
    BY <1>1, PhotosAreTyped DEF PhotosOf, RowsSound
  <1>3. f \in Injection(PhotosOf(d), places)
    BY <1>2 DEF Injection, IsInjective, PhotosOf, RowsSound
  <1>4. IsFiniteSet(places) /\ Cardinality(places) = MaxItemPhotos
    BY <1>1, FS_Interval
  <1>5. IsFiniteSet(PhotosOf(d)) /\ Cardinality(PhotosOf(d)) =< Cardinality(places)
    <2> HIDE DEF f, places
    <2> QED
      BY <1>3, <1>4, FS_Injection
  <1>6. QED
    BY <1>4, <1>5, FS_CardinalityType

\* ... and without one of them there is room.
LEMMA OneLessIsFewer ==
    ASSUME TypeOK, RowsSound, NEW d, NEW p \in PhotosOf(d)
    PROVE Cardinality(PhotosOf(d) \ {p}) < MaxItemPhotos
  <1>1. Cardinality(PhotosOf(d) \ {p}) = Cardinality(PhotosOf(d)) - 1
    BY PhotosAreFew, FS_RemoveElement
  <1>2. QED
    BY <1>1, PhotosAreFew, NumbersAssumption

\* Rows are deleted and changed, and rows come at the end: what a request knows
\* of dishes and photos stays true.
RowsStay == /\ DOMAIN dishes \subseteq DOMAIN dishes'
            /\ DOMAIN photos \subseteq DOMAIN photos'
            /\ \A p \in DOMAIN photos :
                  p \in Stored' => p \in Stored /\ photos'[p].dish = photos[p].dish

\* The types but those of the requests.
RowsTyped == /\ owned \in SUBSET Slugs
             /\ categories \in Seq(Names \cup {Gone})
             /\ dishes \in Seq(DishRows \cup {Gone})
             /\ photos \in Seq(PhotoRows \cup {Gone})
             /\ overlapped \in BOOLEAN
             /\ faults \in 0..MaxFaults

\* A request that stays as it is has what it needs still.
LEMMA SoundStep ==
    ASSUME Sound, RowsTyped', RowsSound', RowsStay, reqs' \in [Reqs -> Work],
           \A g \in Reqs : reqs'[g] = reqs[g] \/ WorkSound(reqs[g])'
    PROVE Sound'
  <1>1. TypeOK'
    BY DEF RowsTyped, TypeOK
  <1>2. ASSUME NEW g \in Reqs
        PROVE WorkSound(reqs[g])'
    <2>1. WorkSound(reqs[g])
      BY DEF Sound, RequestsSound
    <2>2. CASE reqs'[g] = reqs[g]
      <3>1. reqs[g].left \in Seq([id : Nat, order : Nat])
        BY RequestIsTyped DEF Sound
      <3>2. QED
        BY <2>1, <2>2, <3>1 DEF WorkSound, RowsStay, IsOf
    <2>3. QED
      BY <2>2
  <1>3. QED
    BY <1>1, <1>2 DEF Sound, RequestsSound

\* A step of one request.
LEMMA SoundRequestStep ==
    ASSUME Sound, RowsTyped', RowsSound', RowsStay,
           NEW h \in Reqs, NEW work \in Work, Go(h, work), WorkSound(work)'
    PROVE Sound'
  <1>1. /\ reqs' \in [Reqs -> Work] /\ reqs'[h] = work
        /\ \A g \in Reqs : g # h => reqs'[g] = reqs[g]
    BY GoChangesOne DEF Sound
  <1>2. \A g \in Reqs : reqs'[g] = reqs[g] \/ WorkSound(reqs[g])'
    BY <1>1 DEF WorkSound
  <1>3. QED
    BY <1>1, <1>2, SoundStep

\* A free slot needs nothing.
LEMMA IdleIsSound == WorkSound(Idle)'
  BY DEF WorkSound, Idle

\* A step that writes no row.
LEMMA SoundCheckStep ==
    ASSUME Sound, UNCHANGED <<owned, categories, dishes, photos>>,
           overlapped' \in BOOLEAN, faults' \in 0..MaxFaults,
           NEW h \in Reqs, NEW work \in Work, Go(h, work), WorkSound(work)
    PROVE Sound'
  <1>1. RowsTyped' /\ RowsSound'
    BY DEF Sound, TypeOK, RowsTyped, RowsSound, Kept, OnMenu, Stored
  <1>2. RowsStay /\ WorkSound(work)'
    BY DEF RowsStay, Stored, WorkSound, IsOf
  <1>3. QED
    BY <1>1, <1>2, SoundRequestStep

-----------------------------------------------------------------------------
(* Restaurants and cuisine types.                                          *)

\* Nothing but the restaurants changes.
LEMMA OwnedStep ==
    ASSUME Sound, UNCHANGED <<Rows, Photos, faults>>, owned' \in SUBSET Slugs
    PROVE RowsTyped' /\ RowsSound' /\ RowsStay
  BY DEF Sound, TypeOK, RowsTyped, RowsSound, RowsStay, Kept, OnMenu, Stored, Rows, Photos

\* Checks of a restaurant.
LEMMA SoundRestaurantCheck ==
    ASSUME Sound, NEW h \in Reqs, NEW s \in Slugs, RestaurantCheck(h, s)
    PROVE Sound'
  <1>1. PICK work : work = [Idle EXCEPT !.pc = "restaurant", !.slug = s]
    OBVIOUS
  <1>2. work \in Work /\ WorkSound(work)
    BY <1>1, IdleIsTyped, SetsAssumption DEF Idle, Work, Steps, WorkSound
  <1>3. QED
    BY <1>1, <1>2, SoundCheckStep DEF RestaurantCheck, Sound, TypeOK, Rows, Photos

\* Creating a restaurant.
LEMMA SoundRestaurantCreate ==
    ASSUME Sound, NEW h \in Reqs, RestaurantCreate(h)
    PROVE Sound'
  <1>1. reqs[h].slug \in Slugs
    BY RequestIsTyped DEF Sound, RequestsSound, WorkSound, RestaurantCreate, At
  <1>2. RowsTyped' /\ RowsSound' /\ RowsStay
    BY <1>1, OwnedStep DEF RestaurantCreate, Sound, TypeOK
  <1>3. QED
    BY <1>2, IdleIsTyped, IdleIsSound, SoundRequestStep DEF RestaurantCreate, Quit

\* Renaming or removing one.
LEMMA SoundRestaurantOther ==
    ASSUME Sound, NEW s \in Slugs, NEW slug \in Slugs,
           RestaurantEdit(s, slug) \/ RestaurantRemove(s)
    PROVE Sound'
  <1>1. RowsTyped' /\ RowsSound' /\ RowsStay
    BY OwnedStep DEF RestaurantEdit, RestaurantRemove, Sound, TypeOK
  <1>2. QED
    BY <1>1, SoundStep DEF RestaurantEdit, RestaurantRemove, Sound, TypeOK

\* Looking up the name of a new cuisine type.
LEMMA SoundCategoryCheck ==
    ASSUME Sound, NEW h \in Reqs, NEW name \in Names, CategoryCheck(h, name)
    PROVE Sound'
  <1>1. name # None
    BY CategoriesAreTyped, DishesAreTyped, SetsAssumption DEF Sound, Kept
  <1>2. PICK work : work = [Idle EXCEPT !.pc = "category", !.name = name]
    OBVIOUS
  <1>3. work \in Work
    BY <1>1, <1>2, IdleIsTyped DEF Idle, Work, Steps
  <1>4. WorkSound(work)
    BY <1>1, <1>2 DEF Idle, WorkSound
  <1>5. UNCHANGED <<owned, categories, dishes, photos, overlapped, faults>>
    BY DEF CategoryCheck, Rows, Photos
  <1>6. QED
    BY <1>2, <1>3, <1>4, <1>5, SoundCheckStep DEF CategoryCheck, Sound, TypeOK

\* ... of one that is renamed.
LEMMA SoundCategoryRenameCheck ==
    ASSUME Sound, NEW h \in Reqs, NEW name \in Names, NEW c \in DOMAIN categories,
           CategoryRenameCheck(h, c, name)
    PROVE Sound'
  <1>1. c \in Nat /\ name # None
    BY CategoriesAreTyped, DishesAreTyped, SetsAssumption DEF Sound, Kept
  <1>2. PICK work : work = [Idle EXCEPT !.pc = "rename", !.category = c, !.name = name]
    OBVIOUS
  <1>3. work \in Work
    BY <1>1, <1>2, IdleIsTyped DEF Idle, Work, Steps
  <1>4. WorkSound(work)
    BY <1>1, <1>2 DEF Idle, WorkSound
  <1>5. UNCHANGED <<owned, categories, dishes, photos, overlapped, faults>>
    BY DEF CategoryRenameCheck, Rows, Photos
  <1>6. QED
    BY <1>2, <1>3, <1>4, <1>5, SoundCheckStep DEF CategoryRenameCheck, Sound, TypeOK

\* Looking up the dishes of one that is removed.
LEMMA SoundCategoryRemoveCheck ==
    ASSUME Sound, NEW h \in Reqs, NEW c \in DOMAIN categories, CategoryRemoveCheck(h, c)
    PROVE Sound'
  <1>1. c \in Nat
    BY CategoriesAreTyped, DishesAreTyped, SetsAssumption DEF Sound, Kept
  <1>2. PICK work : work = [Idle EXCEPT !.pc = "dropCategory", !.category = c]
    OBVIOUS
  <1>3. work \in Work
    BY <1>1, <1>2, IdleIsTyped DEF Idle, Work, Steps
  <1>4. WorkSound(work)
    BY <1>1, <1>2 DEF Idle, WorkSound
  <1>5. UNCHANGED <<owned, categories, dishes, photos, overlapped, faults>>
    BY DEF CategoryRemoveCheck, Rows, Photos
  <1>6. QED
    BY <1>2, <1>3, <1>4, <1>5, SoundCheckStep DEF CategoryRemoveCheck, Sound, TypeOK

\* The write of a cuisine type.
LEMMA CategoryStep ==
    ASSUME Sound, UNCHANGED <<owned, dishes, Photos, faults>>,
           categories' \in Seq(Names \cup {Gone}),
           \A b, c \in Kept' : categories'[b] = categories'[c] => b = c,
           \A d \in OnMenu : dishes[d].category \in Kept',
           NEW h \in Reqs, Quit(h)
    PROVE Sound'
  <1>1. RowsTyped'
    BY DEF RowsTyped, Sound, TypeOK, Photos
  <1>2. RowsSound'
    BY DEF RowsSound, Sound, OnMenu, Stored, Photos
  <1>3. RowsStay
    BY DEF RowsStay, Stored, Photos
  <1>4. QED
    BY <1>1, <1>2, <1>3, IdleIsTyped, IdleIsSound, SoundRequestStep DEF Quit

\* Creating one: the index lets no other of its name be there.
LEMMA SoundCategoryCreate ==
    ASSUME Sound, NEW h \in Reqs, CategoryCreate(h)
    PROVE Sound'
  <1> DEFINE name == reqs[h].name
  <1>1. TypeOK /\ RowsSound
    BY DEF Sound
  <1>2. name \in Names
    BY <1>1, RequestIsTyped DEF Sound, RequestsSound, WorkSound, CategoryCreate, At
  <1>3. CASE categories' = Append(categories, name) /\ UniqueName(name, 0)
    <2>1. /\ categories' \in Seq(Names \cup {Gone})
          /\ Len(categories') = Len(categories) + 1
          /\ categories'[Len(categories) + 1] = name
          /\ \A c \in 1..Len(categories) : categories'[c] = categories[c]
          /\ DOMAIN categories' = 1..(Len(categories) + 1)
      BY <1>1, <1>2, <1>3, CategoriesAreTyped, AppendProperties, LenProperties
    <2>2. name # Gone
      BY <1>2, SetsAssumption
    <2>3. Kept' = Kept \cup {Len(categories) + 1}
      BY <1>1, <2>1, <2>2, CategoriesAreTyped DEF Kept
    <2>4. \A c \in Kept : categories[c] # name
      BY <1>1, <1>3, CategoriesAreTyped DEF UniqueName, CategoriesNamed
    <2>5. \A b, c \in Kept' : categories'[b] = categories'[c] => b = c
      <3>1. \A c \in Kept : categories'[c] = categories[c]
        BY <1>1, <2>1, CategoriesAreTyped DEF Kept
      <3>2. \A b, c \in Kept : categories[b] = categories[c] => b = c
        BY <1>1 DEF RowsSound
      <3>3. QED
        BY <2>1, <2>3, <2>4, <3>1, <3>2
    <2>6. \A d \in OnMenu : dishes[d].category \in Kept'
      BY <1>1, <2>3 DEF RowsSound
    <2>7. QED
      BY <2>1, <2>5, <2>6, CategoryStep DEF CategoryCreate
  <1>4. CASE categories' = categories
    BY <1>1, <1>4, CategoryStep DEF CategoryCreate, RowsSound, TypeOK, Kept
  <1>5. QED
    BY <1>3, <1>4 DEF CategoryCreate

\* Renaming one.
LEMMA SoundCategoryRename ==
    ASSUME Sound, NEW h \in Reqs, CategoryRename(h)
    PROVE Sound'
  <1> DEFINE name == reqs[h].name
             c == reqs[h].category
  <1>1. TypeOK /\ RowsSound
    BY DEF Sound
  <1>2. name \in Names
    BY <1>1, RequestIsTyped DEF Sound, RequestsSound, WorkSound, CategoryRename, At
  <1>3. CASE /\ categories' = [categories EXCEPT ![c] = name]
             /\ c \in Kept /\ UniqueName(name, c)
    <2>1. c \in 1..Len(categories) /\ name \in Names \cup {Gone}
      BY <1>1, <1>2, <1>3, CategoriesAreTyped DEF Kept
    <2>2. /\ categories' \in Seq(Names \cup {Gone})
          /\ DOMAIN categories' = DOMAIN categories
          /\ \A b \in DOMAIN categories : categories'[b] = IF b = c THEN name ELSE categories[b]
      BY <1>1, <1>3, <2>1, CategoriesAreTyped, ExceptSeq
    <2>3. name # Gone
      BY <1>2, SetsAssumption
    <2>4. Kept' = Kept
      BY <1>3, <2>2, <2>3 DEF Kept
    <2>5. \A b \in Kept : b # c => categories[b] # name
      BY <1>3 DEF UniqueName, CategoriesNamed
    <2>6. \A a, b \in Kept' : categories'[a] = categories'[b] => a = b
      <3>1. \A b \in Kept : categories'[b] = IF b = c THEN name ELSE categories[b]
        BY <2>2 DEF Kept
      <3>2. \A a, b \in Kept : categories[a] = categories[b] => a = b
        BY <1>1 DEF RowsSound
      <3>3. QED
        BY <2>4, <2>5, <3>1, <3>2
    <2>7. \A d \in OnMenu : dishes[d].category \in Kept'
      BY <1>1, <2>4 DEF RowsSound
    <2>8. QED
      BY <2>2, <2>6, <2>7, CategoryStep DEF CategoryRename
  <1>4. CASE categories' = categories
    BY <1>1, <1>4, CategoryStep DEF CategoryRename, RowsSound, TypeOK, Kept
  <1>5. QED
    BY <1>3, <1>4 DEF CategoryRename

\* Removing one: no dish uses it.
LEMMA SoundCategoryRemove ==
    ASSUME Sound, NEW h \in Reqs, CategoryRemove(h)
    PROVE Sound'
  <1> DEFINE c == reqs[h].category
  <1>1. TypeOK /\ RowsSound
    BY DEF Sound
  <1>2. CASE /\ categories' = [categories EXCEPT ![c] = Gone]
             /\ c \in Kept /\ ~Restricts(c)
    <2>1. c \in 1..Len(categories)
      BY <1>1, <1>2, CategoriesAreTyped DEF Kept
    <2>2. /\ categories' \in Seq(Names \cup {Gone})
          /\ DOMAIN categories' = DOMAIN categories
          /\ \A b \in DOMAIN categories : categories'[b] = IF b = c THEN Gone ELSE categories[b]
      BY <1>1, <1>2, <2>1, CategoriesAreTyped, ExceptSeq
    <2>3. Kept' = Kept \ {c}
      BY <1>2, <2>2 DEF Kept
    <2>4. \A a, b \in Kept' : categories'[a] = categories'[b] => a = b
      <3>1. \A b \in Kept' : b \in Kept /\ categories'[b] = categories[b]
        BY <2>2, <2>3 DEF Kept
      <3>2. QED
        BY <1>1, <3>1 DEF RowsSound
    <2>5. \A d \in OnMenu : dishes[d].category \in Kept'
      BY <1>1, <1>2, <2>3 DEF RowsSound, Restricts, DishesOf
    <2>6. QED
      BY <2>2, <2>4, <2>5, CategoryStep DEF CategoryRemove
  <1>3. CASE categories' = categories
    BY <1>1, <1>3, CategoryStep DEF CategoryRemove, RowsSound, TypeOK, Kept
  <1>4. QED
    BY <1>2, <1>3 DEF CategoryRemove

-----------------------------------------------------------------------------
(* Dishes.                                                                 *)

\* Looking up the name and the plan's limit for a new dish.
LEMMA SoundDishCheck ==
    ASSUME Sound, NEW h \in Reqs, NEW name \in Names, NEW c \in DOMAIN categories,
           DishCheck(h, name, c)
    PROVE Sound'
  <1>1. c \in Nat /\ name # None
    BY CategoriesAreTyped, DishesAreTyped, SetsAssumption DEF Sound, Kept
  <1>2. PICK work : work = [Idle EXCEPT !.pc = "dish", !.name = name, !.category = c]
    OBVIOUS
  <1>3. work \in Work
    BY <1>1, <1>2, IdleIsTyped DEF Idle, Work, Steps
  <1>4. WorkSound(work)
    BY <1>1, <1>2 DEF Idle, WorkSound
  <1>5. UNCHANGED <<owned, categories, dishes, photos, overlapped, faults>>
    BY DEF DishCheck, Rows, Photos
  <1>6. QED
    BY <1>2, <1>3, <1>4, <1>5, SoundCheckStep DEF DishCheck, Sound, TypeOK

\* Looking up the name for a dish that is edited.
LEMMA SoundDishEditCheck ==
    ASSUME Sound, NEW h \in Reqs, NEW d \in DOMAIN dishes, NEW name \in Names \cup {None},
           NEW c \in 0..Len(categories), DishEditCheck(h, d, name, c)
    PROVE Sound'
  <1>1. c \in Nat /\ d \in Nat
    BY CategoriesAreTyped, DishesAreTyped, SetsAssumption DEF Sound, Kept
  <1>2. PICK work : work = [Idle EXCEPT !.pc = "edit", !.dish = d, !.name = name,
                                        !.category = c]
    OBVIOUS
  <1>3. work \in Work
    BY <1>1, <1>2, IdleIsTyped DEF Idle, Work, Steps
  <1>4. WorkSound(work)
    BY <1>1, <1>2 DEF Idle, WorkSound
  <1>5. UNCHANGED <<owned, categories, dishes, photos, overlapped, faults>>
    BY DEF DishEditCheck, Rows, Photos
  <1>6. QED
    BY <1>2, <1>3, <1>4, <1>5, SoundCheckStep DEF DishEditCheck, Sound, TypeOK

\* The write of a dish.
LEMMA DishStep ==
    ASSUME Sound, UNCHANGED <<owned, categories, Photos, faults>>,
           dishes' \in Seq(DishRows \cup {Gone}),
           DOMAIN dishes \subseteq DOMAIN dishes',
           \A d \in OnMenu' : dishes'[d].category \in Kept,
           NEW h \in Reqs, Quit(h)
    PROVE Sound'
  <1>1. RowsTyped'
    BY DEF RowsTyped, Sound, TypeOK, Photos
  <1>2. RowsSound'
    BY DEF RowsSound, Sound, Kept, Stored, Photos
  <1>3. RowsStay
    BY DEF RowsStay, Stored, Photos
  <1>4. QED
    BY <1>1, <1>2, <1>3, IdleIsTyped, IdleIsSound, SoundRequestStep DEF Quit

\* A write that is refused.
LEMMA NoDishStep ==
    ASSUME Sound, UNCHANGED <<owned, categories, dishes, Photos, faults>>,
           NEW h \in Reqs, Quit(h)
    PROVE Sound'
  BY DishStep DEF Sound, TypeOK, RowsSound, OnMenu, Kept

\* Creating a dish: one row more.
LEMMA NewDish ==
    ASSUME TypeOK, NEW row \in DishRows, dishes' = Append(dishes, row)
    PROVE /\ dishes' \in Seq(DishRows \cup {Gone})
          /\ DOMAIN dishes \subseteq DOMAIN dishes'
          /\ OnMenu' = OnMenu \cup {Len(dishes) + 1}
          /\ Len(dishes) + 1 \notin OnMenu
          /\ dishes'[Len(dishes) + 1] = row
          /\ \A d \in OnMenu : dishes'[d] = dishes[d]
  <1>1. /\ dishes' \in Seq(DishRows \cup {Gone})
        /\ Len(dishes') = Len(dishes) + 1
        /\ dishes'[Len(dishes) + 1] = row
        /\ \A d \in 1..Len(dishes) : dishes'[d] = dishes[d]
        /\ DOMAIN dishes' = 1..(Len(dishes) + 1)
    BY DishesAreTyped, AppendProperties, LenProperties
  <1>2. row # Gone
    BY GoneAssumption
  <1>3. QED
    BY <1>1, <1>2, DishesAreTyped DEF OnMenu

\* What a request creates is a row.
LEMMA CreatedIsARow ==
    ASSUME Sound, NEW h \in Reqs, At(h, "dish")
    PROVE [name |-> reqs[h].name, category |-> reqs[h].category, photoUrl |-> 0] \in DishRows
  BY RequestIsTyped DEF Sound, RequestsSound, WorkSound, At, DishRows

\* A dish is made only if its cuisine type is there.
LEMMA SoundDishCreate ==
    ASSUME Sound, NEW h \in Reqs, DishCreate(h)
    PROVE Sound'
  <1>1. PICK row : row = [name |-> reqs[h].name, category |-> reqs[h].category, photoUrl |-> 0]
    OBVIOUS
  <1>2. row \in DishRows
    BY <1>1, CreatedIsARow DEF DishCreate
  <1>3. CASE row.category \in Kept /\ dishes' = Append(dishes, row)
    <2>1. \A d \in OnMenu' : dishes'[d].category \in Kept
      BY <1>2, <1>3, NewDish DEF Sound, RowsSound
    <2>2. QED
      BY <1>2, <1>3, <2>1, NewDish, DishStep DEF DishCreate, Sound
  <1>4. CASE dishes' = dishes
    BY <1>4, NoDishStep DEF DishCreate
  <1>5. QED
    BY <1>1, <1>3, <1>4 DEF DishCreate

\* Changing a dish that is on the menu: the rows stay where they are.
LEMMA ChangedDish ==
    ASSUME TypeOK, NEW d \in OnMenu, NEW row \in DishRows, dishes' = [dishes EXCEPT ![d] = row]
    PROVE /\ dishes' \in Seq(DishRows \cup {Gone})
          /\ DOMAIN dishes' = DOMAIN dishes
          /\ OnMenu' = OnMenu
          /\ \A e \in DOMAIN dishes : dishes'[e] = IF e = d THEN row ELSE dishes[e]
  <1>1. d \in 1..Len(dishes) /\ row \in DishRows \cup {Gone}
    BY DishesAreTyped
  <1>2. /\ dishes' \in Seq(DishRows \cup {Gone})
        /\ DOMAIN dishes' = DOMAIN dishes
        /\ \A e \in DOMAIN dishes : dishes'[e] = IF e = d THEN row ELSE dishes[e]
    BY <1>1, DishesAreTyped, ExceptSeq
  <1>3. row # Gone
    BY GoneAssumption
  <1>4. QED
    BY <1>2, <1>3 DEF OnMenu

\* The row an edit writes.
Edited(row, name, c) == [row EXCEPT !.name = IF name = None THEN @ ELSE name,
                                    !.category = IF c = 0 THEN @ ELSE c]

\* What an edit makes of a row is a row.
LEMMA EditedIsARow ==
    ASSUME NEW row \in DishRows, NEW name \in Names \cup {None}, NEW c \in Nat
    PROVE /\ Edited(row, name, c) \in DishRows
          /\ Edited(row, name, c).name = IF name = None THEN row.name ELSE name
          /\ Edited(row, name, c).category = IF c = 0 THEN row.category ELSE c
          /\ Edited(row, name, c).photoUrl = row.photoUrl
  BY DEF Edited, DishRows

\* An edit writes that row.
LEMMA EditWritesARow ==
    ASSUME TypeOK, NEW h \in Reqs, DishEdit(h)
    PROVE \/ dishes' = dishes
          \/ /\ reqs[h].dish \in OnMenu /\ reqs[h].category \in Kept \cup {0}
             /\ dishes' = [dishes EXCEPT ![reqs[h].dish] =
                             Edited(dishes[reqs[h].dish], reqs[h].name, reqs[h].category)]
  <1>1. SUFFICES ASSUME reqs[h].dish \in OnMenu, reqs[h].category \in Kept \cup {0}
                 PROVE dishes' = [dishes EXCEPT ![reqs[h].dish] =
                             Edited(dishes[reqs[h].dish], reqs[h].name, reqs[h].category)]
    BY DEF DishEdit
  <1>2. dishes[reqs[h].dish] \in DishRows /\ reqs[h].dish \in DOMAIN dishes
    BY <1>1, DishesAreTyped
  <1>3. PICK d, name, c : d = reqs[h].dish /\ name = reqs[h].name /\ c = reqs[h].category
    OBVIOUS
  <1>4. dishes' = [dishes EXCEPT ![d].name = IF name = None THEN @ ELSE name,
                                 ![d].category = IF c = 0 THEN @ ELSE c]
    BY <1>1, <1>3 DEF DishEdit
  <1>5. dishes' = [dishes EXCEPT ![d] = Edited(dishes[d], name, c)]
    BY <1>2, <1>3, <1>4 DEF Edited, DishRows
  <1>6. QED
    BY <1>3, <1>5

\* A dish keeps a cuisine type that is there.
LEMMA SoundDishEdit ==
    ASSUME Sound, NEW h \in Reqs, DishEdit(h)
    PROVE Sound'
  <1>1. CASE dishes' = dishes
    BY <1>1, NoDishStep DEF DishEdit
  <1>2. CASE /\ reqs[h].dish \in OnMenu /\ reqs[h].category \in Kept \cup {0}
             /\ dishes' = [dishes EXCEPT ![reqs[h].dish] =
                             Edited(dishes[reqs[h].dish], reqs[h].name, reqs[h].category)]
    <2>1. PICK d, row : /\ d = reqs[h].dish
                        /\ row = Edited(dishes[d], reqs[h].name, reqs[h].category)
      OBVIOUS
    <2>2. /\ dishes[d] \in DishRows
          /\ reqs[h].name \in Names \cup {None} /\ reqs[h].category \in Nat
      BY <1>2, <2>1, DishesAreTyped, RequestIsTyped DEF Sound
    <2>3. /\ row \in DishRows
          /\ row.category = IF reqs[h].category = 0 THEN dishes[d].category ELSE reqs[h].category
      BY <2>1, <2>2, EditedIsARow
    <2>4. row.category \in Kept
      BY <1>2, <2>1, <2>3 DEF Sound, RowsSound
    <2>5. /\ dishes' \in Seq(DishRows \cup {Gone})
          /\ DOMAIN dishes' = DOMAIN dishes
          /\ OnMenu' = OnMenu
          /\ \A e \in DOMAIN dishes : dishes'[e] = IF e = d THEN row ELSE dishes[e]
      BY <1>2, <2>1, <2>3, ChangedDish DEF Sound
    <2>6. \A e \in OnMenu' : dishes'[e].category \in Kept
      BY <2>4, <2>5 DEF Sound, RowsSound, OnMenu
    <2>7. QED
      BY <2>5, <2>6, DishStep DEF DishEdit
  <1>3. QED
    BY <1>1, <1>2, EditWritesARow DEF Sound

\* A write of the display photo.
LEMMA SoundPhotoUrl ==
    ASSUME Sound, UNCHANGED <<owned, categories, Photos, faults>>,
           NEW d \in OnMenu, NEW p \in Nat, dishes' = [dishes EXCEPT ![d].photoUrl = p],
           NEW h \in Reqs, Quit(h)
    PROVE Sound'
  <1>1. dishes[d] \in DishRows /\ d \in DOMAIN dishes
    BY DishesAreTyped DEF Sound
  <1>2. PICK row : row = [dishes[d] EXCEPT !.photoUrl = p]
    OBVIOUS
  <1>3. row \in DishRows /\ row.category = dishes[d].category
    BY <1>1, <1>2 DEF DishRows
  <1>4. dishes' = [dishes EXCEPT ![d] = row]
    BY <1>2
  <1>5. /\ dishes' \in Seq(DishRows \cup {Gone})
        /\ DOMAIN dishes' = DOMAIN dishes
        /\ OnMenu' = OnMenu
        /\ \A e \in DOMAIN dishes : dishes'[e] = IF e = d THEN row ELSE dishes[e]
    BY <1>3, <1>4, ChangedDish DEF Sound
  <1>6. \A e \in OnMenu' : dishes'[e].category \in Kept
    BY <1>3, <1>5 DEF Sound, RowsSound, OnMenu
  <1>7. QED
    BY <1>5, <1>6, DishStep

\* The display photo after an upload.
LEMMA SoundAddUpdate ==
    ASSUME Sound, NEW h \in Reqs, AddUpdate(h)
    PROVE Sound'
  <1>1. CASE dishes' = dishes
    BY <1>1, NoDishStep DEF AddUpdate
  <1>2. CASE /\ reqs[h].dish \in OnMenu
             /\ dishes' = [dishes EXCEPT ![reqs[h].dish].photoUrl = reqs[h].photo]
    BY <1>2, SoundPhotoUrl, RequestIsTyped DEF AddUpdate, Sound
  <1>3. QED
    BY <1>1, <1>2 DEF AddUpdate

\* The display photo a removal leaves is a photo or none.
LEMMA NewPhotoUrlIsTyped ==
    ASSUME TypeOK, NEW h \in Reqs, NEW d
    PROVE NewPhotoUrl(d, reqs[h].left) \in Nat
  <1>1. CASE reqs[h].left = <<>>
    BY <1>1 DEF NewPhotoUrl
  <1>2. CASE reqs[h].left # <<>>
    <2>1. Len(reqs[h].left) \in Nat \ {0}
      BY <1>2, RequestIsTyped, EmptySeq
    <2>2. reqs[h].left[1] \in [id : Nat, order : Nat]
      <3>1. 1 \in 1..Len(reqs[h].left)
        BY <2>1
      <3>2. QED
        BY <3>1, RequestIsTyped, ElementOfSeq
    <2>3. QED
      BY <1>2, <2>2 DEF NewPhotoUrl
  <1>3. QED
    BY <1>1, <1>2

\* The display photo after a removal.
LEMMA SoundRemoveUpdate ==
    ASSUME Sound, NEW h \in Reqs, RemoveUpdate(h)
    PROVE Sound'
  <1>1. CASE dishes' = dishes
    BY <1>1, NoDishStep DEF RemoveUpdate
  <1>2. CASE /\ reqs[h].dish \in OnMenu
             /\ dishes' = [dishes EXCEPT ![reqs[h].dish].photoUrl =
                             NewPhotoUrl(reqs[h].dish, reqs[h].left)]
    BY <1>2, SoundPhotoUrl, NewPhotoUrlIsTyped DEF RemoveUpdate, Sound
  <1>3. QED
    BY <1>1, <1>2 DEF RemoveUpdate

\* A dish that is deleted takes its photos with it and no others.
LEMMA RemovedDish ==
    ASSUME TypeOK, NEW d \in OnMenu, DishRemove(d)
    PROVE /\ dishes' \in Seq(DishRows \cup {Gone}) /\ DOMAIN dishes' = DOMAIN dishes
          /\ OnMenu' = OnMenu \ {d}
          /\ \A e \in OnMenu' : dishes'[e] = dishes[e]
          /\ photos' \in Seq(PhotoRows \cup {Gone}) /\ DOMAIN photos' = DOMAIN photos
          /\ Stored' = Stored \ PhotosOf(d)
          /\ \A p \in Stored' : photos'[p] = photos[p]
  <1>1. d \in 1..Len(dishes)
    BY DishesAreTyped
  <1>2. /\ dishes' \in Seq(DishRows \cup {Gone}) /\ DOMAIN dishes' = DOMAIN dishes
        /\ \A e \in DOMAIN dishes : dishes'[e] = IF e = d THEN Gone ELSE dishes[e]
    BY <1>1, DishesAreTyped, ExceptSeq DEF DishRemove
  <1>3. photos' \in [1..Len(photos) -> PhotoRows \cup {Gone}]
    BY PhotosAreTyped DEF DishRemove
  <1>4. /\ photos' \in Seq(PhotoRows \cup {Gone}) /\ DOMAIN photos' = DOMAIN photos
        /\ \A p \in DOMAIN photos : photos'[p] = IF p \in PhotosOf(d) THEN Gone ELSE photos[p]
    BY <1>3, PhotosAreTyped, FunctionIsASeq DEF DishRemove
  <1>5. QED
    BY <1>2, <1>4 DEF OnMenu, Stored

\* A dish takes its photos with it: none is left without its dish.
LEMMA SoundDishRemove ==
    ASSUME Sound, NEW d \in OnMenu, DishRemove(d)
    PROVE Sound'
  <1>1. /\ dishes' \in Seq(DishRows \cup {Gone}) /\ DOMAIN dishes' = DOMAIN dishes
        /\ OnMenu' \subseteq OnMenu
        /\ \A e \in OnMenu' : dishes'[e] = dishes[e]
        /\ photos' \in Seq(PhotoRows \cup {Gone}) /\ DOMAIN photos' = DOMAIN photos
        /\ Stored' \subseteq Stored
        /\ \A p \in Stored' : photos'[p] = photos[p]
    BY RemovedDish DEF Sound
  <1>2. RowsTyped'
    BY <1>1 DEF RowsTyped, Sound, TypeOK, DishRemove
  <1>3. RowsSound'
    <2>1. Kept' = Kept /\ \A b \in Kept : categories'[b] = categories[b]
      BY DEF DishRemove, Kept
    <2>2. \A p, q \in Stored' : photos'[p].dish = photos'[q].dish
                                  /\ photos'[p].order = photos'[q].order => p = q
      BY <1>1 DEF RowsSound, Sound
    <2>3. \A p \in Stored' : photos'[p].dish \in DOMAIN dishes' /\ photos'[p].order < MaxItemPhotos
      BY <1>1 DEF RowsSound, Sound
    <2>4. \A e \in OnMenu' : dishes'[e].category \in Kept'
      BY <1>1, <2>1 DEF RowsSound, Sound
    <2>5. QED
      BY <2>1, <2>2, <2>3, <2>4 DEF RowsSound, Sound
  <1>4. RowsStay
    BY <1>1 DEF RowsStay
  <1>5. QED
    BY <1>2, <1>3, <1>4, SoundStep DEF DishRemove, Sound, TypeOK

-----------------------------------------------------------------------------
(* Photos.                                                                 *)

\* A request for photos that starts.
LEMMA SoundStart ==
    ASSUME Sound, UNCHANGED <<owned, Rows, photos, faults>>,
           NEW h \in Reqs, NEW work \in Work, StartPhotos(h, work), WorkSound(work)
    PROVE Sound'
  <1>1. Go(h, work) /\ overlapped' \in BOOLEAN
    BY DEF StartPhotos, Sound, TypeOK
  <1>2. QED
    BY <1>1, SoundCheckStep DEF Rows, Sound, TypeOK

\* Counting the photos before an upload.
LEMMA SoundAddCheck ==
    ASSUME Sound, NEW h \in Reqs, NEW d \in DOMAIN dishes, NEW n \in 1..MaxItemPhotos,
           AddCheck(h, d, n)
    PROVE Sound'
  <1>1. PICK count : count = Cardinality(PhotosOf(d))
    OBVIOUS
  <1>2. d \in Nat /\ n \in Nat /\ count \in Nat
    BY <1>1, DishesAreTyped, PhotosAreFew, NumbersAssumption DEF Sound
  <1>3. PICK work : work = [Idle EXCEPT !.pc = "rows", !.dish = d, !.count = count,
                                        !.files = n]
    OBVIOUS
  <1>4. work \in Work
    BY <1>2, <1>3, IdleIsTyped DEF Idle, Work, Steps
  <1>5. WorkSound(work)
    BY <1>1, <1>3 DEF Idle, WorkSound, AddCheck
  <1>6. QED
    BY <1>1, <1>3, <1>4, <1>5, SoundStart DEF AddCheck

\* Loading a photo with those of its dish.
LEMMA SoundRemoveLoad ==
    ASSUME Sound, NEW h \in Reqs, NEW p \in DOMAIN photos, RemoveLoad(h, p)
    PROVE Sound'
  <1>1. PICK d : d = photos[p].dish
    OBVIOUS
  <1>2. TypeOK /\ RowsSound /\ p \in Stored
    BY DEF Sound, RemoveLoad
  <1>3. d \in DOMAIN dishes /\ d \in Nat /\ p \in Nat /\ p \in PhotosOf(d)
    BY <1>1, <1>2, PhotosAreTyped, DishesAreTyped DEF RowsSound, PhotosOf
  <1>4. PICK S : S = PhotosOf(d) \ {p}
    OBVIOUS
  <1>5. S \in SUBSET Stored /\ S \subseteq PhotosOf(d)
    BY <1>2, <1>4, PhotosOfAreStored
  <1>6. PICK left : left = Ordered(S)
    OBVIOUS
  <1>7. /\ left \in Seq([id : Nat, order : Nat]) /\ Len(left) = Cardinality(S)
        /\ \A i \in DOMAIN left : left[i].id \in S
    BY <1>2, <1>5, <1>6, OrderedListsAll
  <1>8. PICK work : work = [Idle EXCEPT !.pc = "delete", !.dish = d, !.photo = p, !.left = left]
    OBVIOUS
  <1>9. work \in Work
    BY <1>3, <1>7, <1>8, IdleIsTyped DEF Idle, Work, Steps
  <1>10. WorkSound(work)
    <2>1. Len(left) < MaxItemPhotos
      BY <1>2, <1>3, <1>4, <1>7, OneLessIsFewer
    <2>2. \A i \in DOMAIN left : left[i].id \in DOMAIN photos /\ photos[left[i].id].dish = d
      BY <1>5, <1>7 DEF PhotosOf, Stored
    <2>3. work.pc = "delete" /\ work.dish = d /\ work.left = left /\ work.photo = p
      BY <1>8 DEF Idle
    <2>4. IsOf(p, d) /\ \A i \in DOMAIN left : IsOf(left[i].id, d)
      BY <1>3, <2>2 DEF IsOf, PhotosOf
    <2>5. QED
      BY <1>3, <2>1, <2>3, <2>4 DEF WorkSound
  <1>11. QED
    BY <1>1, <1>4, <1>6, <1>8, <1>9, <1>10, SoundStart DEF RemoveLoad

\* A step that writes photos.
LEMMA PhotoStep ==
    ASSUME Sound, UNCHANGED <<owned, Rows, overlapped, faults>>,
           photos' \in Seq(PhotoRows \cup {Gone}), DOMAIN photos \subseteq DOMAIN photos',
           \A p \in DOMAIN photos : p \in Stored' => p \in Stored /\ photos'[p].dish = photos[p].dish,
           \A p \in Stored' : photos'[p].dish \in DOMAIN dishes /\ photos'[p].order < MaxItemPhotos,
           \A p, q \in Stored' : photos'[p].dish = photos'[q].dish /\ photos'[p].order = photos'[q].order
                                   => p = q,
           NEW h \in Reqs, NEW work \in Work, Go(h, work), WorkSound(work)'
    PROVE Sound'
  <1>1. RowsTyped'
    BY DEF RowsTyped, Sound, TypeOK, Rows
  <1>2. RowsSound'
    BY DEF RowsSound, Sound, Kept, OnMenu, Rows
  <1>3. RowsStay
    BY DEF RowsStay, Rows
  <1>4. QED
    BY <1>1, <1>2, <1>3, SoundRequestStep

\* One that writes none.
LEMMA NoPhotoStep ==
    ASSUME Sound, UNCHANGED <<owned, Rows, photos, overlapped, faults>>,
           NEW h \in Reqs, Quit(h)
    PROVE Sound'
  <1>1. WorkSound(Idle)
    BY DEF WorkSound, Idle
  <1>2. QED
    BY <1>1, IdleIsTyped, SoundCheckStep DEF Quit, Rows, Sound, TypeOK

\* A call that fails ends the request.
LEMMA SoundFail ==
    ASSUME Sound, NEW h \in Reqs, Fail(h)
    PROVE Sound'
  <1>1. WorkSound(Idle)
    BY DEF WorkSound, Idle
  <1>2. faults' \in 0..MaxFaults
    BY NumbersAssumption DEF Fail, Sound, TypeOK
  <1>3. QED
    BY <1>1, <1>2, IdleIsTyped, SoundCheckStep DEF Fail, Quit, Rows

\* The rows of an upload.
Added(d, count, files) == [i \in 1..files |-> [dish |-> d, order |-> OrderOf(count, i)]]

\* An upload that is not refused adds its photos, each with its order.
LEMMA NewPhotos ==
    ASSUME TypeOK, NEW d \in Nat, NEW count \in Nat, NEW files \in Nat,
           photos' = photos \o Added(d, count, files)
    PROVE /\ photos' \in Seq(PhotoRows \cup {Gone})
          /\ DOMAIN photos' = 1..(Len(photos) + files)
          /\ Stored' = Stored \cup (Len(photos) + 1)..(Len(photos) + files)
          /\ \A p \in Stored : photos'[p] = photos[p]
          /\ \A p \in Stored' \ Stored :
                /\ p \in Nat /\ p \notin DOMAIN photos /\ p - Len(photos) \in 1..files
                /\ photos'[p].dish = d
                /\ photos'[p].order = count + (p - Len(photos)) - 1
  <1>1. PICK added : added = Added(d, count, files)
    OBVIOUS
  <1>2. \A i \in 1..files : [dish |-> d, order |-> OrderOf(count, i)] \in PhotoRows
    BY DEF OrderOf, PhotoRows
  <1>3. /\ added \in [1..files -> PhotoRows \cup {Gone}]
        /\ \A i \in 1..files : added[i] = [dish |-> d, order |-> count + i - 1]
    BY <1>1, <1>2 DEF Added, OrderOf
  <1>4. added \in Seq(PhotoRows \cup {Gone}) /\ Len(added) = files
    BY <1>3, FunctionIsASeq
  <1>5. photos \in Seq(PhotoRows \cup {Gone}) /\ Len(photos) \in Nat /\ DOMAIN photos = 1..Len(photos)
    BY PhotosAreTyped
  <1>6. /\ photos' \in Seq(PhotoRows \cup {Gone})
        /\ Len(photos') = Len(photos) + files
        /\ \A p \in 1..(Len(photos) + files) :
              photos'[p] = IF p =< Len(photos) THEN photos[p] ELSE added[p - Len(photos)]
    BY <1>1, <1>4, <1>5, ConcatProperties
  <1>7. DOMAIN photos' = 1..(Len(photos) + files)
    BY <1>6, LenProperties
  <1>8. ASSUME NEW p \in (Len(photos) + 1)..(Len(photos) + files)
        PROVE /\ photos'[p] # Gone /\ photos'[p].dish = d
              /\ photos'[p].order = count + (p - Len(photos)) - 1
    <2>1. PICK i : i = p - Len(photos)
      OBVIOUS
    <2>2. i \in 1..files /\ p \in 1..(Len(photos) + files) /\ ~(p =< Len(photos))
      BY <1>5, <2>1
    <2>3. photos'[p] = [dish |-> d, order |-> count + i - 1]
      BY <1>3, <1>6, <2>1, <2>2
    <2>4. [dish |-> d, order |-> count + i - 1] \in PhotoRows
      BY <2>2 DEF PhotoRows
    <2>5. QED
      BY <2>1, <2>3, <2>4, GoneAssumption
  <1>13. \A p \in 1..Len(photos) : photos'[p] = photos[p]
    BY <1>5, <1>6
  <1>14. Stored' = Stored \cup (Len(photos) + 1)..(Len(photos) + files)
    BY <1>5, <1>7, <1>8, <1>13 DEF Stored
  <1>16. \A p \in Stored : photos'[p] = photos[p]
    BY <1>5, <1>13 DEF Stored
  <1>17. ASSUME NEW p \in Stored' \ Stored
         PROVE /\ p \in Nat /\ p \notin DOMAIN photos /\ p - Len(photos) \in 1..files
               /\ photos'[p].dish = d
               /\ photos'[p].order = count + (p - Len(photos)) - 1
    <2>1. p \in (Len(photos) + 1)..(Len(photos) + files)
      BY <1>14
    <2>2. p \in Nat /\ p \notin DOMAIN photos /\ p - Len(photos) \in 1..files
      BY <1>5, <2>1
    <2>3. QED
      BY <1>8, <2>1, <2>2
  <1>18. QED
    BY <1>6, <1>7, <1>14, <1>16, <1>17

\* What a request that uploads is about.
LEMMA AddRowsIs ==
    ASSUME Sound, NEW h \in Reqs, AddRows(h)
    PROVE LET d == reqs[h].dish
              count == reqs[h].count
              files == reqs[h].files
          IN  /\ d \in DOMAIN dishes /\ d \in Nat /\ count \in Nat /\ files \in Nat
              /\ count + files =< MaxItemPhotos
              /\ \/ photos' = photos /\ Quit(h)
                 \/ /\ d \in OnMenu
                    /\ \A i \in 1..files : count + i - 1 \notin OrdersOf(d)
                    /\ photos' = photos \o Added(d, count, files)
                    /\ Go(h, [reqs[h] EXCEPT !.pc = "added", !.photo = Len(photos) + 1])
  <1> DEFINE d == reqs[h].dish
             count == reqs[h].count
             files == reqs[h].files
             added == Added(d, count, files)
  <1>1. d \in DOMAIN dishes /\ d \in Nat /\ count \in Nat /\ files \in Nat
        /\ count + files =< MaxItemPhotos
    BY RequestIsTyped DEF Sound, RequestsSound, WorkSound, AddRows, At
  <1>2. ASSUME UniqueOrder(d, {added[i].order : i \in DOMAIN added}), NEW i \in 1..files
        PROVE count + i - 1 \notin OrdersOf(d)
    <2>1. i \in DOMAIN added /\ added[i].order = count + i - 1
      BY <1>1 DEF Added, OrderOf
    <2>2. QED
      BY <1>2, <2>1 DEF UniqueOrder
  <1>3. QED
    BY <1>1, <1>2 DEF AddRows, Added

\* Adding the rows: what was counted and what comes fit.
LEMMA SoundAddRows ==
    ASSUME Sound, NEW h \in Reqs, AddRows(h)
    PROVE Sound'
  <1>1. PICK d, count, files : d = reqs[h].dish /\ count = reqs[h].count /\ files = reqs[h].files
    OBVIOUS
  <1>2. /\ d \in DOMAIN dishes /\ d \in Nat /\ count \in Nat /\ files \in Nat
        /\ count + files =< MaxItemPhotos
    BY <1>1, AddRowsIs
  <1>3. CASE photos' = photos /\ Quit(h)
    BY <1>3, NoPhotoStep DEF AddRows
  <1>4. CASE /\ \A i \in 1..files : count + i - 1 \notin OrdersOf(d)
             /\ photos' = photos \o Added(d, count, files)
             /\ Go(h, [reqs[h] EXCEPT !.pc = "added", !.photo = Len(photos) + 1])
    <2>1. TypeOK /\ RowsSound /\ Len(photos) \in Nat
      BY PhotosAreTyped DEF Sound
    <2>2. /\ photos' \in Seq(PhotoRows \cup {Gone})
          /\ DOMAIN photos' = 1..(Len(photos) + files)
          /\ Stored \subseteq Stored'
          /\ \A p \in Stored : photos'[p] = photos[p]
      BY <1>2, <1>4, <2>1, NewPhotos
    <2>3. \A p \in Stored' \ Stored :
             /\ p \in Nat /\ p \notin DOMAIN photos /\ p - Len(photos) \in 1..files
             /\ photos'[p].dish = d
             /\ photos'[p].order = count + (p - Len(photos)) - 1
      BY <1>2, <1>4, <2>1, NewPhotos
    <2>4. ASSUME NEW p \in DOMAIN photos, p \in Stored'
          PROVE p \in Stored /\ photos'[p].dish = photos[p].dish
      BY <2>2, <2>3, <2>4
    <2>5. ASSUME NEW p \in Stored'
          PROVE photos'[p].dish \in DOMAIN dishes /\ photos'[p].order < MaxItemPhotos
      <3>1. CASE p \in Stored
        BY <2>1, <2>2, <3>1 DEF RowsSound
      <3>2. CASE p \in Stored' \ Stored
        BY <1>2, <2>1, <2>3, <3>2, NumbersAssumption
      <3>3. QED
        BY <3>1, <3>2
    <2>6. ASSUME NEW p \in Stored', NEW q \in Stored', photos'[p].dish = photos'[q].dish,
                 photos'[p].order = photos'[q].order
          PROVE p = q
      <3>1. \A r \in Stored : photos[r].dish = d => photos[r].order \in OrdersOf(d)
        BY DEF OrdersOf, PhotosOf
      <3>2. ASSUME NEW r \in Stored, NEW t \in Stored' \ Stored
            PROVE photos'[r].dish # photos'[t].dish \/ photos'[r].order # photos'[t].order
        <4>1. photos'[t].order \notin OrdersOf(d) /\ photos'[t].dish = d
          BY <1>4, <2>3
        <4>2. QED
          BY <2>2, <3>1, <4>1
      <3>3. CASE p \in Stored /\ q \in Stored
        BY <2>1, <2>2, <2>6, <3>3 DEF RowsSound
      <3>4. CASE p \in Stored' \ Stored /\ q \in Stored' \ Stored
        BY <1>2, <2>1, <2>3, <2>6, <3>4
      <3>5. QED
        BY <2>6, <3>2, <3>3, <3>4
    <2>7. PICK work : work = [reqs[h] EXCEPT !.pc = "added", !.photo = Len(photos) + 1]
      OBVIOUS
    <2>8. work \in Work /\ work.pc = "added" /\ work.dish = d
      <3>1. Len(photos) + 1 \in Nat /\ "added" \in Steps
        BY <2>1 DEF Steps
      <3>2. reqs[h] \in Work
        BY <2>1, RequestIsTyped
      <3>3. QED
        BY <1>1, <2>7, <3>1, <3>2 DEF Work
    <2>9. WorkSound(work)'
      BY <1>2, <2>8 DEF WorkSound, AddRows, Rows
    <2>10. DOMAIN photos \subseteq DOMAIN photos'
      BY <1>2, <2>1, <2>2, PhotosAreTyped
    <2>11. QED
      BY <1>4, <2>2, <2>4, <2>5, <2>6, <2>7, <2>8, <2>9, <2>10, PhotoStep DEF AddRows
  <1>5. QED
    BY <1>1, <1>3, <1>4, AddRowsIs

\* A photo that is deleted is gone, and nothing else is.
LEMMA DeletedPhoto ==
    ASSUME TypeOK, NEW p \in Stored, photos' = [photos EXCEPT ![p] = Gone]
    PROVE /\ photos' \in Seq(PhotoRows \cup {Gone}) /\ DOMAIN photos' = DOMAIN photos
          /\ Stored' = Stored \ {p}
          /\ \A q \in Stored' : photos'[q] = photos[q]
  <1>1. p \in 1..Len(photos)
    BY PhotosAreTyped
  <1>2. /\ photos' \in Seq(PhotoRows \cup {Gone}) /\ DOMAIN photos' = DOMAIN photos
        /\ \A q \in DOMAIN photos : photos'[q] = IF q = p THEN Gone ELSE photos[q]
    BY <1>1, PhotosAreTyped, ExceptSeq
  <1>3. QED
    BY <1>2 DEF Stored

\* A removal past its delete needs what it needed before.
LEMMA SoundRemoveDelete ==
    ASSUME Sound, NEW h \in Reqs, RemoveDelete(h)
    PROVE Sound'
  <1>1. CASE photos' = photos /\ Quit(h)
    BY <1>1, NoPhotoStep DEF RemoveDelete
  <1>2. CASE /\ reqs[h].photo \in Stored
             /\ photos' = [photos EXCEPT ![reqs[h].photo] = Gone]
             /\ Go(h, [reqs[h] EXCEPT !.pc = "renumber"])
    <2>1. TypeOK /\ RowsSound /\ WorkSound(reqs[h]) /\ reqs[h].pc = "delete"
      BY DEF Sound, RequestsSound, RemoveDelete, At
    <2>2. /\ photos' \in Seq(PhotoRows \cup {Gone}) /\ DOMAIN photos' = DOMAIN photos
          /\ Stored' \subseteq Stored
          /\ \A q \in Stored' : photos'[q] = photos[q]
      BY <1>2, <2>1, DeletedPhoto
    <2>3. PICK work : work = [reqs[h] EXCEPT !.pc = "renumber"]
      OBVIOUS
    <2>4. /\ work \in Work /\ work.pc = "renumber" /\ work.dish = reqs[h].dish
          /\ work.left = reqs[h].left
      BY <2>1, <2>3, RequestIsTyped DEF Work, Steps
    <2>5. WorkSound(work)'
      <3>1. \A q, e : IsOf(q, e) => IsOf(q, e)'
        BY <2>2 DEF IsOf
      <3>2. dishes' = dishes
        BY DEF RemoveDelete, Rows
      <3>3. /\ work.dish \in DOMAIN dishes /\ Len(work.left) < MaxItemPhotos
            /\ \A i \in DOMAIN work.left : IsOf(work.left[i].id, work.dish)
        BY <2>1, <2>4 DEF WorkSound
      <3>4. QED
        BY <2>4, <3>1, <3>2, <3>3 DEF WorkSound
    <2>6. /\ \A q \in Stored' : photos'[q].dish \in DOMAIN dishes /\ photos'[q].order < MaxItemPhotos
          /\ \A q, r \in Stored' : photos'[q].dish = photos'[r].dish
                                     /\ photos'[q].order = photos'[r].order => q = r
      BY <2>1, <2>2 DEF RowsSound
    <2>7. QED
      BY <1>2, <2>2, <2>3, <2>4, <2>5, <2>6, PhotoStep DEF RemoveDelete
  <1>3. QED
    BY <1>1, <1>2 DEF RemoveDelete

\* A set of numbers has a smallest one.
LEMMA SmallestExists ==
    ASSUME NEW S \in SUBSET Nat, S # {}
    PROVE \E i \in S : \A j \in S : i =< j
  <1>1. PICK R : R = OpToRel(<, Nat)
    BY Zenon
  <1>2. R = {ss \in Nat \X Nat : ss[1] < ss[2]}
    BY Zenon, <1>1 DEF OpToRel
  <1>3. IsWellFoundedOn(R, Nat)
    BY Zenon, <1>1, NatLessThanWellFounded
  <1>4. PICK i \in S : \A j \in S : <<j, i>> \notin R
    BY <1>3, WFMin
  <1>5. ASSUME NEW j \in S
        PROVE ~(j < i)
    BY <1>2, <1>4
  <1>6. QED
    BY <1>4, <1>5

\* The photo that is written next is the first that is out of place.
LEMMA FirstIsMisplaced ==
    ASSUME TypeOK, NEW h \in Reqs, Misplaced(h) # {}
    PROVE /\ FirstOf(Misplaced(h)) \in Misplaced(h)
          /\ \A j \in Misplaced(h) : FirstOf(Misplaced(h)) =< j
          /\ FirstOf(Misplaced(h)) \in 1..Len(reqs[h].left)
          /\ FirstOf(Misplaced(h)) \in DOMAIN reqs[h].left
  <1>1. Misplaced(h) \subseteq 1..Len(reqs[h].left) /\ DOMAIN reqs[h].left = 1..Len(reqs[h].left)
    BY RequestIsTyped, LenProperties DEF Misplaced
  <1>2. \E i \in Misplaced(h) : \A j \in Misplaced(h) : i =< j
    BY <1>1, SmallestExists
  <1>3. QED
    BY <1>1, <1>2 DEF FirstOf

\* A photo that is written keeps its dish.
LEMMA WrittenPhoto ==
    ASSUME TypeOK, NEW p \in Stored, NEW k \in Nat, photos' = [photos EXCEPT ![p].order = k]
    PROVE /\ photos' \in Seq(PhotoRows \cup {Gone}) /\ DOMAIN photos' = DOMAIN photos
          /\ Stored' = Stored
          /\ \A q \in Stored : /\ photos'[q].dish = photos[q].dish
                               /\ photos'[q].order = IF q = p THEN k ELSE photos[q].order
  <1>1. p \in 1..Len(photos) /\ photos[p] \in PhotoRows
    BY PhotosAreTyped
  <1>2. PICK row : row = [photos[p] EXCEPT !.order = k]
    OBVIOUS
  <1>3. row \in PhotoRows /\ row.dish = photos[p].dish /\ row.order = k
    BY <1>1, <1>2 DEF PhotoRows
  <1>4. photos' = [photos EXCEPT ![p] = row]
    BY <1>2
  <1>5. row \in PhotoRows \cup {Gone} /\ row # Gone
    BY <1>3, GoneAssumption
  <1>6. /\ photos' \in Seq(PhotoRows \cup {Gone}) /\ DOMAIN photos' = DOMAIN photos
        /\ \A q \in DOMAIN photos : photos'[q] = IF q = p THEN row ELSE photos[q]
    BY <1>1, <1>4, <1>5, PhotosAreTyped, ExceptSeq
  <1>7. Stored' = Stored
    BY <1>5, <1>6 DEF Stored
  <1>8. QED
    BY <1>3, <1>6, <1>7 DEF Stored

\* Giving a photo its place: the index lets no other have it.
LEMMA SoundRenumber ==
    ASSUME Sound, NEW h \in Reqs, Renumber(h)
    PROVE Sound'
  <1>1. PICK i, p, d : /\ i = FirstOf(Misplaced(h)) /\ p = reqs[h].left[i].id
                       /\ d = reqs[h].dish
    OBVIOUS
  <1>2. CASE photos' = photos /\ Quit(h)
    BY <1>2, NoPhotoStep DEF Renumber
  <1>3. CASE /\ p \in Stored /\ UniqueOrder(d, {i - 1})
             /\ photos' = [photos EXCEPT ![p].order = i - 1]
             /\ Go(h, [reqs[h] EXCEPT !.count = i])
    <2>1. TypeOK /\ RowsSound /\ WorkSound(reqs[h]) /\ reqs[h].pc = "renumber"
      BY DEF Sound, RequestsSound, Renumber, At
    <2>2. i \in 1..Len(reqs[h].left) /\ i \in DOMAIN reqs[h].left
      BY <1>1, <2>1, FirstIsMisplaced DEF Renumber
    <2>3. Len(reqs[h].left) \in Nat /\ Len(reqs[h].left) < MaxItemPhotos
      BY <2>1, RequestIsTyped, LenProperties DEF WorkSound
    <2>4. i \in Nat /\ i - 1 \in Nat /\ i - 1 < MaxItemPhotos
      BY <2>2, <2>3, NumbersAssumption
    <2>5. photos[p].dish = d
      BY <1>1, <1>3, <2>1, <2>2 DEF WorkSound, IsOf
    <2>6. /\ photos' \in Seq(PhotoRows \cup {Gone}) /\ DOMAIN photos' = DOMAIN photos
          /\ Stored' = Stored
          /\ \A q \in Stored : /\ photos'[q].dish = photos[q].dish
                               /\ photos'[q].order = IF q = p THEN i - 1 ELSE photos[q].order
      BY <1>3, <2>1, <2>4, WrittenPhoto
    <2>7. \A q \in Stored : photos[q].dish = d => photos[q].order # i - 1
      BY <1>3 DEF UniqueOrder, OrdersOf, PhotosOf
    <2>8. /\ \A q \in Stored' : photos'[q].dish \in DOMAIN dishes /\ photos'[q].order < MaxItemPhotos
          /\ \A q, r \in Stored' : photos'[q].dish = photos'[r].dish
                                     /\ photos'[q].order = photos'[r].order => q = r
      BY <2>1, <2>4, <2>5, <2>6, <2>7 DEF RowsSound
    <2>9. PICK work : work = [reqs[h] EXCEPT !.count = i]
      OBVIOUS
    <2>10. /\ work \in Work /\ work.pc = "renumber" /\ work.dish = d
           /\ work.left = reqs[h].left
      BY <1>1, <2>1, <2>4, <2>9, RequestIsTyped DEF Work
    <2>11. WorkSound(work)'
      BY <1>1, <2>1, <2>6, <2>10 DEF WorkSound, Renumber, Rows, IsOf
    <2>12. QED
      BY <1>3, <2>6, <2>8, <2>9, <2>10, <2>11, PhotoStep DEF Renumber
  <1>4. QED
    BY <1>1, <1>2, <1>3 DEF Renumber

-----------------------------------------------------------------------------

\* Types, rows and requests hold to begin with ...
LEMMA SoundInit == Init => Sound
  <1>1. SUFFICES ASSUME Init PROVE Sound
    OBVIOUS
  <1>2. /\ categories = <<>> /\ dishes = <<>> /\ photos = <<>>
        /\ owned = {} /\ overlapped = FALSE /\ faults = 0
        /\ reqs = [h \in Reqs |-> Idle]
    BY <1>1 DEF Init
  <1>3. TypeOK
    <2>1. /\ <<>> \in Seq(Names \cup {Gone}) /\ <<>> \in Seq(DishRows \cup {Gone})
          /\ <<>> \in Seq(PhotoRows \cup {Gone})
      BY EmptySeq
    <2>2. reqs \in [Reqs -> Work]
      BY <1>2, IdleIsTyped
    <2>3. 0 \in 0..MaxFaults
      BY NumbersAssumption
    <2>4. QED
      BY <1>2, <2>1, <2>2, <2>3 DEF TypeOK
  <1>4. Kept = {} /\ OnMenu = {} /\ Stored = {}
    BY <1>2 DEF Kept, OnMenu, Stored
  <1>5. RowsSound
    BY <1>4 DEF RowsSound
  <1>6. RequestsSound
    BY <1>2 DEF RequestsSound, WorkSound, Idle
  <1>7. QED
    BY <1>3, <1>5, <1>6 DEF Sound

\* ... and after every step.
LEMMA SoundNext == Sound /\ [Next]_vars => Sound'
  <1>1. SUFFICES ASSUME Sound, Next \/ UNCHANGED vars PROVE Sound'
    OBVIOUS
  <1>2. CASE UNCHANGED vars
    BY <1>1, <1>2 DEF vars, Sound, TypeOK, RowsSound, RequestsSound, WorkSound, IsOf, Kept,
          OnMenu, Stored
  <1>3. ASSUME NEW h \in Reqs,
               \/ \E s \in Slugs : RestaurantCheck(h, s)
               \/ RestaurantCreate(h)
        PROVE Sound'
    BY <1>1, <1>3, SoundRestaurantCheck, SoundRestaurantCreate
  <1>4. ASSUME NEW h \in Reqs,
               \/ \E name \in Names : CategoryCheck(h, name)
               \/ \E c \in DOMAIN categories, name \in Names : CategoryRenameCheck(h, c, name)
               \/ \E c \in DOMAIN categories : CategoryRemoveCheck(h, c)
        PROVE Sound'
    BY <1>1, <1>4, SoundCategoryCheck, SoundCategoryRenameCheck, SoundCategoryRemoveCheck
  <1>5. ASSUME NEW h \in Reqs, CategoryCreate(h) \/ CategoryRename(h) \/ CategoryRemove(h)
        PROVE Sound'
    BY <1>1, <1>5, SoundCategoryCreate, SoundCategoryRename, SoundCategoryRemove
  <1>6. ASSUME NEW h \in Reqs,
               \/ \E name \in Names, c \in DOMAIN categories : DishCheck(h, name, c)
               \/ \E d \in DOMAIN dishes, name \in Names \cup {None}, c \in 0..Len(categories) :
                     DishEditCheck(h, d, name, c)
               \/ DishCreate(h) \/ DishEdit(h)
        PROVE Sound'
    BY <1>1, <1>6, SoundDishCheck, SoundDishEditCheck, SoundDishCreate, SoundDishEdit
  <1>7. ASSUME NEW h \in Reqs,
               \/ \E d \in DOMAIN dishes, n \in 1..MaxItemPhotos : AddCheck(h, d, n)
               \/ \E p \in DOMAIN photos : RemoveLoad(h, p)
               \/ AddRows(h) \/ AddUpdate(h)
               \/ RemoveDelete(h) \/ Renumber(h) \/ RemoveUpdate(h)
               \/ Fail(h)
        PROVE Sound'
    BY <1>1, <1>7, SoundAddCheck, SoundRemoveLoad, SoundAddRows, SoundAddUpdate,
       SoundRemoveDelete, SoundRenumber, SoundRemoveUpdate, SoundFail
  <1>8. ASSUME NEW s \in Slugs,
               RestaurantRemove(s) \/ \E slug \in Slugs : RestaurantEdit(s, slug)
        PROVE Sound'
    BY <1>1, <1>8, SoundRestaurantOther
  <1>9. ASSUME NEW d \in DOMAIN dishes, DishRemove(d)
        PROVE Sound'
    BY <1>1, <1>9, SoundDishRemove DEF DishRemove
  <1>10. QED
    BY <1>1, <1>2, <1>3, <1>4, <1>5, <1>6, <1>7, <1>8, <1>9 DEF Next

-----------------------------------------------------------------------------
(* What the steps leave alone.                                             *)

\* The steps of a request, by what it is for.
ForRestaurant(h) ==
    \/ \E s \in Slugs : RestaurantCheck(h, s)
    \/ RestaurantCreate(h)

ForCategory(h) ==
    \/ \E name \in Names : CategoryCheck(h, name)
    \/ \E c \in DOMAIN categories, name \in Names : CategoryRenameCheck(h, c, name)
    \/ \E c \in DOMAIN categories : CategoryRemoveCheck(h, c)
    \/ CategoryCreate(h) \/ CategoryRename(h) \/ CategoryRemove(h)

ForDish(h) ==
    \/ \E name \in Names, c \in DOMAIN categories : DishCheck(h, name, c)
    \/ \E d \in DOMAIN dishes, name \in Names \cup {None}, c \in 0..Len(categories) :
          DishEditCheck(h, d, name, c)
    \/ DishCreate(h) \/ DishEdit(h)

ForPhotos(h) ==
    \/ \E d \in DOMAIN dishes, n \in 1..MaxItemPhotos : AddCheck(h, d, n)
    \/ \E p \in DOMAIN photos : RemoveLoad(h, p)
    \/ AddRows(h) \/ AddUpdate(h)
    \/ RemoveDelete(h) \/ Renumber(h) \/ RemoveUpdate(h)
    \/ Fail(h)

\* Every step is one of them, or one request's only step.
LEMMA StepsOfNext ==
    ASSUME Next
    PROVE \/ \E h \in Reqs : ForRestaurant(h) \/ ForCategory(h) \/ ForDish(h) \/ ForPhotos(h)
          \/ \E s \in Slugs : RestaurantRemove(s) \/ \E slug \in Slugs : RestaurantEdit(s, slug)
          \/ \E d \in DOMAIN dishes : DishRemove(d)
  BY DEF Next, ForRestaurant, ForCategory, ForDish, ForPhotos

\* A request moves between steps of P.
MovesIn(h, P) == /\ reqs[h].pc \in P /\ reqs'[h].pc \in P
                 /\ \A g \in Reqs : g # h => reqs'[g] = reqs[g]

\* No slot comes to a step of P, leaves one or changes at one.
SlotsStay(P) == \A g \in Reqs : reqs[g].pc \in P \/ reqs'[g].pc \in P => reqs'[g] = reqs[g]

\* Slots at other steps than those it moves between stay as they are.
LEMMA OthersStay ==
    ASSUME TypeOK, NEW h \in Reqs, NEW P, NEW Q, P \cap Q = {}, MovesIn(h, P)
    PROVE SlotsStay(Q)
  BY DEF MovesIn, SlotsStay

\* The steps a request for a restaurant takes, ...
LEMMA RestaurantMoves ==
    ASSUME TypeOK, NEW h \in Reqs, ForRestaurant(h)
    PROVE /\ MovesIn(h, {"idle", "restaurant"})
          /\ UNCHANGED <<Rows, Photos>>
  <1>1. CASE \E s \in Slugs : RestaurantCheck(h, s)
    BY <1>1 DEF RestaurantCheck, MovesIn, Go, TypeOK, Idle, At
  <1>2. CASE RestaurantCreate(h)
    BY <1>2 DEF RestaurantCreate, MovesIn, Quit, Go, TypeOK, Idle, At
  <1>3. QED
    BY <1>1, <1>2 DEF ForRestaurant

\* ... for a cuisine type, ...
LEMMA CategoryMoves ==
    ASSUME TypeOK, NEW h \in Reqs, ForCategory(h)
    PROVE /\ MovesIn(h, {"idle", "category", "rename", "dropCategory"})
          /\ UNCHANGED <<owned, dishes, Photos>>
  <1>1. CASE CategoryCreate(h) \/ CategoryRename(h) \/ CategoryRemove(h)
    BY <1>1 DEF CategoryCreate, CategoryRename, CategoryRemove, MovesIn, Quit, Go, TypeOK, Idle, At
  <1>2. CASE \E name \in Names : CategoryCheck(h, name)
    BY <1>2 DEF CategoryCheck, MovesIn, Go, TypeOK, Idle, At, Rows
  <1>3. CASE \E c \in DOMAIN categories, name \in Names : CategoryRenameCheck(h, c, name)
    BY <1>3 DEF CategoryRenameCheck, MovesIn, Go, TypeOK, Idle, At, Rows
  <1>4. CASE \E c \in DOMAIN categories : CategoryRemoveCheck(h, c)
    BY <1>4 DEF CategoryRemoveCheck, MovesIn, Go, TypeOK, Idle, At, Rows
  <1>5. QED
    BY <1>1, <1>2, <1>3, <1>4 DEF ForCategory

\* ... for a dish, ...
LEMMA DishMoves ==
    ASSUME TypeOK, NEW h \in Reqs, ForDish(h)
    PROVE /\ MovesIn(h, {"idle", "dish", "edit"})
          /\ UNCHANGED <<owned, Photos>>
  <1>1. CASE DishCreate(h) \/ DishEdit(h)
    BY <1>1 DEF DishCreate, DishEdit, MovesIn, Quit, Go, TypeOK, Idle, At
  <1>2. CASE \E name \in Names, c \in DOMAIN categories : DishCheck(h, name, c)
    BY <1>2 DEF DishCheck, MovesIn, Go, TypeOK, Idle, At, Rows
  <1>3. CASE \E d \in DOMAIN dishes, name \in Names \cup {None}, c \in 0..Len(categories) :
                DishEditCheck(h, d, name, c)
    BY <1>3 DEF DishEditCheck, MovesIn, Go, TypeOK, Idle, At, Rows
  <1>4. QED
    BY <1>1, <1>2, <1>3 DEF ForDish

\* The steps of a request for photos.
PhotoSteps == {"rows", "added", "delete", "renumber"}

\* ... and for photos.
LEMMA PhotoMoves ==
    ASSUME TypeOK, NEW h \in Reqs, ForPhotos(h)
    PROVE /\ MovesIn(h, {"idle"} \cup PhotoSteps)
          /\ UNCHANGED <<owned, categories>>
  <1>1. CASE AddUpdate(h) \/ RemoveUpdate(h) \/ Fail(h)
    BY <1>1 DEF AddUpdate, RemoveUpdate, Fail, MovesIn, Quit, Go, TypeOK, Idle, At, HandlesPhotos,
          PhotoSteps, Rows
  <1>2. CASE \E d \in DOMAIN dishes, n \in 1..MaxItemPhotos : AddCheck(h, d, n)
    BY <1>2 DEF AddCheck, StartPhotos, MovesIn, Go, TypeOK, Idle, At, Rows, PhotoSteps
  <1>3. CASE \E p \in DOMAIN photos : RemoveLoad(h, p)
    BY <1>3 DEF RemoveLoad, StartPhotos, MovesIn, Go, TypeOK, Idle, At, Rows, PhotoSteps
  <1>4. CASE AddRows(h) \/ RemoveDelete(h) \/ Renumber(h)
    <2>1. reqs[h] \in Work
      BY RequestIsTyped
    <2>2. \A n : [reqs[h] EXCEPT !.pc = "added", !.photo = n].pc = "added"
      BY <2>1 DEF Work
    <2>3. CASE AddRows(h)
      <3>1. CASE Quit(h)
        BY <2>3, <3>1 DEF AddRows, MovesIn, Quit, Go, TypeOK, Idle, At, Rows, PhotoSteps
      <3>2. CASE Go(h, [reqs[h] EXCEPT !.pc = "added", !.photo = Len(photos) + 1])
        <4>1. PICK work : Go(h, work) /\ work.pc = "added"
          BY <2>2, <3>2
        <4>2. QED
          BY <2>3, <4>1 DEF AddRows, MovesIn, Go, TypeOK, At, Rows, PhotoSteps
      <3>3. QED
        BY <2>3, <3>1, <3>2 DEF AddRows
    <2>4. CASE RemoveDelete(h)
      BY <2>1, <2>4 DEF RemoveDelete, MovesIn, Quit, Go, TypeOK, Idle, At, Rows, PhotoSteps, Work
    <2>5. CASE Renumber(h)
      BY <2>1, <2>5 DEF Renumber, MovesIn, Quit, Go, TypeOK, Idle, At, Rows, PhotoSteps, Work
    <2>6. QED
      BY <1>4, <2>3, <2>4, <2>5
  <1>5. QED
    BY <1>1, <1>2, <1>3, <1>4 DEF ForPhotos

\* The dishes on the menu keep their names and none comes or goes.
MenuStays == OnMenu' = OnMenu /\ \A d \in OnMenu : dishes'[d].name = dishes[d].name

\* A write of a display photo is none of a name.
LEMMA PhotoUrlKeepsMenu ==
    ASSUME TypeOK, NEW d \in OnMenu, NEW p \in Nat, dishes' = [dishes EXCEPT ![d].photoUrl = p]
    PROVE /\ MenuStays
          /\ \A e \in OnMenu : dishes'[e].photoUrl = IF e = d THEN p ELSE dishes[e].photoUrl
  <1>1. dishes[d] \in DishRows /\ d \in DOMAIN dishes
    BY DishesAreTyped
  <1>2. PICK row : row = [dishes[d] EXCEPT !.photoUrl = p]
    OBVIOUS
  <1>3. row \in DishRows /\ row.name = dishes[d].name /\ row.photoUrl = p
    BY <1>1, <1>2 DEF DishRows
  <1>4. dishes' = [dishes EXCEPT ![d] = row]
    BY <1>2
  <1>5. /\ OnMenu' = OnMenu
        /\ \A e \in DOMAIN dishes : dishes'[e] = IF e = d THEN row ELSE dishes[e]
    BY <1>3, <1>4, ChangedDish
  <1>6. QED
    BY <1>3, <1>5 DEF MenuStays, OnMenu

\* An edit of a dish moves none, and gives the dish the name that was checked.
LEMMA EditKeepsMenu ==
    ASSUME TypeOK, NEW h \in Reqs, DishEdit(h)
    PROVE /\ OnMenu' = OnMenu
          /\ \A e \in OnMenu :
                \/ dishes'[e].name = dishes[e].name
                \/ e = reqs[h].dish /\ reqs[h].name \in Names /\ dishes'[e].name = reqs[h].name
          /\ \A e \in OnMenu : dishes'[e].photoUrl = dishes[e].photoUrl
  <1>1. CASE dishes' = dishes
    BY <1>1 DEF OnMenu
  <1>2. CASE /\ reqs[h].dish \in OnMenu
             /\ dishes' = [dishes EXCEPT ![reqs[h].dish] =
                             Edited(dishes[reqs[h].dish], reqs[h].name, reqs[h].category)]
    <2>1. PICK d, row : /\ d = reqs[h].dish
                        /\ row = Edited(dishes[d], reqs[h].name, reqs[h].category)
      OBVIOUS
    <2>2. /\ dishes[d] \in DishRows
          /\ reqs[h].name \in Names \cup {None} /\ reqs[h].category \in Nat
      BY <1>2, <2>1, DishesAreTyped, RequestIsTyped
    <2>3. /\ row \in DishRows /\ row.photoUrl = dishes[d].photoUrl
          /\ row.name = IF reqs[h].name = None THEN dishes[d].name ELSE reqs[h].name
      BY <2>1, <2>2, EditedIsARow
    <2>4. /\ OnMenu' = OnMenu
          /\ \A e \in DOMAIN dishes : dishes'[e] = IF e = d THEN row ELSE dishes[e]
      BY <1>2, <2>1, <2>3, ChangedDish
    <2>5. QED
      BY <2>1, <2>2, <2>3, <2>4 DEF OnMenu
  <1>3. QED
    BY <1>1, <1>2, EditWritesARow

\* Requests for photos make, name and delete no dish.
LEMMA PhotosKeepMenu ==
    ASSUME TypeOK, NEW h \in Reqs, ForPhotos(h)
    PROVE MenuStays
  <1>1. CASE dishes' = dishes
    BY <1>1 DEF MenuStays, OnMenu
  <1>2. CASE AddUpdate(h)
    BY <1>1, <1>2, PhotoUrlKeepsMenu, RequestIsTyped DEF AddUpdate
  <1>3. CASE RemoveUpdate(h)
    BY <1>1, <1>3, PhotoUrlKeepsMenu, NewPhotoUrlIsTyped DEF RemoveUpdate
  <1>4. QED
    BY <1>1, <1>2, <1>3 DEF ForPhotos, AddCheck, RemoveLoad, AddRows, RemoveDelete, Renumber, Fail,
       Rows

-----------------------------------------------------------------------------
(* The limits.                                                             *)

\* Some of the requests are no more than all.
LEMMA SomeRequests ==
    ASSUME NEW S, S \subseteq Reqs
    PROVE /\ IsFiniteSet(S) /\ Cardinality(S) \in Nat /\ Cardinality(Reqs) \in Nat
          /\ Cardinality(S) =< Cardinality(Reqs)
  BY SetsAssumption, FS_Subset, FS_CardinalityType

\* The requests at a step.
Waiting(pc) == {h \in Reqs : At(h, pc)}

\* Those at a step that no slot comes to or leaves.
LEMMA WaitingStay ==
    ASSUME NEW pc, NEW P, pc \in P, SlotsStay(P)
    PROVE Waiting(pc)' = Waiting(pc)
  BY DEF Waiting, At, SlotsStay

\* One that goes on to another step no longer counts.
LEMMA OneLessWaits ==
    ASSUME TypeOK, NEW h \in Reqs, NEW pc, At(h, pc), NEW work, Go(h, work), work.pc # pc
    PROVE Cardinality(Waiting(pc)') = Cardinality(Waiting(pc)) - 1
  <1>1. Waiting(pc)' = Waiting(pc) \ {h} /\ h \in Waiting(pc)
    BY DEF Waiting, At, Go, TypeOK
  <1>2. IsFiniteSet(Waiting(pc))
    BY SomeRequests DEF Waiting
  <1>3. QED
    BY <1>1, <1>2, FS_RemoveElement

\* The rows of the account and of the menu, and what two finite sets that
\* differ by one element have.
LEMMA OwnedIsFinite ==
    ASSUME TypeOK
    PROVE IsFiniteSet(owned) /\ Cardinality(owned) \in Nat
  BY SetsAssumption, FS_Subset, FS_CardinalityType DEF TypeOK

\* A set that gains one element at most.
LEMMA OneMoreAtMost ==
    ASSUME NEW S, IsFiniteSet(S), NEW x, NEW T, T \subseteq S \cup {x}
    PROVE /\ IsFiniteSet(T) /\ Cardinality(T) \in Nat /\ Cardinality(S) \in Nat
          /\ Cardinality(T) =< Cardinality(S) + 1
          /\ T \subseteq S => Cardinality(T) =< Cardinality(S)
  <1>1. IsFiniteSet(S \cup {x}) /\ Cardinality(S \cup {x}) =< Cardinality(S) + 1
        /\ Cardinality(S) \in Nat
    BY FS_AddElement, FS_CardinalityType
  <1>2. IsFiniteSet(T) /\ Cardinality(T) =< Cardinality(S \cup {x})
    BY <1>1, FS_Subset
  <1>3. Cardinality(T) \in Nat /\ Cardinality(S \cup {x}) \in Nat
    BY <1>1, <1>2, FS_CardinalityType
  <1>4. T \subseteq S => Cardinality(T) =< Cardinality(S)
    BY FS_Subset
  <1>5. QED
    BY <1>1, <1>2, <1>3, <1>4

\* The two parts of LimitsSound.
MenuLimit ==
    MaxItems # None =>
       Cardinality(OnMenu) + Cardinality(Waiting("dish")) < MaxItems + Cardinality(Reqs)

AccountLimit ==
    Cardinality(owned) + Cardinality(Waiting("restaurant")) < MaxOwned + Cardinality(Reqs)

\* LimitsSound is the two.
LEMMA LimitsAreTwo == LimitsSound <=> MenuLimit /\ AccountLimit
  BY DEF LimitsSound, MenuLimit, AccountLimit, Waiting

\* A restaurant that is created was counted among the requests.
LEMMA AccountStep ==
    ASSUME Sound, AccountLimit, [Next]_vars
    PROVE AccountLimit'
  <1>1. TypeOK /\ TypeOK'
    BY SoundNext DEF Sound
  <1>2. /\ IsFiniteSet(owned) /\ Cardinality(owned) \in Nat
        /\ Cardinality(Waiting("restaurant")) \in Nat /\ Cardinality(Waiting("restaurant")') \in Nat
        /\ Cardinality(Waiting("restaurant")') =< Cardinality(Reqs)
        /\ Cardinality(Reqs) \in Nat /\ MaxOwned \in Nat
    BY <1>1, OwnedIsFinite, SomeRequests, NumbersAssumption DEF Waiting
  <1>3. ASSUME Cardinality(owned') =< Cardinality(owned),
               Waiting("restaurant")' = Waiting("restaurant")
        PROVE AccountLimit'
    <2>1. Cardinality(owned') \in Nat
      BY <1>1, SetsAssumption, FS_Subset, FS_CardinalityType DEF TypeOK
    <2>2. QED
      BY <1>2, <1>3, <2>1 DEF AccountLimit
  <1>4. CASE UNCHANGED vars
    BY <1>2, <1>3, <1>4 DEF vars, Waiting, At
  <1>5. ASSUME NEW h \in Reqs, ForRestaurant(h)
        PROVE AccountLimit'
    <2>1. CASE \E s \in Slugs : RestaurantCheck(h, s)
      <3>1. owned' = owned /\ Cardinality(owned) < MaxOwned
        BY <2>1 DEF RestaurantCheck
      <3>2. QED
        BY <1>2, <3>1 DEF AccountLimit
    <2>2. CASE RestaurantCreate(h)
      <3>1. Cardinality(Waiting("restaurant")') = Cardinality(Waiting("restaurant")) - 1
        BY <1>1, <2>2, OneLessWaits DEF RestaurantCreate, Quit, Idle
      <3>2. owned' \subseteq owned \cup {reqs[h].slug}
        BY <2>2 DEF RestaurantCreate
      <3>3. Cardinality(owned') =< Cardinality(owned) + 1 /\ Cardinality(owned') \in Nat
        BY <1>2, <3>2, OneMoreAtMost
      <3>4. QED
        BY <1>2, <3>1, <3>3 DEF AccountLimit
    <2>3. QED
      BY <1>5, <2>1, <2>2 DEF ForRestaurant
  <1>6. ASSUME NEW h \in Reqs, ForCategory(h) \/ ForDish(h) \/ ForPhotos(h)
        PROVE AccountLimit'
    <2>1. SlotsStay({"restaurant"}) /\ owned' = owned
      <3>1. CASE ForCategory(h)
        BY <1>1, <3>1, CategoryMoves, OthersStay
      <3>2. CASE ForDish(h)
        BY <1>1, <3>2, DishMoves, OthersStay
      <3>3. CASE ForPhotos(h)
        BY <1>1, <3>3, PhotoMoves, OthersStay DEF PhotoSteps
      <3>4. QED
        BY <1>6, <3>1, <3>2, <3>3
    <2>2. QED
      BY <1>2, <1>3, <2>1, WaitingStay
  <1>7. ASSUME NEW s \in Slugs, RestaurantRemove(s) \/ \E slug \in Slugs : RestaurantEdit(s, slug)
        PROVE AccountLimit'
    <2>1. s \in owned /\ UNCHANGED reqs /\ \E slug : owned' \subseteq (owned \ {s}) \cup {slug}
      BY <1>7 DEF RestaurantRemove, RestaurantEdit
    <2>2. IsFiniteSet(owned \ {s}) /\ Cardinality(owned \ {s}) = Cardinality(owned) - 1
      BY <1>2, <2>1, FS_RemoveElement
    <2>3. Cardinality(owned') =< Cardinality(owned)
      BY <1>2, <2>1, <2>2, OneMoreAtMost
    <2>4. QED
      BY <1>3, <2>1, <2>3 DEF Waiting, At
  <1>8. ASSUME NEW d, DishRemove(d)
        PROVE AccountLimit'
    BY <1>2, <1>3, <1>8 DEF DishRemove, Waiting, At
  <1>9. QED
    BY <1>4, <1>5, <1>6, <1>7, <1>8, StepsOfNext

\* So was a dish that is created.
LEMMA MenuLimitStep ==
    ASSUME Sound, MenuLimit, [Next]_vars
    PROVE MenuLimit'
  <1>1. TypeOK /\ TypeOK'
    BY SoundNext DEF Sound
  <1>2. SUFFICES ASSUME MaxItems # None PROVE MenuLimit'
    BY DEF MenuLimit
  <1>3. /\ IsFiniteSet(OnMenu) /\ Cardinality(OnMenu) \in Nat
        /\ Cardinality(Waiting("dish")) \in Nat /\ Cardinality(Waiting("dish")') \in Nat
        /\ Cardinality(Waiting("dish")') =< Cardinality(Reqs)
        /\ Cardinality(Reqs) \in Nat /\ MaxItems \in Nat
    BY <1>1, <1>2, DishesAreTyped, FS_CardinalityType, SomeRequests, NumbersAssumption DEF Waiting
  <1>4. ASSUME OnMenu' \subseteq OnMenu, SlotsStay({"dish"})
        PROVE MenuLimit'
    <2>1. Cardinality(OnMenu') \in Nat /\ Cardinality(OnMenu') =< Cardinality(OnMenu)
      BY <1>3, <1>4, FS_Subset, FS_CardinalityType
    <2>2. QED
      BY <1>2, <1>3, <1>4, <2>1, WaitingStay DEF MenuLimit
  <1>5. ASSUME UNCHANGED reqs
        PROVE SlotsStay({"dish"})
    BY <1>5 DEF SlotsStay
  <1>6. CASE UNCHANGED vars
    BY <1>4, <1>5, <1>6 DEF vars, OnMenu
  <1>7. ASSUME NEW h \in Reqs, ForDish(h)
        PROVE MenuLimit'
    <2>1. CASE \E name \in Names, c \in DOMAIN categories : DishCheck(h, name, c)
      <3>1. OnMenu' = OnMenu /\ Cardinality(OnMenu) < MaxItems
        BY <1>2, <2>1 DEF DishCheck, Rows, OnMenu, UnderPlanItemLimit
      <3>2. QED
        BY <1>3, <3>1 DEF MenuLimit
    <2>2. CASE DishCreate(h)
      <3>1. Cardinality(Waiting("dish")') = Cardinality(Waiting("dish")) - 1
        BY <1>1, <2>2, OneLessWaits DEF DishCreate, Quit, Idle
      <3>2. PICK row : row = [name |-> reqs[h].name, category |-> reqs[h].category,
                              photoUrl |-> 0]
        OBVIOUS
      <3>3. row \in DishRows
        BY <2>2, <3>2, CreatedIsARow DEF DishCreate
      <3>4. dishes' = Append(dishes, row) \/ dishes' = dishes
        BY <2>2, <3>2 DEF DishCreate
      <3>5. OnMenu' \subseteq OnMenu \cup {Len(dishes) + 1}
        BY <1>1, <3>3, <3>4, NewDish DEF OnMenu
      <3>6. Cardinality(OnMenu') =< Cardinality(OnMenu) + 1 /\ Cardinality(OnMenu') \in Nat
        BY <1>3, <3>5, OneMoreAtMost
      <3>7. QED
        BY <1>2, <1>3, <3>1, <3>6 DEF MenuLimit
    <2>3. CASE \E d \in DOMAIN dishes, name \in Names \cup {None}, c \in 0..Len(categories) :
                  DishEditCheck(h, d, name, c)
      <3>1. /\ OnMenu' = OnMenu /\ reqs[h].pc = "idle" /\ reqs'[h].pc = "edit"
            /\ \A g \in Reqs : g # h => reqs'[g] = reqs[g]
        BY <1>1, <2>3 DEF DishEditCheck, Rows, OnMenu, At, Go, TypeOK, Idle
      <3>2. QED
        BY <1>4, <3>1 DEF SlotsStay
    <2>4. CASE DishEdit(h)
      <3>1. /\ reqs[h].pc = "edit" /\ reqs'[h].pc = "idle"
            /\ \A g \in Reqs : g # h => reqs'[g] = reqs[g]
        BY <1>1, <2>4 DEF DishEdit, At, Quit, Go, TypeOK, Idle
      <3>2. OnMenu' = OnMenu
        BY <1>1, <2>4, EditKeepsMenu
      <3>3. QED
        BY <1>4, <3>1, <3>2 DEF SlotsStay
    <2>5. QED
      BY <1>7, <2>1, <2>2, <2>3, <2>4 DEF ForDish
  <1>8. ASSUME NEW h \in Reqs, ForRestaurant(h) \/ ForCategory(h) \/ ForPhotos(h)
        PROVE MenuLimit'
    <2>1. CASE ForRestaurant(h)
      BY <1>1, <1>4, <2>1, RestaurantMoves, OthersStay DEF OnMenu, Rows
    <2>2. CASE ForCategory(h)
      BY <1>1, <1>4, <2>2, CategoryMoves, OthersStay DEF OnMenu
    <2>3. CASE ForPhotos(h)
      BY <1>1, <1>4, <2>3, PhotoMoves, PhotosKeepMenu, OthersStay DEF PhotoSteps, MenuStays
    <2>4. QED
      BY <1>8, <2>1, <2>2, <2>3
  <1>9. ASSUME NEW s \in Slugs, RestaurantRemove(s) \/ \E slug \in Slugs : RestaurantEdit(s, slug)
        PROVE MenuLimit'
    BY <1>4, <1>5, <1>9 DEF RestaurantRemove, RestaurantEdit, Rows, OnMenu
  <1>10. ASSUME NEW d \in DOMAIN dishes, DishRemove(d)
         PROVE MenuLimit'
    BY <1>1, <1>4, <1>5, <1>10, RemovedDish DEF DishRemove
  <1>11. QED
    BY <1>6, <1>7, <1>8, <1>9, <1>10, StepsOfNext

-----------------------------------------------------------------------------
(* The names of dishes.                                                    *)

\* The dishes that have a name or are being given it.
Taken(name) == DishesNamed(name) \cup Renamed(name)

\* They, and those being made with it, are no more than the requests.
NameKept(name) ==
    Cardinality(Taken(name)) + Cardinality(Creating(name)) =< Cardinality(Reqs)

\* A name is taken by finitely many.
LEMMA TakenIsFinite ==
    TypeOK => \A name \in Names :
                 /\ IsFiniteSet(Renaming(name)) /\ IsFiniteSet(Taken(name))
                 /\ Cardinality(Taken(name)) \in Nat
                 /\ Cardinality(Renamed(name)) =< Cardinality(Renaming(name))
                 /\ Cardinality(Creating(name)) \in Nat /\ Cardinality(Renaming(name)) \in Nat
                 /\ Cardinality(Renamed(name)) \in Nat
                 /\ Cardinality(Renaming(name)) + Cardinality(Creating(name))
                       =< Cardinality(Reqs)
  <1>1. SUFFICES ASSUME TypeOK, NEW name \in Names
                 PROVE /\ IsFiniteSet(Renaming(name)) /\ IsFiniteSet(Taken(name))
                       /\ Cardinality(Taken(name)) \in Nat
                       /\ Cardinality(Renamed(name)) =< Cardinality(Renaming(name))
                       /\ Cardinality(Creating(name)) \in Nat
                       /\ Cardinality(Renaming(name)) \in Nat
                       /\ Cardinality(Renamed(name)) \in Nat
                       /\ Cardinality(Renaming(name)) + Cardinality(Creating(name))
                             =< Cardinality(Reqs)
    OBVIOUS
  <1>2. /\ IsFiniteSet(Renaming(name)) /\ Cardinality(Renaming(name)) \in Nat
        /\ IsFiniteSet(Creating(name)) /\ Cardinality(Creating(name)) \in Nat
    BY SomeRequests DEF Renaming, Creating
  <1>3. /\ IsFiniteSet(Renamed(name))
        /\ Cardinality(Renamed(name)) =< Cardinality(Renaming(name))
    <2> DEFINE f == [h \in Renaming(name) |-> reqs[h].dish]
    <2>1. f \in Surjection(Renaming(name), Renamed(name))
      BY DEF Surjection, Renamed
    <2>2. QED
      <3> HIDE DEF f
      <3> QED
        BY <1>2, <2>1, FS_Surjection
  <1>4. IsFiniteSet(DishesNamed(name))
    BY <1>1, DishesAreTyped, FS_Subset DEF DishesNamed
  <1>5. IsFiniteSet(Taken(name))
    BY <1>3, <1>4, FS_Union DEF Taken
  <1>6. Cardinality(Renaming(name)) + Cardinality(Creating(name)) =< Cardinality(Reqs)
    <2>1. Renaming(name) \cap Creating(name) = {}
      BY DEF Renaming, Creating, At
    <2>2. Cardinality(Renaming(name) \cap Creating(name)) = 0
      BY <2>1, FS_EmptySet
    <2>3. Cardinality(Renaming(name) \cup Creating(name))
             = Cardinality(Renaming(name)) + Cardinality(Creating(name))
      <3>1. Cardinality(Renaming(name) \cup Creating(name))
               = Cardinality(Renaming(name)) + Cardinality(Creating(name))
                   - Cardinality(Renaming(name) \cap Creating(name))
        BY <1>2, FS_Union
      <3>2. QED
        BY <1>2, <2>2, <3>1
    <2>4. Cardinality(Renaming(name) \cup Creating(name)) =< Cardinality(Reqs)
      BY SomeRequests DEF Renaming, Creating
    <2>5. QED
      BY <2>3, <2>4
  <1>7. QED
    BY <1>2, <1>3, <1>5, <1>6, FS_CardinalityType

\* A name that only those have that a request is giving it is kept: each of
\* them has its request, and those being made have others.
LEMMA OnlyRenamed ==
    TypeOK => \A name \in Names : DishesNamed(name) \subseteq Renamed(name) => NameKept(name)
  <1>1. SUFFICES ASSUME TypeOK, NEW name \in Names, DishesNamed(name) \subseteq Renamed(name)
                 PROVE NameKept(name)
    OBVIOUS
  <1>2. Taken(name) = Renamed(name)
    BY <1>1 DEF Taken
  <1>3. /\ Cardinality(Renamed(name)) =< Cardinality(Renaming(name))
        /\ Cardinality(Renaming(name)) + Cardinality(Creating(name)) =< Cardinality(Reqs)
        /\ Cardinality(Creating(name)) \in Nat /\ Cardinality(Renaming(name)) \in Nat
        /\ Cardinality(Renamed(name)) \in Nat
    BY <1>1, TakenIsFinite
  <1>4. Cardinality(Reqs) \in Nat
    BY SomeRequests
  <1>5. QED
    BY <1>2, <1>3, <1>4 DEF NameKept

\* ... and so it is after a step.
LEMMA OnlyRenamedNext ==
    (TypeOK => \A name \in Names : DishesNamed(name) \subseteq Renamed(name) => NameKept(name))'
  BY OnlyRenamed, PTL

\* Nothing comes to be named so.
LEMMA NoneIsNamed ==
    ASSUME TypeOK, TypeOK', NEW name \in Names, NameKept(name),
           DishesNamed(name)' \subseteq Taken(name),
           Renamed(name)' \subseteq Renamed(name),
           Creating(name)' = Creating(name)
    PROVE NameKept(name)'
  <1>1. Taken(name)' \subseteq Taken(name)
    BY DEF Taken
  <1>2. IsFiniteSet(Taken(name)) /\ Cardinality(Taken(name)) \in Nat
        /\ Cardinality(Creating(name)) \in Nat
    BY TakenIsFinite
  <1>3. Cardinality(Taken(name)') \in Nat /\ Cardinality(Taken(name)') =< Cardinality(Taken(name))
    BY <1>1, <1>2, FS_Subset, FS_CardinalityType
  <1>4. Cardinality(Reqs) \in Nat
    BY SomeRequests
  <1>5. QED
    BY <1>2, <1>3, <1>4 DEF NameKept

\* Slots that stay give no name and make no dish.
LEMMA NamingStays ==
    ASSUME NEW name, SlotsStay({"dish", "edit"})
    PROVE Renamed(name)' = Renamed(name) /\ Creating(name)' = Creating(name)
  <1>1. \A g \in Reqs : At(g, "dish") \/ At(g, "edit") \/ At(g, "dish")' \/ At(g, "edit")'
                           => reqs'[g] = reqs[g]
    BY DEF SlotsStay, At
  <1>2. Renaming(name)' = Renaming(name) /\ Creating(name)' = Creating(name)
    BY <1>1 DEF Renaming, Creating, At
  <1>3. \A g \in Renaming(name) : reqs'[g].dish = reqs[g].dish
    BY <1>1 DEF Renaming
  <1>4. QED
    BY <1>2, <1>3 DEF Renamed

\* Steps on the side leave a name as it is or take it from a dish.
LEMMA NameStays ==
    ASSUME TypeOK, TypeOK', NEW name \in Names, NameKept(name), SlotsStay({"dish", "edit"}),
           OnMenu' \subseteq OnMenu, \A d \in OnMenu' : dishes'[d].name = dishes[d].name
    PROVE NameKept(name)'
  <1>1. DishesNamed(name)' \subseteq Taken(name)
    BY DEF DishesNamed, Taken
  <1>2. QED
    BY <1>1, NamingStays, NoneIsNamed

\* A request that has looked the name up and found no dish.
LEMMA NameLookedUp ==
    ASSUME TypeOK, TypeOK', NEW h \in Reqs, NEW nm \in Names, NEW c \in DOMAIN categories,
           DishCheck(h, nm, c), NEW name \in Names, NameKept(name)
    PROVE NameKept(name)'
  <1>1. /\ reqs[h].pc = "idle" /\ reqs'[h].pc = "dish" /\ reqs'[h].name = nm
        /\ \A g \in Reqs : g # h => reqs'[g] = reqs[g]
    BY DEF DishCheck, At, Go, TypeOK, Idle
  <1>2. dishes' = dishes
    BY DEF DishCheck, Rows
  <1>3. CASE name = nm
    <2>1. DishesNamed(name)' = {}
      BY <1>2, <1>3, DishesAreTyped DEF DishCheck, NameAvailable, DishesNamed, OnMenu
    <2>2. QED
      BY <2>1, OnlyRenamedNext
  <1>4. CASE name # nm
    <2>1. Creating(name)' = Creating(name) /\ Renaming(name)' = Renaming(name)
      BY <1>1, <1>4 DEF Creating, Renaming, At
    <2>2. \A g \in Renaming(name) : reqs'[g].dish = reqs[g].dish
      BY <1>1 DEF Renaming, At
    <2>3. Renamed(name)' = Renamed(name)
      BY <2>1, <2>2 DEF Renamed
    <2>4. DishesNamed(name)' \subseteq Taken(name)
      BY <1>2 DEF DishesNamed, OnMenu, Taken
    <2>5. QED
      BY <2>1, <2>3, <2>4, NoneIsNamed
  <1>5. QED
    BY <1>3, <1>4

\* ... or none but the dish it renames.
LEMMA NameLookedUpAgain ==
    ASSUME TypeOK, TypeOK', NEW h \in Reqs, NEW d \in DOMAIN dishes,
           NEW nm \in Names \cup {None}, NEW c, DishEditCheck(h, d, nm, c),
           NEW name \in Names, NameKept(name)
    PROVE NameKept(name)'
  <1>1. /\ reqs[h].pc = "idle" /\ reqs'[h].pc = "edit" /\ reqs'[h].name = nm
        /\ reqs'[h].dish = d
        /\ \A g \in Reqs : g # h => reqs'[g] = reqs[g]
    BY DEF DishEditCheck, At, Go, TypeOK, Idle
  <1>2. dishes' = dishes
    BY DEF DishEditCheck, Rows
  <1>3. CASE name = nm
    <2>1. nm # None
      BY <1>3, SetsAssumption
    <2>2. DishesNamed(name)' \subseteq {d}
      BY <1>2, <1>3, <2>1 DEF DishEditCheck, NameAvailable, DishesNamed, OnMenu
    <2>3. h \in Renaming(name)'
      BY <1>1, <1>3 DEF Renaming, At
    <2>4. d \in Renamed(name)'
      BY <1>1, <2>3 DEF Renamed
    <2>5. QED
      BY <2>2, <2>4, OnlyRenamedNext
  <1>4. CASE name # nm
    <2>1. Creating(name)' = Creating(name) /\ Renaming(name)' = Renaming(name)
      BY <1>1, <1>4 DEF Creating, Renaming, At
    <2>2. \A g \in Renaming(name) : reqs'[g].dish = reqs[g].dish
      BY <1>1 DEF Renaming, At
    <2>3. Renamed(name)' = Renamed(name)
      BY <2>1, <2>2 DEF Renamed
    <2>4. DishesNamed(name)' \subseteq Taken(name)
      BY <1>2 DEF DishesNamed, OnMenu, Taken
    <2>5. QED
      BY <2>1, <2>3, <2>4, NoneIsNamed
  <1>5. QED
    BY <1>3, <1>4

\* A request that gives the name to the dish it looked it up for.
LEMMA NameGiven ==
    ASSUME TypeOK, TypeOK', NEW h \in Reqs, DishEdit(h), NEW name \in Names, NameKept(name)
    PROVE NameKept(name)'
  <1>1. /\ reqs[h].pc = "edit" /\ reqs'[h].pc = "idle"
        /\ \A g \in Reqs : g # h => reqs'[g] = reqs[g]
    BY DEF DishEdit, At, Quit, Go, TypeOK, Idle
  <1>2. Creating(name)' = Creating(name)
    BY <1>1 DEF Creating, At
  <1>3. Renaming(name)' = Renaming(name) \ {h}
    BY <1>1 DEF Renaming, At
  <1>4. \A g \in Renaming(name)' : reqs'[g].dish = reqs[g].dish
    BY <1>1, <1>3 DEF Renaming
  <1>5. Renamed(name)' \subseteq Renamed(name)
    BY <1>3, <1>4 DEF Renamed
  <1>6. DishesNamed(name)' \subseteq Taken(name)
    <2>1. ASSUME NEW e \in DishesNamed(name)'
          PROVE e \in Taken(name)
      <3>1. e \in OnMenu /\ dishes'[e].name = name
        BY EditKeepsMenu DEF DishesNamed
      <3>2. CASE dishes'[e].name = dishes[e].name
        BY <3>1, <3>2 DEF Taken, DishesNamed
      <3>3. CASE e = reqs[h].dish /\ reqs[h].name = name
        BY <1>1, <3>3 DEF Taken, Renamed, Renaming, At
      <3>4. QED
        BY <3>1, <3>2, <3>3, EditKeepsMenu
    <2>2. QED
      BY <2>1
  <1>7. QED
    BY <1>2, <1>5, <1>6, NoneIsNamed

\* A request that makes the dish it looked the name up for.
LEMMA NameMade ==
    ASSUME Sound, TypeOK', NEW h \in Reqs, DishCreate(h), NEW name \in Names, NameKept(name)
    PROVE NameKept(name)'
  <1>1. /\ reqs[h].pc = "dish" /\ reqs'[h].pc = "idle"
        /\ \A g \in Reqs : g # h => reqs'[g] = reqs[g]
    BY DEF DishCreate, At, Quit, Go, TypeOK, Idle, Sound
  <1>2. Renaming(name)' = Renaming(name)
    BY <1>1 DEF Renaming, At
  <1>3. \A g \in Renaming(name) : reqs'[g].dish = reqs[g].dish
    BY <1>1 DEF Renaming, At
  <1>4. Renamed(name)' = Renamed(name)
    BY <1>2, <1>3 DEF Renamed
  <1>5. PICK row : row = [name |-> reqs[h].name, category |-> reqs[h].category, photoUrl |-> 0]
    OBVIOUS
  <1>6. row \in DishRows
    BY <1>5, CreatedIsARow DEF DishCreate
  <1>7. dishes' = Append(dishes, row) \/ dishes' = dishes
    BY <1>5 DEF DishCreate
  <1>8. \A e \in OnMenu' : \/ e \in OnMenu /\ dishes'[e] = dishes[e]
                           \/ e = Len(dishes) + 1 /\ dishes'[e] = row
    <2>1. CASE dishes' = Append(dishes, row)
      BY <1>6, <2>1, NewDish DEF Sound
    <2>2. CASE dishes' = dishes
      BY <2>2 DEF OnMenu
    <2>3. QED
      BY <1>7, <2>1, <2>2
  <1>9. CASE reqs[h].name = name
    <2>1. Creating(name)' = Creating(name) \ {h} /\ h \in Creating(name)
      BY <1>1, <1>9 DEF Creating, At
    <2>2. IsFiniteSet(Creating(name))
      BY SomeRequests DEF Creating
    <2>3. Cardinality(Creating(name)') = Cardinality(Creating(name)) - 1
      BY <2>1, <2>2, FS_RemoveElement
    <2>4. Taken(name)' \subseteq Taken(name) \cup {Len(dishes) + 1}
      BY <1>4, <1>8 DEF Taken, DishesNamed
    <2>5. /\ IsFiniteSet(Taken(name)) /\ Cardinality(Taken(name)) \in Nat
          /\ Cardinality(Creating(name)) \in Nat
      BY TakenIsFinite DEF Sound
    <2>6. Cardinality(Taken(name)') =< Cardinality(Taken(name)) + 1 /\ Cardinality(Taken(name)') \in Nat
      BY <2>4, <2>5, OneMoreAtMost
    <2>7. Cardinality(Reqs) \in Nat
      BY SomeRequests
    <2>8. QED
      BY <2>3, <2>5, <2>6, <2>7 DEF NameKept
  <1>10. CASE reqs[h].name # name
    <2>1. Creating(name)' = Creating(name)
      BY <1>1, <1>10 DEF Creating, At
    <2>2. DishesNamed(name)' \subseteq Taken(name)
      BY <1>5, <1>8, <1>10 DEF Taken, DishesNamed
    <2>3. QED
      BY <1>4, <2>1, <2>2, NoneIsNamed DEF Sound
  <1>11. QED
    BY <1>9, <1>10

\* No step leaves more dishes of a name than requests.
LEMMA NamesStep ==
    ASSUME Sound, NamesSound, [Next]_vars
    PROVE NamesSound'
  <1>1. TypeOK /\ TypeOK'
    BY SoundNext DEF Sound
  <1>2. SUFFICES ASSUME NEW name \in Names PROVE NameKept(name)'
    BY DEF NamesSound, NameKept, Taken
  <1>3. NameKept(name)
    BY DEF NamesSound, NameKept, Taken
  <1>4. ASSUME UNCHANGED reqs
        PROVE SlotsStay({"dish", "edit"})
    BY <1>4 DEF SlotsStay
  <1>5. CASE UNCHANGED vars
    BY <1>1, <1>3, <1>4, <1>5, NameStays DEF vars, OnMenu
  <1>6. ASSUME NEW h \in Reqs, ForDish(h)
        PROVE NameKept(name)'
    BY <1>1, <1>3, <1>6, NameLookedUp, NameLookedUpAgain, NameGiven, NameMade DEF ForDish
  <1>7. ASSUME NEW h \in Reqs, ForRestaurant(h) \/ ForCategory(h) \/ ForPhotos(h)
        PROVE NameKept(name)'
    <2>1. SlotsStay({"dish", "edit"}) /\ MenuStays
      <3>1. CASE ForRestaurant(h)
        BY <1>1, <3>1, RestaurantMoves, OthersStay DEF OnMenu, Rows, MenuStays
      <3>2. CASE ForCategory(h)
        BY <1>1, <3>2, CategoryMoves, OthersStay DEF OnMenu, MenuStays
      <3>3. CASE ForPhotos(h)
        BY <1>1, <3>3, PhotoMoves, PhotosKeepMenu, OthersStay DEF PhotoSteps
      <3>4. QED
        BY <1>7, <3>1, <3>2, <3>3
    <2>2. QED
      BY <1>1, <1>3, <2>1, NameStays DEF MenuStays
  <1>8. ASSUME NEW s \in Slugs, RestaurantRemove(s) \/ \E slug \in Slugs : RestaurantEdit(s, slug)
        PROVE NameKept(name)'
    BY <1>1, <1>3, <1>4, <1>8, NameStays DEF RestaurantRemove, RestaurantEdit, Rows, OnMenu
  <1>9. ASSUME NEW d \in DOMAIN dishes, DishRemove(d)
        PROVE NameKept(name)'
    <2>1. OnMenu' \subseteq OnMenu /\ \A e \in OnMenu' : dishes'[e] = dishes[e]
      BY <1>1, <1>9, RemovedDish DEF DishRemove
    <2>2. QED
      BY <1>1, <1>3, <1>4, <1>9, <2>1, NameStays DEF DishRemove
  <1>10. QED
    BY <1>5, <1>6, <1>7, <1>8, <1>9, StepsOfNext

-----------------------------------------------------------------------------
(* The order of photos, when the requests for photos come one at a time.   *)

\* PhotosSettled, with the request's work named.
PhotosFine ==
    ~overlapped =>
       /\ \A g, h \in Reqs : reqs[g].pc \in PhotoSteps /\ reqs[h].pc \in PhotoSteps => g = h
       /\ \A d \in OnMenu :
             (\A h \in Reqs : reqs[h].pc \in PhotoSteps => reqs[h].dish # d) => InOrder(d)
       /\ \A h \in Reqs, work \in Work :
             reqs[h] = work /\ work.pc \in PhotoSteps /\ work.dish \in OnMenu => Underway(work)

\* It says the same, ...
LEMMA FineIsSettled == TypeOK => (PhotosFine <=> PhotosSettled)
  <1>1. SUFFICES ASSUME TypeOK PROVE PhotosFine <=> PhotosSettled
    OBVIOUS
  <1>2. \A h \in Reqs : reqs[h] \in Work
    BY <1>1, RequestIsTyped
  <1>3. \A h \in Reqs : HandlesPhotos(h) <=> reqs[h].pc \in PhotoSteps
    BY DEF HandlesPhotos, PhotoSteps
  <1>4. QED
    BY <1>2, <1>3 DEF PhotosFine, PhotosSettled

\* ... after a step too.
LEMMA FineIsSettledNext == (TypeOK => (PhotosFine <=> PhotosSettled))'
  BY FineIsSettled, PTL

\* A dish whose photos, their order and display photo stay.
SameDish(d) ==
    /\ PhotosOf(d)' = PhotosOf(d)
    /\ \A p \in PhotosOf(d) : photos'[p].order = photos[p].order
    /\ dishes'[d].photoUrl = dishes[d].photoUrl

\* If its photos are in order they stay so, ...
LEMMA InOrderStays ==
    ASSUME NEW d, SameDish(d)
    PROVE /\ OrdersOf(d)' = OrdersOf(d)
          /\ InOrder(d)' <=> InOrder(d)
  <1>1. OrdersOf(d)' = OrdersOf(d)
    BY DEF SameDish, OrdersOf
  <1>2. QED
    BY <1>1 DEF SameDish, InOrder

\* ... and a request for its photos is as far as it was.
LEMMA UnderwayStays ==
    ASSUME NEW work \in Work, SameDish(work.dish), Underway(work)
    PROVE Underway(work)'
  <1>1. PICK d : d = work.dish
    OBVIOUS
  <1>2. /\ PhotosOf(d)' = PhotosOf(d) /\ OrdersOf(d)' = OrdersOf(d)
        /\ InOrder(d)' <=> InOrder(d)
        /\ \A p \in PhotosOf(d) : photos'[p].order = photos[p].order
    BY <1>1, InOrderStays DEF SameDish
  <1>3. ASSUME NEW S, S \subseteq PhotosOf(d), NEW k, LeftOf(work, S, k)
        PROVE LeftOf(work, S, k)'
    <2>1. \A i \in DOMAIN work.left : work.left[i].id \in PhotosOf(d)
      BY <1>3 DEF LeftOf
    <2>2. QED
      BY <1>2, <1>3, <2>1 DEF LeftOf
  <1>4. CASE work.pc = "rows"
    BY <1>1, <1>2, <1>4 DEF Underway
  <1>5. CASE work.pc = "added"
    BY <1>1, <1>2, <1>5 DEF Underway
  <1>6. CASE work.pc = "delete"
    <2>1. /\ InOrder(d) /\ work.photo \in PhotosOf(d) /\ work.count = 0
          /\ LeftOf(work, PhotosOf(d) \ {work.photo}, photos[work.photo].order)
      BY <1>1, <1>6 DEF Underway
    <2>2. PICK S, k : S = PhotosOf(d) \ {work.photo} /\ k = photos[work.photo].order
      OBVIOUS
    <2>3. LeftOf(work, S, k)'
      BY <1>3, <2>1, <2>2
    <2>4. S = PhotosOf(d)' \ {work.photo} /\ k = photos'[work.photo].order
      BY <1>2, <2>1, <2>2
    <2>5. LeftOf(work, PhotosOf(d) \ {work.photo}, photos[work.photo].order)'
      BY <2>3, <2>4 DEF LeftOf
    <2>6. QED
      BY <1>1, <1>2, <1>6, <2>1, <2>5 DEF Underway
  <1>7. CASE work.pc = "renumber"
    <2>1. PICK k \in 0..MaxItemPhotos : LeftOf(work, PhotosOf(d), k)
      BY <1>1, <1>7 DEF Underway
    <2>2. PICK S : S = PhotosOf(d)
      OBVIOUS
    <2>3. LeftOf(work, S, k)'
      BY <1>3, <2>1, <2>2
    <2>4. LeftOf(work, PhotosOf(d), k)'
      BY <1>2, <2>2, <2>3 DEF LeftOf
    <2>5. QED
      BY <1>1, <1>7, <2>4 DEF Underway
  <1>8. CASE work.pc \notin PhotoSteps
    BY <1>8 DEF Underway, PhotoSteps
  <1>9. QED
    BY <1>4, <1>5, <1>6, <1>7, <1>8 DEF PhotoSteps

\* A step that handles no photos keeps the order there is.
LEMMA FineOnTheSide ==
    ASSUME Sound, TypeOK', PhotosFine, SlotsStay(PhotoSteps), overlapped' = overlapped,
           \A e \in OnMenu' : \/ e \in OnMenu /\ SameDish(e)
                              \/ e \notin DOMAIN dishes /\ InOrder(e)'
    PROVE PhotosFine'
  <1>1. SUFFICES ASSUME ~overlapped PROVE PhotosFine'
    BY DEF PhotosFine
  <1>2. \A g \in Reqs : reqs[g].pc \in PhotoSteps \/ reqs'[g].pc \in PhotoSteps
                           => reqs'[g] = reqs[g]
    BY DEF SlotsStay
  <1>3. \A g, h \in Reqs : reqs'[g].pc \in PhotoSteps /\ reqs'[h].pc \in PhotoSteps => g = h
    BY <1>1, <1>2 DEF PhotosFine
  <1>4. ASSUME NEW d \in OnMenu',
               \A h \in Reqs : reqs'[h].pc \in PhotoSteps => reqs'[h].dish # d
        PROVE InOrder(d)'
    <2>1. CASE d \in OnMenu /\ SameDish(d)
      <3>1. \A h \in Reqs : reqs[h].pc \in PhotoSteps => reqs[h].dish # d
        BY <1>2, <1>4
      <3>2. QED
        BY <1>1, <2>1, <3>1, InOrderStays DEF PhotosFine
    <2>2. QED
      BY <2>1
  <1>5. ASSUME NEW h \in Reqs, NEW work \in Work, reqs'[h] = work,
               work.pc \in PhotoSteps, work.dish \in OnMenu'
        PROVE Underway(work)'
    <2>1. reqs[h] = work
      BY <1>2, <1>5
    <2>2. work.dish \in DOMAIN dishes
      BY <1>5, <2>1 DEF Sound, RequestsSound, WorkSound, PhotoSteps
    <2>3. work.dish \in OnMenu /\ SameDish(work.dish)
      BY <1>5, <2>2
    <2>4. Underway(work)
      BY <1>1, <1>5, <2>1, <2>3 DEF PhotosFine
    <2>5. QED
      BY <2>3, <2>4, UnderwayStays
  <1>6. QED
    BY <1>3, <1>4, <1>5 DEF PhotosFine

\* A request for photos that starts when there is no other.
LEMMA FineStart ==
    ASSUME Sound, TypeOK', PhotosFine, UNCHANGED <<dishes, photos>>,
           NEW h \in Reqs, NEW work \in Work, StartPhotos(h, work),
           work.dish \in OnMenu /\ InOrder(work.dish) => Underway(work)
    PROVE PhotosFine'
  <1>1. SUFFICES ASSUME ~overlapped' PROVE PhotosFine'
    BY DEF PhotosFine
  <1>2. ~overlapped /\ \A g \in Reqs : reqs[g].pc \notin PhotoSteps
    BY <1>1 DEF StartPhotos, HandlesPhotos, PhotoSteps, Sound, TypeOK
  <1>3. reqs'[h] = work /\ \A g \in Reqs : g # h => reqs'[g] = reqs[g]
    BY GoChangesOne DEF StartPhotos, Sound
  <1>4. OnMenu' = OnMenu /\ \A d \in OnMenu : SameDish(d)
    BY DEF OnMenu, SameDish, PhotosOf, Stored
  <1>5. \A d \in OnMenu : InOrder(d) /\ InOrder(d)'
    BY <1>2, <1>4, InOrderStays DEF PhotosFine
  <1>6. work.dish \in OnMenu => Underway(work)'
    BY <1>4, <1>5, UnderwayStays
  <1>7. QED
    BY <1>2, <1>3, <1>4, <1>5, <1>6 DEF PhotosFine

\* A step of the request there is: its dish is in order when it is done.
LEMMA FineRequestStep ==
    ASSUME Sound, TypeOK', PhotosFine, overlapped' = overlapped,
           NEW h \in Reqs, reqs[h].pc \in PhotoSteps, NEW d, d = reqs[h].dish,
           NEW work \in Work, Go(h, work),
           work.pc = "idle" \/ (work.pc \in PhotoSteps /\ work.dish = d),
           OnMenu' = OnMenu, \A e \in OnMenu : e # d => SameDish(e),
           ~overlapped /\ d \in OnMenu =>
              \/ work.pc = "idle" /\ InOrder(d)'
              \/ work.pc # "idle" /\ Underway(work)'
    PROVE PhotosFine'
  <1>1. SUFFICES ASSUME ~overlapped PROVE PhotosFine'
    BY DEF PhotosFine
  <1>2. reqs'[h] = work /\ \A g \in Reqs : g # h => reqs'[g] = reqs[g]
    BY GoChangesOne DEF Sound
  <1>3. \A g \in Reqs : g # h => reqs[g].pc \notin PhotoSteps /\ reqs'[g].pc \notin PhotoSteps
    BY <1>1, <1>2 DEF PhotosFine
  <1>4. \A e \in OnMenu : e # d => InOrder(e)
    BY <1>1, <1>3 DEF PhotosFine
  <1>5. \A e \in OnMenu : e # d => InOrder(e)'
    BY <1>4, InOrderStays
  <1>6. "idle" \notin PhotoSteps
    BY DEF PhotoSteps
  <1>7. ASSUME NEW e \in OnMenu',
               \A g \in Reqs : reqs'[g].pc \in PhotoSteps => reqs'[g].dish # e
        PROVE InOrder(e)'
    <2>1. CASE e = d
      <3>1. work.pc = "idle"
        BY <1>2, <1>7, <2>1
      <3>2. QED
        BY <1>1, <2>1, <3>1
    <2>2. QED
      BY <1>5, <2>1
  <1>8. QED
    BY <1>1, <1>2, <1>3, <1>6, <1>7 DEF PhotosFine

-----------------------------------------------------------------------------
(* Steps beside the photos.                                                *)

\* Photos that stay and a display photo that stays.
LEMMA SameWithPhotos ==
    ASSUME UNCHANGED photos, NEW e, dishes'[e].photoUrl = dishes[e].photoUrl
    PROVE SameDish(e)
  BY DEF SameDish, PhotosOf, Stored

\* Requests for restaurants, cuisine types and dishes keep the order: a dish
\* that is new has no photos.
LEMMA FineOthers ==
    ASSUME Sound, TypeOK', PhotosFine, NEW h \in Reqs,
           ForRestaurant(h) \/ ForCategory(h) \/ ForDish(h)
    PROVE PhotosFine'
  <1>1. TypeOK /\ RowsSound
    BY DEF Sound
  <1>2. SlotsStay(PhotoSteps) /\ UNCHANGED Photos
    <2>1. CASE ForRestaurant(h)
      BY <1>1, <2>1, RestaurantMoves, OthersStay DEF PhotoSteps
    <2>2. CASE ForCategory(h)
      BY <1>1, <2>2, CategoryMoves, OthersStay DEF PhotoSteps
    <2>3. CASE ForDish(h)
      BY <1>1, <2>3, DishMoves, OthersStay DEF PhotoSteps
    <2>4. QED
      BY <2>1, <2>2, <2>3
  <1>3. photos' = photos /\ overlapped' = overlapped
    BY <1>2 DEF Photos
  <1>4. CASE dishes' = dishes
    BY <1>2, <1>3, <1>4, SameWithPhotos, FineOnTheSide DEF OnMenu
  <1>5. CASE DishEdit(h)
    BY <1>1, <1>2, <1>3, <1>5, EditKeepsMenu, SameWithPhotos, FineOnTheSide
  <1>6. CASE DishCreate(h)
    <2>1. PICK row : row = [name |-> reqs[h].name, category |-> reqs[h].category, photoUrl |-> 0]
      OBVIOUS
    <2>2. row \in DishRows
      BY <1>6, <2>1, CreatedIsARow DEF DishCreate
    <2>3. CASE dishes' = Append(dishes, row)
      <3>1. PICK new : new = Len(dishes) + 1
        OBVIOUS
      <3>2. /\ OnMenu' = OnMenu \cup {new} /\ dishes'[new] = row
            /\ \A d \in OnMenu : dishes'[d] = dishes[d]
        BY <1>1, <2>2, <2>3, <3>1, NewDish
      <3>3. new \notin DOMAIN dishes
        BY <1>1, <3>1, DishesAreTyped
      <3>4. PhotosOf(new)' = {}
        BY <1>1, <1>3, <3>3 DEF PhotosOf, Stored, RowsSound
      <3>5. InOrder(new)'
        <4>1. OrdersOf(new)' = {}
          BY <3>4 DEF OrdersOf
        <4>2. Cardinality(PhotosOf(new)') = 0 /\ 0..(0 - 1) = {}
          BY <3>4, FS_EmptySet
        <4>3. dishes'[new].photoUrl = 0
          BY <2>1, <3>2
        <4>4. QED
          BY <3>4, <4>1, <4>2, <4>3 DEF InOrder
      <3>6. \A e \in OnMenu' : \/ e \in OnMenu /\ SameDish(e)
                               \/ e \notin DOMAIN dishes /\ InOrder(e)'
        BY <1>3, <3>2, <3>3, <3>5, SameWithPhotos
      <3>7. QED
        BY <1>2, <1>3, <3>6, FineOnTheSide
    <2>4. QED
      BY <1>4, <1>6, <2>1, <2>3 DEF DishCreate
  <1>7. QED
    BY <1>4, <1>5, <1>6 DEF ForRestaurant, ForCategory, ForDish, RestaurantCheck,
       RestaurantCreate, CategoryCheck, CategoryRenameCheck, CategoryRemoveCheck, CategoryCreate,
       CategoryRename, CategoryRemove, DishCheck, DishEditCheck, Rows

\* A dish that is removed takes no photo of another.
LEMMA FineRemove ==
    ASSUME Sound, TypeOK', PhotosFine, NEW d \in DOMAIN dishes, DishRemove(d)
    PROVE PhotosFine'
  <1>1. /\ OnMenu' = OnMenu \ {d}
        /\ \A e \in OnMenu' : dishes'[e] = dishes[e]
        /\ Stored' = Stored \ PhotosOf(d)
        /\ \A p \in Stored' : photos'[p] = photos[p]
    BY RemovedDish DEF Sound, DishRemove
  <1>2. \A e : e # d => PhotosOf(e)' = PhotosOf(e)
    BY <1>1 DEF PhotosOf
  <1>3. \A e : e # d => \A p \in PhotosOf(e) : photos'[p] = photos[p]
    BY <1>1 DEF PhotosOf
  <1>4. \A e \in OnMenu' : e \in OnMenu /\ SameDish(e)
    BY <1>1, <1>2, <1>3 DEF SameDish
  <1>5. SlotsStay(PhotoSteps) /\ overlapped' = overlapped
    BY DEF DishRemove, SlotsStay
  <1>6. QED
    BY <1>4, <1>5, FineOnTheSide

-----------------------------------------------------------------------------
(* Uploads.                                                                *)

\* A request for photos that starts with its dish in order.
LEMMA FineAddCheck ==
    ASSUME Sound, TypeOK', PhotosFine, NEW h \in Reqs, NEW d \in DOMAIN dishes,
           NEW n \in 1..MaxItemPhotos, AddCheck(h, d, n)
    PROVE PhotosFine'
  <1>1. PICK count : count = Cardinality(PhotosOf(d))
    OBVIOUS
  <1>2. d \in Nat /\ n \in Nat /\ n # 0 /\ count \in Nat
    BY <1>1, DishesAreTyped, PhotosAreFew, NumbersAssumption DEF Sound
  <1>3. PICK work : work = [Idle EXCEPT !.pc = "rows", !.dish = d, !.count = count,
                                        !.files = n]
    OBVIOUS
  <1>4. work \in Work
    BY <1>2, <1>3, IdleIsTyped DEF Idle, Work, Steps
  <1>5. work.pc = "rows" /\ work.dish = d /\ work.count = count /\ work.files = n
    BY <1>3 DEF Idle
  <1>6. InOrder(d) => Underway(work)
    BY <1>1, <1>2, <1>5 DEF Underway
  <1>7. QED
    BY <1>1, <1>3, <1>4, <1>5, <1>6, FineStart DEF AddCheck, Rows

\* Photos that are in order have one at the first place, the display photo.
LEMMA OneIsFirst ==
    ASSUME Sound, NEW d, NEW p \in PhotosOf(d), photos[p].order = 0,
           NEW q \in PhotosOf(d), photos[q].order = 0
    PROVE p = q
  BY DEF Sound, RowsSound, PhotosOf

\* What an upload does to its dish.
LEMMA UploadedPhotos ==
    ASSUME Sound, NEW d \in Nat, NEW count \in Nat, NEW files \in Nat \ {0},
           photos' = photos \o Added(d, count, files),
           Cardinality(PhotosOf(d)) = count, OrdersOf(d) = 0..(count - 1)
    PROVE /\ Cardinality(PhotosOf(d)') = count + files
          /\ OrdersOf(d)' = 0..(count + files - 1)
          /\ PhotosOf(d) \subseteq PhotosOf(d)'
          /\ \A p \in PhotosOf(d) : photos'[p] = photos[p]
          /\ Len(photos) + 1 \in PhotosOf(d)' /\ photos'[Len(photos) + 1].order = count
          /\ \A e : e # d => PhotosOf(e)' = PhotosOf(e)
                               /\ \A p \in PhotosOf(e) : photos'[p] = photos[p]
  <1>0. PICK len : len = Len(photos)
    OBVIOUS
  <1> DEFINE new == (len + 1)..(len + files)
  <1>1. TypeOK /\ len \in Nat /\ DOMAIN photos = 1..len /\ Stored \subseteq DOMAIN photos
    BY <1>0, PhotosAreTyped DEF Sound
  <1>2. /\ Stored' = Stored \cup new
        /\ \A p \in Stored : photos'[p] = photos[p]
    BY <1>0, <1>1, NewPhotos
  <1>3. ASSUME NEW p \in new
        PROVE /\ p \notin DOMAIN photos /\ p - len \in 1..files
              /\ photos'[p].dish = d
              /\ photos'[p].order = count + (p - len) - 1
    <2>1. p \in Stored' \ Stored
      BY <1>1, <1>2, <1>3
    <2>2. QED
      <3>1. /\ p \notin DOMAIN photos /\ p - Len(photos) \in 1..files
            /\ photos'[p].dish = d
            /\ photos'[p].order = count + (p - Len(photos)) - 1
        BY <1>1, <2>1, NewPhotos
      <3>2. QED
        BY <1>0, <3>1
  <1>4. PhotosOf(d)' = PhotosOf(d) \cup new
    BY <1>2, <1>3 DEF PhotosOf
  <1>5. \A e : e # d => PhotosOf(e)' = PhotosOf(e)
                          /\ \A p \in PhotosOf(e) : photos'[p] = photos[p]
    BY <1>2, <1>3 DEF PhotosOf
  <1>6. \A p \in PhotosOf(d) : photos'[p] = photos[p]
    BY <1>2 DEF PhotosOf
  <1>7. Cardinality(PhotosOf(d)') = count + files
    <2>1. IsFiniteSet(new) /\ Cardinality(new) = files
      <3>1. len + 1 \in Int /\ len + files \in Int
        BY <1>1
      <3>2. IsFiniteSet(new)
            /\ Cardinality(new) = IF len + 1 > len + files THEN 0
                                  ELSE (len + files) - (len + 1) + 1
        BY <3>1, FS_Interval
      <3>3. QED
        BY <1>1, <3>2
    <2>2. IsFiniteSet(PhotosOf(d))
      BY <1>1, PhotosOfAreStored
    <2>3. PhotosOf(d) \cap new = {}
      BY <1>1, <1>3 DEF PhotosOf
    <2>4. Cardinality(PhotosOf(d) \cap new) = 0
      BY <2>3, FS_EmptySet
    <2>5. Cardinality(PhotosOf(d) \cup new)
             = Cardinality(PhotosOf(d)) + Cardinality(new) - Cardinality(PhotosOf(d) \cap new)
      <3> HIDE DEF new
      <3> QED
        BY <2>1, <2>2, FS_Union
    <2>6. QED
      BY <1>4, <2>1, <2>4, <2>5
  <1>8. OrdersOf(d)' = 0..(count + files - 1)
    <2>1. OrdersOf(d)' = OrdersOf(d) \cup {photos'[p].order : p \in new}
      BY <1>4, <1>6 DEF OrdersOf
    <2>2. ASSUME NEW p \in new
          PROVE photos'[p].order \in count..(count + files - 1)
      <3>1. PICK i : i = p - len
        OBVIOUS
      <3>2. i \in 1..files /\ photos'[p].order = count + i - 1
        BY <1>3, <3>1
      <3>3. QED
        BY <3>2
    <2>3. ASSUME NEW o \in count..(count + files - 1)
          PROVE o \in {photos'[p].order : p \in new}
      <3>1. PICK p : p = len + (o - count) + 1
        OBVIOUS
      <3>2. p \in new /\ count + (p - len) - 1 = o
        BY <1>1, <3>1
      <3>3. photos'[p].order = o
        BY <1>3, <3>2
      <3>4. QED
        BY <3>2, <3>3
    <2>4. {photos'[p].order : p \in new} = count..(count + files - 1)
      BY <2>2, <2>3
    <2>5. 0..(count - 1) \cup count..(count + files - 1) = 0..(count + files - 1)
      OBVIOUS
    <2>6. QED
      BY <2>1, <2>4, <2>5
  <1>9. len + 1 \in new
    BY <1>1
  <1>10. photos'[len + 1].order = count
    <2>1. photos'[len + 1].order = count + ((len + 1) - len) - 1
      BY <1>3, <1>9
    <2>2. QED
      BY <1>1, <2>1
  <1>11. QED
    BY <1>0, <1>4, <1>5, <1>6, <1>7, <1>8, <1>9, <1>10

\* An upload that is refused changes nothing; one that is not comes after the
\* photos that are there, or its first photo is to be displayed.
LEMMA FineAddRows ==
    ASSUME Sound, TypeOK', PhotosFine, NEW h \in Reqs, AddRows(h)
    PROVE PhotosFine'
  <1>1. PICK d, count, files : d = reqs[h].dish /\ count = reqs[h].count /\ files = reqs[h].files
    OBVIOUS
  <1>2. d \in DOMAIN dishes /\ d \in Nat /\ count \in Nat /\ files \in Nat
    BY <1>1, AddRowsIs
  <1>3. /\ reqs[h].pc = "rows" /\ reqs[h] \in Work /\ UNCHANGED <<Rows, overlapped>>
        /\ dishes' = dishes /\ OnMenu' = OnMenu /\ reqs[h].pc \in PhotoSteps
    BY RequestIsTyped DEF AddRows, At, Sound, Rows, OnMenu, PhotoSteps
  <1>4. ~overlapped /\ d \in OnMenu => /\ InOrder(d) /\ count = Cardinality(PhotosOf(d))
                                      /\ files # 0
    BY <1>1, <1>3 DEF PhotosFine, Underway
  <1>5. CASE photos' = photos /\ Quit(h)
    <2>1. \A e : SameDish(e)
      BY <1>3, <1>5, SameWithPhotos
    <2>2. ~overlapped /\ d \in OnMenu => InOrder(d)'
      BY <1>4, <2>1, InOrderStays
    <2>3. QED
      BY <1>1, <1>3, <1>5, <2>1, <2>2, IdleIsTyped, FineRequestStep DEF Quit
  <1>6. CASE /\ photos' = photos \o Added(d, count, files)
             /\ Go(h, [reqs[h] EXCEPT !.pc = "added", !.photo = Len(photos) + 1])
    <2>1. PICK p : p = Len(photos) + 1
      OBVIOUS
    <2>2. p \in Nat /\ "added" \in Steps
      BY <2>1, PhotosAreTyped DEF Sound, Steps
    <2>3. PICK work : work = [reqs[h] EXCEPT !.pc = "added", !.photo = p]
      OBVIOUS
    <2>4. /\ work \in Work /\ work.pc = "added" /\ work.dish = d /\ work.photo = p
          /\ work.count = count
      BY <1>1, <1>3, <2>2, <2>3 DEF Work
    <2>5. \A e : e # d => SameDish(e)
      <3>1. ASSUME NEW e, e # d
            PROVE PhotosOf(e)' = PhotosOf(e) /\ \A q \in PhotosOf(e) : photos'[q] = photos[q]
        <4>1. /\ Stored \subseteq Stored' /\ \A q \in Stored : photos'[q] = photos[q]
              /\ \A q \in Stored' \ Stored : photos'[q].dish = d
          BY <1>2, <1>6, NewPhotos DEF Sound
        <4>2. QED
          BY <3>1, <4>1 DEF PhotosOf
      <3>2. QED
        BY <1>3, <3>1 DEF SameDish
    <2>6. ASSUME ~overlapped, d \in OnMenu
          PROVE Underway(work)'
      <3>1. InOrder(d) /\ count = Cardinality(PhotosOf(d)) /\ files \in Nat \ {0}
        BY <1>2, <1>4, <2>6
      <3>2. OrdersOf(d) = 0..(count - 1)
        BY <3>1 DEF InOrder
      <3>3. /\ Cardinality(PhotosOf(d)') = count + files
            /\ OrdersOf(d)' = 0..(count + files - 1)
            /\ PhotosOf(d) \subseteq PhotosOf(d)'
            /\ \A q \in PhotosOf(d) : photos'[q] = photos[q]
            /\ p \in PhotosOf(d)' /\ photos'[p].order = count
        BY <1>2, <1>6, <2>1, <3>1, <3>2, UploadedPhotos
      <3>4. count # 0 => InOrder(d)'
        <4>1. ASSUME count # 0
              PROVE InOrder(d)'
          <5>1. PhotosOf(d) # {}
            BY <3>1, <4>1, FS_EmptySet
          <5>2. PICK q \in PhotosOf(d) : photos[q].order = 0 /\ dishes[d].photoUrl = q
            BY <3>1, <5>1 DEF InOrder
          <5>3. q \in PhotosOf(d)' /\ photos'[q].order = 0 /\ dishes'[d].photoUrl = q
            BY <1>3, <3>3, <5>2
          <5>4. QED
            <6>1. OrdersOf(d)' = 0..(Cardinality(PhotosOf(d)') - 1)
              BY <1>2, <3>3
            <6>2. PhotosOf(d)' # {}
              BY <5>3
            <6>3. QED
              BY <5>3, <6>1, <6>2 DEF InOrder
        <4>2. QED
          BY <4>1
      <3>5. OrdersOf(d)' = 0..(Cardinality(PhotosOf(d)') - 1)
        BY <1>2, <3>3
      <3>6. QED
        BY <2>4, <3>3, <3>4, <3>5 DEF Underway
    <2>7. QED
      BY <1>1, <1>3, <1>6, <2>1, <2>3, <2>4, <2>5, <2>6, FineRequestStep DEF PhotoSteps
  <1>7. QED
    BY <1>1, <1>5, <1>6, AddRowsIs

\* A write of the display photo of the request's dish.
LEMMA DisplayWritten ==
    ASSUME Sound, UNCHANGED photos, NEW d \in OnMenu, NEW p \in Nat,
           dishes' = [dishes EXCEPT ![d].photoUrl = p]
    PROVE /\ OnMenu' = OnMenu /\ dishes'[d].photoUrl = p
          /\ \A e \in OnMenu : e # d => SameDish(e)
          /\ PhotosOf(d)' = PhotosOf(d) /\ OrdersOf(d)' = OrdersOf(d)
  <1>1. /\ OnMenu' = OnMenu
        /\ \A e \in OnMenu : dishes'[e].photoUrl = IF e = d THEN p ELSE dishes[e].photoUrl
    BY PhotoUrlKeepsMenu DEF Sound, MenuStays
  <1>2. \A e \in OnMenu : e # d => SameDish(e)
    BY <1>1, SameWithPhotos
  <1>3. PhotosOf(d)' = PhotosOf(d)
    BY DEF PhotosOf, Stored
  <1>4. OrdersOf(d)' = OrdersOf(d)
    BY <1>3 DEF OrdersOf
  <1>5. QED
    BY <1>1, <1>2, <1>3, <1>4

\* The first photo of a dish that had none is displayed.
LEMMA FineAddUpdate ==
    ASSUME Sound, TypeOK', PhotosFine, NEW h \in Reqs, AddUpdate(h)
    PROVE PhotosFine'
  <1>1. PICK d, p : d = reqs[h].dish /\ p = reqs[h].photo
    OBVIOUS
  <1>2. /\ reqs[h].pc = "added" /\ reqs[h] \in Work /\ photos' = photos
        /\ overlapped' = overlapped /\ reqs[h].pc \in PhotoSteps /\ p \in Nat
        /\ Go(h, Idle) /\ Idle \in Work /\ Idle.pc = "idle"
    BY <1>1, RequestIsTyped, IdleIsTyped DEF AddUpdate, At, Sound, Photos, PhotoSteps, Quit
  <1>3. ~overlapped /\ d \in OnMenu =>
           /\ OrdersOf(d) = 0..(Cardinality(PhotosOf(d)) - 1)
           /\ IF reqs[h].count = 0 THEN p \in PhotosOf(d) /\ photos[p].order = 0
                                   ELSE InOrder(d)
    BY <1>1, <1>2 DEF PhotosFine, Underway
  <1>4. CASE ~(d \in OnMenu /\ reqs[h].count = 0)
    <2>1. dishes' = dishes
      BY <1>1, <1>4 DEF AddUpdate
    <2>2. OnMenu' = OnMenu /\ \A e \in OnMenu : SameDish(e)
      BY <1>2, <2>1, SameWithPhotos DEF OnMenu
    <2>3. ~overlapped /\ d \in OnMenu => InOrder(d)'
      BY <1>3, <1>4, <2>2, InOrderStays
    <2>4. QED
      BY <1>1, <1>2, <2>2, <2>3, FineRequestStep
  <1>5. CASE d \in OnMenu /\ reqs[h].count = 0
    <2>1. dishes' = [dishes EXCEPT ![d].photoUrl = p]
      BY <1>1, <1>5 DEF AddUpdate
    <2>2. /\ OnMenu' = OnMenu /\ dishes'[d].photoUrl = p
          /\ \A e \in OnMenu : e # d => SameDish(e)
          /\ PhotosOf(d)' = PhotosOf(d) /\ OrdersOf(d)' = OrdersOf(d)
      BY <1>2, <1>5, <2>1, DisplayWritten
    <2>3. ~overlapped => InOrder(d)'
      <3>1. ASSUME ~overlapped
            PROVE InOrder(d)'
        <4>1. p \in PhotosOf(d)' /\ photos'[p].order = 0
          BY <1>2, <1>3, <1>5, <2>2, <3>1
        <4>2. OrdersOf(d)' = 0..(Cardinality(PhotosOf(d)') - 1)
          BY <1>3, <1>5, <2>2, <3>1
        <4>3. QED
          BY <2>2, <4>1, <4>2 DEF InOrder
      <3>2. QED
        BY <3>1
    <2>4. QED
      BY <1>1, <1>2, <2>2, <2>3, FineRequestStep
  <1>6. QED
    BY <1>4, <1>5

-----------------------------------------------------------------------------
(* Removals.                                                               *)

\* The place of a photo among those that are left is its order, less one past
\* the one that goes.
LEMMA PlacesWithoutOne ==
    ASSUME Sound, NEW d, NEW p \in PhotosOf(d),
           OrdersOf(d) = 0..(Cardinality(PhotosOf(d)) - 1),
           NEW q \in PhotosOf(d) \ {p}
    PROVE /\ photos[q].order \in Nat /\ photos[p].order \in Nat
          /\ photos[q].order # photos[p].order
          /\ Place(PhotosOf(d) \ {p}, q) =
                IF photos[p].order < photos[q].order THEN photos[q].order - 1
                                                     ELSE photos[q].order
  <1> DEFINE S == PhotosOf(d) \ {p}
             A == {r \in S : Before(r, q)}
             f == [r \in A |-> photos[r].order]
  <1>1. PICK k, o, n : photos[p].order = k /\ photos[q].order = o /\ Cardinality(PhotosOf(d)) = n
    OBVIOUS
  <1>2. /\ TypeOK /\ RowsSound /\ PhotosOf(d) \subseteq Stored /\ IsFiniteSet(PhotosOf(d))
        /\ \A r \in PhotosOf(d) : photos[r].order \in Nat
        /\ \A r, t \in PhotosOf(d) : photos[r].order = photos[t].order => r = t
    BY PhotosOfAreStored, PhotosAreTyped DEF Sound, RowsSound, PhotosOf
  <1>3. k \in Nat /\ o \in Nat /\ o # k /\ n \in Nat
    BY <1>1, <1>2, FS_CardinalityType
  <1>4. \A r \in PhotosOf(d) : photos[r].order \in 0..(n - 1)
    BY <1>1 DEF OrdersOf
  <1>5. ASSUME NEW r \in S
        PROVE Before(r, q) <=> photos[r].order < o
    <2>1. r \in PhotosOf(d) /\ q \in PhotosOf(d)
      OBVIOUS
    <2>2. CASE r = q
      <3>1. ~Before(q, q)
        BY <1>2, BeforeIsAnOrder
      <3>2. ~(o < o)
        BY <1>3
      <3>3. QED
        BY <1>1, <2>2, <3>1, <3>2
    <2>3. CASE r # q
      BY <1>1, <1>2, <2>1, <2>3 DEF Before
    <2>4. QED
      BY <2>2, <2>3
  <1> DEFINE B == 0..(o - 1) \ {k}
  <1>6. IsFiniteSet(B) /\ Cardinality(B) = IF k < o THEN o - 1 ELSE o
    <2>1. IsFiniteSet(0..(o - 1)) /\ Cardinality(0..(o - 1)) = o
      BY <1>3, FS_Interval
    <2>2. k \in 0..(o - 1) <=> k < o
      BY <1>3
    <2>3. /\ IsFiniteSet(B)
          /\ Cardinality(B) = IF k \in 0..(o - 1) THEN Cardinality(0..(o - 1)) - 1
                                               ELSE Cardinality(0..(o - 1))
      BY <2>1, FS_RemoveElement
    <2>4. QED
      BY <1>3, <2>1, <2>2, <2>3
  <1>7. \A r \in A : photos[r].order \in B
    <2>1. ASSUME NEW r \in A
          PROVE photos[r].order \in B
      <3>1. photos[r].order \in Nat /\ photos[r].order < o /\ photos[r].order # k
        BY <1>1, <1>2, <1>5
      <3>2. QED
        BY <1>3, <3>1
    <2>2. QED
      BY <2>1
  <1>8. f \in Injection(A, B)
    BY <1>2, <1>7 DEF Injection, IsInjective
  <1>9. ASSUME NEW b \in B
        PROVE \E r \in A : photos[r].order = b
    <2>1. b \in 0..(n - 1) /\ b # k /\ b < o
      BY <1>1, <1>3, <1>4
    <2>2. PICK r \in PhotosOf(d) : photos[r].order = b
      BY <1>1, <2>1 DEF OrdersOf
    <2>3. r \in S /\ Before(r, q)
      BY <1>1, <1>5, <2>1, <2>2
    <2>4. QED
      BY <2>2, <2>3
  <1>10. f \in Surjection(A, B)
    BY <1>7, <1>9 DEF Surjection
  <1>11. Cardinality(A) = Cardinality(B)
    <2> HIDE DEF f, A, B
    <2> QED
      BY <1>6, <1>8, <1>10, FS_Injection
  <1>12. Place(S, q) = Cardinality(A)
    BY DEF Place
  <1>13. QED
    BY <1>1, <1>3, <1>6, <1>11, <1>12

\* So a removal lists the photos that remain where they will be.
LEMMA RemainingAreListed ==
    ASSUME Sound, NEW d, NEW p \in PhotosOf(d),
           OrdersOf(d) = 0..(Cardinality(PhotosOf(d)) - 1),
           NEW work \in Work, work.left = Ordered(PhotosOf(d) \ {p}), work.count = 0
    PROVE LeftOf(work, PhotosOf(d) \ {p}, photos[p].order)
  <1>1. PICK S, left, k : PhotosOf(d) \ {p} = S /\ work.left = left /\ photos[p].order = k
    OBVIOUS
  <1>2. TypeOK /\ S \in SUBSET Stored
    BY <1>1, PhotosOfAreStored DEF Sound
  <1>3. Cardinality(S) \in Nat
    BY <1>2, PlacesAreTakenOnce
  <1>4. /\ DOMAIN left = 1..Cardinality(S)
        /\ \A i \in 1..Cardinality(S) :
              left[i].id \in S /\ Place(S, left[i].id) = i - 1
              /\ left[i].order = photos[left[i].id].order
        /\ \A q \in S : \E i \in 1..Cardinality(S) : left[i].id = q
    <2>1. Ordered(S) = left
      BY <1>1
    <2>2. QED
      BY <1>2, <2>1, OrderedListsAll
  <1>5. S = {left[i].id : i \in DOMAIN left}
    BY <1>4
  <1>6. ASSUME NEW i \in DOMAIN left, NEW j \in DOMAIN left, left[i].id = left[j].id
        PROVE i = j
    <2>1. i - 1 = j - 1 /\ i \in Int /\ j \in Int
      BY <1>3, <1>4, <1>6
    <2>2. QED
      BY <2>1
  <1>7. ASSUME NEW i \in DOMAIN left
        PROVE left[i].order = IF i =< k THEN i - 1 ELSE i
    <2>1. PICK q \in S : q = left[i].id
      BY <1>4
    <2>2. PICK o : o = photos[q].order
      OBVIOUS
    <2>3. /\ o \in Nat /\ k \in Nat /\ o # k
          /\ Place(S, q) = IF k < o THEN o - 1 ELSE o
      BY <1>1, <2>2, PlacesWithoutOne
    <2>4. Place(S, q) = i - 1 /\ left[i].order = o /\ i \in Int
      BY <1>3, <1>4, <2>1, <2>2
    <2>5. QED
      BY <2>3, <2>4
  <1>8. \A i \in DOMAIN left : photos[left[i].id].order = left[i].order /\ ~(i =< 0)
    BY <1>3, <1>4
  <1>9. \A i \in DOMAIN left :
           photos[left[i].id].order = IF i =< work.count THEN i - 1 ELSE left[i].order
    BY <1>8
  <1>10. LeftOf(work, S, k)
    <2>1. /\ S = {work.left[i].id : i \in DOMAIN work.left}
          /\ \A i, j \in DOMAIN work.left : work.left[i].id = work.left[j].id => i = j
      <3>1. S = {work.left[i].id : i \in DOMAIN work.left}
        BY <1>1, <1>5, Zenon
      <3>2. \A i, j \in DOMAIN left : left[i].id = left[j].id => i = j
        BY <1>6, Zenon
      <3>3. QED
        BY <1>1, <3>1, <3>2, Zenon
    <2>2. \A i \in DOMAIN work.left :
             /\ work.left[i].order = IF i =< k THEN i - 1 ELSE i
             /\ photos[work.left[i].id].order
                   = IF i =< work.count THEN i - 1 ELSE work.left[i].order
      BY <1>1, <1>7, <1>9
    <2>3. QED
      BY <2>1, <2>2, Zenon DEF LeftOf
  <1>11. QED
    BY <1>1, <1>10

\* A removal that starts with its dish in order.
LEMMA FineRemoveLoad ==
    ASSUME Sound, TypeOK', PhotosFine, NEW h \in Reqs, NEW p \in DOMAIN photos, RemoveLoad(h, p)
    PROVE PhotosFine'
  <1>1. PICK d : d = photos[p].dish
    OBVIOUS
  <1>2. TypeOK /\ RowsSound /\ p \in Stored
    BY DEF Sound, RemoveLoad
  <1>3. d \in Nat /\ p \in Nat /\ p \in PhotosOf(d)
    BY <1>1, <1>2, PhotosAreTyped DEF PhotosOf
  <1>4. PICK left : left = Ordered(PhotosOf(d) \ {p})
    OBVIOUS
  <1>5. left \in Seq([id : Nat, order : Nat])
    BY <1>2, <1>4, PhotosOfAreStored, OrderedListsAll
  <1>6. PICK work : work = [Idle EXCEPT !.pc = "delete", !.dish = d, !.photo = p, !.left = left]
    OBVIOUS
  <1>7. work \in Work
    BY <1>3, <1>5, <1>6, IdleIsTyped DEF Idle, Work, Steps
  <1>8. /\ work.pc = "delete" /\ work.dish = d /\ work.photo = p /\ work.left = left
        /\ work.count = 0
    BY <1>6 DEF Idle
  <1>9. ASSUME InOrder(d)
        PROVE Underway(work)
    <2>1. OrdersOf(d) = 0..(Cardinality(PhotosOf(d)) - 1)
      BY <1>9 DEF InOrder
    <2>2. LeftOf(work, PhotosOf(d) \ {p}, photos[p].order)
      BY <1>3, <1>4, <1>7, <1>8, <2>1, RemainingAreListed
    <2>3. QED
      BY <1>3, <1>8, <1>9, <2>2 DEF Underway
  <1>10. QED
    BY <1>1, <1>4, <1>6, <1>7, <1>8, <1>9, FineStart DEF RemoveLoad, Rows

\* The photo that goes leaves those that were listed.
LEMMA FineRemoveDelete ==
    ASSUME Sound, TypeOK', PhotosFine, NEW h \in Reqs, RemoveDelete(h)
    PROVE PhotosFine'
  <1>1. PICK old \in Work : reqs[h] = old
    BY RequestIsTyped DEF Sound
  <1>2. PICK d, p : old.dish = d /\ old.photo = p
    OBVIOUS
  <1>3. /\ reqs[h].pc = "delete" /\ reqs[h].pc \in PhotoSteps /\ overlapped' = overlapped
        /\ dishes' = dishes /\ OnMenu' = OnMenu /\ TypeOK /\ RowsSound /\ WorkSound(old)
    BY <1>1 DEF RemoveDelete, At, PhotoSteps, Rows, OnMenu, Sound, RequestsSound
  <1>4. ASSUME ~overlapped, d \in OnMenu
        PROVE /\ InOrder(d) /\ p \in PhotosOf(d) /\ old.count = 0
              /\ LeftOf(old, PhotosOf(d) \ {p}, photos[p].order)
    <2>1. Underway(old)
      BY <1>1, <1>2, <1>3, <1>4 DEF PhotosFine
    <2>2. QED
      BY <1>1, <1>2, <1>3, <2>1 DEF Underway
  <1>5. CASE p \notin Stored
    <2>1. photos' = photos /\ Quit(h)
      BY <1>1, <1>2, <1>5 DEF RemoveDelete
    <2>2. \A e : SameDish(e)
      BY <1>3, <2>1, SameWithPhotos
    <2>3. ~(~overlapped /\ d \in OnMenu)
      BY <1>4, <1>5 DEF PhotosOf
    <2>4. QED
      BY <1>1, <1>2, <1>3, <2>1, <2>2, <2>3, IdleIsTyped, FineRequestStep DEF Quit
  <1>6. CASE p \in Stored
    <2>1. /\ photos' = [photos EXCEPT ![p] = Gone]
          /\ Go(h, [old EXCEPT !.pc = "renumber"])
      BY <1>1, <1>2, <1>6 DEF RemoveDelete
    <2>2. Stored' = Stored \ {p} /\ \A q \in Stored' : photos'[q] = photos[q]
      BY <1>3, <1>6, <2>1, DeletedPhoto
    <2>3. photos[p].dish = d
      BY <1>1, <1>2, <1>3, <1>6 DEF WorkSound, IsOf
    <2>4. \A e : e # d => SameDish(e)
      BY <1>3, <2>2, <2>3 DEF SameDish, PhotosOf
    <2>5. PICK work : work = [old EXCEPT !.pc = "renumber"]
      OBVIOUS
    <2>6. /\ work \in Work /\ work.pc = "renumber" /\ work.dish = d /\ work.left = old.left
          /\ work.count = old.count /\ work.pc \in PhotoSteps /\ work.pc # "idle"
      BY <1>2, <2>5 DEF Work, Steps, PhotoSteps
    <2>7. ASSUME ~overlapped, d \in OnMenu
          PROVE Underway(work)'
      <3>1. PICK k : photos[p].order = k
        OBVIOUS
      <3>2. k \in 0..MaxItemPhotos
        BY <1>3, <1>6, <3>1, PhotosAreTyped, NumbersAssumption DEF RowsSound
      <3>3. PhotosOf(d)' = PhotosOf(d) \ {p}
        BY <2>2 DEF PhotosOf
      <3>4. LeftOf(old, PhotosOf(d) \ {p}, k)
        BY <1>4, <2>7, <3>1
      <3>5. /\ PhotosOf(d)' = {work.left[i].id : i \in DOMAIN work.left}
            /\ \A i, j \in DOMAIN work.left : work.left[i].id = work.left[j].id => i = j
            /\ \A i \in DOMAIN work.left :
                  /\ work.left[i].order = IF i =< k THEN i - 1 ELSE i
                  /\ photos[work.left[i].id].order
                        = IF i =< work.count THEN i - 1 ELSE work.left[i].order
        <4>1. /\ PhotosOf(d) \ {p} = {old.left[i].id : i \in DOMAIN old.left}
              /\ \A i, j \in DOMAIN old.left : old.left[i].id = old.left[j].id => i = j
              /\ \A i \in DOMAIN old.left :
                    /\ old.left[i].order = IF i =< k THEN i - 1 ELSE i
                    /\ photos[old.left[i].id].order
                          = IF i =< old.count THEN i - 1 ELSE old.left[i].order
          BY <3>4 DEF LeftOf
        <4>2. work.left = old.left /\ work.count = old.count
          BY <2>6
        <4>3. QED
          BY <3>3, <4>1, <4>2
      <3>6. \A i \in DOMAIN work.left : work.left[i].id \in Stored'
        BY <3>5 DEF PhotosOf
      <3>7. LeftOf(work, PhotosOf(d), k)'
        BY <2>2, <3>5, <3>6 DEF LeftOf
      <3>8. QED
        BY <2>6, <3>2, <3>7 DEF Underway
    <2>8. QED
      BY <1>1, <1>2, <1>3, <2>1, <2>4, <2>5, <2>6, <2>7, FineRequestStep
  <1>7. QED
    BY <1>5, <1>6

\* Those before the first out of place are in place, it and those after it one
\* too far.
LEMMA PlacesInTheMeantime ==
    ASSUME TypeOK, NEW h \in Reqs, NEW work \in Work, reqs[h] = work, Misplaced(h) # {},
           NEW S, NEW k \in Nat, LeftOf(work, S, k)
    PROVE \A j \in DOMAIN work.left :
             /\ j \in Nat
             /\ photos[work.left[j].id].order = IF j < FirstOf(Misplaced(h)) THEN j - 1 ELSE j
             /\ j >= FirstOf(Misplaced(h)) => work.left[j].order = j
  <1>1. PICK i, c : FirstOf(Misplaced(h)) = i /\ work.count = c
    OBVIOUS
  <1>2. /\ i \in Misplaced(h) /\ \A j \in Misplaced(h) : i =< j
        /\ i \in DOMAIN work.left /\ i \in 1..Len(work.left) /\ DOMAIN work.left = 1..Len(work.left)
    BY <1>1, FirstIsMisplaced, RequestIsTyped, LenProperties
  <1>3. Len(work.left) \in Nat /\ c \in Nat
    BY <1>1, RequestIsTyped, LenProperties DEF Work
  <1>4. i \in Nat /\ c < i /\ work.left[i].order # i - 1
    BY <1>1, <1>2, <1>3 DEF Misplaced
  <1>5. \A j \in DOMAIN work.left :
           /\ work.left[j].order = IF j =< k THEN j - 1 ELSE j
           /\ photos[work.left[j].id].order = IF j =< c THEN j - 1 ELSE work.left[j].order
    BY <1>1 DEF LeftOf
  <1>6. k < i
    BY <1>2, <1>4, <1>5
  <1>7. ASSUME NEW j \in DOMAIN work.left
        PROVE /\ j \in Nat
              /\ photos[work.left[j].id].order = IF j < i THEN j - 1 ELSE j
              /\ j >= i => work.left[j].order = j
    <2>1. j \in Nat
      BY <1>2, <1>3
    <2>2. CASE j < i
      <3>1. j \notin Misplaced(h)
        BY <1>2, <1>4, <2>1, <2>2
      <3>2. c < j => work.left[j].order = j - 1
        BY <1>1, <3>1 DEF Misplaced
      <3>3. photos[work.left[j].id].order = j - 1
        BY <1>3, <1>5, <2>1, <3>2
      <3>4. QED
        BY <1>4, <2>1, <2>2, <3>3
    <2>3. CASE ~(j < i)
      BY <1>3, <1>4, <1>5, <1>6, <2>1, <2>3
    <2>4. QED
      BY <2>2, <2>3
  <1>8. QED
    BY <1>1, <1>7

\* So its place is free, and with it the next is the first out of place.
LEMMA FineRenumber ==
    ASSUME Sound, TypeOK', PhotosFine, NEW h \in Reqs, Renumber(h)
    PROVE PhotosFine'
  <1>1. PICK old \in Work : reqs[h] = old
    BY RequestIsTyped DEF Sound
  <1>2. PICK i, d, p : FirstOf(Misplaced(h)) = i /\ old.dish = d /\ old.left[i].id = p
    OBVIOUS
  <1>3. /\ reqs[h].pc = "renumber" /\ reqs[h].pc \in PhotoSteps /\ overlapped' = overlapped
        /\ dishes' = dishes /\ OnMenu' = OnMenu /\ TypeOK /\ RowsSound /\ WorkSound(old)
        /\ Misplaced(h) # {}
    BY <1>1 DEF Renumber, At, PhotoSteps, Rows, OnMenu, Sound, RequestsSound
  <1>4. i \in DOMAIN old.left /\ i \in Nat /\ i # 0
    <2>1. i \in 1..Len(old.left) /\ i \in DOMAIN old.left
      BY <1>1, <1>2, <1>3, FirstIsMisplaced
    <2>2. Len(old.left) \in Nat
      BY <1>1, <1>3, RequestIsTyped, LenProperties
    <2>3. QED
      BY <2>1, <2>2
  <1>5. ASSUME ~overlapped, d \in OnMenu
        PROVE \E k \in 0..MaxItemPhotos : LeftOf(old, PhotosOf(d), k)
    <2>1. Underway(old)
      BY <1>1, <1>2, <1>3, <1>5 DEF PhotosFine
    <2>2. QED
      BY <1>1, <1>2, <1>3, <2>1 DEF Underway
  <1>6. ASSUME ~overlapped, d \in OnMenu
        PROVE p \in Stored /\ UniqueOrder(d, {i - 1})
    <2>1. PICK k \in 0..MaxItemPhotos : LeftOf(old, PhotosOf(d), k)
      BY <1>5, <1>6
    <2>2. k \in Nat
      BY NumbersAssumption
    <2>3. PhotosOf(d) = {old.left[j].id : j \in DOMAIN old.left}
      BY <2>1 DEF LeftOf
    <2>4. \A j \in DOMAIN old.left :
             j \in Nat /\ photos[old.left[j].id].order = IF j < i THEN j - 1 ELSE j
      BY <1>1, <1>2, <1>3, <2>1, <2>2, PlacesInTheMeantime
    <2>5. \A j \in DOMAIN old.left : photos[old.left[j].id].order # i - 1
      BY <1>4, <2>4
    <2>6. i - 1 \notin OrdersOf(d)
      BY <2>3, <2>5 DEF OrdersOf
    <2>7. p \in Stored
      BY <1>2, <1>4, <2>3 DEF PhotosOf
    <2>8. QED
      BY <2>6, <2>7 DEF UniqueOrder
  <1>7. CASE p \notin Stored \/ ~UniqueOrder(d, {i - 1})
    <2>1. photos' = photos /\ Quit(h)
      BY <1>1, <1>2, <1>7 DEF Renumber
    <2>2. \A e : SameDish(e)
      BY <1>3, <2>1, SameWithPhotos
    <2>3. QED
      BY <1>1, <1>2, <1>3, <1>6, <1>7, <2>1, <2>2, IdleIsTyped, FineRequestStep DEF Quit
  <1>8. CASE p \in Stored /\ UniqueOrder(d, {i - 1})
    <2>1. /\ photos' = [photos EXCEPT ![p].order = i - 1]
          /\ Go(h, [old EXCEPT !.count = i])
      BY <1>1, <1>2, <1>8 DEF Renumber
    <2>2. /\ Stored' = Stored
          /\ \A q \in Stored : /\ photos'[q].dish = photos[q].dish
                               /\ photos'[q].order = IF q = p THEN i - 1 ELSE photos[q].order
      <3>1. PICK o : i - 1 = o
        OBVIOUS
      <3>2. o \in Nat
        BY <1>4, <3>1
      <3>3. photos' = [photos EXCEPT ![p].order = o]
        BY <2>1, <3>1
      <3>4. QED
        BY <1>3, <1>8, <3>1, <3>2, <3>3, WrittenPhoto
    <2>3. photos[p].dish = d
      BY <1>1, <1>2, <1>3, <1>4, <1>8 DEF WorkSound, IsOf
    <2>4. \A e : PhotosOf(e)' = PhotosOf(e)
      BY <2>2 DEF PhotosOf
    <2>5. \A e : e # d => SameDish(e)
      BY <1>3, <2>2, <2>3, <2>4 DEF SameDish, PhotosOf
    <2>6. PICK work : work = [old EXCEPT !.count = i]
      OBVIOUS
    <2>7. /\ work \in Work /\ work.pc = "renumber" /\ work.dish = d /\ work.left = old.left
          /\ work.count = i /\ work.pc \in PhotoSteps /\ work.pc # "idle"
      BY <1>1, <1>2, <1>3, <1>4, <2>6 DEF Work, Steps, PhotoSteps
    <2>8. ASSUME ~overlapped, d \in OnMenu
          PROVE Underway(work)'
      <3>1. PICK k \in 0..MaxItemPhotos : LeftOf(old, PhotosOf(d), k)
        BY <1>5, <2>8
      <3>2. k \in Nat
        BY NumbersAssumption
      <3>3. /\ PhotosOf(d) = {old.left[j].id : j \in DOMAIN old.left}
            /\ \A j, m \in DOMAIN old.left : old.left[j].id = old.left[m].id => j = m
            /\ \A j \in DOMAIN old.left : old.left[j].order = IF j =< k THEN j - 1 ELSE j
        BY <3>1 DEF LeftOf
      <3>4. \A j \in DOMAIN old.left :
               /\ j \in Nat
               /\ photos[old.left[j].id].order = IF j < i THEN j - 1 ELSE j
               /\ j >= i => old.left[j].order = j
        BY <1>1, <1>2, <1>3, <3>1, <3>2, PlacesInTheMeantime
      <3>5. ASSUME NEW j \in DOMAIN old.left
            PROVE photos'[old.left[j].id].order = IF j =< i THEN j - 1 ELSE old.left[j].order
        <4>1. old.left[j].id \in Stored
          BY <3>3 DEF PhotosOf
        <4>2. old.left[j].id = p <=> j = i
          BY <1>2, <1>4, <3>3
        <4>3. photos'[old.left[j].id].order
                 = IF j = i THEN i - 1 ELSE photos[old.left[j].id].order
          BY <2>2, <4>1, <4>2
        <4>4. QED
          BY <1>4, <3>4, <4>3
      <3>6. PhotosOf(d)' = {old.left[j].id : j \in DOMAIN old.left}
        BY <2>4, <3>3
      <3>7. LeftOf(work, PhotosOf(d), k)'
        BY <2>7, <3>3, <3>5, <3>6 DEF LeftOf
      <3>8. QED
        BY <2>7, <3>7 DEF Underway
    <2>9. QED
      BY <1>1, <1>2, <1>3, <2>1, <2>5, <2>6, <2>7, <2>8, FineRequestStep
  <1>9. QED
    BY <1>7, <1>8

\* When none is out of place each photo that is left is at its own.
LEMMA AllInPlace ==
    ASSUME TypeOK, NEW h \in Reqs, NEW work \in Work, reqs[h] = work, Misplaced(h) = {},
           NEW S \in SUBSET Stored, NEW k, LeftOf(work, S, k)
    PROVE /\ {photos[p].order : p \in S} = 0..(Cardinality(S) - 1)
          /\ S = {} <=> work.left = <<>>
          /\ work.left # <<>> => work.left[1].id \in S /\ photos[work.left[1].id].order = 0
  <1>1. PICK left, len, c : work.left = left /\ Len(left) = len /\ work.count = c
    OBVIOUS
  <1>2. /\ len \in Nat /\ DOMAIN left = 1..len /\ c \in Nat
        /\ left = <<>> <=> len = 0
    BY <1>1, RequestIsTyped, LenProperties, EmptySeq DEF Work
  <1>3. /\ S = {left[i].id : i \in DOMAIN left}
        /\ \A i, j \in DOMAIN left : left[i].id = left[j].id => i = j
        /\ \A i \in DOMAIN left :
              photos[left[i].id].order = IF i =< c THEN i - 1 ELSE left[i].order
    BY <1>1 DEF LeftOf
  <1>4. ASSUME NEW i \in DOMAIN left
        PROVE i \in Nat /\ photos[left[i].id].order = i - 1
    <2>1. i \in Nat
      BY <1>2
    <2>2. i > c => left[i].order = i - 1
      BY <1>1, <1>4 DEF Misplaced
    <2>3. QED
      BY <1>2, <1>3, <2>1, <2>2
  <1> DEFINE f == [i \in 1..len |-> left[i].id]
  <1>5. f \in Injection(1..len, S) /\ f \in Surjection(1..len, S)
    BY <1>2, <1>3 DEF Injection, IsInjective, Surjection
  <1>6. IsFiniteSet(S) /\ IsFiniteSet(1..len) /\ Cardinality(1..len) = len
    BY <1>2, PlacesAreTakenOnce, FS_Interval
  <1>7. Cardinality(S) = len
    <2> HIDE DEF f
    <2> QED
      BY <1>5, <1>6, FS_Surjection
  <1>8. {photos[p].order : p \in S} = 0..(len - 1)
    <2>1. ASSUME NEW p \in S
          PROVE photos[p].order \in 0..(len - 1)
      <3>1. PICK i \in DOMAIN left : p = left[i].id
        BY <1>3
      <3>2. QED
        BY <1>2, <1>4, <3>1
    <2>2. ASSUME NEW o \in 0..(len - 1)
          PROVE o \in {photos[p].order : p \in S}
      <3>1. PICK i : i = o + 1
        OBVIOUS
      <3>2. i \in DOMAIN left /\ i - 1 = o
        BY <1>2, <3>1
      <3>3. left[i].id \in S /\ photos[left[i].id].order = o
        BY <1>3, <1>4, <3>2
      <3>4. QED
        BY <3>3
    <2>3. QED
      BY <2>1, <2>2
  <1>9. S = {} <=> left = <<>>
    <2>1. S = {} <=> len = 0
      BY <1>6, <1>7, FS_EmptySet
    <2>2. QED
      BY <1>2, <2>1
  <1>10. left # <<>> => left[1].id \in S /\ photos[left[1].id].order = 0
    <2>1. left # <<>> => 1 \in DOMAIN left
      BY <1>2
    <2>2. QED
      BY <1>3, <1>4, <2>1
  <1>11. QED
    BY <1>1, <1>7, <1>8, <1>9, <1>10

\* ... and the first of them is displayed.
LEMMA FineRemoveUpdate ==
    ASSUME Sound, TypeOK', PhotosFine, NEW h \in Reqs, RemoveUpdate(h)
    PROVE PhotosFine'
  <1>1. PICK old \in Work : reqs[h] = old
    BY RequestIsTyped DEF Sound
  <1>2. PICK d, url : old.dish = d /\ NewPhotoUrl(d, old.left) = url
    OBVIOUS
  <1>3. /\ reqs[h].pc = "renumber" /\ reqs[h].pc \in PhotoSteps /\ overlapped' = overlapped
        /\ photos' = photos /\ TypeOK /\ Misplaced(h) = {} /\ Quit(h)
    BY DEF RemoveUpdate, At, PhotoSteps, Photos, Sound
  <1>4. CASE d \notin OnMenu
    <2>1. dishes' = dishes
      BY <1>1, <1>2, <1>4 DEF RemoveUpdate
    <2>2. OnMenu' = OnMenu /\ \A e \in OnMenu : SameDish(e)
      BY <1>3, <2>1, SameWithPhotos DEF OnMenu
    <2>3. QED
      BY <1>1, <1>2, <1>3, <1>4, <2>2, IdleIsTyped, FineRequestStep DEF Quit
  <1>5. CASE d \in OnMenu
    <2>1. dishes' = [dishes EXCEPT ![d].photoUrl = url]
      BY <1>1, <1>2, <1>5 DEF RemoveUpdate
    <2>2. url \in Nat
      BY <1>1, <1>2, <1>3, NewPhotoUrlIsTyped
    <2>3. /\ OnMenu' = OnMenu /\ dishes'[d].photoUrl = url
          /\ \A e \in OnMenu : e # d => SameDish(e)
          /\ PhotosOf(d)' = PhotosOf(d) /\ OrdersOf(d)' = OrdersOf(d)
      BY <1>3, <1>5, <2>1, <2>2, DisplayWritten
    <2>4. ASSUME ~overlapped
          PROVE InOrder(d)'
      <3>1. Underway(old)
        BY <1>1, <1>2, <1>3, <1>5, <2>4 DEF PhotosFine
      <3>2. PICK k \in 0..MaxItemPhotos : LeftOf(old, PhotosOf(d), k)
        BY <1>1, <1>2, <1>3, <3>1 DEF Underway
      <3>3. /\ OrdersOf(d) = 0..(Cardinality(PhotosOf(d)) - 1)
            /\ PhotosOf(d) = {} <=> old.left = <<>>
            /\ old.left # <<>> => /\ old.left[1].id \in PhotosOf(d)
                                  /\ photos[old.left[1].id].order = 0
        BY <1>1, <1>3, <3>2, AllInPlace, PhotosOfAreStored DEF OrdersOf
      <3>4. url = IF old.left = <<>> THEN 0 ELSE old.left[1].id
        BY <1>2 DEF NewPhotoUrl
      <3>5. OrdersOf(d)' = 0..(Cardinality(PhotosOf(d)') - 1)
        BY <2>3, <3>3
      <3>6. CASE old.left = <<>>
        BY <2>3, <3>3, <3>4, <3>5, <3>6 DEF InOrder
      <3>7. CASE old.left # <<>>
        <4>1. url \in PhotosOf(d)' /\ photos'[url].order = 0
          BY <1>3, <2>3, <3>3, <3>4, <3>7
        <4>2. QED
          BY <2>3, <3>5, <4>1 DEF InOrder
      <3>8. QED
        BY <3>6, <3>7
    <2>5. QED
      BY <1>1, <1>2, <1>3, <2>3, <2>4, IdleIsTyped, FineRequestStep DEF Quit
  <1>6. QED
    BY <1>4, <1>5

-----------------------------------------------------------------------------
(* All steps.                                                              *)

\* Every step keeps the order.
LEMMA FineNext ==
    ASSUME Sound, TypeOK', PhotosFine, [Next]_vars
    PROVE PhotosFine'
  <1>1. ASSUME NEW h \in Reqs, ForPhotos(h)
        PROVE PhotosFine'
    <2>1. CASE Fail(h)
      <3>1. overlapped' = TRUE
        BY <2>1 DEF Fail
      <3>2. QED
        BY <3>1 DEF PhotosFine
    <2>2. QED
      BY <1>1, <2>1, FineAddCheck, FineRemoveLoad, FineAddRows, FineAddUpdate,
         FineRemoveDelete, FineRenumber, FineRemoveUpdate DEF ForPhotos
  <1>2. ASSUME UNCHANGED <<dishes, photos, reqs, overlapped>>
        PROVE PhotosFine'
    <2>1. OnMenu' = OnMenu /\ SlotsStay(PhotoSteps)
      BY <1>2 DEF OnMenu, SlotsStay
    <2>2. \A e : SameDish(e)
      BY <1>2, SameWithPhotos
    <2>3. QED
      BY <1>2, <2>1, <2>2, FineOnTheSide
  <1>3. CASE UNCHANGED vars
    BY <1>2, <1>3 DEF vars
  <1>4. ASSUME NEW s \in Slugs, RestaurantRemove(s) \/ \E slug \in Slugs : RestaurantEdit(s, slug)
        PROVE PhotosFine'
    BY <1>2, <1>4 DEF RestaurantRemove, RestaurantEdit, Rows, Photos
  <1>5. CASE Next
    BY <1>1, <1>4, <1>5, StepsOfNext, FineOthers, FineRemove
  <1>6. QED
    BY <1>3, <1>5

-----------------------------------------------------------------------------
(* The theorems.                                                           *)

\* With no rows and no requests nothing is near its limit or out of order.
LEMMA InitialInvariant == Init => IInv
  <1>1. SUFFICES ASSUME Init PROVE IInv
    OBVIOUS
  <1>2. /\ dishes = <<>> /\ photos = <<>> /\ owned = {}
        /\ \A h \in Reqs : reqs[h].pc = "idle"
    BY <1>1 DEF Init, Idle
  <1>3. TypeOK /\ RowsSound /\ RequestsSound
    BY <1>1, SoundInit DEF Sound
  <1>4. OnMenu = {}
    BY <1>2 DEF OnMenu
  <1>5. Cardinality({}) = 0 /\ Cardinality(Reqs) \in Nat /\ Cardinality(Reqs) # 0
    BY FS_EmptySet, FS_CardinalityType, SetsAssumption
  <1>6. LimitsSound
    <2>1. {h \in Reqs : At(h, "dish")} = {} /\ {h \in Reqs : At(h, "restaurant")} = {}
      BY <1>2 DEF At
    <2>2. /\ Cardinality(OnMenu) = 0 /\ Cardinality({h \in Reqs : At(h, "dish")}) = 0
          /\ Cardinality(owned) = 0 /\ Cardinality({h \in Reqs : At(h, "restaurant")}) = 0
      BY <1>2, <1>4, <1>5, <2>1
    <2>3. /\ MaxItems # None => 0 + 0 < MaxItems + Cardinality(Reqs)
          /\ 0 + 0 < MaxOwned + Cardinality(Reqs)
      BY <1>5, NumbersAssumption
    <2>4. QED
      BY <2>2, <2>3 DEF LimitsSound
  <1>7. NamesSound
    <2>1. ASSUME NEW name \in Names
          PROVE DishesNamed(name) \cup Renamed(name) = {} /\ Creating(name) = {}
      BY <1>2, <1>4 DEF DishesNamed, Renamed, Renaming, Creating, At
    <2>2. 0 + 0 =< Cardinality(Reqs)
      BY <1>5
    <2>3. \A name \in Names : Cardinality(DishesNamed(name) \cup Renamed(name)) = 0
                               /\ Cardinality(Creating(name)) = 0
      BY <1>5, <2>1
    <2>4. QED
      BY <2>2, <2>3 DEF NamesSound
  <1>8. PhotosSettled
    BY <1>2, <1>4 DEF PhotosSettled, HandlesPhotos
  <1>9. QED
    BY <1>3, <1>6, <1>7, <1>8 DEF IInv

\* LimitsAreTwo, after a step.
LEMMA LimitsAreTwoNext == (LimitsSound <=> MenuLimit /\ AccountLimit)'
  BY LimitsAreTwo, PTL

\* Each part of the invariant is kept by every step.
LEMMA InvariantNext == IInv /\ [Next]_vars => IInv'
  <1>1. SUFFICES ASSUME IInv, [Next]_vars PROVE IInv'
    OBVIOUS
  <1>2. /\ Sound /\ MenuLimit /\ AccountLimit /\ NamesSound /\ PhotosFine
    BY <1>1, LimitsAreTwo, FineIsSettled DEF IInv, Sound
  <1>3. Sound'
    BY <1>1, <1>2, SoundNext
  <1>4. TypeOK' /\ RowsSound' /\ RequestsSound'
    BY <1>3 DEF Sound
  <1>5. LimitsSound'
    BY <1>1, <1>2, AccountStep, MenuLimitStep, LimitsAreTwoNext
  <1>6. NamesSound'
    BY <1>1, <1>2, NamesStep
  <1>7. PhotosSettled'
    BY <1>1, <1>2, <1>4, FineNext, FineIsSettledNext
  <1>8. QED
    BY <1>4, <1>5, <1>6, <1>7 DEF IInv

\* The invariant holds of every state the requests can reach.
THEOREM InvariantStays == Spec => []IInv
  BY InitialInvariant, InvariantNext, PTL DEF Spec

\* Every variable has its type.
THEOREM TypeStays == Spec => []TypeOK
  <1>1. IInv => TypeOK
    BY DEF IInv
  <1>2. QED
    BY <1>1, InvariantStays, PTL

\* A plan's dishes and an account's restaurants are passed by less than the
\* number of requests at a time.
THEOREM LimitsStayNearlyKept == Spec => []LimitsAreNearlyKept
  <1>1. IInv => LimitsAreNearlyKept
    <2>1. SUFFICES ASSUME IInv PROVE LimitsAreNearlyKept
      OBVIOUS
    <2>2. TypeOK /\ MenuLimit /\ AccountLimit
      BY <2>1, LimitsAreTwo DEF IInv
    <2>3. /\ Cardinality(OnMenu) \in Nat /\ Cardinality(owned) \in Nat
          /\ Cardinality(Waiting("dish")) \in Nat /\ Cardinality(Waiting("restaurant")) \in Nat
          /\ Cardinality(Reqs) \in Nat
      <3>1. /\ IsFiniteSet(OnMenu) /\ IsFiniteSet(owned) /\ IsFiniteSet(Waiting("dish"))
            /\ IsFiniteSet(Waiting("restaurant")) /\ IsFiniteSet(Reqs)
        BY <2>2, OwnedIsFinite, DishesAreTyped, SomeRequests, SetsAssumption DEF Waiting
      <3>2. QED
        BY <3>1, FS_CardinalityType
    <2>4. MaxItems # None => Cardinality(OnMenu) < MaxItems + Cardinality(Reqs)
      BY <2>2, <2>3, NumbersAssumption DEF MenuLimit
    <2>5. Cardinality(owned) < MaxOwned + Cardinality(Reqs)
      BY <2>2, <2>3, NumbersAssumption DEF AccountLimit
    <2>6. QED
      BY <2>4, <2>5 DEF LimitsAreNearlyKept
  <1>2. QED
    BY <1>1, InvariantStays, PTL

\* At most as many dishes have one name as there are requests at a time.
THEOREM NamesakesStayBounded == Spec => []NamesakesAreBounded
  <1>1. IInv => NamesakesAreBounded
    <2>1. SUFFICES ASSUME IInv, NEW name \in Names
                   PROVE Cardinality(DishesNamed(name)) =< Cardinality(Reqs)
      BY DEF NamesakesAreBounded
    <2>2. TypeOK /\ NameKept(name)
      BY <2>1 DEF IInv, NamesSound, NameKept, Taken
    <2>3. /\ IsFiniteSet(Taken(name)) /\ Cardinality(Taken(name)) \in Nat
          /\ Cardinality(Creating(name)) \in Nat
      BY <2>2, TakenIsFinite
    <2>4. Cardinality(DishesNamed(name)) =< Cardinality(Taken(name))
          /\ Cardinality(DishesNamed(name)) \in Nat
      BY <2>3, FS_Subset, FS_CardinalityType DEF Taken
    <2>5. Cardinality(Reqs) \in Nat
      BY SetsAssumption, FS_CardinalityType
    <2>6. QED
      BY <2>2, <2>3, <2>4, <2>5 DEF NameKept
  <1>2. QED
    BY <1>1, InvariantStays, PTL

\* No two cuisine types share a name, and every dish on the menu has one.
THEOREM CategoriesStaySound == Spec => []CategoriesAreSound
  <1>1. IInv => CategoriesAreSound
    <2>1. SUFFICES ASSUME IInv PROVE CategoriesAreSound
      OBVIOUS
    <2>2. ASSUME NEW name \in Names
          PROVE Cardinality(CategoriesNamed(name)) =< 1
      <3>1. \A b, c \in CategoriesNamed(name) : b = c
        BY <2>1 DEF IInv, RowsSound, CategoriesNamed
      <3>2. CASE CategoriesNamed(name) = {}
        BY <3>2, FS_EmptySet
      <3>3. CASE CategoriesNamed(name) # {}
        <4>1. PICK c : CategoriesNamed(name) = {c}
          BY <3>1, <3>3
        <4>2. Cardinality({c}) = 1
          BY FS_Singleton
        <4>3. QED
          BY <4>1, <4>2
      <3>4. QED
        BY <3>2, <3>3
    <2>3. \A d \in OnMenu : dishes[d].category \in Kept
      BY <2>1 DEF IInv, RowsSound
    <2>4. QED
      BY <2>2, <2>3 DEF CategoriesAreSound
  <1>2. QED
    BY <1>1, InvariantStays, PTL

\* No dish has more photos than it may: the unique index leaves one place each.
THEOREM PhotosAlwaysFit == Spec => []PhotosFit
  <1>1. IInv => PhotosFit
    BY PhotosAreFew DEF IInv, PhotosFit
  <1>2. QED
    BY <1>1, InvariantStays, PTL

\* Requests for photos that come one at a time, each to its end, leave every
\* dish with its photos in order and the first of them displayed.
THEOREM AloneStaysInOrder == Spec => []AloneInOrder
  <1>1. IInv => AloneInOrder
    <2>1. SUFFICES ASSUME IInv, ~overlapped, NEW d \in OnMenu,
                          \A h \in Reqs : reqs[h].dish # d
                   PROVE InOrder(d)
      BY DEF AloneInOrder, PhotosInOrder
    <2>2. QED
      BY <2>1 DEF IInv, PhotosSettled
  <1>2. QED
    BY <1>1, InvariantStays, PTL
=============================================================================
