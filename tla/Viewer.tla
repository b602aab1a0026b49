------------------------------- MODULE Viewer -------------------------------
(***************************************************************************)
(* The public page of a dish, as diners open it (ArViewerController and    *)
(* ArViewerService) while the operator suspends the restaurant or hides    *)
(* the dish (RootRestaurantsService), QA makes preview links, the owner    *)
(* removes things and billing expires the subscription; and the scans that *)
(* are counted on the way (AnalyticsService).                              *)
(*                                                                         *)
(* One restaurant.  What its subscription and its dishes go through is the *)
(* subject of Billing and ModelPipeline; here they move freely between the *)
(* states the page tells apart.  A find with what it includes is one read. *)
(* Page requests run in the slots Views and interleave between their reads *)
(* and writes.  The throttle is left out.                                  *)
(***************************************************************************)
EXTENDS Integers, Sequences, FiniteSets

CONSTANTS Views,      \* concurrent page requests
          Dishes,
          Visitors,   \* keyed hashes of IP addresses
          Window,     \* SCAN_DEDUPE_WINDOW_MS
          LinkTime,   \* PREVIEW_LINK_TTL_MS
          None,       \* no row, or no request
          MaxTime,    \* bounds: the clock,
          MaxLinks,   \* preview links made for a dish
          MaxFaults   \* and failures of the analytics reads and writes

ASSUME TimesAssumption == /\ Window \in Nat /\ LinkTime \in Nat \ {0}
                          /\ MaxTime \in Nat /\ MaxLinks \in Nat /\ MaxFaults \in Nat
ASSUME ViewsAssumption == IsFiniteSet(Views)

VARIABLES restaurant,   \* the row, and if its subscription is expired
          dishes,       \* the menu_items rows
          scans,        \* analytics_events: when each visitor's scans were recorded
          views,        \* what each slot is doing
          exposed,      \* history: views during which their dish was open to diners
          now,
          faults

vars == <<restaurant, dishes, scans, views, exposed, now, faults>>

RestaurantRows == [suspended : BOOLEAN, expired : BOOLEAN]

\* link is the nonce of the newest preview link, 0 if none was made.
DishRows == [hidden : BOOLEAN, status : {"pending", "qa", "live"}, link : 0..MaxLinks,
             until : Nat]

\* token is the link in the URL, 0 on a plain page; model: the row that was read
\* is live (and has its files, see ModelPipeline), so the page shows the model.
Requests == [pc : {"start", "public", "recent", "record"} \cup
                  {"dish", "preview", "expired", "missing"},
             dish : Dishes, visitor : Visitors, token : 0..MaxLinks, model : BOOLEAN]

ASSUME NoneAssumption == None \notin RestaurantRows \cup DishRows \cup Requests

TypeOK == /\ restaurant \in RestaurantRows \cup {None}
          /\ dishes \in [Dishes -> DishRows \cup {None}]
          /\ restaurant = None => \A d \in Dishes : dishes[d] = None
          /\ scans \in [Dishes -> [Visitors -> Seq(0..MaxTime)]]
          /\ views \in [Views -> Requests \cup {None}]
          /\ exposed \subseteq {v \in Views : views[v] # None}
          /\ now \in 0..MaxTime
          /\ faults \in 0..MaxFaults

Init == /\ restaurant = [suspended |-> FALSE, expired |-> FALSE]
        /\ dishes = [d \in Dishes |-> [hidden |-> FALSE, status |-> "qa", link |-> 0,
                                       until |-> 0]]
        /\ scans = [d \in Dishes |-> [i \in Visitors |-> <<>>]]
        /\ views = [v \in Views |-> None]
        /\ exposed = {}
        /\ now = 0
        /\ faults = 0

-----------------------------------------------------------------------------

\* Not suspended, not hidden.
Visible(r, d) == r # None /\ d # None /\ ~r.suspended /\ ~d.hidden

\* The diner may see the dish and its model.
ShowsModel(r, d) == Visible(r, d) /\ ~r.expired /\ d.status = "live"

\* isLive and isValidToken.
ValidToken(d, token) == /\ d.status = "qa" /\ d.link # 0 /\ d.until > now
                        /\ token = d.link

\* History: what the views of a dish could have seen, with the new rows.
Witness == exposed' = exposed \cup {v \in Views : /\ views[v] # None
                                                  /\ ShowsModel(restaurant', dishes'[views[v].dish])}

Moved == Witness /\ UNCHANGED <<scans, views, now, faults>>

-----------------------------------------------------------------------------
(* What happens to the restaurant and its dishes.                          *)

\* suspend, reactivate.
Suspend(to) ==
    /\ restaurant # None /\ restaurant.suspended # to
    /\ restaurant' = [restaurant EXCEPT !.suspended = to]
    /\ UNCHANGED dishes /\ Moved

\* hideItem, unhideItem.
Hide(d, to) ==
    /\ restaurant # None /\ dishes[d] # None
    /\ dishes' = [dishes EXCEPT ![d].hidden = to]
    /\ UNCHANGED restaurant /\ Moved

\* PreviewLinkService.create.
CreateLink(d) ==
    /\ dishes[d] # None /\ dishes[d].status = "qa" /\ dishes[d].link < MaxLinks
    /\ dishes[d].link = 0 \/ dishes[d].until =< now
    /\ dishes' = [dishes EXCEPT ![d].link = @ + 1, ![d].until = now + LinkTime]
    /\ UNCHANGED restaurant /\ Moved

\* Billing: the newest subscription expires or is paid for.
Bill == /\ restaurant # None
        /\ restaurant' = [restaurant EXCEPT !.expired = ~@]
        /\ UNCHANGED dishes /\ Moved

\* ModelPipeline: the model is made, published or withdrawn.
Produce(d, status) ==
    /\ dishes[d] # None /\ dishes[d].status # status
    /\ dishes' = [dishes EXCEPT ![d].status = status]
    /\ UNCHANGED restaurant /\ Moved

\* The scans stay with the dish's id: they have no foreign key to it.
RemoveDish(d) ==
    /\ dishes[d] # None
    /\ dishes' = [dishes EXCEPT ![d] = None]
    /\ UNCHANGED restaurant /\ Moved

Cascade == [d \in Dishes |-> None]

\* ON DELETE CASCADE, of dishes and of scans.
RemoveRestaurant ==
    /\ restaurant # None
    /\ restaurant' = None
    /\ dishes' = Cascade
    /\ scans' = [d \in Dishes |-> [i \in Visitors |-> <<>>]]
    /\ Witness
    /\ UNCHANGED <<views, now, faults>>

Tick == /\ now < MaxTime
        /\ now' = now + 1
        /\ UNCHANGED <<restaurant, dishes, scans, views, exposed, faults>>

-----------------------------------------------------------------------------
(* The page.                                                               *)

At(v, pc) == views[v] # None /\ views[v].pc = pc

Row(v) == dishes[views[v].dish]

Step(v, pc) == views' = [views EXCEPT ![v].pc = pc]

OpenPage(v, d, i, token) ==
    /\ views[v] = None
    /\ views' = [views EXCEPT ![v] = [pc |-> IF token = 0 THEN "public" ELSE "start",
                                      dish |-> d, visitor |-> i, token |-> token,
                                      model |-> FALSE]]
    /\ exposed' = IF ShowsModel(restaurant, dishes[d]) THEN exposed \cup {v} ELSE exposed
    /\ UNCHANGED <<restaurant, dishes, scans, now, faults>>

\* Mutant: the row read for the preview serves the public page too.
PreviewOnce(v) ==
    /\ At(v, "start") /\ Row(v) # None
    /\ views' = [views EXCEPT ![v].pc = IF ValidToken(Row(v), views[v].token) THEN "preview" ELSE "recent",
                              ![v].model = Row(v).status = "live"]
    /\ UNCHANGED <<restaurant, dishes, scans, exposed, now, faults>>

\* findItemForPreview: no gates, no scan; anything but the live link falls
\* through to the public page.
Preview(v) ==
    /\ At(v, "start")
    /\ Step(v, IF Row(v) # None /\ ValidToken(Row(v), views[v].token) THEN "preview" ELSE "public")
    /\ UNCHANGED <<restaurant, dishes, scans, exposed, now, faults>>

\* findItemByPublicSlug.
FindItem(v) ==
    /\ At(v, "public")
    /\ IF ~Visible(restaurant, Row(v)) THEN Step(v, "missing")
       ELSE IF restaurant.expired THEN Step(v, "expired")
       ELSE views' = [views EXCEPT ![v].pc = "recent", ![v].model = Row(v).status = "live"]
    /\ UNCHANGED <<restaurant, dishes, scans, exposed, now, faults>>

ScansOf(v) == scans[views[v].dish][views[v].visitor]

\* Mutant: a scan at the window's edge is not recent.
RecentInside(v) == \E k \in DOMAIN ScansOf(v) : ScansOf(v)[k] > now - Window

Recent(v) == \E k \in DOMAIN ScansOf(v) : ScansOf(v)[k] >= now - Window

FindRecent(v) ==
    /\ At(v, "recent")
    /\ Step(v, IF Recent(v) THEN "dish" ELSE "record")
    /\ UNCHANGED <<restaurant, dishes, scans, exposed, now, faults>>

\* The insert needs the restaurant; an error is caught.
Record(v) ==
    /\ At(v, "record")
    /\ scans' = IF restaurant = None THEN scans
                ELSE [scans EXCEPT ![views[v].dish][views[v].visitor] = Append(@, now)]
    /\ Step(v, "dish")
    /\ UNCHANGED <<restaurant, dishes, exposed, now, faults>>

\* recordScan never throws.
AnalyticsFail(v) ==
    /\ At(v, "recent") \/ At(v, "record")
    /\ faults < MaxFaults
    /\ faults' = faults + 1
    /\ Step(v, "dish")
    /\ UNCHANGED <<restaurant, dishes, scans, exposed, now>>

Close(v) ==
    /\ \E page \in {"dish", "preview", "expired", "missing"} : At(v, page)
    /\ views' = [views EXCEPT ![v] = None]
    /\ exposed' = exposed \ {v}
    /\ UNCHANGED <<restaurant, dishes, scans, now, faults>>

-----------------------------------------------------------------------------

Next == \/ Bill \/ RemoveRestaurant \/ Tick
        \/ \E to \in BOOLEAN : Suspend(to) \/ \E d \in Dishes : Hide(d, to)
        \/ \E d \in Dishes : \/ CreateLink(d) \/ RemoveDish(d)
                             \/ \E status \in {"pending", "qa", "live"} : Produce(d, status)
        \/ \E v \in Views :
             \/ \E d \in Dishes, i \in Visitors, token \in 0..MaxLinks : OpenPage(v, d, i, token)
             \/ Preview(v) \/ FindItem(v) \/ FindRecent(v) \/ Record(v)
             \/ AnalyticsFail(v) \/ Close(v)

Spec == Init /\ [][Next]_vars

-----------------------------------------------------------------------------

\* A diner is shown a model only if, at some moment since the page was asked
\* for, the dish was live, not hidden, and its restaurant neither suspended nor
\* expired: whatever moved between the reads of the page.
WithheldIsNotShown ==
    \A v \in Views : (At(v, "dish") /\ views[v].model) => v \in exposed

\* "The same visitor re-opening a dish within this window counts once": within
\* one window no more scans than page requests that were open together.
ScansAreBounded ==
    \A d \in Dishes, i \in Visitors, t \in 0..MaxTime :
       Cardinality({k \in DOMAIN scans[d][i] : scans[d][i][k] \in t..(t + Window)})
          =< Cardinality(Views)

-----------------------------------------------------------------------------
(* The inductive invariant.                                                *)

\* A view whose dish is open to diners knows it, and so does one that has found
\* the dish live.
ViewsSound == \A v \in Views :
                 /\ views[v] # None
                 /\ views[v].model \/ ShowsModel(restaurant, Row(v))
                 => v \in exposed

\* The scans within the window that begins at t.
ScansIn(d, i, t) == {k \in DOMAIN scans[d][i] : scans[d][i][k] \in t..(t + Window)}

\* The views that have found no recent scan of theirs and will record one.
Recording(d, i) == {v \in Views : /\ At(v, "record")
                                  /\ views[v].dish = d /\ views[v].visitor = i}

\* Once a window holds a scan, only views that had looked before it can add to
\* it while it lasts.
ScansSound ==
    \A d \in Dishes, i \in Visitors :
       /\ \A k \in DOMAIN scans[d][i] : scans[d][i][k] =< now
       /\ \A t \in 0..MaxTime :
             ScansIn(d, i, t) # {} /\ now =< t + Window
                => Cardinality(ScansIn(d, i, t)) + Cardinality(Recording(d, i))
                      =< Cardinality(Views)

IInv == TypeOK /\ ViewsSound /\ WithheldIsNotShown /\ ScansSound /\ ScansAreBounded
=============================================================================
