----------------------------- MODULE OwnerPages -----------------------------
(***************************************************************************)
(* The pages of the owner's web app and what their buttons do: which       *)
(* requests a page offers for what it shows, how it marks itself busy,     *)
(* what it asks first, and what an answer changes.                         *)
(*                                                                         *)
(* One tab is on one page at a time.  The page shows the server's state of *)
(* some earlier moment (LivePage is about how late, and in which order);   *)
(* the server answers a request in one step (Menu, ModelPipeline and       *)
(* Billing split it).  There is one cuisine type, and every dish is of it. *)
(* Of photos there are only numbers: which one is removed is left out, and *)
(* so are amounts, what else is typed and how errors are worded.           *)
(***************************************************************************)
EXTENDS Integers

CONSTANTS Dishes,      \* the names a dish may have
          Codes,       \* the promo codes an owner may type
          Requests,    \* requests of the tab in flight together, at most
          MaxPhotos,   \* MAX_ITEM_PHOTOS
          MaxBatch,    \* bound: the photos an owner chooses together
          MaxOwned,    \* MAX_RESTAURANTS_PER_OWNER
          None,
          Starts,      \* the server's states at first
          Tours,       \* bounds: the pages visited in one behaviour,
          MaxClicks,   \* requests the owner makes,
          MaxChanges   \* changes made by others, and lost or failed requests

VARIABLES tour,      \* the pages that the owner visits
          srv,       \* the server's state
          page,      \* the page the tab is on
          view,      \* the state it shows
          loaded,    \* its first load has been answered
          late,      \* answers on their way to the dashboard
          requests,  \* the requests in flight
          busy,      \* busyItemId, busy or creating; "leaving": busy stays set
                     \* as the browser is sent to the gateway
          asking,    \* what the confirm dialog asks about
          feedback,  \* the feedback dialog is open
          promo,     \* the promo code form of the plans page
          mixed,     \* history: the page had requests of two dishes at once
          clicks, changes

form == <<asking, feedback, promo>>
bounds == <<tour, clicks, changes>>
vars == <<srv, page, view, loaded, late, requests, busy, form, mixed, bounds>>

\* "making" is generating or in QA, which the buttons treat alike.
DishStates == [status : {"pending", "making", "live"}, photos : 0..MaxPhotos]

SubStates == {"none", "active", "past_due", "expired", "canceled"}

\* account: the owner's address is registered.  paid: an order was paid and its
\* webhook has not been handled yet.
States == [dish : [Dishes -> DishStates \cup {None}], cuisine : BOOLEAN,
           sub : SubStates, paid : BOOLEAN, owned : 0..MaxOwned, account : BOOLEAN]

\* What a page holds before it has loaded anything.
Blank == [dish |-> [d \in Dishes |-> None], cuisine |-> FALSE, sub |-> "none",
          paid |-> FALSE, owned |-> 0, account |-> FALSE]

HasDishes(s) == \E d \in Dishes : s.dish[d] # None

\* The handlers of each page.
DishKinds == {"photos", "removePhoto", "model", "size", "generate", "delete"}
CuisineKinds == {"addCuisine", "dropCuisine"}
BillingKinds == {"cancel", "switch", "subscribe"}
KindsOf == [restaurant |-> DishKinds \cup CuisineKinds \cup {"addDish"},
            billing |-> {"cancel"}, plans |-> {"switch", "subscribe"},
            dashboard |-> {"create"}, gateway |-> {},
            login |-> {"login"}, signup |-> {"signup"}]

Pages == DOMAIN KindsOf

Targets == [kind : UNION {KindsOf[p] : p \in Pages}, dish : Dishes \cup {None},
            files : 0..MaxBatch]

\* A request is about a dish where its kind is of one; the photos are as many
\* as the owner chooses.
Clicks == {to \in Targets : /\ to.dish # None <=> to.kind \in DishKinds \cup {"addDish"}
                            /\ to.files # 0 <=> to.kind = "photos"}

\* A handler's request.  seen: what it went by.  undue (history): the server
\* refused it although that was still so, and nothing typed or chosen was why.
\* left: the page that sent it is gone.
Sent == [to : Clicks, seen : States, pc : {"sent", "ok", "refused", "failed"},
         undue : BOOLEAN, left : BOOLEAN]

Questions == [to : Clicks, seen : States]

\* None is like nothing else, and the behaviours start in states there can be.
ASSUME ConstantsAssumption ==
    /\ MaxPhotos \in Nat \ {0} /\ MaxOwned \in Nat \ {0} /\ MaxBatch \in Nat
    /\ MaxClicks \in Nat /\ MaxChanges \in Nat
    /\ None \notin Dishes \cup Codes \cup {"page", "leaving"}
    /\ None \notin DishStates \cup Sent \cup Questions
    /\ "page" \notin Dishes /\ "leaving" \notin Dishes
    /\ Starts \subseteq States /\ Tours \subseteq SUBSET Pages

NoPromo == [typed |-> None, preview |-> None, asked |-> {}]

TypeOK == /\ tour \in Tours
          /\ srv \in States
          /\ page \in Pages
          /\ view \in States
          /\ loaded \in BOOLEAN
          /\ late \subseteq 0..MaxOwned
          /\ requests \in [Requests -> Sent \cup {None}]
          /\ busy \in Dishes \cup {"page", "leaving", None}
          /\ asking \in Questions \cup {None}
          /\ feedback \in BOOLEAN
          /\ promo \in [typed : Codes \cup {None}, preview : Codes \cup {None},
                        asked : SUBSET Codes]
          /\ mixed \in BOOLEAN
          /\ clicks \in 0..MaxClicks
          /\ changes \in 0..MaxChanges

Init == /\ tour \in Tours
        /\ srv \in Starts
        /\ page \in tour \ {"gateway"}
        /\ view = Blank
        /\ loaded = FALSE
        /\ late = {}
        /\ requests = [q \in Requests |-> None]
        /\ busy = None
        /\ asking = None
        /\ feedback = FALSE
        /\ promo = NoPromo
        /\ mixed = FALSE
        /\ clicks = 0
        /\ changes = 0

-----------------------------------------------------------------------------
(* What the server accepts, and what it does then.                         *)

HasPlan(s) == s.sub \notin {"none", "canceled"}

AcceptsDish(to, x) ==
    /\ x # None
    /\ to.kind \in {"generate", "model"} => x.status = "pending"
    /\ to.kind \in {"generate", "removePhoto"} => x.photos > 0
    /\ to.kind = "photos" => x.photos + to.files <= MaxPhotos

Accepts(s, to) ==
    CASE to.kind \in DishKinds -> AcceptsDish(to, s.dish[to.dish])
      [] to.kind = "addDish" -> s.cuisine /\ s.dish[to.dish] = None
      [] to.kind = "addCuisine" -> ~s.cuisine
      [] to.kind = "dropCuisine" -> s.cuisine /\ ~HasDishes(s)
      [] to.kind \in {"cancel", "switch"} -> HasPlan(s)
      [] to.kind = "subscribe" -> s.sub # "active"
      [] to.kind = "create" -> s.owned < MaxOwned
      [] to.kind = "signup" -> ~s.account
      [] to.kind = "login" -> s.account

DishAfter(to, x) ==
    CASE to.kind = "photos" -> [status |-> "pending", photos |-> x.photos + to.files]
      [] to.kind = "removePhoto" -> [x EXCEPT !.photos = @ - 1]
      [] to.kind \in {"generate", "model"} -> [x EXCEPT !.status = "making"]
      [] to.kind = "size" -> x
      [] to.kind = "delete" -> None

After(s, to) ==
    CASE to.kind \in DishKinds -> [s EXCEPT !.dish[to.dish] = DishAfter(to, @)]
      [] to.kind = "addDish" ->
            [s EXCEPT !.dish[to.dish] = [status |-> "pending", photos |-> 0]]
      [] to.kind \in CuisineKinds -> [s EXCEPT !.cuisine = ~@]
      [] to.kind = "cancel" -> [s EXCEPT !.sub = "canceled"]
      [] to.kind \in {"switch", "subscribe", "login"} -> s
      [] to.kind = "create" -> [s EXCEPT !.owned = @ + 1]
      [] to.kind = "signup" -> [s EXCEPT !.account = TRUE, !.owned = 1]

\* The names and addresses the owner types are not checked by the page, nor are
\* the photos chosen for a dish counted.
TooMany(x, n) == x # None /\ x.photos < MaxPhotos /\ x.photos + n > MaxPhotos

RefusedByInput(s, to) ==
    \/ to.kind \in {"addCuisine", "login", "signup"}
    \/ to.kind = "addDish" /\ s.dish[to.dish] # None
    \/ to.kind = "photos" /\ TooMany(s.dish[to.dish], to.files)

-----------------------------------------------------------------------------
(* What a page shows and offers.                                           *)

\* Of s only these dishes and parts.
Only(s, dishes, parts) ==
    [dish |-> [d \in Dishes |-> IF d \in dishes THEN s.dish[d] ELSE None],
     cuisine |-> s.cuisine /\ "cuisine" \in parts,
     sub |-> IF "sub" \in parts THEN s.sub ELSE "none",
     paid |-> FALSE,
     owned |-> IF "owned" \in parts THEN s.owned ELSE 0,
     account |-> FALSE]

\* What page p loads of the state.
Fetched(p, s) == CASE p = "restaurant" -> Only(s, Dishes, {"cuisine"})
                 [] p \in {"billing", "plans"} -> Only(s, {}, {"sub"})
                 [] p = "dashboard" -> Only(s, {}, {"owned"})
                 [] p \in {"gateway", "login", "signup"} -> Blank

\* What of a state a request depends on.
Subject(s, to) ==
    CASE to.kind \in DishKinds -> Only(s, {to.dish}, {})
      [] to.kind = "addDish" -> Only(s, {to.dish}, {"cuisine"})
      [] to.kind \in CuisineKinds -> Only(s, Dishes, {"cuisine"})
      [] to.kind \in BillingKinds -> Only(s, {}, {"sub"})
      [] to.kind = "create" -> Only(s, {}, {"owned"})
      [] to.kind \in {"login", "signup"} -> Blank

\* Mutant: the button stays enabled with all photos there.
ButtonOneMore(kind, x) ==
    /\ kind \in {"generate", "model"} => x.status = "pending"
    /\ kind \in {"generate", "removePhoto"} => x.photos > 0
    /\ kind = "photos" => x.photos <= MaxPhotos

\* The buttons of a dish; that of the photos asks only for room for one.
Button(kind, x) ==
    /\ kind \in {"generate", "model"} => x.status = "pending"
    /\ kind \in {"generate", "removePhoto"} => x.photos > 0
    /\ kind = "photos" => x.photos < MaxPhotos

\* Forms that are not disabled.
Forms == {"addCuisine", "login", "signup"}

\* The kinds that mark the page busy while they last.
Marks(kind) == kind \notin CuisineKinds \cup {"addDish", "delete"}

\* Mutant: only the buttons that change the model are disabled.
FreeUnlessModel(to) ==
    to.kind \in {"generate", "model"} => busy # to.dish

\* The button is not disabled by a request the page is waiting for.
Free(to) ==
    Marks(to.kind) => busy \notin IF to.kind \in DishKinds THEN {to.dish}
                                                         ELSE {"page", "leaving"}

OffersDish(to) == /\ to.kind \in DishKinds
                  /\ view.dish[to.dish] # None /\ Button(to.kind, view.dish[to.dish])

\* Any name may be typed, one that is taken as well.
OffersAddDish(to) == to.kind = "addDish" /\ view.cuisine

OffersDropCuisine(to) == to.kind = "dropCuisine" /\ view.cuisine

OffersCancel(to) == to.kind = "cancel" /\ view.sub = "active"

\* With a plan, even one that has expired, packages are to switch to.
OffersPlan(to) == /\ loaded
                  /\ \/ to.kind = "switch" /\ HasPlan(view)
                     \/ to.kind = "subscribe" /\ ~HasPlan(view)

OffersCreate(to) == to.kind = "create" /\ loaded /\ view.owned < MaxOwned

Offered(to) == /\ to.kind \in KindsOf[page] /\ Free(to)
               /\ \/ to.kind \in Forms
                  \/ OffersDish(to) \/ OffersAddDish(to) \/ OffersDropCuisine(to)
                  \/ OffersCancel(to) \/ OffersPlan(to) \/ OffersCreate(to)

-----------------------------------------------------------------------------
(* Going from page to page, and loading.                                   *)

Pending(q) == requests[q] # None /\ requests[q].pc = "sent"

\* The handlers of a page that is gone change nothing that is seen, but what
\* they have requested is still done.
Gone == [q \in Requests |-> IF ~Pending(q) THEN None
                            ELSE [requests[q] EXCEPT !.left = TRUE, !.seen = Blank]]

\* A page is mounted with nothing on it.
Mount(p, rs) == /\ page' = p
                /\ view' = Blank
                /\ loaded' = FALSE
                /\ late' = {}
                /\ requests' = rs
                /\ busy' = None
                /\ asking' = None
                /\ feedback' = FALSE
                /\ promo' = NoPromo
                /\ mixed' = FALSE

Open(p) == /\ p \in tour \ {"gateway"}
           /\ Mount(p, Gone)
           /\ UNCHANGED <<srv, bounds>>

\* A load or refresh of a page that numbers its loads, or the only one of the
\* plans page.
Refresh == /\ page \in {"restaurant", "billing"} \/ (page = "plans" /\ ~loaded)
           /\ view' = Fetched(page, srv)
           /\ loaded' = TRUE
           /\ UNCHANGED <<srv, page, late, requests, busy, form, mixed, bounds>>

\* The dashboard does not: an answer is shown whenever it comes.
Overview == /\ page = "dashboard"
            /\ late' = late \cup {srv.owned}
            /\ UNCHANGED <<srv, page, view, loaded, requests, busy, form, mixed, bounds>>

ShowOverview(n) == /\ n \in late
                   /\ late' = late \ {n}
                   /\ view' = [Blank EXCEPT !.owned = n]
                   /\ loaded' = TRUE
                   /\ UNCHANGED <<srv, page, requests, busy, form, mixed, bounds>>

-----------------------------------------------------------------------------
(* The owner's clicks.  An open dialog keeps everything else from them.    *)

NoDialog == asking = None /\ ~feedback

Request(to, seen) == [to |-> to, seen |-> seen, pc |-> "sent", undue |-> FALSE,
                      left |-> FALSE]

InFlight(d) == {q \in Requests : /\ requests[q] # None /\ ~requests[q].left
                                 /\ requests[q].to.dish = d
                                 /\ requests[q].to.kind \in DishKinds \ {"delete"}}

\* The handler sends its request and marks the page, over any mark it has.
Send(to, seen) ==
    /\ clicks < MaxClicks /\ clicks' = clicks + 1
    /\ \E q \in Requests :
          /\ requests[q] = None
          /\ requests' = [requests EXCEPT ![q] = Request(to, seen)]
    /\ busy' = IF ~Marks(to.kind) THEN busy
               ELSE IF to.kind \in DishKinds THEN to.dish ELSE "page"
    /\ mixed' = (mixed \/ /\ to.kind \in DishKinds \ {"delete"}
                          /\ \E d \in Dishes \ {to.dish} : InFlight(d) # {})

\* What is asked first.
Asks(kind) == kind \in {"delete", "removePhoto", "dropCuisine", "cancel"}

Press(to) ==
    /\ Offered(to) /\ NoDialog /\ ~Asks(to.kind)
    /\ Send(to, Subject(view, to))
    /\ UNCHANGED <<srv, page, view, loaded, late, form, tour, changes>>

\* A cuisine type with dishes is not asked about, ...
Ask(to) ==
    /\ Offered(to) /\ NoDialog /\ Asks(to.kind)
    /\ to.kind = "dropCuisine" => ~HasDishes(view)
    /\ asking' = [to |-> to, seen |-> Subject(view, to)]
    /\ UNCHANGED <<srv, page, view, loaded, late, requests, busy, feedback, promo,
                   mixed, bounds>>

\* ... the owner is told that it is in use.
WarnInUse(to) ==
    /\ Offered(to) /\ NoDialog /\ to.kind = "dropCuisine" /\ HasDishes(view)
    /\ feedback' = TRUE
    /\ UNCHANGED <<srv, page, view, loaded, late, requests, busy, asking, promo, mixed,
                   bounds>>

\* A feedback dialog that opens meanwhile is on top of the question.
Confirm == /\ asking # None /\ ~feedback
           /\ Send(asking.to, asking.seen)
           /\ asking' = None
           /\ UNCHANGED <<srv, page, view, loaded, late, feedback, promo, tour, changes>>

Dismiss == /\ asking # None /\ ~feedback
           /\ asking' = None
           /\ UNCHANGED <<srv, page, view, loaded, late, requests, busy, feedback, promo,
                          mixed, bounds>>

CloseFeedback == /\ feedback
                 /\ feedback' = FALSE
                 /\ UNCHANGED <<srv, page, view, loaded, late, requests, busy, asking,
                                promo, mixed, bounds>>

-----------------------------------------------------------------------------
(* The promo code of the plans page.                                       *)

OnForm == page = "plans" /\ loaded /\ ~HasPlan(view)

NoPromoChange == <<srv, page, view, loaded, late, requests, busy, asking, feedback,
                   mixed, bounds>>

TypeCode(c) == /\ OnForm
               /\ promo' = [promo EXCEPT !.typed = c, !.preview = None]
               /\ UNCHANGED NoPromoChange

ApplyCode == /\ OnForm
             /\ promo' = [promo EXCEPT !.preview = None,
                             !.asked = IF promo.typed = None THEN @ ELSE @ \cup {promo.typed}]
             /\ UNCHANGED NoPromoChange

\* The answer is shown, whatever has been typed since.
CodeAnswered(c) == /\ c \in promo.asked
                   /\ \E valid \in BOOLEAN :
                         promo' = [promo EXCEPT !.asked = @ \ {c},
                                                !.preview = IF valid THEN c ELSE @]
                   /\ UNCHANGED NoPromoChange

\* The code a checkout is sent with.
PromoSent == IF promo.preview = None THEN None ELSE promo.typed

-----------------------------------------------------------------------------
(* Answers.                                                                *)

Freed(q) == [requests EXCEPT ![q] = None]

Answered(q, pc) ==
    requests' = IF requests[q].left THEN Freed(q)
                ELSE [requests EXCEPT ![q].pc = pc, ![q].seen = Blank,
                         ![q].undue = /\ pc = "refused"
                                      /\ requests[q].seen = Subject(srv, requests[q].to)
                                      /\ ~RefusedByInput(srv, requests[q].to)]

Serve(q) ==
    /\ Pending(q)
    /\ LET to == requests[q].to
       IN  IF Accepts(srv, to)
           THEN srv' = After(srv, to) /\ Answered(q, "ok")
           ELSE UNCHANGED srv /\ Answered(q, "refused")
    /\ UNCHANGED <<page, view, loaded, late, busy, form, mixed, bounds>>

\* An error, or a limit the page does not show (a plan's dishes, the daily
\* models), or a cuisine type still chosen in the form that has been deleted;
\* or the answer is lost after the fact.
Fail(q) ==
    /\ Pending(q) /\ changes < MaxChanges
    /\ changes' = changes + 1
    /\ srv' \in {srv} \cup IF Accepts(srv, requests[q].to)
                           THEN {After(srv, requests[q].to)} ELSE {}
    /\ Answered(q, "failed")
    /\ UNCHANGED <<page, view, loaded, late, busy, form, mixed, tour, clicks>>

Back(q) == requests[q] # None /\ requests[q].pc # "sent"

\* The requests after which the page is left at once, and where for.
NextPage == [switch |-> "billing", login |-> "dashboard", signup |-> "restaurant"]

Leaving == DOMAIN NextPage

\* A checkout is opened: the browser is sent there.
HandsOver(q) == requests[q].to.kind = "subscribe" /\ requests[q].pc = "ok"

\* Mutant: the mark is only taken off when all went well.
UnmarkedIfOk(q) == IF HandsOver(q) THEN "leaving"
                   ELSE IF Marks(requests[q].to.kind) /\ requests[q].pc = "ok" THEN None ELSE busy

\* finally: whatever it is that the page is marked for.
Unmarked(q) == IF HandsOver(q) THEN "leaving"
               ELSE IF Marks(requests[q].to.kind) THEN None ELSE busy

\* Whether the feedback dialog tells of it: of a dish that was added, and of a
\* conflict with what there is; other refusals are errors.
Tells(q) ==
    LET kind == requests[q].to.kind
    IN  CASE kind = "addDish" /\ requests[q].pc = "ok" -> {TRUE}
          [] kind \in CuisineKinds \cup {"addDish"} /\ requests[q].pc = "refused" -> BOOLEAN
          [] OTHER -> {FALSE}

\* The handler goes on: it loads everything again (Refresh, Overview), or
\* shows the error.
Return(q) ==
    /\ Back(q) /\ (requests[q].pc = "ok" => requests[q].to.kind \notin Leaving)
    /\ requests' = Freed(q)
    /\ busy' = Unmarked(q)
    /\ feedback' \in {feedback \/ told : told \in Tells(q)}
    /\ UNCHANGED <<srv, page, view, loaded, late, asking, promo, mixed, bounds>>

\* The browser gets to the gateway.  If it does not, the page stays as it is.
Redirected == /\ busy = "leaving"
              /\ Mount("gateway", Gone)
              /\ UNCHANGED <<srv, bounds>>

\* Done: another page is shown.
Leave(q) ==
    /\ Back(q) /\ requests[q].pc = "ok" /\ requests[q].to.kind \in Leaving
    /\ Mount(NextPage[requests[q].to.kind], Gone)
    /\ UNCHANGED <<srv, bounds>>

-----------------------------------------------------------------------------
(* Others: the gateway, webhooks and crons, another tab, the root team.    *)

\* The owner pays, and the gateway sends the browser back.
PayOrder == /\ page = "gateway"
            /\ srv' = [srv EXCEPT !.paid = TRUE]
            /\ Mount("billing", Gone)
            /\ UNCHANGED bounds

Activated == /\ srv.paid
             /\ srv' = [srv EXCEPT !.paid = FALSE, !.sub = "active"]

SubMoves == \/ srv.sub = "active" /\ srv' = [srv EXCEPT !.sub = "past_due"]
            \/ srv.sub = "past_due" /\ srv' = [srv EXCEPT !.sub = "expired"]
            \/ HasPlan(srv) /\ srv' = [srv EXCEPT !.sub = "canceled"]

\* A model is finished, approved, or has to be made again.
Made(d) == /\ srv.dish[d] # None
           /\ \E st \in CASE srv.dish[d].status = "making" -> {"pending", "live"}
                          [] srv.dish[d].status = "live" -> {"pending", "making"}
                          [] srv.dish[d].status = "pending" -> {} :
                 srv' = [srv EXCEPT !.dish[d].status = st]

Elsewhere(to) == Accepts(srv, to) /\ srv' = After(srv, to)

Others == /\ changes < MaxChanges
          /\ changes' = changes + 1
          /\ \/ Activated \/ SubMoves
             \/ \E d \in Dishes : Made(d)
             \/ \E to \in Clicks : Elsewhere(to) /\ \E p \in tour : to.kind \in KindsOf[p]
          /\ UNCHANGED <<page, view, loaded, late, requests, busy, form, mixed, tour, clicks>>

-----------------------------------------------------------------------------

Next == \/ \E p \in Pages : Open(p)
        \/ Refresh \/ Overview \/ \E n \in late : ShowOverview(n)
        \/ \E to \in Clicks : Press(to) \/ Ask(to) \/ WarnInUse(to)
        \/ Confirm \/ Dismiss \/ CloseFeedback
        \/ \E c \in Codes : TypeCode(c) \/ CodeAnswered(c)
        \/ ApplyCode
        \/ \E q \in Requests : Serve(q) \/ Fail(q) \/ Return(q) \/ Leave(q)
        \/ Redirected \/ PayOrder \/ Others

Spec == Init /\ [][Next]_vars

-----------------------------------------------------------------------------

\* busyItemId keeps a dish's buttons from a second request as long as the
\* owner works on one dish at a time.  (It is one mark for all dishes: the
\* first answer takes it off, whichever dish it is for.)
OneRequestPerDish ==
    ~mixed => \A d \in Dishes : \A q, r \in InFlight(d) : q = r

\* What the buttons offer is what the server accepts: a request is refused
\* only if something else changed what the page had gone by, or for a name or
\* address the owner has typed, or for more photos at once than a dish that
\* has room for one has room for.
RefusedMeansStale == \A q \in Requests : requests[q] # None => ~requests[q].undue

\* A page is never left marked with nothing to wait for, but for a checkout
\* that the browser has been handed: each mark goes with an answer that takes
\* it off, whatever the answer is.
MarkedForARequest ==
    busy \notin {None, "leaving"} =>
       \E q \in Requests : /\ requests[q] # None /\ ~requests[q].left
                           /\ Marks(requests[q].to.kind)

-----------------------------------------------------------------------------
(* The inductive invariant.                                                *)

\* What the handler of a page that is still there has sent and not come back from.
Waiting == {q \in Requests : requests[q] # None /\ ~requests[q].left}

\* The page's own requests and question are of its buttons, and an answer is
\* kept only for a page that is there.
OfThePage == /\ \A q \in Waiting : requests[q].to.kind \in KindsOf[page]
             /\ \A q \in Requests : Back(q) => ~requests[q].left
             /\ asking # None => asking.to.kind \in KindsOf[page]

\* The requests that a dish is marked for: one, of the dish that is marked, and
\* what is asked is about another dish.
OnDishes == {q \in Waiting : requests[q].to.kind \in DishKinds \ {"delete"}}

OneDishAtATime ==
    ~mixed => /\ \A q, r \in OnDishes : q = r
              /\ \A q \in OnDishes : busy = requests[q].to.dish
              /\ asking # None /\ asking.to.kind \in DishKinds \ {"delete"}
                    => busy # asking.to.dish

\* Of what a request went by the server cannot refuse it, but for the input.
Sure(seen, to) ==
    \A s \in States : seen = Subject(s, to) => Accepts(s, to) \/ RefusedByInput(s, to)

Grounded == /\ \A q \in Waiting : Pending(q) => Sure(requests[q].seen, requests[q].to)
            /\ asking # None => Sure(asking.seen, asking.to)

IInv == /\ TypeOK /\ OfThePage /\ OneDishAtATime /\ Grounded
        /\ RefusedMeansStale /\ MarkedForARequest

-----------------------------------------------------------------------------
(* What the pages say and do not keep.                                     *)

\* "Reactivate to bring your dish links back online immediately"
\* (BillingPage.tsx:131): an owner who is told so can subscribe.  The plans
\* page takes an expired plan for an active one and offers to switch.
ReactivationIsOffered ==
    \A to \in Clicks : to.kind = "subscribe" /\ page = "plans" /\ loaded
                           /\ view.sub = "expired" /\ busy = None => Offered(to)

\* The code shown as applied is the code a checkout is sent with.  An answer
\* for the code before is shown over the one typed since.
PromoIsAsShown == promo.preview # None => PromoSent = promo.preview
=============================================================================
