------------------------------ MODULE LivePage ------------------------------
(***************************************************************************)
(* A restaurant's page in the owner's browser (RestaurantDetailPage) and   *)
(* the hook that keeps it current by polling (useLiveRefresh): what the    *)
(* page shows of what the server has, over requests that are answered in   *)
(* any order.                                                              *)
(*                                                                         *)
(* The data are versions: the server's go up with every change, the page's *)
(* are of the answers it has applied.  "items" are the dishes, with the    *)
(* subscription that is always read along with them.  Dialogs, disabled    *)
(* buttons and the lengths of delays are left out.  BillingPage and        *)
(* RestaurantsPage have the same two loads, with nothing that only the     *)
(* full load reads.                                                        *)
(*                                                                         *)
(* The names begin with Live that OwnerPages has too: the proofs extend    *)
(* both.                                                                   *)
(***************************************************************************)
EXTENDS Integers, FiniteSets

CONSTANTS MaxLoads,     \* loads in flight together, at most
          Ops,          \* the owner's own changes in flight together, at most
          InProgress,   \* versions of the items with a model being made
          Nothing,      \* nothing shown, or a free slot
          MaxVersion,   \* bounds: changes of a part,
          MaxFaults     \* failures and refusals

ASSUME VersionsAssumption == /\ MaxVersion \in Nat /\ MaxFaults \in Nat
                             /\ MaxLoads \in Nat \ {0}
                             /\ InProgress \subseteq 0..MaxVersion /\ Nothing \notin Nat

VARIABLES db,        \* the versions of the server
          shown,     \* the versions on the page
          loads,     \* the loads in flight
          ops,       \* the owner's changes in flight
          visible,   \* the tab is visible
          timer,     \* the hook's timeout is set
          faults

liveVars == <<db, shown, loads, ops, visible, timer, faults>>

Parts == {"categories", "items"}

Versions == 0..MaxVersion

Loads == 1..MaxLoads

\* A full load, the refresh the hook waits for, or one of an effect that was
\* replaced.  latest: its seq is loadSeq.current.  got: what was answered.
LoadStates == [kind : {"all", "tick", "orphan"}, latest : BOOLEAN,
               got : [Parts -> Versions \cup {Nothing}]]

OpStates == [part : Parts, pc : {"sent", "done"}]

ASSUME NothingAssumption == Nothing \notin LoadStates \cup OpStates

LiveTypeOK == /\ db \in [Parts -> Versions]
              /\ shown \in [Parts -> Versions \cup {Nothing}]
              /\ loads \in [Loads -> LoadStates \cup {Nothing}]
              /\ Cardinality({l \in Loads : loads[l] # Nothing /\ loads[l].latest}) =< 1
              /\ Cardinality({l \in Loads : loads[l] # Nothing /\ loads[l].kind = "tick"}) =< 1
              /\ ops \in [Ops -> OpStates \cup {Nothing}]
              /\ visible \in BOOLEAN
              /\ timer \in BOOLEAN
              /\ faults \in 0..MaxFaults

NewLoad(kind) == [kind |-> kind, latest |-> TRUE, got |-> [p \in Parts |-> Nothing]]

\* The page has just been mounted: loadAll is running.
LiveInit == /\ db = [p \in Parts |-> 0]
            /\ shown = [p \in Parts |-> Nothing]
            /\ loads = [l \in Loads |-> IF l = 1 THEN NewLoad("all") ELSE Nothing]
            /\ ops = [o \in Ops |-> Nothing]
            /\ visible \in BOOLEAN
            /\ timer = FALSE
            /\ faults = 0

-----------------------------------------------------------------------------

\* The hook is enabled once the page has its restaurant, and its interval
\* depends on the items: what its effect depends on.
Enabled(page) == page["categories"] # Nothing
Effect(page) == <<Enabled(page), page["items"] \in InProgress>>

Running(kind) == \E l \in Loads : loads[l] # Nothing /\ loads[l].kind = kind

\* loadAll and refreshLive: a new sequence number, and the requests.
Start(kind) ==
    \E l \in Loads :
       /\ loads[l] = Nothing /\ \A m \in 1..(l - 1) : loads[m] # Nothing
       /\ loads' = [m \in Loads |-> IF m = l THEN NewLoad(kind)
                                    ELSE IF loads[m] = Nothing THEN Nothing
                                    ELSE [loads[m] EXCEPT !.latest = FALSE]]

\* Mutant: a timeout is set on a hidden page too.
SetAnyway == TRUE

\* schedule.
Schedule == visible

\* tick.
TickUnlessInFlight == IF Running("tick") THEN UNCHANGED loads ELSE Start("tick")

-----------------------------------------------------------------------------
(* Loads.                                                                  *)

\* What a load requests: refreshLive has no use for the categories.
Needs(kind) == IF kind = "all" THEN Parts ELSE {"items"}

\* The server answers one request of a load.
Answer(l) ==
    /\ loads[l] # Nothing
    /\ \E p \in Needs(loads[l].kind) :
          /\ loads[l].got[p] = Nothing
          /\ loads' = [loads EXCEPT ![l].got[p] = db[p]]
    /\ UNCHANGED <<db, shown, ops, visible, timer, faults>>

\* Mutant: a background refresh is shown whatever was started after it.
AppliesAll(l) == loads[l].latest \/ loads[l].kind # "all"

\* Mutant: a background refresh compares with a number it never took.
AppliesFull(l) == loads[l].latest /\ loads[l].kind = "all"

\* seq === loadSeq.current.
Applies(l) == loads[l].latest

\* Mutant: a failed or superseded refresh does not set the next timeout.
RearmsIfApplied(l) == loads[l].kind = "tick" /\ loads[l].latest

\* An effect that was replaced is stopped.
Rearms(l) == loads[l].kind = "tick"

\* Without l, and after the effect was replaced if it was.
Without(l, replaced) ==
    [m \in Loads |-> IF m = l THEN Nothing
                     ELSE IF loads[m] # Nothing /\ loads[m].kind = "tick" /\ replaced
                     THEN [loads[m] EXCEPT !.kind = "orphan"] ELSE loads[m]]

\* All answers are there.  Showing them may replace the hook's effect.
Land(l) ==
    /\ loads[l] # Nothing
    /\ \A p \in Needs(loads[l].kind) : loads[l].got[p] # Nothing
    /\ shown' = [p \in Parts |-> IF Applies(l) /\ p \in Needs(loads[l].kind)
                                 THEN loads[l].got[p] ELSE shown[p]]
    /\ LET replaced == Effect(shown') # Effect(shown)
       IN  /\ loads' = Without(l, replaced)
           /\ timer' = IF replaced \/ Rearms(l) THEN Schedule ELSE timer
    /\ UNCHANGED <<db, ops, visible, faults>>

\* One request fails: a full load shows the error, a refresh leaves it to the
\* next tick.
LoadFails(l) ==
    /\ loads[l] # Nothing /\ faults < MaxFaults
    /\ faults' = faults + 1
    /\ loads' = Without(l, FALSE)
    /\ timer' = IF Rearms(l) THEN Schedule ELSE timer
    /\ UNCHANGED <<db, shown, ops, visible>>

-----------------------------------------------------------------------------
(* The hook.                                                               *)

Timeout == /\ timer
           /\ timer' = FALSE
           /\ TickUnlessInFlight
           /\ UNCHANGED <<db, shown, ops, visible, faults>>

\* handleWake, of a page that is hidden ...
Hide == /\ visible
        /\ visible' = FALSE
        /\ timer' = FALSE
        /\ UNCHANGED <<db, shown, loads, ops, faults>>

\* ... shown again ...
Show == /\ ~visible
        /\ visible' = TRUE
        /\ IF Enabled(shown) THEN TickUnlessInFlight ELSE UNCHANGED loads
        /\ UNCHANGED <<db, shown, ops, timer, faults>>

\* ... or given the focus.
Focus == /\ visible /\ Enabled(shown)
         /\ TickUnlessInFlight
         /\ UNCHANGED <<db, shown, ops, visible, timer, faults>>

-----------------------------------------------------------------------------
(* Changes: of others (webhooks, QA, another tab), and the owner's.        *)

Changed(p) == db' = [db EXCEPT ![p] = @ + 1]

Change(p) == /\ db[p] < MaxVersion
             /\ Changed(p)
             /\ UNCHANGED <<shown, loads, ops, visible, timer, faults>>

\* The handlers that add, change or delete something.
Submit(o, p) ==
    /\ ops[o] = Nothing
    /\ ops' = [ops EXCEPT ![o] = [part |-> p, pc |-> "sent"]]
    /\ UNCHANGED <<db, shown, loads, visible, timer, faults>>

Commit(o) ==
    /\ ops[o] # Nothing /\ ops[o].pc = "sent" /\ db[ops[o].part] < MaxVersion
    /\ Changed(ops[o].part)
    /\ ops' = [ops EXCEPT ![o].pc = "done"]
    /\ UNCHANGED <<shown, loads, visible, timer, faults>>

\* Done: everything is loaded again.
Done(o) ==
    /\ ops[o] # Nothing /\ ops[o].pc = "done"
    /\ Start("all")
    /\ ops' = [ops EXCEPT ![o] = Nothing]
    /\ UNCHANGED <<db, shown, visible, timer, faults>>

\* An error: refused, or the answer is lost.
OpFails(o) ==
    /\ ops[o] # Nothing /\ faults < MaxFaults
    /\ faults' = faults + 1
    /\ ops' = [ops EXCEPT ![o] = Nothing]
    /\ UNCHANGED <<db, shown, loads, visible, timer>>

\* The cuisine type got a dish since the page was loaded: load it again.
InUse(o) ==
    /\ ops[o] # Nothing /\ ops[o].pc = "sent" /\ ops[o].part = "categories"
    /\ faults < MaxFaults
    /\ faults' = faults + 1
    /\ Start("all")
    /\ ops' = [ops EXCEPT ![o] = Nothing]
    /\ UNCHANGED <<db, shown, visible, timer>>

-----------------------------------------------------------------------------

LiveNext == \/ Timeout \/ Hide \/ Show \/ Focus
            \/ \E l \in Loads : Answer(l) \/ Land(l) \/ LoadFails(l)
            \/ \E p \in Parts : Change(p) \/ \E o \in Ops : Submit(o, p)
            \/ \E o \in Ops : Commit(o) \/ Done(o) \/ OpFails(o) \/ InUse(o)

LiveSpec == LiveInit /\ [][LiveNext]_liveVars

\* Requests are answered in the end, and timeouts fire.
FairSpec == LiveSpec /\ WF_liveVars(Timeout)
                     /\ \A l \in Loads : WF_liveVars(Answer(l)) /\ WF_liveVars(Land(l))

-----------------------------------------------------------------------------

\* "a slow response can never overwrite newer state"
NeverBackwards ==
    [][\A p \in Parts :
          shown[p] # Nothing => shown'[p] # Nothing /\ shown'[p] >= shown[p]]_liveVars

\* "never while hidden": no timeout is left to fire on a hidden page.
HiddenIsQuiet == ~visible => ~timer

\* While the page is visible another refresh is always coming, whatever failed,
\* was superseded or replaced.
NeverIdle == visible /\ Enabled(shown) => timer \/ Running("tick")

\* Once loaded, a page that stays visible shows every change of its dishes.
ItemsKeepUp ==
    \A v \in Versions : (Enabled(shown) /\ db["items"] >= v)
                           ~> ((Enabled(shown) /\ shown["items"] >= v) \/ ~visible)

\* "Requests never overlap: a slow response delays the next tick instead of
\* stacking."
RequestsNeverOverlap ==
    Cardinality({l \in Loads : loads[l] # Nothing /\ loads[l].kind # "all"}) =< 1

-----------------------------------------------------------------------------
(* The inductive invariant.                                                *)

\* What is shown, and what any load was answered, the server has had.
NothingIsAhead ==
    \A p \in Parts :
       /\ shown[p] # Nothing => shown[p] =< db[p]
       /\ \A l \in Loads :
             loads[l] # Nothing /\ loads[l].got[p] # Nothing => loads[l].got[p] =< db[p]

\* Since the latest load was started no other was shown: what it was answered
\* is not older than what is shown.
LatestIsNewer ==
    \A l \in Loads, p \in Parts :
       loads[l] # Nothing /\ loads[l].latest /\ loads[l].got[p] # Nothing /\ shown[p] # Nothing
          => shown[p] =< loads[l].got[p]

LiveInv == LiveTypeOK /\ NothingIsAhead /\ LatestIsNewer /\ HiddenIsQuiet /\ NeverIdle
=============================================================================
