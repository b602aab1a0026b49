--------------------------- MODULE WebPages_proofs ---------------------------
(***************************************************************************)
(* Proofs about the pages of the web frontend, for every choice of their   *)
(* constants: a live page's loads (LivePage) and the owner's buttons       *)
(* (OwnerPages).                                                           *)
(*                                                                         *)
(* A step of LivePage starts a load (StartKeeps), ends one (LandKeeps,     *)
(* LoadFailsKeeps) or leaves the loads as they are, but for an answer      *)
(* (AnswerKeeps).  One of OwnerPages opens a page (MountKeeps), asks       *)
(* (AskKeeps), sends (SendKeeps), is answered (AnsweredKeeps), comes back  *)
(* (ReturnKeeps) or leaves the requests as they are (QuietKeeps).          *)
(***************************************************************************)
EXTENDS LivePage, OwnerPages, FiniteSetTheorems, TLAPS

\* The loads that may be shown, and the hook's refreshes.
LatestLoads == {l \in Loads : loads[l] # Nothing /\ loads[l].latest}
Ticks == {l \in Loads : loads[l] # Nothing /\ loads[l].kind = "tick"}

\* The two bounds of the type invariant, without counting.
OneLatest == \A l, m \in LatestLoads : l = m
OneTick == \A l, m \in Ticks : l = m

\* What a step may do to what is shown.
Forward == \A p \in Parts : shown[p] # Nothing => shown'[p] # Nothing /\ shown'[p] >= shown[p]

-----------------------------------------------------------------------------
(* Types.                                                                  *)

\* A set of loads has at most one element if any two of it are equal.
LEMMA AtMostOne ==
    ASSUME NEW S \in SUBSET Loads
    PROVE Cardinality(S) =< 1 <=> \A x, y \in S : x = y
  <1>1. IsFiniteSet(Loads)
    BY FS_Interval, VersionsAssumption DEF Loads
  <1>2. IsFiniteSet(S)
    BY <1>1, FS_Subset
  <1>3. ASSUME Cardinality(S) =< 1, NEW x \in S, NEW y \in S, x # y
        PROVE FALSE
    <2>1. {x, y} \in SUBSET S
      OBVIOUS
    <2>2. IsFiniteSet({x}) /\ Cardinality({x}) = 1
      BY FS_Singleton
    <2>3. Cardinality({x} \cup {y}) = 2
      BY <1>3, <2>2, FS_AddElement
    <2>4. {x} \cup {y} = {x, y}
      OBVIOUS
    <2>5. Cardinality({x, y}) =< Cardinality(S)
      BY <1>2, <2>1, FS_Subset
    <2>6. Cardinality(S) \in Nat
      BY <1>2, FS_CardinalityType
    <2>7. QED
      BY <1>3, <2>3, <2>4, <2>5, <2>6
  <1>4. ASSUME \A x, y \in S : x = y
        PROVE Cardinality(S) =< 1
    <2>1. CASE S = {}
      BY <2>1, FS_EmptySet
    <2>2. CASE S # {}
      <3>1. PICK x \in S : S = {x}
        BY <1>4, <2>2
      <3>2. QED
        BY <3>1, FS_Singleton
    <2>3. QED
      BY <2>1, <2>2
  <1>5. QED
    BY <1>3, <1>4

\* The type invariant bounds the two sets.
LEMMA TypesCount ==
    ASSUME loads \in [Loads -> LoadStates \cup {Nothing}]
    PROVE /\ Cardinality({l \in Loads : loads[l] # Nothing /\ loads[l].latest}) =< 1 <=> OneLatest
          /\ Cardinality({l \in Loads : loads[l] # Nothing /\ loads[l].kind = "tick"}) =< 1
                <=> OneTick
  <1>1. /\ LatestLoads \in SUBSET Loads
        /\ Ticks \in SUBSET Loads
    BY DEF LatestLoads, Ticks
  <1>2. /\ Cardinality(LatestLoads) =< 1 <=> OneLatest
        /\ Cardinality(Ticks) =< 1 <=> OneTick
    BY <1>1, AtMostOne DEF OneLatest, OneTick
  <1>3. QED
    BY <1>2 DEF LatestLoads, Ticks

\* The fields of a load.
LEMMA LoadIsTyped ==
    ASSUME LiveTypeOK, NEW l \in Loads, loads[l] # Nothing
    PROVE /\ loads[l] \in LoadStates
          /\ loads[l] = [kind |-> loads[l].kind, latest |-> loads[l].latest,
                         got |-> loads[l].got]
          /\ loads[l].kind \in {"all", "tick", "orphan"}
          /\ loads[l].latest \in BOOLEAN
          /\ loads[l].got \in [Parts -> Versions \cup {Nothing}]
  <1>1. loads[l] \in LoadStates
    BY DEF LiveTypeOK
  <1>2. QED
    BY <1>1 DEF LoadStates

\* A free slot of the owner's changes, or one of two states.
LEMMA OpIsTyped ==
    ASSUME LiveTypeOK, NEW o \in Ops, ops[o] # Nothing
    PROVE /\ ops[o] \in OpStates
          /\ ops[o].part \in Parts /\ ops[o].pc \in {"sent", "done"}
  <1>1. ops[o] \in OpStates
    BY DEF LiveTypeOK
  <1>2. QED
    BY <1>1 DEF OpStates

\* Versions are numbers, and Nothing is not one.
LEMMA VersionsAreNumbers ==
    /\ MaxVersion \in Nat
    /\ \A v \in Versions : v \in Nat /\ v # Nothing
    /\ \A v \in Versions \cup {Nothing} : v # Nothing => v \in Nat
  BY VersionsAssumption DEF Versions

\* A load that was just started.
LEMMA NewLoadIsTyped ==
    ASSUME NEW kind \in {"all", "tick"}
    PROVE /\ NewLoad(kind) \in LoadStates
          /\ NewLoad(kind) # Nothing
          /\ NewLoad(kind).kind = kind /\ NewLoad(kind).latest
          /\ \A p \in Parts : NewLoad(kind).got[p] = Nothing
  <1>1. NewLoad(kind) \in LoadStates
    BY DEF NewLoad, LoadStates
  <1>2. QED
    BY <1>1, NothingAssumption DEF NewLoad

-----------------------------------------------------------------------------
(* The invariant, from what its parts say of the loads one by one.         *)

\* The invariant of the loads alone.
LoadsOK == /\ loads \in [Loads -> LoadStates \cup {Nothing}]
           /\ OneLatest /\ OneTick
           /\ NothingIsAhead /\ LatestIsNewer

\* The rest of the type invariant.
RestOK == /\ db \in [Parts -> Versions]
          /\ shown \in [Parts -> Versions \cup {Nothing}]
          /\ ops \in [Ops -> OpStates \cup {Nothing}]
          /\ visible \in BOOLEAN
          /\ timer \in BOOLEAN
          /\ faults \in 0..MaxFaults

\* The invariant in two halves.
LEMMA InvariantSplit == LiveInv <=> LoadsOK /\ RestOK /\ HiddenIsQuiet /\ NeverIdle
  BY TypesCount DEF LiveInv, LiveTypeOK, LoadsOK, RestOK

\* ... and after a step.
LEMMA InvariantSplitNext == LiveInv' <=> (LoadsOK /\ RestOK /\ HiddenIsQuiet /\ NeverIdle)'
  BY InvariantSplit, PTL

\* A step that leaves the loads and what is shown alone, and never takes a
\* version back, keeps what is said of the loads.
LEMMA LoadsFrame ==
    ASSUME LiveInv, loads' = loads, shown' = shown, db' \in [Parts -> Versions],
           \A p \in Parts : db'[p] >= db[p]
    PROVE LoadsOK' /\ Forward /\ (Running("tick")' <=> Running("tick"))
  <1>1. LoadsOK /\ RestOK
    BY InvariantSplit
  <1>2. OneLatest' /\ OneTick'
    BY <1>1 DEF LoadsOK, OneLatest, OneTick, LatestLoads, Ticks
  <1>3. NothingIsAhead'
    <2> SUFFICES ASSUME NEW p \in Parts
                 PROVE /\ shown[p] # Nothing => shown[p] =< db'[p]
                       /\ \A l \in Loads :
                             loads[l] # Nothing /\ loads[l].got[p] # Nothing
                                => loads[l].got[p] =< db'[p]
      BY DEF NothingIsAhead
    <2>1. /\ db[p] \in Nat /\ db'[p] \in Nat /\ db[p] =< db'[p]
          /\ shown[p] # Nothing => shown[p] \in Nat /\ shown[p] =< db[p]
      BY <1>1, VersionsAreNumbers DEF RestOK, LoadsOK, NothingIsAhead
    <2>2. ASSUME NEW l \in Loads, loads[l] # Nothing, loads[l].got[p] # Nothing
          PROVE loads[l].got[p] \in Nat /\ loads[l].got[p] =< db[p]
      <3>1. loads[l].got[p] \in Versions \cup {Nothing}
        BY <2>2, LoadIsTyped DEF LiveInv
      <3>2. QED
        BY <1>1, <2>2, <3>1, VersionsAreNumbers DEF LoadsOK, NothingIsAhead
    <2>3. QED
      BY <2>1, <2>2
  <1>4. LatestIsNewer'
    BY <1>1 DEF LoadsOK, LatestIsNewer
  <1>5. Forward
    BY <1>1, VersionsAreNumbers DEF RestOK, Forward
  <1>6. QED
    BY <1>1, <1>2, <1>3, <1>4, <1>5 DEF LoadsOK, Running

-----------------------------------------------------------------------------
(* Loads that start and end.                                               *)

\* A load that is started is the latest, and nothing of it was answered.
LEMMA StartKeeps ==
    ASSUME LiveInv, NEW kind \in {"all", "tick"}, Start(kind), kind = "tick" => ~Running("tick"),
           UNCHANGED <<db, shown>>
    PROVE LoadsOK' /\ Forward /\ (Running("tick") => Running("tick")') /\ Running(kind)'
  <1>1. LoadsOK /\ RestOK
    BY InvariantSplit
  <1>2. PICK l \in Loads :
           /\ loads[l] = Nothing
           /\ loads' = [m \in Loads |-> IF m = l THEN NewLoad(kind)
                                        ELSE IF loads[m] = Nothing THEN Nothing
                                        ELSE [loads[m] EXCEPT !.latest = FALSE]]
    BY DEF Start
  <1>3. ASSUME NEW m \in Loads, m # l, loads[m] # Nothing
        PROVE /\ loads'[m] \in LoadStates /\ loads'[m] # Nothing
              /\ loads'[m].kind = loads[m].kind /\ ~loads'[m].latest
              /\ loads'[m].got = loads[m].got
    <2>1. loads'[m] = [loads[m] EXCEPT !.latest = FALSE]
      BY <1>2, <1>3
    <2>2. loads'[m] \in LoadStates /\ loads'[m].kind = loads[m].kind /\ ~loads'[m].latest
          /\ loads'[m].got = loads[m].got
      BY <1>3, <2>1, LoadIsTyped DEF LiveInv, LoadStates
    <2>3. QED
      BY <2>2, NothingAssumption
  <1>4. \A m \in Loads : m # l /\ loads[m] = Nothing => loads'[m] = Nothing
    BY <1>2
  <1>5. /\ loads'[l] \in LoadStates /\ loads'[l] # Nothing /\ loads'[l].kind = kind
        /\ \A p \in Parts : loads'[l].got[p] = Nothing
    BY <1>2, NewLoadIsTyped
  <1>6. loads' \in [Loads -> LoadStates \cup {Nothing}]
    <2>1. \A m \in Loads : loads'[m] \in LoadStates \cup {Nothing}
      BY <1>3, <1>4, <1>5
    <2>2. QED
      BY <1>2, <2>1
  <1>7. OneLatest'
    <2>1. \A m \in LatestLoads' : m = l
      BY <1>3, <1>4 DEF LatestLoads
    <2>2. QED
      BY <2>1 DEF OneLatest
  <1>8. OneTick'
    <2>1. ASSUME NEW m \in Ticks'
          PROVE (m = l /\ kind = "tick") \/ (m # l /\ m \in Ticks)
      <3>1. m \in Loads /\ loads'[m] # Nothing /\ loads'[m].kind = "tick"
        BY <2>1 DEF Ticks
      <3>2. CASE m = l
        BY <1>5, <3>1, <3>2
      <3>3. CASE m # l
        <4>1. loads[m] # Nothing
          BY <1>4, <3>1, <3>3
        <4>2. QED
          BY <1>3, <3>1, <3>3, <4>1 DEF Ticks
      <3>4. QED
        BY <3>2, <3>3
    <2>2. kind = "tick" => Ticks = {}
      BY DEF Running, Ticks
    <2>3. QED
      BY <1>1, <2>1, <2>2 DEF LoadsOK, OneTick
  <1>9. NothingIsAhead'
    <2>1. ASSUME NEW p \in Parts, NEW m \in Loads, loads'[m] # Nothing, loads'[m].got[p] # Nothing
          PROVE loads'[m].got[p] =< db[p]
      <3>1. m # l /\ loads[m] # Nothing
        BY <1>4, <1>5, <2>1
      <3>2. loads'[m].got = loads[m].got
        BY <1>3, <3>1
      <3>3. QED
        BY <1>1, <2>1, <3>1, <3>2 DEF LoadsOK, NothingIsAhead
    <2>2. QED
      BY <1>1, <2>1 DEF LoadsOK, NothingIsAhead
  <1>10. LatestIsNewer'
    <2>1. ASSUME NEW m \in Loads, NEW p \in Parts,
                 loads'[m] # Nothing, loads'[m].latest, loads'[m].got[p] # Nothing
          PROVE FALSE
      <3>1. m = l
        BY <1>3, <1>4, <2>1
      <3>2. QED
        BY <1>5, <2>1, <3>1
    <2>2. QED
      BY <2>1 DEF LatestIsNewer
  <1>11. Forward
    BY <1>1, VersionsAreNumbers DEF RestOK, Forward
  <1>12. Running("tick") => Running("tick")'
    <2>1. ASSUME NEW m \in Loads, loads[m] # Nothing, loads[m].kind = "tick"
          PROVE loads'[m] # Nothing /\ loads'[m].kind = "tick"
      BY <1>2, <1>3, <2>1
    <2>2. QED
      BY <2>1 DEF Running
  <1>13. QED
    BY <1>5, <1>6, <1>7, <1>8, <1>9, <1>10, <1>11, <1>12 DEF LoadsOK, Running

\* tick starts a refresh or has one running already.
LEMMA TickKeeps ==
    ASSUME LiveInv, TickUnlessInFlight, UNCHANGED <<db, shown>>
    PROVE LoadsOK' /\ Forward /\ Running("tick")'
  <1>1. CASE Running("tick")
    <2>1. loads' = loads
      BY <1>1 DEF TickUnlessInFlight
    <2>2. db' \in [Parts -> Versions] /\ \A p \in Parts : db'[p] >= db[p]
      BY VersionsAreNumbers DEF LiveInv, LiveTypeOK
    <2>3. QED
      BY <1>1, <2>1, <2>2, LoadsFrame
  <1>2. CASE ~Running("tick")
    BY <1>2, StartKeeps DEF TickUnlessInFlight
  <1>3. QED
    BY <1>1, <1>2

\* A load that ends leaves the others' answers, and who of them is the latest.
LEMMA OthersAreLeft ==
    ASSUME LiveInv, NEW l \in Loads, NEW replaced \in BOOLEAN, loads' = Without(l, replaced)
    PROVE /\ loads' \in [Loads -> LoadStates \cup {Nothing}]
          /\ loads'[l] = Nothing
          /\ \A m \in Loads : loads'[m] # Nothing =>
                /\ m # l /\ loads[m] # Nothing
                /\ loads'[m].got = loads[m].got /\ loads'[m].latest = loads[m].latest
          /\ OneLatest' /\ OneTick'
          /\ ~replaced => \A m \in Loads \ {l} : loads'[m] = loads[m]
  <1>1. LoadsOK /\ RestOK
    BY InvariantSplit
  <1>2. ASSUME NEW m \in Loads
        PROVE /\ loads'[m] \in LoadStates \cup {Nothing}
              /\ m = l => loads'[m] = Nothing
              /\ loads'[m] # Nothing =>
                   /\ m # l /\ loads[m] # Nothing
                   /\ loads'[m].got = loads[m].got /\ loads'[m].latest = loads[m].latest
                   /\ loads'[m].kind = "tick" => loads[m].kind = "tick"
    <2>1. CASE m = l
      BY <2>1 DEF Without
    <2>2. CASE m # l /\ loads[m] # Nothing /\ loads[m].kind = "tick" /\ replaced
      <3>1. loads'[m] = [loads[m] EXCEPT !.kind = "orphan"]
        BY <2>2 DEF Without
      <3>2. QED
        BY <2>2, <3>1, LoadIsTyped DEF LiveInv, LoadStates
    <2>3. CASE m # l /\ ~(loads[m] # Nothing /\ loads[m].kind = "tick" /\ replaced)
      <3>1. loads'[m] = loads[m]
        BY <2>3 DEF Without
      <3>2. QED
        BY <1>1, <2>3, <3>1 DEF LoadsOK
    <2>4. QED
      BY <2>1, <2>2, <2>3
  <1>3. loads' \in [Loads -> LoadStates \cup {Nothing}]
    BY <1>2 DEF Without
  <1>4. OneLatest'
    BY <1>1, <1>2 DEF LoadsOK, OneLatest, LatestLoads
  <1>5. OneTick'
    BY <1>1, <1>2 DEF LoadsOK, OneTick, Ticks
  <1>6. ~replaced => \A m \in Loads \ {l} : loads'[m] = loads[m]
    BY DEF Without
  <1>7. QED
    BY <1>2, <1>3, <1>4, <1>5, <1>6

\* An answer is the server's version of now: no part that is shown is newer.
LEMMA AnswerKeeps ==
    ASSUME LiveInv, NEW l \in Loads, Answer(l)
    PROVE LiveInv' /\ Forward
  <1>1. LoadsOK /\ RestOK /\ HiddenIsQuiet /\ NeverIdle
    BY InvariantSplit
  <1>2. PICK p \in Needs(loads[l].kind) :
           loads[l].got[p] = Nothing /\ loads' = [loads EXCEPT ![l].got[p] = db[p]]
    BY DEF Answer
  <1>3. p \in Parts
    BY DEF Needs, Parts
  <1>4. loads[l] # Nothing /\ UNCHANGED <<db, shown, ops, visible, timer, faults>>
    BY DEF Answer
  <1>5. /\ loads'[l] \in LoadStates
        /\ loads'[l].kind = loads[l].kind /\ loads'[l].latest = loads[l].latest
        /\ loads'[l].got = [loads[l].got EXCEPT ![p] = db[p]]
    <2>1. loads'[l] = [loads[l] EXCEPT !.got = [loads[l].got EXCEPT ![p] = db[p]]]
      BY <1>1, <1>2, <1>4, LoadIsTyped DEF LoadsOK, LiveInv
    <2>2. [loads[l].got EXCEPT ![p] = db[p]] \in [Parts -> Versions \cup {Nothing}]
      BY <1>1, <1>3, <1>4, LoadIsTyped DEF RestOK, LiveInv
    <2>3. QED
      BY <1>4, <2>1, <2>2, LoadIsTyped DEF LiveInv, LoadStates
  <1>6. loads'[l] # Nothing
    BY <1>5, NothingAssumption
  <1>7. \A m \in Loads \ {l} : loads'[m] = loads[m]
    BY <1>2
  <1>8. loads' \in [Loads -> LoadStates \cup {Nothing}]
    BY <1>1, <1>2, <1>5, <1>7 DEF LoadsOK
  <1>9. LatestLoads' = LatestLoads /\ Ticks' = Ticks
    <2>1. \A m \in Loads : /\ loads'[m] # Nothing <=> loads[m] # Nothing
                           /\ loads[m] # Nothing =>
                                /\ loads'[m].kind = loads[m].kind
                                /\ loads'[m].latest = loads[m].latest
      BY <1>4, <1>5, <1>6, <1>7
    <2>2. QED
      BY <2>1 DEF LatestLoads, Ticks
  <1>10. \A q \in Parts : db[q] \in Nat /\ (shown[q] # Nothing => shown[q] =< db[q])
    BY <1>1, VersionsAreNumbers DEF RestOK, LoadsOK, NothingIsAhead
  <1>11. NothingIsAhead'
    <2>1. ASSUME NEW m \in Loads, NEW q \in Parts, loads'[m] # Nothing, loads'[m].got[q] # Nothing
          PROVE loads'[m].got[q] =< db[q]
      <3>1. CASE m = l /\ q = p
        <4>1. loads'[m].got[q] = db[q]
          BY <1>3, <1>4, <1>5, <3>1, LoadIsTyped DEF LiveInv
        <4>2. QED
          BY <1>10, <4>1
      <3>2. CASE ~(m = l /\ q = p)
        <4>1. loads[m] # Nothing /\ loads'[m].got[q] = loads[m].got[q]
          BY <1>3, <1>4, <1>5, <1>7, <2>1, <3>2, LoadIsTyped DEF LiveInv
        <4>2. QED
          BY <1>1, <2>1, <4>1 DEF LoadsOK, NothingIsAhead
      <3>3. QED
        BY <3>1, <3>2
    <2>2. QED
      BY <1>4, <1>10, <2>1 DEF NothingIsAhead
  <1>12. LatestIsNewer'
    <2>1. ASSUME NEW m \in Loads, NEW q \in Parts,
                 loads'[m] # Nothing, loads'[m].latest, loads'[m].got[q] # Nothing, shown[q] # Nothing
          PROVE shown[q] =< loads'[m].got[q]
      <3>1. CASE m = l /\ q = p
        <4>1. loads'[m].got[q] = db[q]
          BY <1>3, <1>4, <1>5, <3>1, LoadIsTyped DEF LiveInv
        <4>2. QED
          BY <1>10, <2>1, <4>1
      <3>2. CASE ~(m = l /\ q = p)
        <4>1. /\ loads[m] # Nothing /\ loads'[m].got[q] = loads[m].got[q]
              /\ loads'[m].latest = loads[m].latest
          <5>1. CASE m = l
            BY <1>3, <1>4, <1>5, <3>2, <5>1, LoadIsTyped DEF LiveInv
          <5>2. CASE m # l
            BY <1>7, <2>1, <5>2
          <5>3. QED
            BY <5>1, <5>2
        <4>2. QED
          BY <1>1, <2>1, <4>1 DEF LoadsOK, LatestIsNewer
      <3>3. QED
        BY <3>1, <3>2
    <2>2. QED
      BY <1>4, <2>1 DEF LatestIsNewer
  <1>13. OneLatest' /\ OneTick'
    BY <1>1, <1>9 DEF LoadsOK, OneLatest, OneTick
  <1>14. Running("tick") => Running("tick")'
    BY <1>9 DEF Running, Ticks
  <1>15. LoadsOK'
    BY <1>8, <1>11, <1>12, <1>13 DEF LoadsOK
  <1>16. (RestOK /\ HiddenIsQuiet /\ NeverIdle)'
    BY <1>1, <1>4, <1>14 DEF RestOK, HiddenIsQuiet, NeverIdle, Enabled
  <1>17. Forward
    BY <1>1, <1>4, VersionsAreNumbers DEF RestOK, Forward
  <1>18. QED
    BY <1>15, <1>16, <1>17, InvariantSplitNext

\* A page that shows what a load was answered does not go back, for only the
\* latest load is shown; and its hook goes on.
LEMMA LandKeeps ==
    ASSUME LiveInv, NEW l \in Loads, Land(l)
    PROVE LiveInv' /\ Forward
  <1>1. LoadsOK /\ RestOK /\ HiddenIsQuiet /\ NeverIdle
    BY InvariantSplit
  <1>2. PICK replaced \in BOOLEAN :
           /\ replaced <=> Effect(shown') # Effect(shown)
           /\ loads' = Without(l, replaced)
           /\ timer' = IF replaced \/ Rearms(l) THEN Schedule ELSE timer
    BY DEF Land
  <1>3. /\ loads[l] # Nothing
        /\ \A p \in Needs(loads[l].kind) : p \in Parts /\ loads[l].got[p] # Nothing
        /\ shown' = [p \in Parts |-> IF Applies(l) /\ p \in Needs(loads[l].kind)
                                     THEN loads[l].got[p] ELSE shown[p]]
        /\ UNCHANGED <<db, ops, visible, faults>>
    BY DEF Land, Needs, Parts
  <1>4. /\ loads' \in [Loads -> LoadStates \cup {Nothing}]
        /\ loads'[l] = Nothing
        /\ \A m \in Loads : loads'[m] # Nothing =>
              /\ m # l /\ loads[m] # Nothing
              /\ loads'[m].got = loads[m].got /\ loads'[m].latest = loads[m].latest
        /\ OneLatest' /\ OneTick'
        /\ ~replaced => \A m \in Loads \ {l} : loads'[m] = loads[m]
    BY <1>2, OthersAreLeft
  <1>5. ASSUME NEW p \in Parts
        PROVE /\ shown'[p] \in Versions \cup {Nothing}
              /\ shown'[p] # Nothing => shown'[p] =< db[p]
              /\ shown[p] # Nothing => shown'[p] # Nothing /\ shown'[p] >= shown[p]
              /\ shown'[p] = shown[p] \/ loads[l].latest
    <2>1. CASE Applies(l) /\ p \in Needs(loads[l].kind)
      <3>1. shown'[p] = loads[l].got[p] /\ loads[l].latest /\ loads[l].got[p] # Nothing
        BY <1>3, <2>1 DEF Applies
      <3>2. loads[l].got[p] \in Versions /\ (shown[p] # Nothing => shown[p] \in Versions)
        BY <1>1, <1>3, <3>1, LoadIsTyped DEF LiveInv, RestOK
      <3>3. loads[l].got[p] =< db[p] /\ (shown[p] # Nothing => shown[p] =< loads[l].got[p])
        BY <1>1, <1>3, <3>1 DEF LoadsOK, NothingIsAhead, LatestIsNewer
      <3>4. QED
        BY <3>1, <3>2, <3>3, VersionsAreNumbers
    <2>2. CASE ~(Applies(l) /\ p \in Needs(loads[l].kind))
      <3>1. shown'[p] = shown[p]
        BY <1>3, <2>2
      <3>2. QED
        BY <1>1, <3>1, VersionsAreNumbers DEF RestOK, LoadsOK, NothingIsAhead
    <2>3. QED
      BY <2>1, <2>2
  <1>6. Forward
    BY <1>5 DEF Forward
  <1>7. NothingIsAhead'
    <2>1. ASSUME NEW p \in Parts, NEW m \in Loads, loads'[m] # Nothing, loads'[m].got[p] # Nothing
          PROVE loads'[m].got[p] =< db[p]
      <3>1. loads[m] # Nothing /\ loads'[m].got = loads[m].got
        BY <1>4, <2>1
      <3>2. QED
        BY <1>1, <2>1, <3>1 DEF LoadsOK, NothingIsAhead
    <2>2. QED
      BY <1>3, <1>5, <2>1 DEF NothingIsAhead
  <1>8. LatestIsNewer'
    <2>1. ASSUME NEW m \in Loads, NEW p \in Parts,
                 loads'[m] # Nothing, loads'[m].latest, loads'[m].got[p] # Nothing, shown'[p] # Nothing
          PROVE shown'[p] =< loads'[m].got[p]
      <3>1. /\ m # l /\ loads[m] # Nothing
            /\ loads'[m].got = loads[m].got /\ loads'[m].latest = loads[m].latest
        BY <1>4, <2>1
      <3>2. ~loads[l].latest
        BY <1>1, <1>3, <2>1, <3>1 DEF LoadsOK, OneLatest, LatestLoads
      <3>3. shown'[p] = shown[p]
        BY <1>5, <3>2
      <3>4. QED
        BY <1>1, <2>1, <3>1, <3>3 DEF LoadsOK, LatestIsNewer
    <2>2. QED
      BY <2>1 DEF LatestIsNewer
  <1>9. LoadsOK'
    BY <1>4, <1>7, <1>8 DEF LoadsOK
  <1>10. timer' \in BOOLEAN /\ HiddenIsQuiet'
    BY <1>1, <1>2, <1>3 DEF Schedule, RestOK, HiddenIsQuiet
  <1>11. RestOK'
    <2>1. shown' \in [Parts -> Versions \cup {Nothing}]
      BY <1>3, <1>5
    <2>2. QED
      BY <1>1, <1>3, <1>10, <2>1 DEF RestOK
  <1>12. NeverIdle'
    <2>1. CASE replaced \/ Rearms(l)
      BY <1>2, <1>3, <2>1 DEF Schedule, NeverIdle
    <2>2. CASE ~replaced /\ ~Rearms(l)
      <3>1. timer' = timer /\ (Enabled(shown') <=> Enabled(shown))
        BY <1>2, <2>2 DEF Effect
      <3>2. Running("tick") => Running("tick")'
        BY <1>3, <1>4, <2>2 DEF Running, Rearms
      <3>3. QED
        BY <1>1, <1>3, <3>1, <3>2 DEF NeverIdle
    <2>3. QED
      BY <2>1, <2>2
  <1>13. QED
    BY <1>6, <1>9, <1>10, <1>11, <1>12, InvariantSplitNext

\* A load that fails shows nothing, and the hook goes on.
LEMMA LoadFailsKeeps ==
    ASSUME LiveInv, NEW l \in Loads, LoadFails(l)
    PROVE LiveInv' /\ Forward
  <1>1. LoadsOK /\ RestOK /\ HiddenIsQuiet /\ NeverIdle
    BY InvariantSplit
  <1>2. /\ loads[l] # Nothing /\ faults < MaxFaults /\ faults' = faults + 1
        /\ loads' = Without(l, FALSE)
        /\ timer' = IF Rearms(l) THEN Schedule ELSE timer
        /\ UNCHANGED <<db, shown, ops, visible>>
    BY DEF LoadFails
  <1>3. /\ loads' \in [Loads -> LoadStates \cup {Nothing}]
        /\ loads'[l] = Nothing
        /\ OneLatest' /\ OneTick'
        /\ \A m \in Loads \ {l} : loads'[m] = loads[m]
    BY <1>2, OthersAreLeft
  <1>4. NothingIsAhead' /\ LatestIsNewer'
    <2>1. \A m \in Loads : loads'[m] # Nothing => loads'[m] = loads[m]
      BY <1>3
    <2>2. QED
      BY <1>1, <1>2, <2>1 DEF LoadsOK, NothingIsAhead, LatestIsNewer
  <1>5. LoadsOK'
    BY <1>3, <1>4 DEF LoadsOK
  <1>6. RestOK' /\ HiddenIsQuiet'
    BY <1>1, <1>2, VersionsAssumption DEF RestOK, HiddenIsQuiet, Schedule
  <1>7. NeverIdle'
    <2>1. CASE Rearms(l)
      BY <1>2, <2>1 DEF Schedule, NeverIdle
    <2>2. CASE ~Rearms(l)
      <3>1. Running("tick") => Running("tick")'
        BY <1>2, <1>3, <2>2 DEF Running, Rearms
      <3>2. QED
        BY <1>1, <1>2, <2>2, <3>1 DEF NeverIdle, Enabled
    <2>3. QED
      BY <2>1, <2>2
  <1>8. Forward
    BY <1>1, <1>2, VersionsAreNumbers DEF RestOK, Forward
  <1>9. QED
    BY <1>5, <1>6, <1>7, <1>8, InvariantSplitNext

-----------------------------------------------------------------------------
(* The hook and the changes.                                               *)

\* The hook's steps start a refresh where they take its timeout.
LEMMA HookKeeps ==
    ASSUME LiveInv, Timeout \/ Hide \/ Show \/ Focus
    PROVE LiveInv' /\ Forward
  <1>1. LoadsOK /\ RestOK /\ HiddenIsQuiet /\ NeverIdle
    BY InvariantSplit
  <1>2. db' = db /\ db' \in [Parts -> Versions] /\ \A p \in Parts : db'[p] >= db[p]
    BY <1>1, VersionsAreNumbers DEF RestOK, Timeout, Hide, Show, Focus
  <1>3. CASE Timeout
    <2>1. LoadsOK' /\ Forward /\ Running("tick")'
      BY <1>3, TickKeeps DEF Timeout
    <2>2. (RestOK /\ HiddenIsQuiet /\ NeverIdle)'
      BY <1>1, <1>3, <2>1 DEF Timeout, RestOK, HiddenIsQuiet, NeverIdle
    <2>3. QED
      BY <2>1, <2>2, InvariantSplitNext
  <1>4. CASE Hide
    <2>1. LoadsOK' /\ Forward
      BY <1>2, <1>4, LoadsFrame DEF Hide
    <2>2. (RestOK /\ HiddenIsQuiet /\ NeverIdle)'
      BY <1>1, <1>4 DEF Hide, RestOK, HiddenIsQuiet, NeverIdle
    <2>3. QED
      BY <2>1, <2>2, InvariantSplitNext
  <1>5. CASE Show
    <2>1. LoadsOK' /\ Forward /\ (Enabled(shown) => Running("tick")')
      <3>1. CASE Enabled(shown)
        BY <1>5, <3>1, TickKeeps DEF Show
      <3>2. CASE ~Enabled(shown)
        BY <1>2, <1>5, <3>2, LoadsFrame DEF Show
      <3>3. QED
        BY <3>1, <3>2
    <2>2. (RestOK /\ HiddenIsQuiet /\ NeverIdle)'
      BY <1>1, <1>5, <2>1 DEF Show, RestOK, HiddenIsQuiet, NeverIdle, Enabled
    <2>3. QED
      BY <2>1, <2>2, InvariantSplitNext
  <1>6. CASE Focus
    <2>1. LoadsOK' /\ Forward /\ Running("tick")'
      BY <1>6, TickKeeps DEF Focus
    <2>2. (RestOK /\ HiddenIsQuiet /\ NeverIdle)'
      BY <1>1, <1>6, <2>1 DEF Focus, RestOK, HiddenIsQuiet, NeverIdle
    <2>3. QED
      BY <2>1, <2>2, InvariantSplitNext
  <1>7. QED
    BY <1>3, <1>4, <1>5, <1>6

\* A change on the server is newer than anything shown or answered.
LEMMA ChangedIsNewer ==
    ASSUME LiveInv, NEW p \in Parts, db[p] < MaxVersion, Changed(p)
    PROVE db' \in [Parts -> Versions] /\ \A q \in Parts : db'[q] >= db[q]
  <1>1. db \in [Parts -> Versions]
    BY DEF LiveInv, LiveTypeOK
  <1>2. QED
    BY <1>1, VersionsAssumption DEF Changed, Versions

\* A change by somebody else, or one of the owner's that changes no load.
LEMMA ChangeKeeps ==
    ASSUME LiveInv, NEW p \in Parts, Change(p) \/ \E o \in Ops : Submit(o, p)
    PROVE LiveInv' /\ Forward
  <1>1. LoadsOK /\ RestOK /\ HiddenIsQuiet /\ NeverIdle
    BY InvariantSplit
  <1>2. UNCHANGED <<loads, shown, visible, timer, faults>>
    BY DEF Change, Submit
  <1>3. db' \in [Parts -> Versions] /\ \A q \in Parts : db'[q] >= db[q]
    <2>1. CASE Change(p)
      BY <2>1, ChangedIsNewer DEF Change
    <2>2. CASE \E o \in Ops : Submit(o, p)
      BY <1>1, <2>2, VersionsAreNumbers DEF RestOK, Submit
    <2>3. QED
      BY <2>1, <2>2
  <1>4. ops' \in [Ops -> OpStates \cup {Nothing}]
    BY <1>1 DEF RestOK, Change, Submit, OpStates
  <1>5. LoadsOK' /\ Forward /\ (Running("tick")' <=> Running("tick"))
    BY <1>2, <1>3, LoadsFrame
  <1>6. (RestOK /\ HiddenIsQuiet /\ NeverIdle)'
    BY <1>1, <1>2, <1>3, <1>4, <1>5 DEF RestOK, HiddenIsQuiet, NeverIdle, Enabled
  <1>7. QED
    BY <1>5, <1>6, InvariantSplitNext

\* The server does the owner's change, or refuses it.
LEMMA CommitKeeps ==
    ASSUME LiveInv, NEW o \in Ops, Commit(o) \/ OpFails(o)
    PROVE LiveInv' /\ Forward
  <1>1. LoadsOK /\ RestOK /\ HiddenIsQuiet /\ NeverIdle
    BY InvariantSplit
  <1>2. ops[o] # Nothing /\ UNCHANGED <<loads, shown, visible, timer>>
    BY DEF Commit, OpFails
  <1>3. db' \in [Parts -> Versions] /\ \A q \in Parts : db'[q] >= db[q]
    <2>1. CASE Commit(o)
      BY <2>1, ChangedIsNewer, OpIsTyped DEF Commit, LiveInv
    <2>2. CASE OpFails(o)
      BY <1>1, <2>2, VersionsAreNumbers DEF RestOK, OpFails
    <2>3. QED
      BY <2>1, <2>2
  <1>4. ops' \in [Ops -> OpStates \cup {Nothing}]
    <2>1. [ops[o] EXCEPT !.pc = "done"] \in OpStates
      BY <1>2, OpIsTyped DEF LiveInv, OpStates
    <2>2. QED
      BY <1>1, <2>1 DEF RestOK, Commit, OpFails
  <1>5. faults' \in 0..MaxFaults
    BY <1>1, VersionsAssumption DEF RestOK, Commit, OpFails
  <1>6. LoadsOK' /\ Forward /\ (Running("tick")' <=> Running("tick"))
    BY <1>2, <1>3, LoadsFrame
  <1>7. (RestOK /\ HiddenIsQuiet /\ NeverIdle)'
    BY <1>1, <1>2, <1>3, <1>4, <1>5, <1>6 DEF RestOK, HiddenIsQuiet, NeverIdle, Enabled
  <1>8. QED
    BY <1>6, <1>7, InvariantSplitNext

\* A full load after a change, or because one was refused.
LEMMA ReloadKeeps ==
    ASSUME LiveInv, NEW o \in Ops, Done(o) \/ InUse(o)
    PROVE LiveInv' /\ Forward
  <1>1. LoadsOK /\ RestOK /\ HiddenIsQuiet /\ NeverIdle
    BY InvariantSplit
  <1>2. /\ Start("all") /\ ops' = [ops EXCEPT ![o] = Nothing]
        /\ UNCHANGED <<db, shown, visible, timer>>
    BY DEF Done, InUse
  <1>3. LoadsOK' /\ Forward /\ (Running("tick") => Running("tick")')
    BY <1>2, StartKeeps
  <1>4. faults' \in 0..MaxFaults
    BY <1>1, VersionsAssumption DEF RestOK, Done, InUse
  <1>5. (RestOK /\ HiddenIsQuiet /\ NeverIdle)'
    BY <1>1, <1>2, <1>3, <1>4 DEF RestOK, HiddenIsQuiet, NeverIdle, Enabled
  <1>6. QED
    BY <1>3, <1>5, InvariantSplitNext

-----------------------------------------------------------------------------
(* The theorems.                                                           *)

\* The invariant holds when the page has been mounted.
LEMMA InitHolds ==
    ASSUME LiveInit
    PROVE LiveInv
  <1>1. NewLoad("all") \in LoadStates /\ NewLoad("all") # Nothing
        /\ NewLoad("all").kind = "all" /\ \A p \in Parts : NewLoad("all").got[p] = Nothing
    BY NewLoadIsTyped
  <1>2. /\ loads \in [Loads -> LoadStates \cup {Nothing}]
        /\ \A l \in Loads : loads[l] # Nothing =>
              l = 1 /\ loads[l].kind = "all" /\ \A p \in Parts : loads[l].got[p] = Nothing
    BY <1>1 DEF LiveInit
  <1>3. \A l \in LatestLoads : l = 1
    BY <1>2 DEF LatestLoads
  <1>4. Ticks = {}
    BY <1>2 DEF Ticks
  <1>5. OneLatest /\ OneTick
    BY <1>3, <1>4 DEF OneLatest, OneTick
  <1>6. \A p \in Parts : shown[p] = Nothing
    BY DEF LiveInit
  <1>7. NothingIsAhead /\ LatestIsNewer
    BY <1>2, <1>6 DEF NothingIsAhead, LatestIsNewer
  <1>8. RestOK /\ HiddenIsQuiet
    <2>1. 0 \in Versions /\ 0 \in 0..MaxFaults
      BY VersionsAssumption DEF Versions
    <2>2. QED
      BY <2>1 DEF LiveInit, RestOK, HiddenIsQuiet
  <1>9. NeverIdle
    BY <1>6 DEF NeverIdle, Enabled, Parts
  <1>10. QED
    BY <1>2, <1>5, <1>7, <1>8, <1>9, InvariantSplit DEF LoadsOK

\* Every step keeps the invariant, and takes nothing that is shown back.
LEMMA NextKeeps ==
    ASSUME LiveInv, [LiveNext]_liveVars
    PROVE LiveInv' /\ Forward
  <1>1. CASE Timeout \/ Hide \/ Show \/ Focus
    BY <1>1, HookKeeps
  <1>2. CASE \E l \in Loads : Answer(l) \/ Land(l) \/ LoadFails(l)
    BY <1>2, AnswerKeeps, LandKeeps, LoadFailsKeeps
  <1>3. CASE \E p \in Parts : Change(p) \/ \E o \in Ops : Submit(o, p)
    BY <1>3, ChangeKeeps
  <1>4. CASE \E o \in Ops : Commit(o) \/ Done(o) \/ OpFails(o) \/ InUse(o)
    BY <1>4, CommitKeeps, ReloadKeeps
  <1>5. CASE UNCHANGED liveVars
    <2>1. /\ UNCHANGED <<db, shown, loads, ops, visible, timer, faults>>
          /\ RestOK /\ HiddenIsQuiet /\ NeverIdle
      BY <1>5, InvariantSplit DEF liveVars
    <2>2. db' \in [Parts -> Versions] /\ \A p \in Parts : db'[p] >= db[p]
      BY <2>1, VersionsAreNumbers DEF RestOK
    <2>3. LoadsOK' /\ Forward /\ (Running("tick")' <=> Running("tick"))
      BY <2>1, <2>2, LoadsFrame
    <2>4. (RestOK /\ HiddenIsQuiet /\ NeverIdle)'
      BY <2>1, <2>3 DEF RestOK, HiddenIsQuiet, NeverIdle, Enabled
    <2>5. QED
      BY <2>3, <2>4, InvariantSplitNext
  <1>6. QED
    BY <1>1, <1>2, <1>3, <1>4, <1>5 DEF LiveNext

\* The inductive invariant holds of every state of the page.
THEOREM LiveInvariantStays == LiveSpec => []LiveInv
  <1>1. LiveInit => LiveInv
    BY InitHolds
  <1>2. LiveInv /\ [LiveNext]_liveVars => LiveInv'
    BY NextKeeps
  <1>3. QED
    BY <1>1, <1>2, PTL DEF LiveSpec

\* The variables keep their types, with one latest load and one refresh at most.
THEOREM LiveTypeStays == LiveSpec => []LiveTypeOK
  <1>1. LiveInv => LiveTypeOK
    BY DEF LiveInv
  <1>2. QED
    BY <1>1, LiveInvariantStays, PTL

\* Whatever order the answers come in, no part of the page goes back to an
\* older version, nor to none.
THEOREM NothingShownGoesBack == LiveSpec => NeverBackwards
  <1>1. LiveInv /\ [LiveNext]_liveVars =>
           [\A p \in Parts : shown[p] # Nothing => shown'[p] # Nothing /\ shown'[p] >= shown[p]]_liveVars
    BY NextKeeps DEF Forward
  <1>2. QED
    BY <1>1, LiveInvariantStays, PTL DEF LiveSpec, NeverBackwards

\* No timeout of the hook is left to fire on a hidden page.
THEOREM HiddenStaysQuiet == LiveSpec => []HiddenIsQuiet
  <1>1. LiveInv => HiddenIsQuiet
    BY DEF LiveInv
  <1>2. QED
    BY <1>1, LiveInvariantStays, PTL

\* While the page is visible its hook always has a timeout or a refresh ahead.
THEOREM HookNeverStops == LiveSpec => []NeverIdle
  <1>1. LiveInv => NeverIdle
    BY DEF LiveInv
  <1>2. QED
    BY <1>1, LiveInvariantStays, PTL

-----------------------------------------------------------------------------
(* The buttons of the pages (OwnerPages).                                  *)

\* The fields of a state.
LEMMA StateIsTyped ==
    ASSUME NEW s \in States
    PROVE /\ s.dish \in [Dishes -> DishStates \cup {None}] /\ s.cuisine \in BOOLEAN
          /\ s.sub \in SubStates /\ s.paid \in BOOLEAN /\ s.owned \in 0..MaxOwned
          /\ s.account \in BOOLEAN
  BY DEF States

\* A state with nothing in it.
LEMMA BlankIsAState ==
    Blank \in States
  <1>1. 0 \in 0..MaxOwned
    BY ConstantsAssumption
  <1>2. QED
    BY <1>1 DEF Blank, States, SubStates

\* A part of a state is a state.
LEMMA PartIsAState ==
    ASSUME NEW s \in States, NEW dishes, NEW parts
    PROVE Only(s, dishes, parts) \in States
  <1>1. 0 \in 0..MaxOwned
    BY ConstantsAssumption
  <1>2. [d \in Dishes |-> IF d \in dishes THEN s.dish[d] ELSE None]
           \in [Dishes -> DishStates \cup {None}]
    BY StateIsTyped
  <1>3. (s.cuisine /\ "cuisine" \in parts) \in BOOLEAN
    OBVIOUS
  <1>4. (IF "sub" \in parts THEN s.sub ELSE "none") \in SubStates
    BY StateIsTyped DEF SubStates
  <1>5. (IF "owned" \in parts THEN s.owned ELSE 0) \in 0..MaxOwned
    BY <1>1, StateIsTyped
  <1>6. QED
    BY <1>2, <1>3, <1>4, <1>5 DEF Only, States

\* Equal parts say the same of what is in them.
LEMMA EqualParts ==
    ASSUME NEW s \in States, NEW v \in States, NEW dishes, NEW parts,
           Only(v, dishes, parts) = Only(s, dishes, parts)
    PROVE /\ \A d \in Dishes \cap dishes : v.dish[d] = s.dish[d]
          /\ "cuisine" \in parts => (v.cuisine <=> s.cuisine)
          /\ "sub" \in parts => v.sub = s.sub
          /\ "owned" \in parts => v.owned = s.owned
  <1>1. Only(v, dishes, parts).dish = Only(s, dishes, parts).dish
    OBVIOUS
  <1>2. [d \in Dishes |-> IF d \in dishes THEN v.dish[d] ELSE None]
        = [d \in Dishes |-> IF d \in dishes THEN s.dish[d] ELSE None]
    BY <1>1 DEF Only
  <1>3. ASSUME NEW d \in Dishes \cap dishes
        PROVE v.dish[d] = s.dish[d]
    <2>1. [e \in Dishes |-> IF e \in dishes THEN v.dish[e] ELSE None][d] = v.dish[d]
      OBVIOUS
    <2>2. [e \in Dishes |-> IF e \in dishes THEN s.dish[e] ELSE None][d] = s.dish[d]
      OBVIOUS
    <2>3. QED
      BY <1>2, <2>1, <2>2
  <1>4. (v.cuisine /\ "cuisine" \in parts) = (s.cuisine /\ "cuisine" \in parts)
    <2>1. Only(v, dishes, parts).cuisine = Only(s, dishes, parts).cuisine
      OBVIOUS
    <2>2. QED
      BY <2>1 DEF Only
  <1>5. "sub" \in parts => v.sub = s.sub
    <2>1. Only(v, dishes, parts).sub = Only(s, dishes, parts).sub
      OBVIOUS
    <2>2. QED
      BY <2>1 DEF Only
  <1>6. "owned" \in parts => v.owned = s.owned
    <2>1. Only(v, dishes, parts).owned = Only(s, dishes, parts).owned
      OBVIOUS
    <2>2. QED
      BY <2>1 DEF Only
  <1>7. QED
    BY <1>3, <1>4, <1>5, <1>6

\* What a page loads, and what a request is about, are parts of a state.
LEMMA LoadsAreStates ==
    ASSUME NEW s \in States
    PROVE /\ \A p \in Pages : Fetched(p, s) \in States
          /\ \A to \in Targets : Subject(s, to) \in States
  <1>1. ASSUME NEW p \in Pages
        PROVE Fetched(p, s) \in States
    <2>1. p \in {"restaurant", "billing", "plans", "dashboard", "gateway", "login", "signup"}
      BY DEF Pages, KindsOf
    <2>2. QED
      BY <2>1, PartIsAState, BlankIsAState DEF Fetched
  <1>2. ASSUME NEW to \in Targets
        PROVE Subject(s, to) \in States
    <2>1. to.kind \in UNION {KindsOf[p] : p \in Pages}
      BY DEF Targets
    <2>2. to.kind \in DishKinds \cup {"addDish"} \cup CuisineKinds
                      \cup BillingKinds \cup {"create", "login", "signup"}
      BY <2>1 DEF KindsOf, Pages, BillingKinds
    <2>3. QED
      BY <2>2, PartIsAState, BlankIsAState
         DEF Subject, DishKinds, CuisineKinds, BillingKinds
  <1>3. QED
    BY <1>1, <1>2

\* What a request is about, and when it is accepted, kind by kind.
LEMMA SubjectOfKind ==
    ASSUME NEW s, NEW to
    PROVE /\ to.kind \in DishKinds
                => /\ Subject(s, to) = Only(s, {to.dish}, {})
                   /\ Accepts(s, to) <=> AcceptsDish(to, s.dish[to.dish])
          /\ to.kind = "addDish"
                => /\ Subject(s, to) = Only(s, {to.dish}, {"cuisine"})
                   /\ Accepts(s, to) <=> s.cuisine /\ s.dish[to.dish] = None
          /\ to.kind = "dropCuisine"
                => /\ Subject(s, to) = Only(s, Dishes, {"cuisine"})
                   /\ Accepts(s, to) <=> s.cuisine /\ ~HasDishes(s)
          /\ to.kind \in BillingKinds => Subject(s, to) = Only(s, {}, {"sub"})
          /\ to.kind \in {"cancel", "switch"} => (Accepts(s, to) <=> HasPlan(s))
          /\ to.kind = "subscribe" => (Accepts(s, to) <=> s.sub # "active")
          /\ to.kind = "create"
                => /\ Subject(s, to) = Only(s, {}, {"owned"})
                   /\ Accepts(s, to) <=> s.owned < MaxOwned
  <1>1. CASE to.kind \in DishKinds
    BY <1>1
       DEF Subject, Accepts, DishKinds, BillingKinds,
           CuisineKinds
  <1>2. CASE to.kind = "addDish"
    BY <1>2
       DEF Subject, Accepts, DishKinds, BillingKinds,
           CuisineKinds
  <1>3. CASE to.kind = "dropCuisine"
    BY <1>3
       DEF Subject, Accepts, DishKinds, BillingKinds,
           CuisineKinds
  <1>4. CASE to.kind \in BillingKinds
    BY <1>4
       DEF Subject, Accepts, DishKinds, BillingKinds,
           CuisineKinds
  <1>5. CASE to.kind = "create"
    BY <1>5
       DEF Subject, Accepts, DishKinds, BillingKinds,
           CuisineKinds
  <1>6. CASE to.kind \notin DishKinds \cup BillingKinds
                              \cup {"addDish", "dropCuisine", "create"}
    BY <1>6 DEF BillingKinds
  <1>7. QED
    BY <1>1, <1>2, <1>3, <1>4, <1>5, <1>6

\* A button of a dish asks for all that the server does, but for the number of
\* photos.
LEMMA ButtonIsEnough ==
    ASSUME NEW x \in DishStates, NEW to \in Clicks, to.kind \in DishKinds, Button(to.kind, x)
    PROVE AcceptsDish(to, x) \/ (to.kind = "photos" /\ TooMany(x, to.files))
  <1>1. x # None
    BY ConstantsAssumption
  <1>2. CASE to.kind = "photos"
    <2>1. /\ x.photos \in Nat /\ x.photos < MaxPhotos /\ to.files \in Nat
          /\ MaxPhotos \in Nat
      BY <1>2, ConstantsAssumption DEF Button, DishStates, Clicks, Targets
    <2>2. CASE x.photos + to.files <= MaxPhotos
      BY <1>1, <1>2, <2>2 DEF AcceptsDish
    <2>3. CASE x.photos + to.files > MaxPhotos
      BY <1>1, <1>2, <2>1, <2>3 DEF TooMany
    <2>4. QED
      BY <2>1, <2>2, <2>3
  <1>3. CASE to.kind # "photos"
    BY <1>1, <1>3 DEF Button, AcceptsDish
  <1>4. QED
    BY <1>2, <1>3

\* What a page offers, by what it shows, the server accepts as long as it has
\* that, or it refuses what was typed or chosen.
LEMMA OffersAreSure ==
    ASSUME view \in States, NEW to \in Clicks,
           Offered(to), to.kind = "dropCuisine" => ~HasDishes(view)
    PROVE Sure(Subject(view, to), to)
  <1> SUFFICES ASSUME NEW s \in States, Subject(view, to) = Subject(s, to),
                      ~RefusedByInput(s, to)
               PROVE Accepts(s, to)
    BY DEF Sure
  <1>1. /\ to.dish \in Dishes \cup {None}
        /\ to.dish # None <=> to.kind \in DishKinds \cup {"addDish"}
    BY DEF Clicks, Targets
  <1>2. CASE OffersDish(to)
    <2>1. to.kind \in DishKinds /\ to.dish \in Dishes
      BY <1>1, <1>2 DEF OffersDish
    <2>2. Only(view, {to.dish}, {}) = Only(s, {to.dish}, {})
      BY <2>1, SubjectOfKind
    <2>3. view.dish[to.dish] = s.dish[to.dish]
      BY <2>1, <2>2, EqualParts
    <2>4. s.dish[to.dish] \in DishStates /\ Button(to.kind, s.dish[to.dish])
      BY <1>2, <2>1, <2>3, StateIsTyped DEF OffersDish
    <2>5. AcceptsDish(to, s.dish[to.dish])
      BY <2>1, <2>4, ButtonIsEnough DEF RefusedByInput
    <2>6. QED
      BY <2>1, <2>5, SubjectOfKind
  <1>3. CASE OffersAddDish(to)
    <2>1. to.kind = "addDish" /\ to.dish \in Dishes
      BY <1>1, <1>3 DEF OffersAddDish
    <2>2. Only(view, {to.dish}, {"cuisine"}) = Only(s, {to.dish}, {"cuisine"})
      BY <2>1, SubjectOfKind
    <2>3. view.cuisine <=> s.cuisine
      BY <2>1, <2>2, EqualParts
    <2>4. s.dish[to.dish] = None
      BY <2>1 DEF RefusedByInput
    <2>5. QED
      BY <1>3, <2>1, <2>3, <2>4, SubjectOfKind DEF OffersAddDish
  <1>4. CASE OffersDropCuisine(to)
    <2>1. to.kind = "dropCuisine"
      BY <1>4 DEF OffersDropCuisine
    <2>2. Only(view, Dishes, {"cuisine"}) = Only(s, Dishes, {"cuisine"})
      BY <2>1, SubjectOfKind
    <2>3. \A d \in Dishes : view.dish[d] = s.dish[d]
      BY <2>2, EqualParts
    <2>4. view.cuisine <=> s.cuisine
      BY <2>2, EqualParts
    <2>5. ~HasDishes(s)
      BY <2>1, <2>3 DEF HasDishes
    <2>6. QED
      BY <1>4, <2>1, <2>4, <2>5, SubjectOfKind DEF OffersDropCuisine
  <1>5. CASE OffersCancel(to) \/ OffersPlan(to)
    <2>1. to.kind \in BillingKinds
      BY <1>5 DEF OffersCancel, OffersPlan, BillingKinds
    <2>2. Only(view, {}, {"sub"}) = Only(s, {}, {"sub"})
      BY <2>1, SubjectOfKind DEF BillingKinds
    <2>3. view.sub = s.sub
      BY <2>2, EqualParts
    <2>4. QED
      BY <1>5, <2>1, <2>3, SubjectOfKind
         DEF OffersCancel, OffersPlan, BillingKinds, HasPlan
  <1>6. CASE OffersCreate(to)
    <2>1. to.kind = "create"
      BY <1>6 DEF OffersCreate
    <2>2. Only(view, {}, {"owned"}) = Only(s, {}, {"owned"})
      BY <2>1, SubjectOfKind DEF BillingKinds
    <2>3. view.owned = s.owned
      BY <2>2, EqualParts
    <2>4. QED
      BY <1>6, <2>1, <2>3, SubjectOfKind DEF OffersCreate
  <1>7. CASE to.kind \in Forms
    BY <1>7 DEF Forms, RefusedByInput
  <1>8. QED
    BY <1>2, <1>3, <1>4, <1>5, <1>6, <1>7 DEF Offered

-----------------------------------------------------------------------------
(* The steps.                                                              *)

\* What the invariant says but for the types.
ButtonsSafe == /\ OfThePage /\ OneDishAtATime /\ Grounded
               /\ RefusedMeansStale /\ MarkedForARequest

\* The kinds that mark a dish are marks, and no other page has them.
LEMMA KindsAreApart ==
    ASSUME NEW kind
    PROVE /\ kind \in DishKinds \ {"delete"} => Marks(kind) /\ kind # "delete"
          /\ kind \in KindsOf["restaurant"] /\ Marks(kind)
                => kind \in DishKinds \ {"delete"}
          /\ \A p \in Pages :
                kind \in KindsOf[p] /\ kind \in DishKinds => p = "restaurant"
  BY DEF DishKinds, CuisineKinds, Marks, KindsOf, Pages

\* The fields of a request and of a question.
LEMMA RequestIsTyped ==
    ASSUME TypeOK
    PROVE /\ \A q \in Requests : requests[q] # None =>
                /\ requests[q] \in Sent /\ requests[q].to \in Clicks
                /\ requests[q].seen \in States /\ requests[q].left \in BOOLEAN
                /\ requests[q].pc \in {"sent", "ok", "refused", "failed"}
          /\ asking # None => /\ asking \in Questions /\ asking.to \in Clicks
                              /\ asking.seen \in States
  BY DEF TypeOK, Sent, Questions

\* A click names a dish if its kind is of one.
LEMMA ClickIsTyped ==
    ASSUME NEW to \in Clicks
    PROVE /\ to \in Targets /\ to.dish \in Dishes \cup {None}
          /\ to.kind \in DishKinds => to.dish \in Dishes
  BY DEF Clicks, Targets

\* A step that neither sends nor answers, nor asks.
LEMMA QuietKeeps ==
    ASSUME ButtonsSafe, UNCHANGED <<page, requests, busy, mixed>>, asking' \in {asking, None}
    PROVE ButtonsSafe'
  <1>1. Waiting' = Waiting /\ OnDishes' = OnDishes
    BY DEF Waiting, OnDishes
  <1>2. OfThePage'
    BY <1>1 DEF ButtonsSafe, OfThePage, Back
  <1>3. OneDishAtATime'
    BY <1>1 DEF ButtonsSafe, OneDishAtATime
  <1>4. Grounded'
    BY <1>1 DEF ButtonsSafe, Grounded, Pending
  <1>5. RefusedMeansStale' /\ MarkedForARequest'
    BY DEF ButtonsSafe, RefusedMeansStale, MarkedForARequest
  <1>6. QED
    BY <1>2, <1>3, <1>4, <1>5 DEF ButtonsSafe

\* What is asked about is a button the page offers.
LEMMA AskKeeps ==
    ASSUME TypeOK, ButtonsSafe, NEW to \in Clicks,
           Ask(to)
    PROVE ButtonsSafe' /\ asking' \in Questions
  <1>1. PICK ask : ask = [to |-> to, seen |-> Subject(view, to)]
    OBVIOUS
  <1>2. Subject(view, to) \in States
    BY ClickIsTyped, LoadsAreStates DEF TypeOK
  <1>3. /\ ask \in Questions /\ ask # None
        /\ ask.to = to /\ ask.seen = Subject(view, to)
    BY <1>1, <1>2, ConstantsAssumption DEF Questions
  <1>4. asking' = ask /\ UNCHANGED <<page, requests, busy, mixed>>
    BY <1>1 DEF Ask
  <1>5. Waiting' = Waiting /\ OnDishes' = OnDishes
    BY <1>4 DEF Waiting, OnDishes
  <1>6. Sure(ask.seen, to)
    <2>1. Offered(to) /\ (to.kind = "dropCuisine" => ~HasDishes(view))
      BY DEF Ask
    <2>2. QED
      BY <1>3, <2>1, OffersAreSure DEF TypeOK
  <1>7. Grounded'
    BY <1>3, <1>4, <1>5, <1>6 DEF ButtonsSafe, Grounded, Pending
  <1>8. OfThePage'
    BY <1>3, <1>4, <1>5 DEF ButtonsSafe, OfThePage, Ask, Offered, Back
  <1>9. OneDishAtATime'
    <2>1. to.kind \in DishKinds \ {"delete"} => busy # to.dish
      BY KindsAreApart DEF Ask, Offered, Free
    <2>2. QED
      BY <1>3, <1>4, <1>5, <2>1 DEF ButtonsSafe, OneDishAtATime
  <1>10. RefusedMeansStale' /\ MarkedForARequest'
    BY <1>4 DEF ButtonsSafe, RefusedMeansStale, MarkedForARequest
  <1>11. QED
    BY <1>3, <1>4, <1>7, <1>8, <1>9, <1>10 DEF ButtonsSafe

\* A page is mounted: what it had sent is nobody's.
LEMMA MountKeeps ==
    ASSUME TypeOK, ButtonsSafe, NEW p \in Pages,
           Mount(p, Gone)
    PROVE /\ ButtonsSafe' /\ view' \in States
          /\ requests' \in [Requests -> Sent \cup {None}]
  <1>1. ASSUME NEW q \in Requests
        PROVE /\ Gone[q] \in Sent \cup {None}
              /\ Gone[q] # None => /\ Gone[q].left /\ Gone[q].pc = "sent"
                                   /\ ~Gone[q].undue
    <2>1. CASE Pending(q)
      <3>1. requests[q] \in Sent /\ requests[q].pc = "sent"
        BY <2>1, RequestIsTyped DEF Pending
      <3>2. Gone[q] = [requests[q] EXCEPT !.left = TRUE, !.seen = Blank]
        BY <2>1 DEF Gone
      <3>3. ~requests[q].undue
        BY <2>1 DEF Pending, ButtonsSafe, RefusedMeansStale
      <3>4. Gone[q].undue <=> requests[q].undue
        BY <3>1, <3>2 DEF Sent
      <3>5. QED
        BY <3>1, <3>2, <3>3, <3>4, BlankIsAState DEF Sent
    <2>2. CASE ~Pending(q)
      BY <2>2 DEF Gone
    <2>3. QED
      BY <2>1, <2>2
  <1>2. requests' = Gone /\ busy' = None /\ asking' = None /\ view' = Blank
    BY DEF Mount
  <1>3. requests' \in [Requests -> Sent \cup {None}]
    <2>1. Gone = [q \in Requests |-> Gone[q]]
      BY DEF Gone
    <2>2. QED
      BY <1>1, <1>2, <2>1
  <1>4. Waiting' = {} /\ OnDishes' = {}
    BY <1>1, <1>2 DEF Waiting, OnDishes
  <1>5. OfThePage' /\ OneDishAtATime' /\ Grounded'
    BY <1>1, <1>2, <1>4 DEF OfThePage, OneDishAtATime, Grounded, Back
  <1>6. RefusedMeansStale' /\ MarkedForARequest'
    BY <1>1, <1>2 DEF RefusedMeansStale, MarkedForARequest
  <1>7. QED
    BY <1>2, <1>3, <1>5, <1>6, BlankIsAState DEF ButtonsSafe

\* The request that is sent.
LEMMA SentRequest ==
    ASSUME TypeOK, NEW to \in Clicks,
           NEW seen \in States, Send(to, seen)
    PROVE \E q \in Requests :
             /\ requests[q] = None /\ requests' \in [Requests -> Sent \cup {None}]
             /\ requests'[q] \in Sent /\ requests'[q] # None
             /\ requests'[q] = Request(to, seen)
             /\ \A r \in Requests : r # q => requests'[r] = requests[r]
  <1>1. PICK q \in Requests :
           requests[q] = None /\ requests' = [requests EXCEPT ![q] = Request(to, seen)]
    BY DEF Send
  <1>2. Request(to, seen) \in Sent /\ Request(to, seen) # None
    <2>1. Request(to, seen) \in Sent
      BY FALSE \in BOOLEAN, "sent" \in {"sent", "ok", "refused", "failed"}
         DEF Request, Sent
    <2>2. None \notin Sent
      BY ConstantsAssumption
    <2>3. QED
      BY <2>1, <2>2
  <1>3. QED
    BY <1>1, <1>2 DEF TypeOK

\* A button that is pressed, or a question that is confirmed.
LEMMA SendKeeps ==
    ASSUME TypeOK, ButtonsSafe, NEW to \in Clicks,
           NEW seen \in States,
           Send(to, seen), UNCHANGED page, asking' = None,
           to.kind \in KindsOf[page], Sure(seen, to),
           ~mixed /\ to.kind \in DishKinds \ {"delete"} => busy # to.dish
    PROVE ButtonsSafe'
  <1>1. PICK q \in Requests :
           /\ requests[q] = None /\ requests'[q] # None /\ requests'[q] = Request(to, seen)
           /\ \A r \in Requests : r # q => requests'[r] = requests[r]
    BY SentRequest
  <1>2. /\ requests'[q].to = to /\ requests'[q].seen = seen /\ requests'[q].pc = "sent"
        /\ requests'[q].left = FALSE /\ requests'[q].undue = FALSE
    BY <1>1 DEF Request
  <1>3. Waiting' = Waiting \cup {q} /\ q \notin Waiting
    BY <1>1, <1>2 DEF Waiting
  <1>4. OfThePage'
    BY <1>1, <1>2, <1>3 DEF ButtonsSafe, OfThePage, Waiting, Back
  <1>5. Grounded'
    BY <1>1, <1>2, <1>3 DEF ButtonsSafe, Grounded, Pending, Waiting
  <1>6. OneDishAtATime'
    <2>1. CASE to.kind \in DishKinds \ {"delete"}
      <3>1. busy' = to.dish /\ to.dish \in Dishes
        BY <2>1, KindsAreApart, ClickIsTyped DEF Send
      <3>2. ASSUME ~mixed'
            PROVE OnDishes = {}
        <4>1. ~mixed /\ \A d \in Dishes \ {to.dish} : InFlight(d) = {}
          BY <2>1, <3>2 DEF Send
        <4>2. ASSUME NEW r \in OnDishes
              PROVE FALSE
          <5>1. /\ r \in Requests /\ requests[r] # None /\ ~requests[r].left
                /\ requests[r].to.kind \in DishKinds \ {"delete"}
            BY <4>2 DEF OnDishes, Waiting
          <5>2. requests[r].to.dish \in Dishes
            BY <5>1, RequestIsTyped, ClickIsTyped
          <5>3. r \in InFlight(requests[r].to.dish)
            BY <5>1 DEF InFlight
          <5>4. requests[r].to.dish = to.dish
            BY <4>1, <5>2, <5>3
          <5>5. busy = to.dish
            BY <4>1, <4>2, <5>4 DEF ButtonsSafe, OneDishAtATime
          <5>6. QED
            BY <2>1, <4>1, <5>5
        <4>3. QED
          BY <4>2
      <3>3. ~mixed' => OnDishes' \subseteq {q}
        BY <1>1, <1>3, <3>2 DEF OnDishes, Waiting
      <3>4. QED
        BY <1>2, <3>1, <3>3 DEF OneDishAtATime
    <2>2. CASE to.kind \notin DishKinds \ {"delete"}
      <3>1. OnDishes' = OnDishes /\ \A r \in OnDishes : requests'[r] = requests[r]
        BY <1>1, <1>2, <1>3, <2>2 DEF OnDishes, Waiting
      <3>2. mixed' <=> mixed
        BY <2>2 DEF Send
      <3>3. OnDishes # {} => busy' = busy
        <4>1. ASSUME NEW r \in OnDishes
              PROVE ~Marks(to.kind)
          <5>1. /\ requests[r].to.kind \in KindsOf[page]
                /\ requests[r].to.kind \in DishKinds
            BY DEF OnDishes, ButtonsSafe, OfThePage
          <5>2. page = "restaurant"
            BY <5>1, KindsAreApart DEF TypeOK
          <5>3. QED
            BY <2>2, <5>2, KindsAreApart
        <4>2. QED
          BY <4>1 DEF Send
      <3>4. QED
        BY <3>1, <3>2, <3>3 DEF ButtonsSafe, OneDishAtATime
    <2>3. QED
      BY <2>1, <2>2
  <1>7. RefusedMeansStale'
    BY <1>1, <1>2 DEF ButtonsSafe, RefusedMeansStale
  <1>8. MarkedForARequest'
    <2>1. CASE Marks(to.kind)
      BY <1>1, <1>2, <2>1 DEF MarkedForARequest
    <2>2. CASE ~Marks(to.kind)
      <3>1. busy' = busy
        BY <2>2 DEF Send
      <3>2. QED
        BY <1>1, <3>1 DEF ButtonsSafe, MarkedForARequest
    <2>3. QED
      BY <2>1, <2>2
  <1>9. QED
    BY <1>4, <1>5, <1>6, <1>7, <1>8 DEF ButtonsSafe

\* The answer to a request: refused only if the server does not accept it.
LEMMA AnsweredKeeps ==
    ASSUME TypeOK, ButtonsSafe, NEW q \in Requests, Pending(q),
           NEW pc \in {"ok", "refused", "failed"}, Answered(q, pc),
           pc = "refused" => ~Accepts(srv, requests[q].to),
           UNCHANGED <<page, busy, asking, mixed>>
    PROVE ButtonsSafe' /\ requests' \in [Requests -> Sent \cup {None}]
  <1>1. requests[q] \in Sent /\ requests[q] # None /\ requests[q].to \in Clicks
    BY RequestIsTyped DEF Pending
  <1>2. \A r \in Requests : r # q => requests'[r] = requests[r]
    BY DEF Answered, Freed, TypeOK
  <1>3. CASE requests[q].left
    <2>1. requests'[q] = None /\ requests' \in [Requests -> Sent \cup {None}]
      BY <1>3 DEF Answered, Freed, TypeOK
    <2>2. Waiting' = Waiting /\ q \notin Waiting
      BY <1>2, <1>3, <2>1 DEF Waiting
    <2>3. OnDishes' = OnDishes
      BY <1>2, <2>2 DEF OnDishes, Waiting
    <2>4. \A r \in Waiting : requests'[r] = requests[r]
      BY <1>2, <2>2 DEF Waiting
    <2>5. OfThePage'
      BY <1>2, <2>1, <2>2, <2>4 DEF ButtonsSafe, OfThePage, Back
    <2>6. OneDishAtATime'
      BY <2>3, <2>4 DEF ButtonsSafe, OneDishAtATime, OnDishes
    <2>7. Grounded'
      BY <2>2, <2>4 DEF ButtonsSafe, Grounded, Pending
    <2>8. RefusedMeansStale'
      BY <1>2, <2>1 DEF ButtonsSafe, RefusedMeansStale
    <2>9. MarkedForARequest'
      BY <1>2, <1>3, <2>1 DEF ButtonsSafe, MarkedForARequest
    <2>10. QED
      BY <2>1, <2>5, <2>6, <2>7, <2>8, <2>9 DEF ButtonsSafe
  <1>4. CASE ~requests[q].left
    <2>1. PICK cur \in BOOLEAN :
             cur <=> (/\ pc = "refused" /\ requests[q].seen = Subject(srv, requests[q].to)
                      /\ ~RefusedByInput(srv, requests[q].to))
      OBVIOUS
    <2>2. PICK sent : sent = [requests[q] EXCEPT !.pc = pc, !.seen = Blank, !.undue = cur]
      OBVIOUS
    <2>3. /\ sent \in Sent /\ sent.to = requests[q].to /\ sent.pc = pc /\ sent.left = FALSE
          /\ sent.undue = cur
      <3>1. pc \in {"sent", "ok", "refused", "failed"} /\ Blank \in States
        BY BlankIsAState
      <3>2. QED
        BY <1>1, <1>4, <2>2, <3>1 DEF Sent
    <2>4. sent # None
      BY <2>3, ConstantsAssumption
    <2>5. requests'[q] = sent /\ requests' \in [Requests -> Sent \cup {None}]
      <3>1. (/\ pc = "refused" /\ requests[q].seen = Subject(srv, requests[q].to)
             /\ ~RefusedByInput(srv, requests[q].to)) = cur
        BY <2>1
      <3>2. requests' = [requests EXCEPT ![q] =
                           [requests[q] EXCEPT !.pc = pc, !.seen = Blank,
                              !.undue = /\ pc = "refused"
                                        /\ requests[q].seen
                                             = Subject(srv, requests[q].to)
                                        /\ ~RefusedByInput(srv, requests[q].to)]]
        BY <1>4 DEF Answered, TypeOK
      <3>3. requests' = [requests EXCEPT ![q] = sent]
        BY <2>2, <3>1, <3>2
      <3>4. QED
        BY <2>3, <3>3 DEF TypeOK
    <2>6. Waiting' = Waiting
      BY <1>1, <1>2, <1>4, <2>3, <2>4, <2>5 DEF Waiting
    <2>7. \A r \in Waiting : requests'[r].to = requests[r].to
      BY <1>2, <2>3, <2>5 DEF Waiting
    <2>8. OnDishes' = OnDishes
      BY <2>6, <2>7 DEF OnDishes
    <2>9. OfThePage'
      BY <1>2, <2>3, <2>5, <2>6, <2>7 DEF ButtonsSafe, OfThePage, Back
    <2>10. OneDishAtATime'
      BY <2>7, <2>8 DEF ButtonsSafe, OneDishAtATime, OnDishes
    <2>11. Grounded'
      BY <1>2, <2>3, <2>5, <2>6 DEF ButtonsSafe, Grounded, Pending, Waiting
    <2>12. RefusedMeansStale'
      <3>1. ASSUME cur
            PROVE FALSE
        <4>1. q \in Waiting
          BY <1>1, <1>4 DEF Waiting
        <4>2. Sure(requests[q].seen, requests[q].to)
          BY <3>1, <4>1 DEF ButtonsSafe, Grounded
        <4>3. QED
          BY <2>1, <3>1, <4>2 DEF Sure, TypeOK
      <3>2. QED
        BY <1>2, <2>3, <2>5, <3>1 DEF ButtonsSafe, RefusedMeansStale
    <2>13. MarkedForARequest'
      BY <1>2, <2>3, <2>4, <2>5 DEF ButtonsSafe, MarkedForARequest
    <2>14. QED
      BY <2>5, <2>9, <2>10, <2>11, <2>12, <2>13 DEF ButtonsSafe
  <1>5. QED
    BY <1>1, <1>3, <1>4, RequestIsTyped

\* The handler goes on: a mark that it takes off was its own request's.
LEMMA ReturnKeeps ==
    ASSUME TypeOK, ButtonsSafe, NEW q \in Requests, Return(q)
    PROVE ButtonsSafe' /\ requests' \in [Requests -> Sent \cup {None}]
  <1>1. /\ requests'[q] = None /\ requests' \in [Requests -> Sent \cup {None}]
        /\ \A r \in Requests : r # q => requests'[r] = requests[r]
        /\ requests[q] # None /\ busy' = Unmarked(q) /\ UNCHANGED <<page, asking, mixed>>
    BY DEF Return, Back, Freed, TypeOK
  <1>2. Waiting' = Waiting \ {q}
    BY <1>1 DEF Waiting
  <1>3. OnDishes' = OnDishes \ {q}
    BY <1>1, <1>2 DEF OnDishes, Waiting
  <1>4. OfThePage'
    <2>1. \A r \in Requests : Back(r)' => r # q
      BY <1>1 DEF Back
    <2>2. \A r \in Waiting' : r \in Waiting /\ requests'[r] = requests[r]
      BY <1>1, <1>2 DEF Waiting
    <2>3. QED
      BY <1>1, <2>1, <2>2 DEF ButtonsSafe, OfThePage, Back
  <1>5. Grounded'
    <2>1. \A r \in Waiting' : r \in Waiting /\ requests'[r] = requests[r]
      BY <1>1, <1>2 DEF Waiting
    <2>2. QED
      BY <1>1, <2>1 DEF ButtonsSafe, Grounded, Pending
  <1>6. RefusedMeansStale'
    BY <1>1 DEF ButtonsSafe, RefusedMeansStale
  <1>7. MarkedForARequest'
    BY <1>1 DEF ButtonsSafe, MarkedForARequest, Unmarked, HandsOver
  <1>8. OneDishAtATime'
    <2>1. CASE Marks(requests[q].to.kind)
      <3>1. busy' \in {None, "leaving"}
        BY <1>1, <2>1 DEF Unmarked
      <3>2. ASSUME asking # None, asking.to.kind \in DishKinds
            PROVE busy' # asking.to.dish
        BY <3>1, <3>2, RequestIsTyped, ClickIsTyped, ConstantsAssumption
      <3>3. ASSUME ~mixed
            PROVE OnDishes' = {}
        <4>1. ASSUME NEW r \in OnDishes, r # q
              PROVE FALSE
          <5>1. /\ requests[r].to.kind \in KindsOf[page]
                /\ requests[r].to.kind \in DishKinds
            BY DEF OnDishes, ButtonsSafe, OfThePage
          <5>2. page = "restaurant"
            BY <5>1, KindsAreApart DEF TypeOK
          <5>3. q \in Waiting
            BY <1>1 DEF Waiting, Return, ButtonsSafe, OfThePage
          <5>4. q \in OnDishes
            BY <2>1, <5>2, <5>3, KindsAreApart DEF OnDishes, ButtonsSafe, OfThePage
          <5>5. QED
            BY <3>3, <4>1, <5>4 DEF ButtonsSafe, OneDishAtATime
        <4>2. QED
          BY <1>3, <4>1
      <3>4. QED
        BY <1>1, <3>2, <3>3 DEF OneDishAtATime
    <2>2. CASE ~Marks(requests[q].to.kind)
      <3>1. busy' = busy
        BY <1>1, <2>2 DEF Unmarked, HandsOver, Marks, CuisineKinds
      <3>2. \A r \in OnDishes' : requests'[r] = requests[r] /\ r \in OnDishes
        BY <1>1, <1>3 DEF OnDishes, Waiting
      <3>3. QED
        BY <1>1, <3>1, <3>2 DEF ButtonsSafe, OneDishAtATime
    <2>3. QED
      BY <2>1, <2>2
  <1>9. QED
    BY <1>1, <1>4, <1>5, <1>6, <1>7, <1>8 DEF ButtonsSafe

-----------------------------------------------------------------------------
(* The types.                                                              *)

\* What the server does with a request it accepts leaves it in a state.
LEMMA AfterIsAState ==
    ASSUME NEW s \in States, NEW to \in Clicks,
           Accepts(s, to)
    PROVE After(s, to) \in States
  <1>1. /\ to.kind \in DishKinds \cup {"addDish"} => to.dish \in Dishes
        /\ to.kind \in DishKinds \cup {"addDish"} \cup CuisineKinds
                       \cup BillingKinds \cup {"create", "login", "signup"}
    BY DEF Clicks, Targets, KindsOf, Pages, BillingKinds
  <1>2. 1 \in 0..MaxOwned /\ MaxOwned \in Nat /\ MaxPhotos \in Nat
    BY ConstantsAssumption
  <1>3. CASE to.kind \in DishKinds
    <2>1. PICK x : x = s.dish[to.dish]
      OBVIOUS
    <2>2. AcceptsDish(to, x) /\ x \in DishStates
      <3>1. AcceptsDish(to, s.dish[to.dish])
        BY <1>3, SubjectOfKind
      <3>2. s.dish[to.dish] \in DishStates \cup {None}
        BY <1>1, <1>3, StateIsTyped
      <3>3. QED
        BY <2>1, <3>1, <3>2 DEF AcceptsDish
    <2>3. PICK y : y = DishAfter(to, x)
      OBVIOUS
    <2>4. y \in DishStates \cup {None}
      <3>1. x.status \in {"pending", "making", "live"} /\ x.photos \in 0..MaxPhotos
        BY <2>2 DEF DishStates
      <3>2. CASE to.kind = "photos"
        <4>1. x.photos + to.files \in 0..MaxPhotos
          <5>1. to.files \in Nat
            BY ConstantsAssumption DEF Clicks, Targets
          <5>2. QED
            BY <1>2, <2>2, <3>1, <3>2, <5>1 DEF AcceptsDish
        <4>2. QED
          BY <2>3, <3>2, <4>1 DEF DishAfter, DishStates
      <3>3. CASE to.kind = "removePhoto"
        <4>1. x.photos - 1 \in 0..MaxPhotos
          BY <1>2, <2>2, <3>1, <3>3 DEF AcceptsDish
        <4>2. [x EXCEPT !.photos = @ - 1] \in DishStates
          BY <2>2, <4>1 DEF DishStates
        <4>3. QED
          BY <2>3, <3>3, <4>2 DEF DishAfter
      <3>4. CASE to.kind \in {"generate", "model"}
        <4>1. [x EXCEPT !.status = "making"] \in DishStates
          BY <2>2 DEF DishStates
        <4>2. QED
          BY <2>3, <3>4, <4>1 DEF DishAfter
      <3>5. CASE to.kind = "size" \/ to.kind = "delete"
        BY <2>2, <2>3, <3>5 DEF DishAfter
      <3>6. QED
        BY <1>3, <3>2, <3>3, <3>4, <3>5 DEF DishKinds
    <2>5. After(s, to) = [s EXCEPT !.dish = [s.dish EXCEPT ![to.dish] = y]]
      BY <1>3, <2>1, <2>3 DEF After, DishKinds, CuisineKinds
    <2>6. [s.dish EXCEPT ![to.dish] = y] \in [Dishes -> DishStates \cup {None}]
      BY <2>4, StateIsTyped
    <2>7. QED
      BY <2>5, <2>6 DEF States
  <1>4. CASE to.kind = "addDish"
    <2>1. PICK y : y = [status |-> "pending", photos |-> 0]
      OBVIOUS
    <2>2. y \in DishStates
      BY <1>2, <2>1, 0 \in 0..MaxPhotos DEF DishStates
    <2>3. After(s, to) = [s EXCEPT !.dish = [s.dish EXCEPT ![to.dish] = y]]
      BY <1>4, <2>1 DEF After, DishKinds, CuisineKinds
    <2>4. [s.dish EXCEPT ![to.dish] = y] \in [Dishes -> DishStates \cup {None}]
      BY <2>2, StateIsTyped
    <2>5. QED
      BY <2>3, <2>4 DEF States
  <1>5. CASE to.kind \in CuisineKinds
    <2>1. After(s, to) = [s EXCEPT !.cuisine = ~s.cuisine]
      BY <1>5 DEF After, DishKinds, CuisineKinds
    <2>2. (~s.cuisine) \in BOOLEAN
      OBVIOUS
    <2>3. QED
      BY <2>1, <2>2 DEF States
  <1>6. CASE to.kind = "cancel"
    <2>1. After(s, to) = [s EXCEPT !.sub = "canceled"]
      BY <1>6 DEF After, DishKinds, CuisineKinds
    <2>2. QED
      BY <2>1 DEF States, SubStates
  <1>7. CASE to.kind \in {"switch", "subscribe", "login"}
    BY <1>7 DEF After, DishKinds, CuisineKinds
  <1>8. CASE to.kind = "create"
    <2>1. After(s, to) = [s EXCEPT !.owned = s.owned + 1]
      BY <1>8 DEF After, DishKinds, CuisineKinds
    <2>2. s.owned + 1 \in 0..MaxOwned
      <3>1. s.owned < MaxOwned
        BY <1>8, SubjectOfKind
      <3>2. s.owned \in 0..MaxOwned
        BY StateIsTyped
      <3>3. QED
        BY <1>2, <3>1, <3>2
    <2>3. QED
      BY <2>1, <2>2 DEF States
  <1>9. CASE to.kind = "signup"
    <2>1. After(s, to) = [s EXCEPT !.account = TRUE, !.owned = 1]
      BY <1>9 DEF After, DishKinds, CuisineKinds
    <2>2. QED
      BY <1>2, <2>1 DEF States
  <1>10. QED
    BY <1>1, <1>3, <1>4, <1>5, <1>6, <1>7, <1>8, <1>9 DEF BillingKinds

\* What others do leaves it in a state too.
LEMMA OthersLeaveAState ==
    ASSUME srv \in States, Others
    PROVE srv' \in States
  <1>1. CASE Activated \/ SubMoves
    BY <1>1 DEF Activated, SubMoves, States, SubStates
  <1>2. ASSUME NEW d \in Dishes, Made(d)
        PROVE srv' \in States
    <2>1. PICK st \in {"pending", "making", "live"} : srv' = [srv EXCEPT !.dish[d].status = st]
      <3>1. srv.dish[d] \in DishStates
        BY <1>2, StateIsTyped DEF Made
      <3>2. srv.dish[d].status \in {"pending", "making", "live"}
        BY <3>1 DEF DishStates
      <3>3. QED
        BY <1>2, <3>2 DEF Made
    <2>2. PICK x : x = [srv.dish[d] EXCEPT !.status = st]
      OBVIOUS
    <2>3. x \in DishStates
      BY <1>2, <2>2, StateIsTyped DEF Made, DishStates
    <2>4. [srv.dish EXCEPT ![d] = x] \in [Dishes -> DishStates \cup {None}]
      BY <2>3, StateIsTyped
    <2>5. srv' = [srv EXCEPT !.dish = [srv.dish EXCEPT ![d] = x]]
      BY <2>1, <2>2
    <2>6. QED
      BY <2>4, <2>5 DEF States
  <1>3. ASSUME NEW to \in Clicks, Elsewhere(to)
        PROVE srv' \in States
    BY <1>3, AfterIsAState DEF Elsewhere
  <1>4. QED
    BY <1>1, <1>2, <1>3 DEF Others

\* The variables keep their types where an action changes them.
LEMMA ViewsKeepTypes ==
    ASSUME TypeOK,
           Refresh \/ Overview \/ \E n \in late : ShowOverview(n)
    PROVE TypeOK'
  <1>1. Fetched(page, srv) \in States
    BY LoadsAreStates DEF TypeOK
  <1>2. ASSUME NEW n \in late
        PROVE [Blank EXCEPT !.owned = n] \in States
    BY BlankIsAState DEF TypeOK, States
  <1>3. srv.owned \in 0..MaxOwned
    BY StateIsTyped DEF TypeOK
  <1>4. CASE Refresh
    BY <1>1, <1>4 DEF TypeOK, Refresh, form, bounds
  <1>5. CASE Overview
    BY <1>3, <1>5 DEF TypeOK, Overview, form, bounds
  <1>6. ASSUME NEW n \in late, ShowOverview(n)
        PROVE TypeOK'
    BY <1>2, <1>6 DEF TypeOK, ShowOverview, form, bounds
  <1>7. QED
    BY <1>4, <1>5, <1>6

\* Requests that are sent.
LEMMA SendsKeepTypes ==
    ASSUME TypeOK, NEW to \in Clicks,
           NEW seen \in States, Send(to, seen),
           UNCHANGED <<srv, page, view, loaded, late, feedback, promo, tour, changes>>,
           asking' \in {asking, None}
    PROVE TypeOK'
  <1>1. requests' \in [Requests -> Sent \cup {None}]
    BY SentRequest
  <1>2. clicks' \in 0..MaxClicks
    BY ConstantsAssumption DEF Send, TypeOK
  <1>3. busy' \in Dishes \cup {"page", "leaving", None}
    BY ClickIsTyped DEF Send, TypeOK
  <1>4. mixed' \in BOOLEAN
    BY DEF Send, TypeOK
  <1>5. QED
    BY <1>1, <1>2, <1>3, <1>4 DEF TypeOK

\* Questions and dialogs.
LEMMA DialogsKeepTypes ==
    ASSUME TypeOK,
           \/ \E to \in Clicks :
                 WarnInUse(to) \/ (Ask(to) /\ asking' \in Questions)
           \/ Dismiss \/ CloseFeedback
    PROVE TypeOK'
  <1>1. asking' \in Questions \cup {None} /\ feedback' \in BOOLEAN
    BY DEF TypeOK, WarnInUse, Ask, Dismiss, CloseFeedback
  <1>2. UNCHANGED <<srv, page, view, loaded, late, requests, busy, promo, mixed, bounds>>
    BY DEF WarnInUse, Ask, Dismiss, CloseFeedback
  <1>3. QED
    BY <1>1, <1>2 DEF TypeOK, bounds

\* The promo code.
LEMMA PromoKeepsTypes ==
    ASSUME TypeOK, ApplyCode \/ \E c \in Codes : TypeCode(c) \/ CodeAnswered(c)
    PROVE TypeOK' /\ UNCHANGED NoPromoChange
  <1>1. UNCHANGED NoPromoChange
    BY DEF TypeCode, CodeAnswered, ApplyCode
  <1> DEFINE Promos == [typed : Codes \cup {None}, preview : Codes \cup {None},
                        asked : SUBSET Codes]
  <1>2. promo \in Promos
    BY DEF TypeOK
  <1>3. promo.typed \in Codes \cup {None} /\ promo.asked \in SUBSET Codes
        /\ promo.preview \in Codes \cup {None}
    BY <1>2
  <1>4. ASSUME NEW c \in Codes, TypeCode(c)
        PROVE promo' \in Promos
    BY <1>2, <1>4 DEF TypeCode
  <1>5. ASSUME NEW c \in Codes, CodeAnswered(c)
        PROVE promo' \in Promos
    <2>1. PICK v \in Codes \cup {None}, a \in SUBSET Codes :
             promo' = [promo EXCEPT !.asked = a, !.preview = v]
      BY <1>3, <1>5 DEF CodeAnswered
    <2>2. QED
      BY <1>2, <2>1
  <1>6. ASSUME ApplyCode
        PROVE promo' \in Promos
    <2>1. PICK a \in SUBSET Codes : promo' = [promo EXCEPT !.preview = None, !.asked = a]
      BY <1>3, <1>6 DEF ApplyCode
    <2>2. QED
      BY <1>2, <2>1
  <1>7. promo' \in Promos
    BY <1>4, <1>5, <1>6
  <1>8. QED
    BY <1>1, <1>7 DEF TypeOK, NoPromoChange, bounds, Promos

\* Answers.
LEMMA AnswersKeepTypes ==
    ASSUME TypeOK,
           requests' \in [Requests -> Sent \cup {None}],
           NEW q \in Requests, Serve(q) \/ Fail(q) \/ Return(q)
    PROVE TypeOK'
  <1>1. ASSUME Pending(q)
        PROVE Accepts(srv, requests[q].to)
                 => After(srv, requests[q].to) \in States
    BY <1>1, RequestIsTyped, AfterIsAState DEF Pending, TypeOK
  <1>2. CASE Serve(q)
    <2>1. srv' \in States
      BY <1>1, <1>2 DEF Serve, TypeOK
    <2>2. QED
      BY <1>2, <2>1 DEF Serve, TypeOK, form, bounds
  <1>3. CASE Fail(q)
    <2>1. srv' \in States
      BY <1>1, <1>3 DEF Fail, TypeOK
    <2>2. changes' \in 0..MaxChanges
      BY <1>3, ConstantsAssumption DEF Fail, TypeOK
    <2>3. QED
      BY <1>3, <2>1, <2>2 DEF Fail, TypeOK, form
  <1>4. CASE Return(q)
    <2>1. feedback' \in BOOLEAN
      BY <1>4 DEF Return, Tells, TypeOK
    <2>2. QED
      BY <1>4, <2>1 DEF Return, Unmarked, HandsOver, TypeOK, bounds
  <1>5. QED
    BY <1>2, <1>3, <1>4

\* A page that is mounted, and what others do.
LEMMA MountKeepsTypes ==
    ASSUME TypeOK, NEW p \in Pages, Mount(p,
           Gone), srv' \in States,
           UNCHANGED bounds, requests' \in [Requests -> Sent \cup {None}]
    PROVE TypeOK'
  BY BlankIsAState DEF Mount, TypeOK, NoPromo, bounds

\* What something else changes on the server.
LEMMA OthersKeepTypes ==
    ASSUME TypeOK, Others
    PROVE TypeOK'
  <1>1. srv' \in States
    BY OthersLeaveAState DEF TypeOK
  <1>2. changes' \in 0..MaxChanges
    BY ConstantsAssumption DEF Others, TypeOK
  <1>3. QED
    BY <1>1, <1>2 DEF Others, TypeOK, form

-----------------------------------------------------------------------------
(* The theorems.                                                           *)

\* The invariant and its next value, in the two parts that are kept one by one.
LEMMA ButtonsSplit == IInv <=> TypeOK /\ ButtonsSafe
  BY DEF IInv, ButtonsSafe

\* The same of the next state.
LEMMA ButtonsSplitNext == IInv' <=> TypeOK' /\ ButtonsSafe'
  BY DEF IInv, ButtonsSafe

\* The first page has sent and asked nothing.
LEMMA ButtonsInit ==
    ASSUME Init
    PROVE IInv
  <1>1. TypeOK
    <2>1. srv \in States /\ page \in Pages /\ tour \in Tours
      BY ConstantsAssumption DEF Init
    <2>2. view \in States /\ loaded \in BOOLEAN /\ late \subseteq 0..MaxOwned
      BY BlankIsAState DEF Init
    <2>3. requests \in [Requests -> Sent \cup {None}]
      BY DEF Init
    <2>4. clicks \in 0..MaxClicks /\ changes \in 0..MaxChanges
      BY ConstantsAssumption DEF Init
    <2>5. NoPromo \in [typed : Codes \cup {None}, preview : Codes \cup {None},
                       asked : SUBSET Codes]
      BY DEF NoPromo
    <2>6. QED
      BY <2>1, <2>2, <2>3, <2>4, <2>5 DEF Init, TypeOK
  <1>2. \A q \in Requests : requests[q] = None
    BY DEF Init
  <1>3. Waiting = {} /\ OnDishes = {}
    BY <1>2 DEF Waiting, OnDishes
  <1>4. ButtonsSafe
    BY <1>2, <1>3
       DEF Init, ButtonsSafe, OfThePage, OneDishAtATime, Grounded,
           RefusedMeansStale,
                      MarkedForARequest, Back
  <1>5. QED
    BY <1>1, <1>4, ButtonsSplit

\* Every step keeps the invariant.
LEMMA ButtonsNext ==
    ASSUME IInv, [Next]_vars
    PROVE IInv'
  <1>1. TypeOK /\ ButtonsSafe
    BY ButtonsSplit
  <1>2. SUFFICES TypeOK' /\ ButtonsSafe'
    BY ButtonsSplitNext
  <1>3. ASSUME NEW p \in Pages, Mount(p, Gone), srv' \in States,
               UNCHANGED bounds
        PROVE TypeOK' /\ ButtonsSafe'
    BY <1>1, <1>3, MountKeeps, MountKeepsTypes
  <1>4. ASSUME NEW p \in Pages, Open(p)
        PROVE TypeOK' /\ ButtonsSafe'
    BY <1>1, <1>3, <1>4 DEF Open, TypeOK
  <1>5. CASE PayOrder
    <2>1. srv' \in States
      BY <1>1, <1>5 DEF PayOrder, TypeOK, States
    <2>2. "billing" \in Pages
      BY DEF Pages, KindsOf
    <2>3. QED
      BY <1>3, <1>5, <2>1, <2>2 DEF PayOrder
  <1>6. ASSUME NEW q \in Requests, Leave(q)
        PROVE TypeOK' /\ ButtonsSafe'
    <2>1. NextPage[requests[q].to.kind] \in Pages
      BY <1>6 DEF Leave, Leaving, NextPage, Pages, KindsOf
    <2>2. QED
      BY <1>1, <1>3, <1>6, <2>1 DEF Leave, TypeOK
  <1>7. CASE Refresh \/ Overview \/ \E n \in late : ShowOverview(n)
    <2>1. UNCHANGED <<page, requests, busy, mixed, asking>>
      BY <1>7 DEF Refresh, Overview, ShowOverview, form
    <2>2. QED
      BY <1>1, <1>7, <2>1, QuietKeeps, ViewsKeepTypes
  <1>8. ASSUME NEW to \in Clicks, Press(to)
        PROVE TypeOK' /\ ButtonsSafe'
    <2>1. Subject(view, to) \in States /\ asking' = asking /\ asking = None
      BY <1>1, <1>8, ClickIsTyped, LoadsAreStates
         DEF Press, NoDialog, form, TypeOK
    <2>2. to.kind \in KindsOf[page] /\ Free(to) /\ ~Asks(to.kind)
      BY <1>8 DEF Press, Offered
    <2>3. Sure(Subject(view, to), to)
      <3>1. to.kind # "dropCuisine" /\ Offered(to)
        BY <1>8, <2>2 DEF Press, Asks
      <3>2. QED
        BY <1>1, <3>1, OffersAreSure DEF TypeOK
    <2>4. to.kind \in DishKinds \ {"delete"} => busy # to.dish
      BY <2>2, KindsAreApart DEF Free
    <2>5. QED
      BY <1>1, <1>8, <2>1, <2>2, <2>3, <2>4, SendKeeps, SendsKeepTypes DEF Press, form
  <1>9. ASSUME NEW to \in Clicks, Ask(to)
        PROVE TypeOK' /\ ButtonsSafe'
    BY <1>1, <1>9, AskKeeps, DialogsKeepTypes
  <1>10. CASE Dismiss \/ CloseFeedback \/ \E to \in Clicks : WarnInUse(to)
    <2>1. UNCHANGED <<page, requests, busy, mixed>> /\ asking' \in {asking, None}
      BY <1>10 DEF Dismiss, CloseFeedback, WarnInUse
    <2>2. QED
      BY <1>1, <1>10, <2>1, QuietKeeps, DialogsKeepTypes
  <1>11. CASE Confirm
    <2>1. asking # None /\ asking' = None /\ Send(asking.to, asking.seen)
      BY <1>11 DEF Confirm
    <2>2. asking.to \in Clicks /\ asking.seen \in States
      BY <1>1, <2>1, RequestIsTyped
    <2>3. asking.to.kind \in KindsOf[page] /\ Sure(asking.seen, asking.to)
      BY <1>1, <2>1 DEF ButtonsSafe, OfThePage, Grounded
    <2>4. ~mixed /\ asking.to.kind \in DishKinds \ {"delete"} => busy # asking.to.dish
      BY <1>1, <2>1 DEF ButtonsSafe, OneDishAtATime
    <2>5. QED
      BY <1>1, <1>11, <2>1, <2>2, <2>3, <2>4, SendKeeps, SendsKeepTypes DEF Confirm
  <1>12. CASE ApplyCode \/ \E c \in Codes : TypeCode(c) \/ CodeAnswered(c)
    <2>1. TypeOK' /\ UNCHANGED NoPromoChange
      BY <1>1, <1>12, PromoKeepsTypes
    <2>2. QED
      BY <1>1, <2>1, QuietKeeps DEF NoPromoChange
  <1>13. ASSUME NEW q \in Requests, Serve(q) \/ Fail(q)
         PROVE TypeOK' /\ ButtonsSafe'
    <2>1. /\ Pending(q) /\ UNCHANGED <<page, busy, asking, mixed>>
          /\ \E pc \in {"ok", "refused", "failed"} :
                Answered(q, pc) /\ (pc = "refused" => ~Accepts(srv, requests[q].to))
      BY <1>13 DEF Serve, Fail, form
    <2>2. ButtonsSafe' /\ requests' \in [Requests -> Sent \cup {None}]
      BY <1>1, <2>1, AnsweredKeeps
    <2>3. QED
      BY <1>1, <1>13, <2>2, AnswersKeepTypes
  <1>14. ASSUME NEW q \in Requests, Return(q)
         PROVE TypeOK' /\ ButtonsSafe'
    BY <1>1, <1>14, ReturnKeeps, AnswersKeepTypes
  <1>15. CASE Others
    <2>1. UNCHANGED <<page, requests, busy, mixed, asking>>
      BY <1>15 DEF Others, form
    <2>2. QED
      BY <1>1, <1>15, <2>1, QuietKeeps, OthersKeepTypes
  <1>16. CASE UNCHANGED vars
    <2>1. UNCHANGED <<page, requests, busy, mixed, asking>>
      BY <1>16 DEF vars, form
    <2>2. TypeOK'
      BY <1>1, <1>16 DEF vars, form, bounds, TypeOK
    <2>3. QED
      BY <1>1, <2>1, <2>2, QuietKeeps
  <1>17. CASE Redirected
    <2>1. "gateway" \in Pages
      BY DEF Pages, KindsOf
    <2>2. QED
      BY <1>1, <1>3, <1>17, <2>1 DEF Redirected, TypeOK
  <1>18. QED
    BY <1>4, <1>5, <1>6, <1>7, <1>8, <1>9, <1>10, <1>11, <1>12, <1>13, <1>14, <1>15, <1>16,
       <1>17 DEF Next

\* The inductive invariant holds in every state of every tour of the pages.
THEOREM ButtonsInvariantStays == Spec => []IInv
  <1>1. Init => IInv
    BY ButtonsInit
  <1>2. IInv /\ [Next]_vars => IInv'
    BY ButtonsNext
  <1>3. QED
    BY <1>1, <1>2, PTL DEF Spec

\* The pages, their requests and dialogs keep their types.
THEOREM ButtonsStayTyped == Spec => []TypeOK
  <1>1. IInv => TypeOK
    BY DEF IInv
  <1>2. QED
    BY <1>1, ButtonsInvariantStays, PTL

\* The buttons offer what the server accepts: whatever pages are opened, what is
\* pressed and what others change meanwhile, a request is refused only because
\* what the page went by had changed, for a name or address the owner typed, or
\* for more photos than a dish with room for one has room for
\* (RestaurantDetailPage's disabled buttons against the handlers' checks).
THEOREM RefusalsStayStale == Spec => []RefusedMeansStale
  <1>1. IInv => RefusedMeansStale
    BY DEF IInv
  <1>2. QED
    BY <1>1, ButtonsInvariantStays, PTL

\* A page that is marked busy has a request of its own whose answer will take the
\* mark off, or has handed a checkout to the browser: no error and no change of
\* page leaves a mark behind (busyItemId, busy and creating).
THEOREM MarksStayAnswered == Spec => []MarkedForARequest
  <1>1. IInv => MarkedForARequest
    BY DEF IInv
  <1>2. QED
    BY <1>1, ButtonsInvariantStays, PTL

\* busyItemId keeps a dish's buttons from a second request, as long as the owner
\* works on one dish at a time.
THEOREM DishesStayMarked == Spec => []OneRequestPerDish
  <1>1. IInv => OneRequestPerDish
    <2>1. \A d \in Dishes : InFlight(d) \subseteq OnDishes
      BY DEF InFlight, OnDishes, Waiting
    <2>2. QED
      BY <2>1 DEF IInv, OneDishAtATime, OneRequestPerDish
  <1>2. QED
    BY <1>1, ButtonsInvariantStays, PTL
=============================================================================
