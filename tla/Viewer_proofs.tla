---------------------------- MODULE Viewer_proofs ----------------------------
(***************************************************************************)
(* Proofs about Viewer, for every choice of its constants.                 *)
(*                                                                         *)
(* A step is one of the restaurant's (WorldKeeps), one of a view that      *)
(* reads (ViewKeeps), or one of the four others: a page is opened or       *)
(* closed, a scan is recorded, time passes.                                *)
(***************************************************************************)
EXTENDS Viewer, FiniteSetTheorems, SequenceTheorems, TLAPS

-----------------------------------------------------------------------------
(* Types.                                                                  *)

\* The scans of a dish by a visitor are a sequence of times.
LEMMA ScansAreTyped ==
    ASSUME TypeOK, NEW d \in Dishes, NEW i \in Visitors
    PROVE /\ scans[d][i] \in Seq(0..MaxTime)
          /\ Len(scans[d][i]) \in Nat /\ DOMAIN scans[d][i] = 1..Len(scans[d][i])
          /\ \A k \in DOMAIN scans[d][i] : scans[d][i][k] \in 0..MaxTime
  <1>1. scans[d][i] \in Seq(0..MaxTime)
    BY DEF TypeOK
  <1>2. QED
    BY <1>1, ElementOfSeq, LenProperties

\* The fields of a view.
LEMMA ViewIsTyped ==
    ASSUME TypeOK, NEW v \in Views, views[v] # None
    PROVE /\ views[v] \in Requests
          /\ views[v].dish \in Dishes /\ views[v].visitor \in Visitors
          /\ views[v].token \in 0..MaxLinks /\ views[v].model \in BOOLEAN
  BY DEF TypeOK, Requests

\* The sets that ScansSound counts are finite.
LEMMA CountsAreFinite ==
    ASSUME TypeOK, NEW d \in Dishes, NEW i \in Visitors, NEW t
    PROVE /\ IsFiniteSet(ScansIn(d, i, t)) /\ Cardinality(ScansIn(d, i, t)) \in Nat
          /\ IsFiniteSet(Recording(d, i)) /\ Cardinality(Recording(d, i)) \in Nat
          /\ Cardinality(Recording(d, i)) =< Cardinality(Views)
          /\ Cardinality(Views) \in Nat
  <1>1. IsFiniteSet(DOMAIN scans[d][i])
    BY ScansAreTyped, FS_Interval
  <1>2. IsFiniteSet(ScansIn(d, i, t))
    BY <1>1, FS_Subset DEF ScansIn
  <1>3. Recording(d, i) \in SUBSET Views
    BY DEF Recording
  <1>4. IsFiniteSet(Recording(d, i)) /\ Cardinality(Recording(d, i)) =< Cardinality(Views)
    BY <1>3, FS_Subset, ViewsAssumption
  <1>5. QED
    BY <1>2, <1>4, FS_CardinalityType, ViewsAssumption

-----------------------------------------------------------------------------
(* Scans.                                                                  *)

\* The bound on the scans survives time and every step that records nothing and
\* makes no view ready to record one.
LEMMA ScansFrame ==
    ASSUME TypeOK, ScansSound, ScansAreBounded, scans' = scans, now \in Nat, now' \in Nat,
           now' >= now,
           \A d \in Dishes, i \in Visitors :
              Recording(d, i)' \in SUBSET Recording(d, i)
    PROVE ScansSound' /\ ScansAreBounded'
  <1>1. ASSUME NEW d \in Dishes, NEW i \in Visitors
        PROVE \A k \in DOMAIN scans'[d][i] : scans'[d][i][k] =< now'
    <2>1. \A k \in DOMAIN scans[d][i] : scans[d][i][k] =< now /\ scans[d][i][k] \in Nat
      BY ScansAreTyped, TimesAssumption DEF ScansSound
    <2>2. QED
      BY <2>1
  <1>2. ASSUME NEW d \in Dishes, NEW i \in Visitors, NEW t \in 0..MaxTime,
               ScansIn(d, i, t)' # {}, now' =< t + Window
        PROVE Cardinality(ScansIn(d, i, t))' + Cardinality(Recording(d, i))'
                 =< Cardinality(Views)
    <2>1. ScansIn(d, i, t)' = ScansIn(d, i, t)
      BY DEF ScansIn
    <2>2. now =< t + Window
      BY <1>2, TimesAssumption
    <2>3. Cardinality(ScansIn(d, i, t)) + Cardinality(Recording(d, i)) =< Cardinality(Views)
      BY <1>2, <2>1, <2>2 DEF ScansSound
    <2>4. /\ IsFiniteSet(Recording(d, i)')
          /\ Cardinality(Recording(d, i)') =< Cardinality(Recording(d, i))
      BY CountsAreFinite, FS_Subset
    <2>5. Cardinality(Recording(d, i)') \in Nat
      BY <2>4, FS_CardinalityType
    <2>6. QED
      BY <2>1, <2>3, <2>4, <2>5, CountsAreFinite
  <1>3. ScansSound'
    BY <1>1, <1>2 DEF ScansSound
  <1>4. ScansAreBounded'
    BY DEF ScansAreBounded
  <1>5. QED
    BY <1>3, <1>4

\* A view that finds no recent scan is in no window that lasts and holds one.
LEMMA NoneRecent ==
    ASSUME TypeOK, NEW v \in Views, At(v, "recent"), ~Recent(v), NEW t \in 0..MaxTime,
           now =< t + Window
    PROVE ScansIn(views[v].dish, views[v].visitor, t) = {}
  <1> DEFINE d == views[v].dish
             i == views[v].visitor
  <1>1. d \in Dishes /\ i \in Visitors
    BY ViewIsTyped DEF At
  <1>2. now \in Nat /\ Window \in Nat /\ t \in Nat
    BY TimesAssumption DEF TypeOK
  <1>3. SUFFICES ASSUME NEW k \in DOMAIN scans[d][i], scans[d][i][k] \in t..(t + Window)
                 PROVE FALSE
    BY DEF ScansIn
  <1>4. scans[d][i][k] >= now - Window
    BY <1>2, <1>3
  <1>5. QED
    BY <1>3, <1>4 DEF Recent, ScansOf

-----------------------------------------------------------------------------
(* Steps.                                                                  *)

\* A step of the restaurant and its dishes, seen by every view of them.
LEMMA WorldKeeps ==
    ASSUME IInv, Witness, UNCHANGED <<views, now, faults>>,
           restaurant' \in RestaurantRows \cup {None},
           dishes' \in [Dishes -> DishRows \cup {None}],
           restaurant' = None => \A d \in Dishes : dishes'[d] = None,
           \/ scans' = scans
           \/ scans' = [d \in Dishes |-> [i \in Visitors |-> <<>>]]
    PROVE IInv'
  <1> USE DEF IInv
  <1>1. TypeOK'
    <2>1. exposed' \subseteq {v \in Views : views[v] # None}
      BY DEF TypeOK, Witness
    <2>2. scans' \in [Dishes -> [Visitors -> Seq(0..MaxTime)]]
      <3>1. <<>> \in Seq(0..MaxTime)
        BY EmptySeq
      <3>2. CASE scans' = scans
        BY <3>2 DEF TypeOK
      <3>3. CASE scans' = [d \in Dishes |-> [i \in Visitors |-> <<>>]]
        BY <3>1, <3>3
      <3>4. QED
        BY <3>2, <3>3
    <2>3. QED
      BY <2>1, <2>2 DEF TypeOK
  <1>2. ViewsSound'
    BY DEF ViewsSound, Witness, Row
  <1>3. WithheldIsNotShown'
    BY <1>2 DEF ViewsSound, WithheldIsNotShown, At
  <1>4. ScansSound' /\ ScansAreBounded'
    <2>1. CASE scans' = scans
      <3>1. now \in Nat /\ now' = now
        BY TimesAssumption DEF TypeOK
      <3>2. \A d \in Dishes, i \in Visitors : Recording(d, i)' = Recording(d, i)
        BY DEF Recording, At
      <3>3. QED
        BY <2>1, <3>1, <3>2, ScansFrame
    <2>2. CASE scans' = [d \in Dishes |-> [i \in Visitors |-> <<>>]]
      <3>1. \A d \in Dishes, i \in Visitors : DOMAIN scans'[d][i] = {}
        BY <2>2, EmptySeq
      <3>2. \A d \in Dishes, i \in Visitors, t \in 0..MaxTime : ScansIn(d, i, t)' = {}
        BY <3>1 DEF ScansIn
      <3>3. ScansSound'
        BY <3>1, <3>2 DEF ScansSound
      <3>4. Cardinality(Views) \in Nat
        BY FS_CardinalityType, ViewsAssumption
      <3>5. \A d \in Dishes, i \in Visitors, t \in 0..MaxTime :
               Cardinality(ScansIn(d, i, t)') =< Cardinality(Views)
        <4>1. Cardinality({}) = 0
          BY FS_EmptySet
        <4>2. SUFFICES ASSUME NEW d \in Dishes, NEW i \in Visitors, NEW t \in 0..MaxTime
                       PROVE Cardinality(ScansIn(d, i, t)') =< Cardinality(Views)
          OBVIOUS
        <4>3. ScansIn(d, i, t)' = {}
          BY <3>2
        <4>4. QED
          BY <3>4, <4>1, <4>3
      <3>6. ScansAreBounded'
        BY <3>5 DEF ScansAreBounded, ScansIn
      <3>7. QED
        BY <3>3, <3>6
    <2>3. QED
      BY <2>1, <2>2
  <1>5. QED
    BY <1>1, <1>2, <1>3, <1>4

\* A step of one view that is open: it reads, and records nothing.
LEMMA ViewKeeps ==
    ASSUME IInv, NEW v \in Views, views[v] # None, NEW w \in Requests,
           views' = [views EXCEPT ![v] = w],
           w.dish = views[v].dish, w.visitor = views[v].visitor,
           w.model => views[v].model \/ ShowsModel(restaurant, Row(v)),
           w.pc = "record" => At(v, "recent") /\ ~Recent(v),
           UNCHANGED <<restaurant, dishes, scans, exposed, now>>,
           faults' \in 0..MaxFaults
    PROVE IInv'
  <1> USE DEF IInv
  <1>1. w # None
    BY NoneAssumption
  <1>2. views'[v] = w /\ \A u \in Views \ {v} : views'[u] = views[u]
    BY DEF TypeOK
  <1>3. TypeOK'
    BY <1>1, <1>2 DEF TypeOK
  <1>4. ViewsSound'
    BY <1>2 DEF ViewsSound, Row
  <1>5. WithheldIsNotShown'
    BY <1>4 DEF ViewsSound, WithheldIsNotShown, At
  <1>6. ScansSound' /\ ScansAreBounded'
    <2>1. CASE w.pc # "record"
      <3>1. \A d \in Dishes, i \in Visitors : Recording(d, i)' \in SUBSET Recording(d, i)
        BY <1>2, <2>1 DEF Recording, At
      <3>2. now \in Nat /\ now' = now
        BY TimesAssumption DEF TypeOK
      <3>3. QED
        BY <3>1, <3>2, ScansFrame
    <2>2. CASE w.pc = "record"
      <3>1. At(v, "recent") /\ ~Recent(v)
        BY <2>2
      <3>2. ASSUME NEW d \in Dishes, NEW i \in Visitors, NEW t \in 0..MaxTime,
                   ScansIn(d, i, t) # {}, now =< t + Window
            PROVE Recording(d, i)' = Recording(d, i)
        <4>1. d # views[v].dish \/ i # views[v].visitor
          BY <3>1, <3>2, NoneRecent
        <4>2. QED
          BY <1>2, <4>1 DEF Recording, At
      <3>3. \A d \in Dishes, i \in Visitors, t \in 0..MaxTime :
               ScansIn(d, i, t)' = ScansIn(d, i, t)
        BY DEF ScansIn
      <3>4. ScansSound'
        BY <3>2, <3>3 DEF ScansSound
      <3>5. ScansAreBounded'
        BY DEF ScansAreBounded
      <3>6. QED
        BY <3>4, <3>5
    <2>3. QED
      BY <2>1, <2>2
  <1>7. QED
    BY <1>3, <1>4, <1>5, <1>6

\* Opening a page.
LEMMA OpenKeeps ==
    ASSUME IInv, NEW v \in Views, NEW d \in Dishes, NEW i \in Visitors,
           NEW token \in 0..MaxLinks, OpenPage(v, d, i, token)
    PROVE IInv'
  <1> USE DEF IInv, OpenPage
  <1> DEFINE w == [pc |-> IF token = 0 THEN "public" ELSE "start", dish |-> d,
                   visitor |-> i, token |-> token, model |-> FALSE]
  <1>1. /\ w \in Requests /\ views' = [views EXCEPT ![v] = w] /\ ~w.model
        /\ w.dish = d /\ w.pc # "record"
    BY DEF Requests
  <1> HIDE DEF w
  <1>2. w # None
    BY <1>1, NoneAssumption
  <1>3. views'[v] = w /\ \A u \in Views \ {v} : views'[u] = views[u]
    BY <1>1 DEF TypeOK
  <1>4. TypeOK'
    <2>1. exposed' \subseteq {u \in Views : views'[u] # None}
      BY <1>2, <1>3 DEF TypeOK
    <2>2. views' \in [Views -> Requests \cup {None}]
      BY <1>1 DEF TypeOK
    <2>3. QED
      BY <2>1, <2>2 DEF TypeOK
  <1>5. ViewsSound'
    BY <1>1, <1>3 DEF ViewsSound, Row, ShowsModel
  <1>6. WithheldIsNotShown'
    BY <1>5 DEF ViewsSound, WithheldIsNotShown, At
  <1>7. \A e \in Dishes, j \in Visitors : Recording(e, j)' \in SUBSET Recording(e, j)
    BY <1>1, <1>3 DEF Recording, At
  <1>8. now \in Nat /\ now' = now
    BY TimesAssumption DEF TypeOK
  <1>9. QED
    BY <1>4, <1>5, <1>6, <1>7, <1>8, ScansFrame

\* Closing one.
LEMMA CloseKeeps ==
    ASSUME IInv, NEW v \in Views, Close(v)
    PROVE IInv'
  <1> USE DEF IInv, Close
  <1>1. views'[v] = None /\ \A u \in Views \ {v} : views'[u] = views[u]
    BY DEF TypeOK
  <1>2. TypeOK'
    BY <1>1 DEF TypeOK
  <1>3. ViewsSound'
    BY <1>1 DEF ViewsSound, Row
  <1>4. WithheldIsNotShown'
    BY <1>3 DEF ViewsSound, WithheldIsNotShown, At
  <1>5. \A e \in Dishes, j \in Visitors : Recording(e, j)' \in SUBSET Recording(e, j)
    BY <1>1 DEF Recording, At
  <1>6. now \in Nat /\ now' = now
    BY TimesAssumption DEF TypeOK
  <1>7. QED
    BY <1>2, <1>3, <1>4, <1>5, <1>6, ScansFrame

\* Recording a scan: it takes the place of the view that was to record it.
LEMMA RecordKeeps ==
    ASSUME IInv, NEW v \in Views, Record(v)
    PROVE IInv'
  <1> USE DEF IInv
  <1>0. SUFFICES ASSUME NEW d \in Dishes, NEW i \in Visitors,
                        d = views[v].dish, i = views[v].visitor
                 PROVE IInv'
    BY ViewIsTyped DEF Record, At
  <1> DEFINE w == [views[v] EXCEPT !.pc = "dish"]
  <1>1. /\ views[v] # None /\ views[v].pc = "record"
        /\ d = views[v].dish /\ i = views[v].visitor /\ views[v] \in Requests
    BY <1>0, ViewIsTyped DEF Record, At
  <1>2. /\ w \in Requests /\ w # None /\ views' = [views EXCEPT ![v] = w]
        /\ w.dish = d /\ w.visitor = i /\ w.model = views[v].model /\ w.pc = "dish"
    BY <1>1, NoneAssumption DEF Record, Step, Requests
  <1>3. CASE restaurant = None
    <2>1. UNCHANGED <<restaurant, dishes, scans, exposed, now>> /\ faults' \in 0..MaxFaults
      BY <1>3 DEF Record, TypeOK
    <2>2. QED
      BY <1>1, <1>2, <2>1, ViewKeeps
  <1>4. CASE restaurant # None
    <2> DEFINE old == scans[d][i]
               new == Append(old, now)
    <2>1. scans' = [scans EXCEPT ![d][i] = new] /\ UNCHANGED <<restaurant, dishes, exposed, now, faults>>
      BY <1>1, <1>4 DEF Record
    <2>2. now \in 0..MaxTime /\ now \in Nat /\ MaxTime \in Nat /\ Window \in Nat
      BY TimesAssumption DEF TypeOK
    <2>3. /\ new \in Seq(0..MaxTime) /\ DOMAIN old = 1..Len(old) /\ Len(old) \in Nat
          /\ DOMAIN new = 1..(Len(old) + 1) /\ new[Len(old) + 1] = now
          /\ \A k \in DOMAIN old : new[k] = old[k]
      <3>1. old \in Seq(0..MaxTime) /\ DOMAIN old = 1..Len(old) /\ Len(old) \in Nat
        BY <1>1, ScansAreTyped
      <3> HIDE DEF old
      <3>2. QED
        BY <2>2, <3>1, AppendProperties, LenProperties
    <2>4. /\ scans'[d][i] = new
          /\ \A e \in Dishes, j \in Visitors :
                e # d \/ j # i => scans'[e][j] = scans[e][j]
          /\ scans' \in [Dishes -> [Visitors -> Seq(0..MaxTime)]]
      BY <1>1, <2>1, <2>3 DEF TypeOK
    <2>5. views'[v] = w /\ \A u \in Views \ {v} : views'[u] = views[u]
      BY <1>2 DEF TypeOK
    <2>6. TypeOK'
      BY <1>1, <1>2, <2>1, <2>4, <2>5 DEF TypeOK
    <2>7. ViewsSound'
      BY <1>1, <1>2, <2>1, <2>5 DEF ViewsSound, Row
    <2>8. WithheldIsNotShown'
      BY <2>7 DEF ViewsSound, WithheldIsNotShown, At
    <2>9. ASSUME NEW t \in 0..MaxTime, t =< now, now =< t + Window
          PROVE Cardinality(ScansIn(d, i, t)') + Cardinality(Recording(d, i)')
                   =< Cardinality(Views)
      <3>1. ScansIn(d, i, t)' = ScansIn(d, i, t) \cup {Len(old) + 1}
        <4>1. \A k \in 1..(Len(old) + 1) : k \in 1..Len(old) \/ k = Len(old) + 1
          BY <2>3
        <4>2. now \in t..(t + Window) /\ Len(old) + 1 \in 1..(Len(old) + 1)
          BY <2>2, <2>3, <2>9
        <4>3. ScansIn(d, i, t)' = {k \in 1..(Len(old) + 1) : new[k] \in t..(t + Window)}
          BY <2>3, <2>4 DEF ScansIn
        <4>4. ScansIn(d, i, t) = {k \in 1..Len(old) : new[k] \in t..(t + Window)}
          BY <2>3 DEF ScansIn
        <4>5. 1..Len(old) \subseteq 1..(Len(old) + 1)
          BY <2>3
        <4> HIDE DEF old, new
        <4>6. QED
          BY <2>3, <4>1, <4>2, <4>3, <4>4, <4>5
      <3>2. Len(old) + 1 \notin ScansIn(d, i, t)
        BY <2>3 DEF ScansIn
      <3>3. Cardinality(ScansIn(d, i, t)') = Cardinality(ScansIn(d, i, t)) + 1
        <4>1. IsFiniteSet(ScansIn(d, i, t))
          BY CountsAreFinite
        <4> HIDE DEF old
        <4>2. QED
          BY <3>1, <3>2, <4>1, FS_AddElement
      <3>4. Recording(d, i)' = Recording(d, i) \ {v} /\ v \in Recording(d, i)
        <4>1. v \in Recording(d, i)
          BY <1>1 DEF Recording, At
        <4>2. \A u \in Views \ {v} : u \in Recording(d, i)' <=> u \in Recording(d, i)
          BY <2>5 DEF Recording, At
        <4>3. v \notin Recording(d, i)'
          BY <1>2, <2>5 DEF Recording, At
        <4>4. Recording(d, i)' \subseteq Views /\ Recording(d, i) \subseteq Views
          BY DEF Recording
        <4>5. QED
          BY <4>1, <4>2, <4>3, <4>4
      <3>5. Cardinality(Recording(d, i)') = Cardinality(Recording(d, i)) - 1
        <4>1. IsFiniteSet(Recording(d, i))
          BY CountsAreFinite
        <4>2. QED
          BY <3>4, <4>1, FS_RemoveElement
      <3>6. CASE ScansIn(d, i, t) = {}
        BY <1>1, <3>3, <3>5, <3>6, CountsAreFinite, FS_EmptySet
      <3>7. CASE ScansIn(d, i, t) # {}
        <4>1. Cardinality(ScansIn(d, i, t)) + Cardinality(Recording(d, i)) =< Cardinality(Views)
          BY <1>1, <2>9, <3>7 DEF ScansSound
        <4>2. QED
          BY <1>1, <3>3, <3>5, <4>1, CountsAreFinite
      <3>8. QED
        BY <3>6, <3>7
    <2>10. ASSUME NEW e \in Dishes, NEW j \in Visitors, NEW t \in 0..MaxTime
           PROVE /\ Cardinality(ScansIn(e, j, t)') =< Cardinality(Views)
                 /\ ScansIn(e, j, t)' # {} /\ now =< t + Window =>
                       Cardinality(ScansIn(e, j, t)') + Cardinality(Recording(e, j)')
                          =< Cardinality(Views)
      <3>1. /\ IsFiniteSet(Recording(e, j)') /\ Cardinality(Recording(e, j)') \in Nat
            /\ Cardinality(Recording(e, j)') =< Cardinality(Recording(e, j))
        <4>1. Recording(e, j)' \subseteq Recording(e, j)
          BY <1>2, <2>5 DEF Recording, At
        <4>2. QED
          BY <4>1, CountsAreFinite, FS_Subset, FS_CardinalityType
      <3>2. CASE e = d /\ j = i /\ t =< now /\ now =< t + Window
        <4>1. Cardinality(ScansIn(e, j, t)') + Cardinality(Recording(e, j)') =< Cardinality(Views)
          BY <2>9, <3>2
        <4>2. IsFiniteSet(ScansIn(e, j, t)')
          <5>1. IsFiniteSet(1..(Len(old) + 1))
            <6>1. Len(old) + 1 \in Int
              BY <2>3
            <6> HIDE DEF old
            <6>2. QED
              BY <6>1, FS_Interval
          <5>2. QED
            BY <2>3, <2>4, <3>2, <5>1, FS_Subset DEF ScansIn
        <4>3. QED
          BY <3>1, <4>1, <4>2, FS_CardinalityType, CountsAreFinite
      <3>3. CASE ~(e = d /\ j = i /\ t =< now /\ now =< t + Window)
        <4>1. ScansIn(e, j, t)' = ScansIn(e, j, t)
          <5>1. CASE e = d /\ j = i
            <6>1. ~(now \in t..(t + Window))
              BY <2>2, <3>3, <5>1
            <6>2. \A k \in 1..(Len(old) + 1) : k \in 1..Len(old) \/ k = Len(old) + 1
              BY <2>3
            <6>3. /\ ScansIn(e, j, t)' = {k \in 1..(Len(old) + 1) : new[k] \in t..(t + Window)}
                  /\ ScansIn(e, j, t) = {k \in 1..Len(old) : new[k] \in t..(t + Window)}
                  /\ 1..Len(old) \subseteq 1..(Len(old) + 1)
              BY <2>3, <2>4, <5>1 DEF ScansIn
            <6> HIDE DEF old, new
            <6>4. QED
              BY <2>3, <6>1, <6>2, <6>3
          <5>2. CASE ~(e = d /\ j = i)
            BY <2>4, <5>2 DEF ScansIn
          <5>3. QED
            BY <5>1, <5>2
        <4>2. Cardinality(ScansIn(e, j, t)) =< Cardinality(Views)
          BY DEF ScansAreBounded, ScansIn
        <4>3. ScansIn(e, j, t) # {} /\ now =< t + Window =>
                 Cardinality(ScansIn(e, j, t)) + Cardinality(Recording(e, j)) =< Cardinality(Views)
          BY DEF ScansSound
        <4>4. QED
          BY <3>1, <4>1, <4>2, <4>3, CountsAreFinite
      <3>4. QED
        BY <3>2, <3>3
    <2>11. \A e \in Dishes, j \in Visitors : \A k \in DOMAIN scans'[e][j] : scans'[e][j][k] =< now
      <3>1. \A k \in 1..(Len(old) + 1) : k \in 1..Len(old) \/ k = Len(old) + 1
        BY <2>3
      <3>2. \A k \in DOMAIN new : new[k] =< now
        BY <1>1, <2>2, <2>3, <3>1 DEF ScansSound
      <3>3. SUFFICES ASSUME NEW e \in Dishes, NEW j \in Visitors
                     PROVE \A k \in DOMAIN scans'[e][j] : scans'[e][j][k] =< now
        OBVIOUS
      <3>4. CASE e = d /\ j = i
        BY <2>4, <3>2, <3>4
      <3>5. CASE ~(e = d /\ j = i)
        <4>1. scans'[e][j] = scans[e][j]
          BY <2>4, <3>5
        <4>2. QED
          BY <4>1 DEF ScansSound
      <3>6. QED
        BY <3>4, <3>5
    <2>12. ScansSound'
      BY <2>1, <2>10, <2>11 DEF ScansSound
    <2>13. ScansAreBounded'
      BY <2>10 DEF ScansAreBounded, ScansIn
    <2>14. QED
      BY <2>6, <2>7, <2>8, <2>12, <2>13
  <1>5. QED
    BY <1>3, <1>4

\* Time passes: windows end, and none comes back.
LEMMA TickKeeps ==
    ASSUME IInv, Tick
    PROVE IInv'
  <1> USE DEF IInv, Tick
  <1>1. now \in Nat /\ now' \in 0..MaxTime /\ now' \in Nat /\ now' >= now
    BY TimesAssumption DEF TypeOK
  <1>2. TypeOK'
    BY <1>1 DEF TypeOK
  <1>3. ViewsSound' /\ WithheldIsNotShown'
    BY DEF ViewsSound, WithheldIsNotShown, Row, At
  <1>4. \A d \in Dishes, i \in Visitors : Recording(d, i)' = Recording(d, i)
    BY DEF Recording, At
  <1>5. QED
    BY <1>1, <1>2, <1>3, <1>4, ScansFrame

\* Every step keeps the invariant.
LEMMA StepKeeps == IInv /\ [Next]_vars => IInv'
  <1> SUFFICES ASSUME IInv, [Next]_vars PROVE IInv'
    OBVIOUS
  <1>1. TypeOK
    BY DEF IInv
  <1>2. CASE Bill
    <2>1. restaurant' \in RestaurantRows \cup {None} /\ restaurant' # None
      BY <1>1, <1>2, NoneAssumption DEF Bill, TypeOK, RestaurantRows
    <2>2. QED
      BY <1>1, <1>2, <2>1, WorldKeeps DEF Bill, Moved, TypeOK
  <1>3. CASE RemoveRestaurant
    <2>1. dishes' \in [Dishes -> DishRows \cup {None}] /\ \A d \in Dishes : dishes'[d] = None
      BY <1>3 DEF RemoveRestaurant, Cascade
    <2>2. QED
      BY <1>3, <2>1, WorldKeeps DEF RemoveRestaurant
  <1>4. CASE Tick
    BY <1>4, TickKeeps
  <1>5. ASSUME NEW to \in BOOLEAN, Suspend(to)
        PROVE IInv'
    <2>1. restaurant' \in RestaurantRows \cup {None} /\ restaurant' # None
      BY <1>1, <1>5, NoneAssumption DEF Suspend, TypeOK, RestaurantRows
    <2>2. QED
      BY <1>1, <1>5, <2>1, WorldKeeps DEF Suspend, Moved, TypeOK
  <1>6. ASSUME NEW d \in Dishes, NEW row \in DishRows \cup {None},
               dishes' = [dishes EXCEPT ![d] = row], dishes[d] # None, restaurant' = restaurant, Moved
        PROVE IInv'
    <2>1. dishes' \in [Dishes -> DishRows \cup {None}]
      BY <1>1, <1>6 DEF TypeOK
    <2>2. restaurant # None
      BY <1>1, <1>6 DEF TypeOK
    <2>3. QED
      BY <1>1, <1>6, <2>1, <2>2, WorldKeeps DEF Moved, TypeOK
  <1>7. ASSUME NEW d \in Dishes, dishes[d] # None
        PROVE /\ dishes[d] \in DishRows
              /\ \A to \in BOOLEAN : [dishes[d] EXCEPT !.hidden = to] \in DishRows
              /\ \A status \in {"pending", "qa", "live"} :
                    [dishes[d] EXCEPT !.status = status] \in DishRows
              /\ dishes[d].link < MaxLinks =>
                    [dishes[d] EXCEPT !.link = @ + 1, !.until = now + LinkTime] \in DishRows
    <2>1. dishes[d] \in DishRows
      BY <1>1, <1>7 DEF TypeOK
    <2>2. now \in Nat /\ now + LinkTime \in Nat
      BY <1>1, TimesAssumption DEF TypeOK
    <2>3. dishes[d].link < MaxLinks => dishes[d].link + 1 \in 0..MaxLinks
      BY <2>1, TimesAssumption DEF DishRows
    <2>4. QED
      BY <2>1, <2>2, <2>3 DEF DishRows
  <1>8. ASSUME NEW d \in Dishes, NEW to \in BOOLEAN, Hide(d, to)
        PROVE IInv'
    <2>1. dishes' = [dishes EXCEPT ![d] = [dishes[d] EXCEPT !.hidden = to]]
      BY <1>1, <1>8 DEF Hide, TypeOK
    <2>2. QED
      BY <1>6, <1>7, <1>8, <2>1 DEF Hide
  <1>9. ASSUME NEW d \in Dishes, CreateLink(d)
        PROVE IInv'
    <2>1. dishes' = [dishes EXCEPT ![d] =
                       [dishes[d] EXCEPT !.link = @ + 1, !.until = now + LinkTime]]
      BY <1>1, <1>9 DEF CreateLink, TypeOK
    <2>2. QED
      BY <1>6, <1>7, <1>9, <2>1 DEF CreateLink
  <1>10. ASSUME NEW d \in Dishes, NEW status \in {"pending", "qa", "live"}, Produce(d, status)
         PROVE IInv'
    <2>1. dishes' = [dishes EXCEPT ![d] = [dishes[d] EXCEPT !.status = status]]
      BY <1>1, <1>10 DEF Produce, TypeOK
    <2>2. QED
      BY <1>6, <1>7, <1>10, <2>1 DEF Produce
  <1>11. ASSUME NEW d \in Dishes, RemoveDish(d)
         PROVE IInv'
    BY <1>6, <1>11 DEF RemoveDish
  <1>12. ASSUME NEW v \in Views, Preview(v)
         PROVE IInv'
    <2>1. PICK pc \in {"preview", "public"} : Step(v, pc)
      BY <1>12 DEF Preview
    <2> DEFINE w == [views[v] EXCEPT !.pc = pc]
    <2>2. views[v] # None /\ views[v] \in Requests
      BY <1>1, <1>12, ViewIsTyped DEF Preview, At
    <2>3. /\ w \in Requests /\ views' = [views EXCEPT ![v] = w] /\ w.pc # "record"
          /\ w.dish = views[v].dish /\ w.visitor = views[v].visitor /\ w.model = views[v].model
      BY <2>1, <2>2 DEF Step, Requests
    <2>4. QED
      BY <1>1, <1>12, <2>2, <2>3, ViewKeeps DEF Preview, TypeOK
  <1>13. ASSUME NEW v \in Views, FindItem(v)
         PROVE IInv'
    <2>1. views[v] # None /\ views[v] \in Requests /\ Row(v) \in DishRows \cup {None}
      BY <1>1, <1>13, ViewIsTyped DEF FindItem, At, Row, TypeOK
    <2>2. CASE \E pc \in {"missing", "expired"} : Step(v, pc)
      <3>1. PICK pc \in {"missing", "expired"} : Step(v, pc)
        BY <2>2
      <3> DEFINE w == [views[v] EXCEPT !.pc = pc]
      <3>2. /\ w \in Requests /\ views' = [views EXCEPT ![v] = w] /\ w.pc # "record"
            /\ w.dish = views[v].dish /\ w.visitor = views[v].visitor /\ w.model = views[v].model
        BY <2>1, <3>1 DEF Step, Requests
      <3>3. QED
        BY <1>1, <1>13, <2>1, <3>2, ViewKeeps DEF FindItem, TypeOK
    <2>3. CASE ~ \E pc \in {"missing", "expired"} : Step(v, pc)
      <3> DEFINE w == [views[v] EXCEPT !.pc = "recent", !.model = Row(v).status = "live"]
      <3>1. /\ Visible(restaurant, Row(v)) /\ ~restaurant.expired
            /\ views' = [views EXCEPT ![v].pc = "recent", ![v].model = Row(v).status = "live"]
        BY <1>13, <2>3 DEF FindItem
      <3>2. views' = [views EXCEPT ![v] = w]
        BY <1>1, <3>1 DEF TypeOK
      <3>3. /\ w \in Requests /\ w.pc # "record"
            /\ w.dish = views[v].dish /\ w.visitor = views[v].visitor
            /\ w.model => ShowsModel(restaurant, Row(v))
        BY <2>1, <3>1 DEF Requests, ShowsModel
      <3>4. QED
        BY <1>1, <1>13, <2>1, <3>2, <3>3, ViewKeeps DEF FindItem, TypeOK
    <2>4. QED
      BY <2>2, <2>3
  <1>14. ASSUME NEW v \in Views, FindRecent(v)
         PROVE IInv'
    <2> DEFINE w == [views[v] EXCEPT !.pc = IF Recent(v) THEN "dish" ELSE "record"]
    <2>1. views[v] # None /\ views[v] \in Requests
      BY <1>1, <1>14, ViewIsTyped DEF FindRecent, At
    <2>2. /\ w \in Requests /\ views' = [views EXCEPT ![v] = w]
          /\ w.pc = "record" => At(v, "recent") /\ ~Recent(v)
          /\ w.dish = views[v].dish /\ w.visitor = views[v].visitor /\ w.model = views[v].model
      BY <1>14, <2>1 DEF FindRecent, Step, Requests
    <2> HIDE DEF w
    <2>3. QED
      BY <1>1, <1>14, <2>1, <2>2, ViewKeeps DEF FindRecent, TypeOK
  <1>15. ASSUME NEW v \in Views, AnalyticsFail(v)
         PROVE IInv'
    <2> DEFINE w == [views[v] EXCEPT !.pc = "dish"]
    <2>1. views[v] # None /\ views[v] \in Requests
      BY <1>1, <1>15, ViewIsTyped DEF AnalyticsFail, At
    <2>2. /\ w \in Requests /\ views' = [views EXCEPT ![v] = w] /\ w.pc # "record"
          /\ w.dish = views[v].dish /\ w.visitor = views[v].visitor /\ w.model = views[v].model
      BY <1>15, <2>1 DEF AnalyticsFail, Step, Requests
    <2>3. faults' \in 0..MaxFaults
      BY <1>1, <1>15, TimesAssumption DEF AnalyticsFail, TypeOK
    <2> HIDE DEF w
    <2>4. QED
      BY <1>1, <1>15, <2>1, <2>2, <2>3, ViewKeeps DEF AnalyticsFail
  <1>16. CASE UNCHANGED vars
    <2>1. TypeOK'
      BY <1>1, <1>16 DEF vars, TypeOK
    <2>2. ViewsSound' /\ WithheldIsNotShown'
      BY <1>16 DEF vars, IInv, ViewsSound, WithheldIsNotShown, Row, At
    <2>3. /\ scans' = scans /\ now \in Nat /\ now' = now
          /\ \A d \in Dishes, i \in Visitors : Recording(d, i)' = Recording(d, i)
      BY <1>1, <1>16, TimesAssumption DEF vars, TypeOK, Recording, At
    <2>4. ScansSound' /\ ScansAreBounded'
      BY <2>3, ScansFrame DEF IInv
    <2>5. QED
      BY <2>1, <2>2, <2>4 DEF IInv
  <1>17. QED
    BY <1>2, <1>3, <1>4, <1>5, <1>8, <1>9, <1>10, <1>11, <1>12, <1>13, <1>14, <1>15, <1>16,
       OpenKeeps, CloseKeeps, RecordKeeps DEF Next

-----------------------------------------------------------------------------
(* Theorems.                                                               *)

\* The inductive invariant holds in every reachable state.
THEOREM InvariantStays == Spec => []IInv
  <1>1. Init => IInv
    <2> SUFFICES ASSUME Init PROVE IInv
      OBVIOUS
    <2>1. TypeOK
      <3>1. <<>> \in Seq(0..MaxTime)
        BY EmptySeq
      <3>2. scans \in [Dishes -> [Visitors -> Seq(0..MaxTime)]]
        BY <3>1 DEF Init
      <3>3. restaurant \in RestaurantRows /\ restaurant # None
        <4>1. restaurant \in RestaurantRows
          BY DEF Init, RestaurantRows
        <4>2. QED
          BY <4>1, NoneAssumption
      <3>4. dishes \in [Dishes -> DishRows \cup {None}]
        BY TimesAssumption DEF Init, DishRows
      <3>5. QED
        BY <3>2, <3>3, <3>4, TimesAssumption DEF Init, TypeOK
    <2>2. \A d \in Dishes, i \in Visitors, t \in 0..MaxTime : ScansIn(d, i, t) = {}
      <3>1. \A d \in Dishes, i \in Visitors : DOMAIN scans[d][i] = {}
        BY EmptySeq DEF Init
      <3>2. QED
        BY <3>1 DEF ScansIn
    <2>3. ViewsSound /\ WithheldIsNotShown
      BY DEF Init, ViewsSound, WithheldIsNotShown, At
    <2>4. ScansSound
      BY <2>2 DEF Init, ScansSound
    <2>5. ScansAreBounded
      <3>1. Cardinality({}) = 0 /\ Cardinality(Views) \in Nat
        BY FS_EmptySet, FS_CardinalityType, ViewsAssumption
      <3>2. QED
        BY <2>2, <3>1 DEF ScansAreBounded, ScansIn
    <2>6. QED
      BY <2>1, <2>3, <2>4, <2>5 DEF IInv
  <1>2. QED
    BY <1>1, StepKeeps, PTL DEF Spec

\* Every variable keeps its type.
THEOREM TypeStays == Spec => []TypeOK
  <1>1. IInv => TypeOK
    BY DEF IInv
  <1>2. QED
    BY <1>1, InvariantStays, PTL

\* A diner is shown a model only of a dish that was open to diners at some
\* moment of the visit, however the page's reads interleave with what the
\* operator, the owner and billing do.
THEOREM WithheldStaysHidden == Spec => []WithheldIsNotShown
  <1>1. IInv => WithheldIsNotShown
    BY DEF IInv
  <1>2. QED
    BY <1>1, InvariantStays, PTL

\* A window never holds more scans of a visitor than there are page requests
\* at a time.
THEOREM ScansStayBounded == Spec => []ScansAreBounded
  <1>1. IInv => ScansAreBounded
    BY DEF IInv
  <1>2. QED
    BY <1>1, InvariantStays, PTL
=============================================================================
