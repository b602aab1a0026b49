---------------------------- MODULE Billing_proofs ----------------------------
(***************************************************************************)
(* Proofs about Billing, for every choice of its constants.                *)
(*                                                                         *)
(* Facts about rows, gateway sessions, events and handlers survive a step  *)
(* because what they speak of only grows (Grows): rows are never removed   *)
(* or given to another restaurant, a session that was paid stays out of    *)
(* open and failed, and a first failure stays the first.  KeptByGrowth     *)
(* turns this into the inductive step; what is left for each action is the *)
(* one row, session or handler it writes.                                  *)
(***************************************************************************)
EXTENDS Billing, FiniteSetTheorems, SequenceTheorems, WellFoundedInduction, TLAPS

-----------------------------------------------------------------------------
(* What only grows.                                                        *)

Grows ==
    /\ Len(sub) <= Len(sub')
    /\ \A id \in 1..Len(sub) : sub'[id].restaurant = sub[id].restaurant
    /\ \A ref \in Refs : gw[ref] # None =>
          /\ gw'[ref] # None
          /\ gw'[ref].restaurant = gw[ref].restaurant
          /\ gw[ref].state \notin {"open", "failed"} =>
                gw'[ref].state \notin {"open", "failed"}
    /\ \A r \in Restaurants : HasFailed(r) => firstFailure'[r] = firstFailure[r]
    /\ now <= now'

\* A subscription row's parts have their types.
LEMMA RowsAreTyped ==
    ASSUME TypeOK
    PROVE /\ Len(sub) \in Nat
          /\ \A id \in 1..Len(sub) :
                /\ sub[id] \in Subscriptions
                /\ sub[id].restaurant \in Restaurants
                /\ sub[id].pkg \in Packages
                /\ sub[id].ref \in Refs
                /\ sub[id].graceUntil \in Nat \cup {None}
  <1>1. Len(sub) \in Nat /\ \A id \in 1..Len(sub) : sub[id] \in Subscriptions
    BY ElementOfSeq, LenProperties DEF TypeOK
  <1>2. QED
    BY <1>1 DEF Subscriptions

\* A gateway reference that was checked out holds a session.
LEMMA SessionsAreTyped ==
    ASSUME TypeOK, NEW ref \in Refs, gw[ref] # None
    PROVE /\ gw[ref] \in Sessions
          /\ gw[ref].restaurant \in Restaurants
          /\ gw[ref].pkg \in Packages
  BY DEF TypeOK, Sessions

\* An elapsed failure stays elapsed.
LEMMA FailureKept ==
    ASSUME TypeOK, TypeOK', Grows, NEW r \in Restaurants,
           NEW s \in Nat, NEW t \in Nat, s <= t, FailedBefore(r, s)
    PROVE FailedBefore(r, t)'
  <1>1. firstFailure'[r] = firstFailure[r] /\ firstFailure[r] # None
    BY DEF Grows, HasFailed, FailedBefore
  <1>2. firstFailure[r] \in Nat
    BY <1>1 DEF TypeOK
  <1>3. QED
    BY <1>1, <1>2, NumbersAssumption DEF FailedBefore

\* The reference of a sound event stays sound.
LEMMA EventKept ==
    ASSUME TypeOK, TypeOK', Grows, NEW e \in Events, EventSound(e)
    PROVE EventSound(e)'
  <1>1. e.ref \in Refs
    BY RefsAssumption DEF Events, ChargeEvents, SubscriptionEvents
  <1>2. gw[e.ref].restaurant \in Restaurants
    BY <1>1, SessionsAreTyped DEF EventSound
  <1>3. QED
    BY <1>1, <1>2 DEF EventSound, Grows, HasFailed, TypeOK

\* What is known of a row stays so.
LEMMA RowKept ==
    ASSUME TypeOK, TypeOK', Grows, NEW row \in Subscriptions, RowSound(row)
    PROVE RowSound(row)'
  <1>1. row.restaurant \in Restaurants /\ row.ref \in Refs /\ row.graceUntil \in Nat \cup {None}
    BY DEF Subscriptions
  <1>2. Backed(row.restaurant, row.ref)'
    BY <1>1 DEF RowSound, Backed, Grows
  <1>3. row.graceUntil # None => FailedBefore(row.restaurant, row.graceUntil + 1)'
    BY <1>1, FailureKept DEF RowSound
  <1>4. QED
    BY <1>2, <1>3 DEF RowSound

\* What is known of a gateway session stays so.
LEMMA SessionKept ==
    ASSUME TypeOK, TypeOK', Grows, NEW s \in Sessions, SessionSound(s)
    PROVE SessionSound(s)'
  <1>1. s.restaurant \in Restaurants
    BY DEF Sessions
  <1>2. QED
    BY <1>1 DEF SessionSound, HasFailed, Grows, TypeOK

\* What a half-done handler relies on stays so.
LEMMA HandlerKept ==
    ASSUME TypeOK, TypeOK', Grows, NEW w \in Work, HandlerSound(w)
    PROVE HandlerSound(w)'
  <1>1. /\ w.event \in Events \cup {None} /\ w.id \in Nat /\ w.ref \in Refs \cup {None}
        /\ w.grace \in Nat \cup {None}
    BY DEF Work
  <1>2. \A id \in 1..Len(sub) : id \in 1..Len(sub') /\ sub'[id].restaurant = sub[id].restaurant
    BY RowsAreTyped, LenProperties DEF TypeOK, Grows
  <1>3. w.event # None /\ EventSound(w.event) => EventSound(w.event)'
    BY <1>1, EventKept
  <1>4. w.event # None /\ EventSound(w.event) =>
            gw'[w.event.ref].restaurant = gw[w.event.ref].restaurant
    BY <1>1, RefsAssumption DEF EventSound, Grows, Events, ChargeEvents, SubscriptionEvents
  <1>5. ASSUME w.pc = "pastDue" PROVE FailedBefore(sub[w.id].restaurant, w.grace + 1)'
    <2>1. w.id \in 1..Len(sub) /\ w.grace \in Nat /\ FailedBefore(sub[w.id].restaurant, w.grace + 1)
      BY <1>1, <1>5 DEF HandlerSound
    <2>2. PICK r \in Restaurants : sub[w.id].restaurant = r /\ sub'[w.id].restaurant = r
      BY <1>2, <2>1, RowsAreTyped
    <2>3. FailedBefore(r, w.grace + 1)'
      BY <2>1, <2>2, FailureKept
    <2>4. QED
      BY <2>2, <2>3 DEF FailedBefore
  <1>6. w.pc = "markPastDue" =>
          /\ w.ref # None /\ gw'[w.ref] # None
          /\ gw'[w.ref].restaurant = gw'[w.event.ref].restaurant
    BY <1>1, <1>4 DEF HandlerSound, Grows
  <1>7. QED
    BY <1>1, <1>2, <1>3, <1>4, <1>5, <1>6 DEF HandlerSound

\* What a step may add to the invariant: a row, session, event, handler,
\* charge or swept row is either as it was, or sound in the next state.
NewRowSound(id) ==
    /\ RowSound(sub[id])
    /\ sub[id].status = "expired" => FailedBefore(sub[id].restaurant, now)

ChargeBacked(c) == gw[c.ref] # None /\ gw[c.ref].restaurant = c.restaurant

StepIsSound ==
    /\ \A r \in Restaurants : (HasFailed(r) => firstFailure[r] <= now)'
    /\ \A ref \in Refs : gw'[ref] = gw[ref] \/ SessionSound(gw[ref])'
    /\ \A e \in net' : e \in net \/ EventSound(e)'
    /\ \A id \in 1..Len(sub') :
          (id \in 1..Len(sub) /\ sub'[id] = sub[id]) \/ NewRowSound(id)'
    /\ \A h \in Handlers : handlers'[h] = handlers[h] \/ HandlerSound(handlers[h])'
    /\ \A id \in sweep' : id \in sweep \/ FailedBefore(sub[id].restaurant, now)'
    /\ \A c \in charges' : c \in charges \/ ChargeBacked(c)'

\* Growth and the soundness of what is new make the invariant inductive.
LEMMA KeptByGrowth ==
    ASSUME IInv, TypeOK', Grows, StepIsSound
    PROVE IInv'
  <1> USE DEF StepIsSound
  <1>0. TypeOK /\ Len(sub) \in Nat /\ Len(sub') \in Nat
    BY LenProperties DEF IInv, TypeOK
  <1>1. \A ref \in Refs : (gw[ref] # None => SessionSound(gw[ref]))'
    <2> SUFFICES ASSUME NEW ref \in Refs, gw'[ref] # None, gw'[ref] = gw[ref]
                 PROVE SessionSound(gw[ref])'
      OBVIOUS
    <2>1. PICK s \in Sessions : gw[ref] = s
      BY <1>0, SessionsAreTyped
    <2>2. SessionSound(s)
      BY <2>1 DEF IInv
    <2>3. SessionSound(s)'
      BY <1>0, <2>2, SessionKept
    <2>4. QED
      BY <2>1, <2>3 DEF SessionSound
  <1>2. \A e \in net' : EventSound(e)'
    <2> SUFFICES ASSUME NEW e \in net' PROVE EventSound(e)'
      OBVIOUS
    <2>1. CASE e \in net
      <3>1. PICK f \in Events : f = e /\ EventSound(f)
        BY <2>1 DEF IInv, TypeOK
      <3>2. EventSound(f)'
        BY <1>0, <3>1, EventKept
      <3>3. QED
        BY <3>1, <3>2
    <2>2. QED
      BY <2>1
  <1>3. \A id \in 1..Len(sub') : NewRowSound(id)'
    <2> SUFFICES ASSUME NEW id \in 1..Len(sub), sub'[id] = sub[id] PROVE NewRowSound(id)'
      OBVIOUS
    <2>1. PICK row \in Subscriptions : sub[id] = row /\ RowSound(row)
      BY <1>0, RowsAreTyped DEF IInv
    <2>2. RowSound(row)'
      BY <1>0, <2>1, RowKept
    <2>3. ASSUME row.status = "expired" PROVE FailedBefore(row.restaurant, now)'
      <3>1. FailedBefore(row.restaurant, now)
        BY <2>1, <2>3 DEF IInv, GateNeedsGrace
      <3>2. PICK s \in Nat : s = now
        BY <1>0, NumbersAssumption DEF TypeOK
      <3>3. PICK t \in Nat : t = now'
        BY <1>0, NumbersAssumption DEF TypeOK
      <3>4. row.restaurant \in Restaurants
        BY DEF Subscriptions
      <3>5. FailedBefore(row.restaurant, s) /\ s <= t
        BY <3>1, <3>2, <3>3 DEF Grows
      <3>6. FailedBefore(row.restaurant, t)'
        BY <1>0, <3>4, <3>5, FailureKept
      <3>7. QED
        BY <3>3, <3>6 DEF FailedBefore
    <2>4. QED
      BY <2>1, <2>2, <2>3 DEF NewRowSound, RowSound, FailedBefore, Backed
  <1>4. \A h \in Handlers : HandlerSound(handlers[h])'
    <2> SUFFICES ASSUME NEW h \in Handlers, handlers'[h] = handlers[h]
                 PROVE HandlerSound(handlers[h])'
      OBVIOUS
    <2>1. PICK w \in Work : handlers[h] = w /\ HandlerSound(w)
      BY <1>0 DEF IInv, TypeOK
    <2>2. HandlerSound(w)'
      BY <1>0, <2>1, HandlerKept
    <2>3. QED
      BY <2>1, <2>2 DEF HandlerSound
  <1>5. \A id \in sweep' : FailedBefore(sub[id].restaurant, now)'
    <2> SUFFICES ASSUME NEW id \in sweep, id \in sweep'
                 PROVE FailedBefore(sub[id].restaurant, now)'
      OBVIOUS
    <2>1. id \in 1..Len(sub)
      BY <1>0 DEF TypeOK
    <2>2. PICK r \in Restaurants : sub[id].restaurant = r /\ sub'[id].restaurant = r
      BY <1>0, <2>1, RowsAreTyped DEF Grows
    <2>0. now \in Nat /\ now' \in Nat /\ now <= now'
      BY <1>0, NumbersAssumption DEF TypeOK, Grows
    <2>3. PICK s \in Nat, t \in Nat : s = now /\ t = now' /\ s <= t
      BY <2>0
    <2>4. FailedBefore(r, s)
      BY <2>2, <2>3 DEF IInv
    <2>5. FailedBefore(r, t)'
      BY <1>0, <2>3, <2>4, FailureKept
    <2>6. QED
      BY <2>2, <2>3, <2>5 DEF FailedBefore
  <1>6. \A c \in charges' : ChargeBacked(c)'
    <2> SUFFICES ASSUME NEW c \in charges, c \in charges' PROVE ChargeBacked(c)'
      OBVIOUS
    <2>1. c.ref \in Refs /\ gw[c.ref] # None /\ gw[c.ref].restaurant = c.restaurant
      BY <1>0 DEF IInv, BackedByOwnPayment, TypeOK, Charges
    <2>2. QED
      BY <2>1 DEF ChargeBacked, Grows
  <1>7. BackedByOwnPayment'
    BY <1>3, <1>6 DEF BackedByOwnPayment, NewRowSound, RowSound, ChargeBacked
  <1>8. GateNeedsGrace'
    BY <1>3 DEF GateNeedsGrace, NewRowSound
  <1>9. QED
    BY <1>1, <1>2, <1>3, <1>4, <1>5, <1>7, <1>8 DEF IInv, HasFailed, NewRowSound

-----------------------------------------------------------------------------
(* Steps by kind.                                                          *)

\* Every slot keeps its work or takes up x.
HandlersMove(x) == /\ handlers' \in [Handlers -> Work]
                   /\ \A h \in Handlers : handlers'[h] \in {handlers[h], x}

\* The sweep and the gateways' side of the world stand still.
WorldStands == UNCHANGED <<gw, firstFailure, now>> /\ net' \subseteq net

\* An empty slot is sound.
LEMMA IdleIsSound == Idle \in Work /\ HandlerSound(Idle)
  BY DEF Idle, Work, Steps, HandlerSound

\* Moving one handler moves no other.
LEMMA OneHandlerMoves ==
    ASSUME TypeOK, NEW h \in Handlers, NEW x \in Work,
           handlers' = [handlers EXCEPT ![h] = x]
    PROVE HandlersMove(x)
  BY DEF HandlersMove, TypeOK

\* Type correctness of the counters, kept by most steps.
LEMMA WorldKeepsTypes ==
    ASSUME IInv, WorldStands, sub' \in Seq(Subscriptions), Len(sub) <= Len(sub'),
           sweep' \subseteq sweep, charges' \in SUBSET Charges,
           timesRedeemed' \in Nat, redemptions' \in [Restaurants -> Nat],
           handlers' \in [Handlers -> Work], faults' \in 0..MaxFaults
    PROVE TypeOK'
  <1>1. Len(sub) \in Nat /\ Len(sub') \in Nat
    BY LenProperties DEF IInv, TypeOK
  <1>2. QED
    BY <1>1 DEF IInv, TypeOK, WorldStands

\* A step of a handler that writes no row: reads, the end of an event, the
\* charge and the redemption.
LEMMA HandlerStep ==
    ASSUME IInv, WorldStands, UNCHANGED <<sub, sweep>>,
           NEW x \in Work, HandlerSound(x), HandlersMove(x),
           charges' \in SUBSET Charges,
           \A c \in charges' : c \in charges \/ ChargeBacked(c),
           timesRedeemed' \in Nat, redemptions' \in [Restaurants -> Nat],
           faults' \in 0..MaxFaults
    PROVE IInv'
  <1>0. TypeOK /\ Len(sub) \in Nat /\ sub' \in Seq(Subscriptions)
    BY LenProperties DEF IInv, TypeOK
  <1>1. TypeOK'
    BY <1>0, WorldKeepsTypes DEF HandlersMove
  <1>2. Grows
    BY <1>0, NumbersAssumption DEF Grows, WorldStands, TypeOK
  <1>3. HandlerSound(x)'
    BY <1>0, <1>1, <1>2, HandlerKept
  <1>4. \A h \in Handlers : handlers'[h] = handlers[h] \/ HandlerSound(handlers[h])'
    BY <1>3 DEF HandlersMove, HandlerSound
  <1>5. \A r \in Restaurants : (HasFailed(r) => firstFailure[r] <= now)'
    BY DEF WorldStands, IInv, HasFailed
  <1>6. \A c \in charges' : c \in charges \/ ChargeBacked(c)'
    BY DEF WorldStands, ChargeBacked
  <1>7. StepIsSound
    BY <1>4, <1>5, <1>6 DEF StepIsSound, WorldStands
  <1>8. QED
    BY <1>1, <1>2, <1>7, KeptByGrowth

\* A step that writes row id, and may move a handler.
LEMMA RowStep ==
    ASSUME IInv, WorldStands, NEW id \in 1..Len(sub), NEW row \in Subscriptions,
           sub' = [sub EXCEPT ![id] = row],
           row.restaurant = sub[id].restaurant, RowSound(row),
           row.status = "expired" => FailedBefore(row.restaurant, now),
           NEW x \in Work, HandlerSound(x), HandlersMove(x),
           sweep' \subseteq sweep,
           UNCHANGED <<charges, timesRedeemed, redemptions, faults>>
    PROVE IInv'
  <1>0. TypeOK /\ Len(sub) \in Nat
    BY LenProperties DEF IInv, TypeOK
  <1>1. /\ sub' \in Seq(Subscriptions) /\ Len(sub') = Len(sub)
        /\ \A k \in 1..Len(sub) : sub'[k] = IF k = id THEN row ELSE sub[k]
    BY <1>0, ExceptSeq DEF TypeOK
  <1>2. TypeOK'
    BY <1>0, <1>1, WorldKeepsTypes DEF HandlersMove, TypeOK
  <1>3. Grows
    BY <1>0, <1>1, NumbersAssumption DEF Grows, WorldStands, TypeOK
  <1>4. HandlerSound(x)' /\ RowSound(row)'
    BY <1>0, <1>2, <1>3, HandlerKept, RowKept
  <1>5. \A h \in Handlers : handlers'[h] = handlers[h] \/ HandlerSound(handlers[h])'
    BY <1>4 DEF HandlersMove, HandlerSound
  <1>6. \A k \in 1..Len(sub') :
          (k \in 1..Len(sub) /\ sub'[k] = sub[k]) \/ NewRowSound(k)'
    <2>1. sub'[id] = row /\ (row.status = "expired" => FailedBefore(row.restaurant, now)')
      BY <1>1 DEF FailedBefore, WorldStands
    <2>2. NewRowSound(id)'
      BY <2>1, <1>4 DEF NewRowSound, RowSound, Backed, FailedBefore
    <2>3. QED
      BY <1>1, <2>2
  <1>7. \A r \in Restaurants : (HasFailed(r) => firstFailure[r] <= now)'
    BY DEF WorldStands, IInv, HasFailed
  <1>8. StepIsSound
    BY <1>5, <1>6, <1>7 DEF StepIsSound, WorldStands
  <1>9. QED
    BY <1>2, <1>3, <1>8, KeptByGrowth

\* The creation of a row, after which the handler holds its id.
LEMMA CreateStep ==
    ASSUME IInv, WorldStands, NEW row \in Subscriptions,
           sub' = Append(sub, row), RowSound(row), row.status # "expired",
           NEW x \in Work, HandlerSound(x)', HandlersMove(x),
           UNCHANGED <<sweep, charges, timesRedeemed, redemptions, faults>>
    PROVE IInv'
  <1>0. TypeOK /\ Len(sub) \in Nat
    BY LenProperties DEF IInv, TypeOK
  <1>1. /\ sub' \in Seq(Subscriptions) /\ Len(sub') = Len(sub) + 1
        /\ \A k \in 1..Len(sub) : sub'[k] = sub[k]
        /\ sub'[Len(sub) + 1] = row
    BY <1>0, AppendProperties DEF TypeOK
  <1>2. TypeOK'
    BY <1>0, <1>1, WorldKeepsTypes DEF HandlersMove, TypeOK
  <1>3. Grows
    BY <1>0, <1>1, NumbersAssumption DEF Grows, WorldStands, TypeOK
  <1>4. RowSound(row)'
    BY <1>0, <1>2, <1>3, RowKept
  <1>5. \A h \in Handlers : handlers'[h] = handlers[h] \/ HandlerSound(handlers[h])'
    BY DEF HandlersMove, HandlerSound
  <1>6. \A k \in 1..Len(sub') :
          (k \in 1..Len(sub) /\ sub'[k] = sub[k]) \/ NewRowSound(k)'
    <2>1. PICK n \in Nat : n = Len(sub) + 1
      BY <1>0
    <2>2. NewRowSound(n)'
      BY <1>1, <1>4, <2>1 DEF NewRowSound, RowSound, Backed, FailedBefore
    <2>3. \A k \in 1..Len(sub') : k \in 1..Len(sub) \/ k = n
      BY <1>0, <1>1, <2>1
    <2>4. QED
      BY <1>1, <2>2, <2>3
  <1>7. \A r \in Restaurants : (HasFailed(r) => firstFailure[r] <= now)'
    BY DEF WorldStands, IInv, HasFailed
  <1>8. StepIsSound
    BY <1>5, <1>6, <1>7 DEF StepIsSound, WorldStands
  <1>9. QED
    BY <1>2, <1>3, <1>8, KeptByGrowth

\* A step of a gateway or of an owner's request to it: session ref becomes s,
\* its events are emitted, and a declined payment may be a first failure.
LEMMA SessionStep ==
    ASSUME IInv, UNCHANGED <<rows, sweep, now, faults>>,
           NEW ref \in Refs, NEW s \in Sessions, gw' = [gw EXCEPT ![ref] = s],
           gw[ref] # None =>
              /\ s.restaurant = gw[ref].restaurant
              /\ gw[ref].state \notin {"open", "failed"} =>
                    s.state \notin {"open", "failed"},
           firstFailure' \in [Restaurants -> Nat \cup {None}],
           \A r \in Restaurants : \/ firstFailure'[r] = firstFailure[r]
                                  \/ firstFailure[r] = None /\ firstFailure'[r] = now,
           s.state \in {"past_due", "failed"} => firstFailure'[s.restaurant] # None,
           net' \in SUBSET Events,
           \A e \in net' :
              \/ e \in net
              \/ /\ e.ref = ref
                 /\ e.type \in {"active", "paid"} => s.state \notin {"open", "failed"}
                 /\ e.type \in {"past_due", "failed"} =>
                       firstFailure'[s.restaurant] # None,
           NEW x \in Work, HandlerSound(x), HandlersMove(x)
    PROVE IInv'
  <1>0. TypeOK /\ Len(sub) \in Nat /\ now \in Nat
    BY LenProperties, NumbersAssumption DEF IInv, TypeOK
  <1>1. TypeOK'
    BY <1>0 DEF TypeOK, rows, HandlersMove
  <1>2. Grows
    <2>1. \A k \in Refs : gw[k] # None =>
             /\ gw'[k] # None
             /\ gw'[k].restaurant = gw[k].restaurant
             /\ gw[k].state \notin {"open", "failed"} =>
                   gw'[k].state \notin {"open", "failed"}
      BY <1>0, NullAssumption DEF TypeOK
    <2>2. \A r \in Restaurants : HasFailed(r) => firstFailure'[r] = firstFailure[r]
      BY DEF HasFailed
    <2>3. QED
      BY <1>0, <2>1, <2>2 DEF Grows, rows
  <1>3. HandlerSound(x)'
    BY <1>0, <1>1, <1>2, HandlerKept
  <1>4. \A h \in Handlers : handlers'[h] = handlers[h] \/ HandlerSound(handlers[h])'
    BY <1>3 DEF HandlersMove, HandlerSound
  <1>5. \A r \in Restaurants : (HasFailed(r) => firstFailure[r] <= now)'
    BY <1>0 DEF IInv, HasFailed
  <1>6. \A k \in Refs : gw'[k] = gw[k] \/ SessionSound(gw[k])'
    BY <1>0 DEF SessionSound, HasFailed, TypeOK
  <1>7. \A e \in net' : e \in net \/ EventSound(e)'
    <2> SUFFICES ASSUME NEW e \in net', e \notin net PROVE EventSound(e)'
      OBVIOUS
    <2>1. e.ref = ref /\ gw'[ref] = s /\ s # None
      BY <1>0, NullAssumption DEF TypeOK
    <2>2. QED
      BY <2>1 DEF EventSound, HasFailed
  <1>8. StepIsSound
    BY <1>4, <1>5, <1>6, <1>7 DEF StepIsSound, rows
  <1>9. QED
    BY <1>1, <1>2, <1>8, KeptByGrowth

\* How Continue, Finish and ThenCharge move their handler.
LEMMA ContinueMoves ==
    ASSUME TypeOK, NEW h \in Handlers, NEW x \in Work, Continue(h, x)
    PROVE HandlersMove(x) /\ net' \subseteq net
  BY OneHandlerMoves DEF Continue

\* A handler that answers its webhook empties its slot.
LEMMA FinishMoves ==
    ASSUME TypeOK, NEW h \in Handlers, Finish(h)
    PROVE HandlersMove(Idle) /\ net' \subseteq net
  BY OneHandlerMoves, IdleIsSound DEF Finish, Acknowledged

\* The handler that goes on to write the charge against row id.
Charging(h, id) == [handlers[h] EXCEPT !.pc = "charge", !.id = id]

\* A handler that has its row goes on to the charge, or ends.
LEMMA ThenChargeMoves ==
    ASSUME TypeOK, NEW h \in Handlers, NEW id \in Nat, ThenCharge(h, id)
    PROVE /\ Charging(h, id) \in Work /\ net' \subseteq net
          /\ HandlersMove(Charging(h, id)) \/ HandlersMove(Idle)
  <1>1. Charging(h, id) \in Work
    BY DEF Charging, TypeOK, Work, Steps
  <1>2. QED
    BY <1>1, ContinueMoves, FinishMoves DEF ThenCharge, Charging

-----------------------------------------------------------------------------
(* Webhooks taken up.                                                      *)

\* What a handler may rely on of the event it receives.
LEMMA ReceivedEvent ==
    ASSUME IInv, NEW e \in Events, e \in net
    PROVE /\ EventSound(e) /\ e # None /\ e.ref \in Refs
          /\ gw[e.ref] \in Sessions /\ gw[e.ref].restaurant \in Restaurants
          /\ gw[e.ref].pkg \in Packages
  <1>1. EventSound(e) /\ e # None /\ e.ref \in Refs
    BY NullAssumption, RefsAssumption DEF IInv, Events, ChargeEvents, SubscriptionEvents
  <1>2. QED
    BY <1>1, SessionsAreTyped DEF IInv, EventSound

\* A slot that has just read its row has the type of a slot.
LEMMA ReceivedIsTyped ==
    ASSUME NEW pc \in Steps, NEW e \in Events \cup {None}, NEW id \in Nat
    PROVE Received(pc, e, id) \in Work
  BY DEF Received, Idle, Work, Steps

\* A read-only step keeps what HandlerStep asks of the tables.
LEMMA ReadStep ==
    ASSUME IInv, NEW x \in Work, HandlerSound(x),
           HandlersMove(x), net' \subseteq net, UNCHANGED <<rows, World>>
    PROVE IInv'
  BY HandlerStep DEF rows, World, WorldStands, IInv, TypeOK

\* A row found by reference belongs to that reference's restaurant.
LEMMA FoundRow ==
    ASSUME IInv, NEW ref \in Refs, NEW id \in FindByGatewayRef(ref)
    PROVE /\ id \in 1..Len(sub) /\ id \in Nat \ {0}
          /\ sub[id].restaurant = gw[ref].restaurant
          /\ gw[ref] # None /\ gw[ref].state \notin {"open", "failed"}
  <1>1. id \in 1..Len(sub) /\ sub[id].ref = ref /\ Len(sub) \in Nat
    BY LenProperties DEF FindByGatewayRef, IInv, TypeOK
  <1>2. QED
    BY <1>1 DEF IInv, RowSound, Backed

\* An activation reads the current row of its restaurant.
LEMMA ActivateLoadKeeps ==
    ASSUME IInv, NEW h \in Handlers, NEW e \in Events, ActivateLoad(h, e)
    PROVE IInv'
  <1>1. e \in net /\ e.type \in {"active", "paid"}
    BY DEF ActivateLoad, Receive
  <1>2. PICK id \in CurrentForRestaurant(gw[e.ref].restaurant) \cup {0} :
           Continue(h, Received("activate", e, id))
    BY DEF ActivateLoad
  <1>3. id \in Nat /\ (id # 0 => /\ id \in 1..Len(sub)
                                 /\ sub[id].restaurant = gw[e.ref].restaurant)
    BY LenProperties DEF CurrentForRestaurant, RowsOf, IInv, TypeOK
  <1>4. Received("activate", e, id) \in Work
    BY <1>3, ReceivedIsTyped DEF Steps
  <1>5. HandlerSound(Received("activate", e, id))
    BY <1>1, <1>3, <1>4, ReceivedEvent DEF HandlerSound, Received, Idle
  <1>6. QED
    BY <1>2, <1>4, <1>5, ContinueMoves, ReadStep DEF ActivateLoad, IInv

\* A paid invoice reads the row of its reference.
LEMMA PaidLoadKeeps ==
    ASSUME IInv, NEW h \in Handlers, NEW e \in Events, PaidLoad(h, e)
    PROVE IInv'
  <1>1. e \in net
    BY DEF PaidLoad, Receive
  <1>2. PICK id \in FindByGatewayRef(e.ref) : Continue(h, Received("charge", e, id))
    BY DEF PaidLoad
  <1>3. /\ id \in 1..Len(sub) /\ id \in Nat
        /\ sub[id].restaurant = gw[e.ref].restaurant
    BY <1>1, ReceivedEvent, FoundRow
  <1>4. Received("charge", e, id) \in Work
    BY <1>3, ReceivedIsTyped DEF Steps
  <1>5. HandlerSound(Received("charge", e, id))
    BY <1>1, <1>3, ReceivedEvent DEF HandlerSound, Received, Idle
  <1>6. QED
    BY <1>2, <1>4, <1>5, ContinueMoves, ReadStep DEF PaidLoad, IInv

\* A failed charge is recorded, with the row it has read where it reads one.
LEMMA RecordFailedKeeps ==
    ASSUME IInv, NEW h \in Handlers, NEW e \in Events, RecordFailed(h, e)
    PROVE IInv'
  <1>1. e \in net /\ e.type = "failed"
    BY DEF RecordFailed, Receive
  <1>2. PICK id \in Nat, r \in Restaurants :
           /\ id # 0 => id \in 1..Len(sub)
           /\ id # 0 => sub[id].restaurant = gw[e.ref].restaurant
           /\ r = gw[e.ref].restaurant
           /\ Charge(r, e.ref, "failed")
           /\ Continue(h, Received("failed", e, id))
    <2>1. ASSUME NEW id \in FindByGatewayRef(e.ref),
                 Charge(sub[id].restaurant, e.ref, "failed"),
                 Continue(h, Received("failed", e, id))
          PROVE /\ id \in Nat /\ id \in 1..Len(sub)
                /\ sub[id].restaurant = gw[e.ref].restaurant
      BY <1>1, <2>1, ReceivedEvent, FoundRow
    <2>2. gw[e.ref].restaurant \in Restaurants
      BY <1>1, ReceivedEvent
    <2>3. QED
      BY <2>1, <2>2 DEF RecordFailed
  <1>3. Received("failed", e, id) \in Work
    BY <1>2, ReceivedIsTyped DEF Steps
  <1>4. HandlerSound(Received("failed", e, id))
    BY <1>1, <1>2, <1>3, ReceivedEvent DEF HandlerSound, Received, Idle
  <1>5. HandlersMove(Received("failed", e, id)) /\ net' \subseteq net
    BY <1>2, <1>3, ContinueMoves DEF IInv
  <1>6. /\ charges' \in SUBSET Charges
        /\ \A c \in charges' : c \in charges \/ ChargeBacked(c)
    BY <1>1, <1>2, ReceivedEvent DEF Charge, Charges, ChargeBacked, EventSound, IInv, TypeOK
  <1>7. QED
    BY <1>3, <1>4, <1>5, <1>6, HandlerStep
    DEF RecordFailed, World, WorldStands, IInv, TypeOK

\* The deadline a handler is about to write comes from a failed payment of
\* the restaurant whose row it has found.
LEMMA PastDueLoadKeeps ==
    ASSUME IInv, NEW h \in Handlers, NEW e \in Events, NEW ref \in Refs,
           gw[ref] # None, HasFailed(gw[ref].restaurant),
           PastDueLoad(h, e, ref), UNCHANGED <<rows, World>>
    PROVE IInv'
  <1>0. now \in Nat /\ TypeOK
    BY NumbersAssumption DEF IInv, TypeOK
  <1>1. PICK id \in FindByGatewayRef(ref) :
           Continue(h, [Received("pastDue", e, id) EXCEPT
                           !.grace = IF sub[id].graceUntil = None THEN now + Grace
                                     ELSE sub[id].graceUntil])
    BY DEF PastDueLoad
  <1>2. /\ id \in 1..Len(sub) /\ id \in Nat
        /\ sub[id].restaurant = gw[ref].restaurant
    BY FoundRow
  <1>3. PICK g \in Nat :
           /\ g = IF sub[id].graceUntil = None THEN now + Grace ELSE sub[id].graceUntil
           /\ FailedBefore(sub[id].restaurant, g + 1)
    <2>1. sub[id].graceUntil \in Nat \cup {None} /\ sub[id].restaurant \in Restaurants
      BY <1>0, <1>2, RowsAreTyped
    <2>2. CASE sub[id].graceUntil # None
      BY <1>2, <2>1, <2>2 DEF IInv, RowSound
    <2>3. CASE sub[id].graceUntil = None
      <3>1. /\ firstFailure[sub[id].restaurant] \in Nat
            /\ firstFailure[sub[id].restaurant] <= now
        BY <1>0, <1>2, <2>1 DEF IInv, TypeOK, HasFailed
      <3>2. FailedBefore(sub[id].restaurant, (now + Grace) + 1)
        BY <1>0, <1>2, <3>1, NumbersAssumption DEF FailedBefore, HasFailed
      <3>3. QED
        BY <1>0, <2>3, <3>2, NumbersAssumption
    <2>4. QED
      BY <2>2, <2>3
  <1>4. PICK x \in Work : /\ x = [Received("pastDue", e, id) EXCEPT !.grace = g]
                          /\ Continue(h, x)
    <2>1. Received("pastDue", e, id) \in Work
      BY <1>2, ReceivedIsTyped DEF Steps
    <2>2. [Received("pastDue", e, id) EXCEPT !.grace = g] \in Work
      BY <2>1 DEF Work
    <2>3. Continue(h, [Received("pastDue", e, id) EXCEPT !.grace = g])
      BY <1>1, <1>3
    <2>4. QED
      BY <2>2, <2>3
  <1>5. HandlerSound(x)
    <2>1. x.pc = "pastDue" /\ x.id = id /\ x.grace = g
      BY <1>4 DEF Received, Idle
    <2>2. QED
      BY <1>2, <1>3, <2>1, NoneAssumption DEF HandlerSound
  <1>6. QED
    BY <1>0, <1>4, <1>5, ContinueMoves, ReadStep

\* A past-due report reads the row and computes its deadline.
LEMMA PastDueEventKeeps ==
    ASSUME IInv, NEW h \in Handlers, NEW e \in Events, PastDueEvent(h, e)
    PROVE IInv'
  <1>1. e \in net /\ e.type = "past_due"
    BY DEF PastDueEvent, Receive
  <1>2. e.ref \in Refs /\ gw[e.ref] # None /\ HasFailed(gw[e.ref].restaurant)
    BY <1>1, ReceivedEvent DEF EventSound
  <1>3. QED
    BY <1>2, PastDueLoadKeeps DEF PastDueEvent

\* A handler in the middle of its work is typed and sound.
LEMMA HandlerFacts ==
    ASSUME IInv, NEW h \in Handlers
    PROVE /\ handlers[h] \in Work /\ HandlerSound(handlers[h])
          /\ handlers[h].id \in Nat /\ handlers[h].ref \in Refs \cup {None}
          /\ handlers[h].event \in Events \cup {None}
          /\ handlers[h].event # None => handlers[h].event.ref \in Refs
  BY RefsAssumption DEF IInv, TypeOK, Work, Events, ChargeEvents, SubscriptionEvents

\* So does a failed charge that has found the reference.
LEMMA FailedPastDueKeeps ==
    ASSUME IInv, NEW h \in Handlers, FailedPastDue(h)
    PROVE IInv'
  <1>1. At(h, "markPastDue") /\ PastDueLoad(h, handlers[h].event, handlers[h].ref)
    BY DEF FailedPastDue
  <1>2. PICK e \in Events, ref \in Refs :
           /\ e = handlers[h].event /\ ref = handlers[h].ref
           /\ gw[ref] # None /\ HasFailed(gw[ref].restaurant)
    BY <1>1, HandlerFacts DEF At, HandlerSound, EventSound
  <1>3. PastDueLoad(h, e, ref)
    BY <1>1, <1>2
  <1>4. QED
    BY <1>2, <1>3, PastDueLoadKeeps DEF FailedPastDue

\* A cancellation report is taken up.
LEMMA CanceledEventKeeps ==
    ASSUME IInv, NEW h \in Handlers, NEW e \in Events, CanceledEvent(h, e)
    PROVE IInv'
  <1>1. e \in net
    BY DEF CanceledEvent, Receive
  <1>2. PICK id \in FindByGatewayRef(e.ref) : Continue(h, Received("cancel", e, id))
    BY DEF CanceledEvent
  <1>3. id \in 1..Len(sub) /\ id \in Nat
    BY <1>1, <1>2, ReceivedEvent, FoundRow
  <1>4. Received("cancel", e, id) \in Work
    BY <1>3, ReceivedIsTyped DEF Steps
  <1>5. HandlerSound(Received("cancel", e, id))
    BY <1>3 DEF HandlerSound, Received, Idle
  <1>6. QED
    BY <1>2, <1>4, <1>5, ContinueMoves, ReadStep DEF CanceledEvent, IInv

\* An event the code has no use for is answered.
LEMMA IgnoreKeeps ==
    ASSUME IInv, NEW h \in Handlers, NEW e \in Events, Ignore(h, e)
    PROVE IInv'
  <1>1. HandlersMove(Idle) /\ net' \subseteq net
    BY DEF Ignore, Acknowledged, HandlersMove, IInv, TypeOK
  <1>2. QED
    BY <1>1, IdleIsSound, ReadStep DEF Ignore

\* Every webhook taken up keeps the invariant.
LEMMA DeliverKeeps ==
    ASSUME IInv, NEW h \in Handlers, NEW e \in Events, Deliver(h, e)
    PROVE IInv'
  BY ActivateLoadKeeps, PaidLoadKeeps, RecordFailedKeeps, PastDueEventKeeps,
     CanceledEventKeeps, IgnoreKeeps DEF Deliver

-----------------------------------------------------------------------------
(* The further steps of a handler.                                         *)

\* What an activating handler writes: a row on its own event's checkout.
LEMMA ActivatedRow ==
    ASSUME IInv, NEW h \in Handlers, At(h, "activate")
    PROVE LET ref == handlers[h].event.ref
              row == Activated(gw[ref].restaurant, ref)
          IN  /\ row \in Subscriptions /\ RowSound(row) /\ row.status = "active"
              /\ row.restaurant = gw[ref].restaurant
  <1>1. /\ handlers[h].event # None /\ EventSound(handlers[h].event)
        /\ handlers[h].event.type \in {"active", "paid"}
        /\ handlers[h].event.ref \in Refs
    BY HandlerFacts DEF At, HandlerSound
  <1>2. PICK ref \in Refs : ref = handlers[h].event.ref
    BY <1>1
  <1>3. /\ gw[ref] # None /\ gw[ref].state \notin {"open", "failed"}
        /\ gw[ref].restaurant \in Restaurants /\ gw[ref].pkg \in Packages
    BY <1>1, <1>2, SessionsAreTyped DEF EventSound, IInv
  <1>4. Activated(gw[ref].restaurant, ref) \in Subscriptions
    BY <1>2, <1>3 DEF Activated, Subscriptions
  <1>5. QED
    BY <1>2, <1>3, <1>4 DEF Activated, RowSound, Backed

\* Activation creates the row: it is backed by the session of the event.
LEMMA ActivateCreateKeeps ==
    ASSUME IInv, NEW h \in Handlers, ActivateCreate(h)
    PROVE IInv'
  <1>0. TypeOK /\ Len(sub) \in Nat /\ At(h, "activate") /\ WorldStands
    <2>1. net' \subseteq net
      BY LenProperties, ThenChargeMoves
      DEF ActivateCreate, Continue, IInv, TypeOK
    <2>2. QED
      BY <2>1, LenProperties DEF ActivateCreate, World, WorldStands, IInv, TypeOK
  <1>1. PICK id \in Nat \ {0} : id = Len(sub) + 1
    BY <1>0
  <1>2. PICK row \in Subscriptions :
           /\ row = Activated(gw[handlers[h].event.ref].restaurant, handlers[h].event.ref)
           /\ RowSound(row) /\ row.status # "expired"
           /\ row.restaurant = gw[handlers[h].event.ref].restaurant
    BY <1>0, ActivatedRow
  <1>3. /\ sub' = Append(sub, row) /\ id \in 1..Len(sub')
        /\ sub'[id].restaurant = row.restaurant
        /\ sub' \in Seq(Subscriptions)
    BY <1>0, <1>1, <1>2, AppendProperties DEF ActivateCreate, TypeOK
  <1>4. PICK x \in Work :
           /\ HandlersMove(x)
           /\ \/ x = Idle
              \/ /\ x.pc \in {"redeem", "charge"} /\ x.id = id
                 /\ x.event = handlers[h].event
    <2>1. CASE ThenCharge(h, id)
      BY <1>0, <1>1, <2>1, ThenChargeMoves, IdleIsSound, HandlerFacts
      DEF Charging, Work
    <2>2. CASE Continue(h, [handlers[h] EXCEPT !.pc = "redeem", !.id = id])
      <3>1. [handlers[h] EXCEPT !.pc = "redeem", !.id = id] \in Work
        BY HandlerFacts DEF Work, Steps
      <3>2. QED
        BY <1>0, <2>2, <3>1, ContinueMoves, HandlerFacts DEF Work
    <2>3. QED
      BY <1>1, <2>1, <2>2 DEF ActivateCreate
  <1>5. HandlerSound(x)'
    <2>1. CASE x = Idle
      BY <2>1 DEF HandlerSound, Idle
    <2>2. CASE x # Idle
      <3>1. PICK e \in Events : e = handlers[h].event /\ EventSound(e) /\ e # None
        BY <1>0, HandlerFacts DEF At, HandlerSound
      <3>2. EventSound(e)'
        BY <1>0, <3>1 DEF EventSound, WorldStands, HasFailed
      <3>3. sub'[id].restaurant = gw'[e.ref].restaurant
        BY <1>0, <1>2, <1>3, <3>1 DEF WorldStands
      <3>4. QED
        BY <1>3, <1>4, <2>2, <3>1, <3>2, <3>3 DEF HandlerSound
    <2>3. QED
      BY <2>1, <2>2
  <1>6. QED
    BY <1>0, <1>2, <1>3, <1>4, <1>5, CreateStep DEF ActivateCreate, World

\* A write of the handler's row that keeps its restaurant and is sound.
LEMMA CommitStep ==
    ASSUME IInv, WorldStands, NEW h \in Handlers, NEW id \in 1..Len(sub),
           id = handlers[h].id, NEW row \in Subscriptions, Write(id, row),
           row.restaurant = sub[id].restaurant, RowSound(row),
           row.status = "expired" => sub[id].status = "expired",
           NEW x \in Work, HandlerSound(x), HandlersMove(x),
           UNCHANGED <<charges, timesRedeemed, redemptions, World>>
    PROVE IInv'
  <1>1. row.status = "expired" => FailedBefore(row.restaurant, now)
    BY DEF IInv, GateNeedsGrace
  <1>2. QED
    BY <1>1, RowStep DEF Write, World

\* Activation updates the row, of the same restaurant and reference.
LEMMA ActivateUpdateKeeps ==
    ASSUME IInv, NEW h \in Handlers, ActivateUpdate(h)
    PROVE IInv'
  <1>1. At(h, "activate") /\ HandlerSound(handlers[h]) /\ TypeOK
    BY HandlerFacts DEF ActivateUpdate, IInv
  <1>2. PICK id \in 1..Len(sub) :
           /\ id = handlers[h].id
           /\ sub[id].restaurant = gw[handlers[h].event.ref].restaurant
    BY <1>1 DEF ActivateUpdate, At, HandlerSound
  <1>3. PICK row \in Subscriptions :
           /\ Write(id, row) /\ RowSound(row) /\ row.status = "active"
           /\ row.restaurant = sub[id].restaurant
    BY <1>1, <1>2, ActivatedRow DEF ActivateUpdate
  <1>4. ThenCharge(h, id) /\ id \in Nat
    BY <1>2, HandlerFacts DEF ActivateUpdate
  <1>5. HandlerSound(Charging(h, id))
    BY <1>1, <1>2, HandlerFacts DEF HandlerSound, Charging, At, Work
  <1>6. PICK x \in Work : HandlersMove(x) /\ HandlerSound(x)
    BY <1>1, <1>4, <1>5, ThenChargeMoves, IdleIsSound
  <1>7. WorldStands
    BY <1>1, <1>4, ThenChargeMoves DEF ActivateUpdate, World, WorldStands
  <1>8. QED
    BY <1>2, <1>3, <1>6, <1>7, CommitStep DEF ActivateUpdate

\* After a redemption, or without one, the charge is still to be written.
LEMMA AfterRedeem ==
    ASSUME IInv, NEW h \in Handlers, handlers[h].pc \in {"redeem", "redeemCommit"},
           ThenCharge(h, handlers[h].id)
    PROVE /\ net' \subseteq net
          /\ \E x \in Work : HandlersMove(x) /\ HandlerSound(x)
  <1>1. HandlerSound(Charging(h, handlers[h].id))
    BY HandlerFacts DEF HandlerSound, Charging, Work
  <1>2. QED
    BY <1>1, HandlerFacts, ThenChargeMoves, IdleIsSound DEF IInv

\* The redemption reads the promo code.
LEMMA RedeemLoadKeeps ==
    ASSUME IInv, NEW h \in Handlers, RedeemLoad(h)
    PROVE IInv'
  <1>1. PICK x \in Work : /\ x = [handlers[h] EXCEPT !.pc = "redeemCommit"]
                          /\ Continue(h, x)
    BY HandlerFacts DEF RedeemLoad, Work, Steps
  <1>2. HandlerSound(x)
    BY <1>1, HandlerFacts DEF HandlerSound, RedeemLoad, At, Work
  <1>3. QED
    BY <1>1, <1>2, ContinueMoves, ReadStep DEF RedeemLoad, IInv

\* There is nothing to redeem.
LEMMA RedeemSkipKeeps ==
    ASSUME IInv, NEW h \in Handlers, RedeemSkip(h)
    PROVE IInv'
  BY AfterRedeem, ReadStep DEF RedeemSkip, At

\* The redemption is written, and no row changes.
LEMMA RedeemCommitKeeps ==
    ASSUME IInv, NEW h \in Handlers, RedeemCommit(h)
    PROVE IInv'
  <1>1. PICK x \in Work : HandlersMove(x) /\ HandlerSound(x) /\ net' \subseteq net
    BY AfterRedeem DEF RedeemCommit, At
  <1>2. timesRedeemed' \in Nat /\ redemptions' \in [Restaurants -> Nat]
    <2>1. timesRedeemed \in Nat /\ redemptions \in [Restaurants -> Nat]
      BY DEF IInv, TypeOK
    <2>2. \A r \in Restaurants : redemptions[r] + 1 \in Nat
      BY <2>1
    <2>3. redemptions' \in [Restaurants -> Nat]
      BY <2>1, <2>2, Zenon DEF RedeemCommit
    <2>4. QED
      BY <2>1, <2>3 DEF RedeemCommit
  <1>3. QED
    BY <1>1, <1>2, HandlerStep DEF RedeemCommit, World, WorldStands, IInv, TypeOK

\* The charge is recorded for the row.
LEMMA RecordPaidKeeps ==
    ASSUME IInv, NEW h \in Handlers, RecordPaid(h)
    PROVE IInv'
  <1>1. At(h, "charge") /\ HandlerSound(handlers[h])
    BY HandlerFacts DEF RecordPaid
  <1>2. PICK id \in 1..Len(sub), e \in Events :
           /\ id = handlers[h].id /\ e = handlers[h].event /\ EventSound(e)
           /\ e.ref \in Refs
           /\ handlers[h].id # 0 => sub[id].restaurant = gw[e.ref].restaurant
    BY <1>1, HandlerFacts DEF At, HandlerSound
  <1>3. /\ id # 0 /\ sub[id].restaurant = gw[e.ref].restaurant
        /\ sub[id].restaurant \in Restaurants
    BY <1>2, RowsAreTyped DEF IInv
  <1>4. /\ charges' \in SUBSET Charges
        /\ \A c \in charges' : c \in charges \/ ChargeBacked(c)
    BY <1>2, <1>3 DEF RecordPaid, Charge, Charges, ChargeBacked, EventSound, IInv, TypeOK
  <1>5. HandlersMove(Idle) /\ net' \subseteq net
    BY FinishMoves DEF RecordPaid, IInv
  <1>6. QED
    BY <1>4, <1>5, IdleIsSound, HandlerStep
    DEF RecordPaid, World, WorldStands, IInv, TypeOK

\* A failed charge reads the current row of its restaurant.
LEMMA FailedLoadKeeps ==
    ASSUME IInv, NEW h \in Handlers, FailedLoad(h)
    PROVE IInv'
  <1>1. At(h, "failed") /\ HandlerSound(handlers[h])
    BY HandlerFacts DEF FailedLoad
  <1>2. FailedRestaurant(h) = gw[handlers[h].event.ref].restaurant
    BY <1>1 DEF FailedRestaurant, HandlerSound, At
  <1>3. PICK id \in CurrentForRestaurant(FailedRestaurant(h)) :
           Continue(h, [handlers[h] EXCEPT !.pc = "markPastDue", !.ref = sub[id].ref])
    BY DEF FailedLoad
  <1>4. /\ id \in 1..Len(sub) /\ sub[id].ref \in Refs
        /\ gw[sub[id].ref] # None
        /\ gw[sub[id].ref].restaurant = gw[handlers[h].event.ref].restaurant
    BY <1>2, <1>3, RowsAreTyped DEF CurrentForRestaurant, RowsOf, IInv, RowSound, Backed
  <1>5. PICK ref \in Refs : ref = sub[id].ref
    BY <1>4
  <1>6. ref # None
    BY NoneAssumption
  <1>7. PICK x \in Work :
           /\ x = [handlers[h] EXCEPT !.pc = "markPastDue", !.ref = ref]
           /\ Continue(h, x)
    BY <1>3, <1>5, HandlerFacts DEF Work, Steps
  <1>8. HandlerSound(x)
    BY <1>1, <1>4, <1>5, <1>6, <1>7, HandlerFacts DEF HandlerSound, At, Work
  <1>9. QED
    BY <1>7, <1>8, ContinueMoves, ReadStep DEF FailedLoad, IInv

\* The steps that only end an event.
LEMMA FinishKeeps ==
    ASSUME IInv, NEW h \in Handlers, Finish(h), UNCHANGED <<rows, World>>
    PROVE IInv'
  BY FinishMoves, IdleIsSound, ReadStep DEF IInv

\* Past due is written with the deadline computed before, whatever the row is now.
LEMMA PastDueCommitKeeps ==
    ASSUME IInv, NEW h \in Handlers, PastDueCommit(h)
    PROVE IInv'
  <1>1. /\ At(h, "pastDue") /\ HandlerSound(handlers[h])
        /\ handlers[h].grace \in Nat \cup {None}
    BY HandlerFacts DEF PastDueCommit, Work
  <1>2. PICK id \in 1..Len(sub), g \in Nat :
           /\ id = handlers[h].id /\ g = handlers[h].grace
           /\ FailedBefore(sub[id].restaurant, g + 1)
    BY <1>1 DEF At, HandlerSound
  <1>3. PICK old \in Subscriptions : old = sub[id] /\ RowSound(old)
    BY RowsAreTyped DEF IInv
  <1>4. PICK row \in Subscriptions :
           /\ row = [old EXCEPT !.status = "past_due", !.graceUntil = g]
           /\ Write(id, row)
    BY <1>2, <1>3 DEF PastDueCommit, Subscriptions
  <1>5. row.restaurant = sub[id].restaurant /\ row.status # "expired" /\ RowSound(row)
    BY <1>2, <1>3, <1>4 DEF RowSound, Subscriptions
  <1>6. HandlersMove(Idle) /\ WorldStands
    BY FinishMoves DEF PastDueCommit, IInv, World, WorldStands
  <1>7. QED
    BY <1>2, <1>4, <1>5, <1>6, IdleIsSound, CommitStep DEF PastDueCommit

\* The cancellation is written.
LEMMA CancelCommitKeeps ==
    ASSUME IInv, NEW h \in Handlers, CancelCommit(h)
    PROVE IInv'
  <1>1. At(h, "cancel") /\ HandlerSound(handlers[h])
    BY HandlerFacts DEF CancelCommit
  <1>2. PICK id \in 1..Len(sub) : id = handlers[h].id
    BY <1>1 DEF At, HandlerSound
  <1>3. PICK old \in Subscriptions : old = sub[id] /\ RowSound(old)
    BY RowsAreTyped DEF IInv
  <1>4. PICK row \in Subscriptions :
           /\ row = [old EXCEPT !.status = "canceled", !.graceUntil = None]
           /\ Write(id, row)
    BY <1>2, <1>3 DEF CancelCommit, Subscriptions
  <1>5. row.restaurant = sub[id].restaurant /\ row.status # "expired" /\ RowSound(row)
    BY <1>3, <1>4 DEF RowSound, Subscriptions
  <1>6. HandlersMove(Idle) /\ WorldStands
    BY FinishMoves DEF CancelCommit, IInv, World, WorldStands
  <1>7. QED
    BY <1>2, <1>4, <1>5, <1>6, IdleIsSound, CommitStep DEF CancelCommit

\* The change of package is written.
LEMMA ChangeCommitKeeps ==
    ASSUME IInv, NEW h \in Handlers, ChangeCommit(h)
    PROVE IInv'
  <1>1. /\ At(h, "change") /\ HandlerSound(handlers[h])
        /\ handlers[h].pkg \in Packages \cup {None}
    BY HandlerFacts DEF ChangeCommit, Work
  <1>2. PICK id \in 1..Len(sub), p \in Packages : id = handlers[h].id /\ p = handlers[h].pkg
    BY <1>1 DEF At, HandlerSound
  <1>3. PICK old \in Subscriptions : old = sub[id] /\ RowSound(old)
    BY RowsAreTyped DEF IInv
  <1>4. PICK row \in Subscriptions : row = [old EXCEPT !.pkg = p] /\ Write(id, row)
    BY <1>2, <1>3 DEF ChangeCommit, Subscriptions
  <1>5. /\ row.restaurant = sub[id].restaurant /\ row.status = sub[id].status
        /\ RowSound(row)
    BY <1>3, <1>4 DEF RowSound, Subscriptions
  <1>6. HandlersMove(Idle) /\ WorldStands
    BY FinishMoves DEF ChangeCommit, IInv, World, WorldStands
  <1>7. QED
    BY <1>2, <1>4, <1>5, <1>6, IdleIsSound, CommitStep DEF ChangeCommit

\* Every later step of a handler keeps the invariant.
LEMMA StepKeeps ==
    ASSUME IInv, NEW h \in Handlers, Step(h)
    PROVE IInv'
  <1>1. ASSUME FailedNoRow(h) \/ FailedStop(h) PROVE IInv'
    BY <1>1, FinishKeeps DEF FailedNoRow, FailedStop
  <1>2. QED
    BY <1>1, ActivateCreateKeeps, ActivateUpdateKeeps, RedeemLoadKeeps, RedeemSkipKeeps,
       RedeemCommitKeeps, RecordPaidKeeps, FailedLoadKeeps, FailedPastDueKeeps,
       PastDueCommitKeeps, CancelCommitKeeps, ChangeCommitKeeps
    DEF Step

-----------------------------------------------------------------------------
(* The gateways and the owner.                                             *)

\* A session that exists passes to state st: its restaurant is the same.
LEMMA NewState ==
    ASSUME IInv, NEW ref \in Refs, gw[ref] # None,
           NEW st \in {"paid", "past_due", "failed", "canceled"},
           gw' = [gw EXCEPT ![ref].state = st]
    PROVE \E s \in Sessions : /\ gw' = [gw EXCEPT ![ref] = s]
                              /\ s.state = st /\ s.restaurant = gw[ref].restaurant
  <1>1. PICK old \in Sessions : old = gw[ref]
    BY SessionsAreTyped DEF IInv
  <1>2. [old EXCEPT !.state = st] \in Sessions
    BY DEF Sessions
  <1>3. gw' = [gw EXCEPT ![ref] = [old EXCEPT !.state = st]]
    BY <1>1
  <1>4. QED
    BY <1>1, <1>2, <1>3 DEF Sessions

\* The gateway's own steps move no handler.
LEMMA NoHandlerMoves ==
    ASSUME IInv, UNCHANGED handlers
    PROVE HandlersMove(Idle)
  BY DEF HandlersMove, IInv, TypeOK

\* A failure that has been recorded, or none, keeps its history.
LEMMA FailuresTyped ==
    ASSUME IInv
    PROVE /\ firstFailure \in [Restaurants -> Nat \cup {None}] /\ now \in Nat
          /\ net \in SUBSET Events
  BY NumbersAssumption DEF IInv, TypeOK

\* A checkout opens a session for its own restaurant.
LEMMA CheckoutKeeps ==
    ASSUME IInv, NEW r \in Restaurants, NEW p \in Packages, NEW promo \in BOOLEAN,
           NEW ref \in Refs, Checkout(r, p, promo, ref)
    PROVE IInv'
  <1>1. Session(r, p, promo) \in Sessions /\ Session(r, p, promo).state = "open"
    BY DEF Session, Sessions
  <1>2. gw' = [gw EXCEPT ![ref] = Session(r, p, promo)] /\ gw[ref] = None
    BY DEF Checkout
  <1>3. QED
    BY <1>1, <1>2, NoHandlerMoves, FailuresTyped, IdleIsSound, SessionStep DEF Checkout

\* A renewal order does so too.
LEMMA RenewOrderKeeps ==
    ASSUME IInv, NEW id \in 1..Len(sub), NEW ref \in Refs, RenewOrder(id, ref)
    PROVE IInv'
  <1>1. PICK r \in Restaurants, p \in Packages :
           r = sub[id].restaurant /\ p = sub[id].pkg
    BY RowsAreTyped DEF IInv
  <1>2. Session(r, p, FALSE) \in Sessions /\ Session(r, p, FALSE).state = "open"
    BY DEF Session, Sessions
  <1>3. gw' = [gw EXCEPT ![ref] = Session(r, p, FALSE)] /\ gw[ref] = None
    BY <1>1 DEF RenewOrder
  <1>4. QED
    BY <1>2, <1>3, NoHandlerMoves, FailuresTyped, IdleIsSound, SessionStep DEF RenewOrder

\* The events that a payment, a decline and an end emit.
LEMMA EmittedEvents ==
    ASSUME IInv, NEW ref \in Refs, NEW types,
           IF Stripe(ref) THEN types \subseteq {"paid", "failed", "active", "past_due", "canceled"}
                          ELSE types \subseteq {"paid", "failed"},
           Emit(ref, types)
    PROVE /\ net' \in SUBSET Events
          /\ \A e \in net' : e \in net \/ (e.ref = ref /\ e.type \in types)
  <1>1. \A t \in types : [type |-> t, ref |-> ref] \in Events
    BY DEF Events, ChargeEvents, SubscriptionEvents, Stripe
  <1>2. QED
    BY <1>1, FailuresTyped DEF Emit

\* A payment emits events that say what has happened.
LEMMA PayKeeps ==
    ASSUME IInv, NEW ref \in Refs, Pay(ref)
    PROVE IInv'
  <1>1. PICK s \in Sessions : /\ gw' = [gw EXCEPT ![ref] = s]
                              /\ s.state = "paid" /\ s.restaurant = gw[ref].restaurant
    BY NewState DEF Pay
  <1>2. PICK types : /\ Emit(ref, types)
                     /\ types = IF Stripe(ref) THEN {"active", "paid"} ELSE {"paid"}
    BY DEF Pay
  <1>3. /\ net' \in SUBSET Events
        /\ \A e \in net' : e \in net \/ (e.ref = ref /\ e.type \in {"active", "paid"})
    BY <1>2, EmittedEvents
  <1>4. QED
    BY <1>1, <1>3, NoHandlerMoves, FailuresTyped, IdleIsSound, SessionStep DEF Pay

\* A declined charge is on record before its events are out.
LEMMA DeclineKeeps ==
    ASSUME IInv, NEW ref \in Refs, Decline(ref)
    PROVE IInv'
  <1>1. PICK st \in {"past_due", "failed"} :
           /\ st = IF Stripe(ref) THEN "past_due" ELSE "failed"
           /\ gw' = [gw EXCEPT ![ref].state = st]
    BY DEF Decline
  <1>2. PICK s \in Sessions : /\ gw' = [gw EXCEPT ![ref] = s]
                              /\ s.state = st /\ s.restaurant = gw[ref].restaurant
    BY <1>1, NewState DEF Decline
  <1>3. PICK r \in Restaurants : r = gw[ref].restaurant /\ r = s.restaurant
    BY <1>2 DEF Sessions
  <1>4. firstFailure' = [firstFailure EXCEPT ![r] = IF @ = None THEN now ELSE @]
    BY <1>3 DEF Decline
  <1>5. now # None
    BY FailuresTyped, NoneAssumption
  <1>6. /\ firstFailure' \in [Restaurants -> Nat \cup {None}]
        /\ \A q \in Restaurants : \/ firstFailure'[q] = firstFailure[q]
                                  \/ firstFailure[q] = None /\ firstFailure'[q] = now
        /\ firstFailure'[r] # None
    BY <1>4, <1>5, FailuresTyped
  <1>7. PICK types :
           /\ Emit(ref, types)
           /\ types = IF Stripe(ref) THEN {"past_due", "failed"} ELSE {"failed"}
    BY DEF Decline
  <1>8. /\ net' \in SUBSET Events
        /\ \A e \in net' : e \in net \/ (e.ref = ref /\ e.type \in {"past_due", "failed"})
    BY <1>7, EmittedEvents
  <1>9. gw[ref].state \notin {"open", "failed"} => s.state \notin {"open", "failed"}
    BY <1>1, <1>2 DEF Decline
  <1>10. \A e \in net' :
            \/ e \in net
            \/ /\ e.ref = ref
               /\ e.type \in {"active", "paid"} => s.state \notin {"open", "failed"}
               /\ e.type \in {"past_due", "failed"} => firstFailure'[s.restaurant] # None
    BY <1>3, <1>6, <1>8
  <1>11. UNCHANGED <<rows, handlers, sweep, now, faults>>
    BY DEF Decline
  <1>12. QED
    BY <1>2, <1>3, <1>6, <1>8, <1>9, <1>10, <1>11, NoHandlerMoves, IdleIsSound, SessionStep

\* Stripe ends a subscription and reports it, or reports one that is not paid.
LEMMA StripeEndsKeeps ==
    ASSUME IInv, NEW ref \in Refs, StripeEnds(ref)
    PROVE IInv'
  <1>1. PICK s \in Sessions : /\ gw' = [gw EXCEPT ![ref] = s]
                              /\ s.restaurant = gw[ref].restaurant
                              /\ \/ s.state = "canceled"
                                 \/ s.state = "open" /\ gw[ref].state = "open"
    <2>1. CASE gw' = [gw EXCEPT ![ref].state = "canceled"]
      <3>1. "canceled" \in {"paid", "past_due", "failed", "canceled"} /\ gw[ref] # None
        BY DEF StripeEnds
      <3>2. \E s \in Sessions : /\ gw' = [gw EXCEPT ![ref] = s]
                               /\ s.state = "canceled" /\ s.restaurant = gw[ref].restaurant
        BY <2>1, <3>1, NewState
      <3>3. QED
        BY <3>2
    <2>2. CASE gw[ref].state = "open" /\ UNCHANGED gw
      <3>1. PICK s \in Sessions : s = gw[ref]
        BY SessionsAreTyped DEF IInv, StripeEnds
      <3>2. gw' = [gw EXCEPT ![ref] = s]
        BY <2>2, <3>1 DEF IInv, TypeOK
      <3>3. QED
        BY <2>2, <3>1, <3>2
    <2>3. QED
      BY <2>1, <2>2 DEF StripeEnds
  <1>2. PICK types : Emit(ref, types) /\ types = {"canceled"} /\ Stripe(ref)
    BY DEF StripeEnds
  <1>3. /\ net' \in SUBSET Events
        /\ \A e \in net' : e \in net \/ (e.ref = ref /\ e.type = "canceled")
    BY <1>2, EmittedEvents
  <1>4. QED
    BY <1>1, <1>3, NoHandlerMoves, FailuresTyped, IdleIsSound, SessionStep DEF StripeEnds

\* The row an owner asks about, with the reference it stands on.
LEMMA OwnersRow ==
    ASSUME IInv, NEW r \in Restaurants, NEW id \in OwnersRows(r)
    PROVE /\ id \in 1..Len(sub) /\ id \in Nat
          /\ sub[id].ref \in Refs /\ gw[sub[id].ref] # None
  <1>1. id \in 1..Len(sub) /\ Len(sub) \in Nat
    BY LenProperties DEF OwnersRows, CurrentForRestaurant, RowsOf, IInv, TypeOK
  <1>2. QED
    BY <1>1, RowsAreTyped DEF IInv, RowSound, Backed

\* The owner cancels.
LEMMA OwnerCancelKeeps ==
    ASSUME IInv, NEW h \in Handlers, NEW r \in Restaurants, OwnerCancel(h, r)
    PROVE IInv'
  <1>1. PICK id \in OwnersRows(r) :
           /\ handlers' = [handlers EXCEPT ![h] = Owned("cancel", id)]
           /\ IF Stripe(sub[id].ref)
              THEN /\ Standing(sub[id].ref)
                   /\ gw' = [gw EXCEPT ![sub[id].ref].state = "canceled"]
                   /\ Emit(sub[id].ref, {"canceled"})
              ELSE UNCHANGED <<gw, net>>
           /\ UNCHANGED <<rows, sweep, firstFailure, now, faults>>
    BY DEF OwnerCancel
  <1>2. PICK x \in Work : x = Owned("cancel", id)
    BY <1>1, OwnersRow DEF Owned, Idle, Work, Steps
  <1>3. HandlersMove(x) /\ HandlerSound(x)
    BY <1>1, <1>2, OwnersRow, OneHandlerMoves DEF HandlerSound, Owned, Idle, IInv
  <1>4. PICK ref \in Refs : ref = sub[id].ref /\ gw[ref] # None
    BY OwnersRow
  <1>5. CASE Stripe(ref)
    <2>1. PICK s \in Sessions :
             /\ gw' = [gw EXCEPT ![ref] = s]
             /\ s.state = "canceled" /\ s.restaurant = gw[ref].restaurant
      BY <1>1, <1>4, <1>5, NewState
    <2>2. PICK types : Emit(ref, types) /\ types = {"canceled"}
      BY <1>1, <1>4, <1>5
    <2>3. /\ net' \in SUBSET Events
          /\ \A e \in net' : e \in net \/ (e.ref = ref /\ e.type = "canceled")
      BY <1>5, <2>2, EmittedEvents
    <2>4. QED
      BY <1>1, <1>3, <2>1, <2>3, FailuresTyped, SessionStep
  <1>6. CASE ~Stripe(ref)
    BY <1>1, <1>3, <1>4, <1>6, ReadStep DEF World
  <1>7. QED
    BY <1>5, <1>6

\* The owner changes the package.
LEMMA OwnerChangeKeeps ==
    ASSUME IInv, NEW h \in Handlers, NEW r \in Restaurants, NEW p \in Packages,
           OwnerChange(h, r, p)
    PROVE IInv'
  <1>1. PICK id \in OwnersRows(r) :
           /\ handlers' = [handlers EXCEPT ![h] = [Owned("change", id) EXCEPT !.pkg = p]]
           /\ IF Stripe(sub[id].ref)
              THEN /\ Standing(sub[id].ref)
                   /\ gw' = [gw EXCEPT ![sub[id].ref].billed = p]
                   /\ Emit(sub[id].ref,
                           {IF gw[sub[id].ref].state = "paid" THEN "active"
                                                              ELSE "past_due"})
              ELSE UNCHANGED <<gw, net>>
           /\ UNCHANGED <<rows, sweep, firstFailure, now, faults>>
    BY DEF OwnerChange
  <1>2. PICK x \in Work : x = [Owned("change", id) EXCEPT !.pkg = p]
    BY <1>1, OwnersRow DEF Owned, Idle, Work, Steps
  <1>3. p # None
    BY NoneAssumption
  <1>4. HandlersMove(x) /\ HandlerSound(x)
    BY <1>1, <1>2, <1>3, OwnersRow, OneHandlerMoves DEF HandlerSound, Owned, Idle, IInv
  <1>5. PICK ref \in Refs : ref = sub[id].ref /\ gw[ref] # None
    BY OwnersRow
  <1>6. CASE Stripe(ref)
    <2>1. PICK old \in Sessions : old = gw[ref] /\ SessionSound(old)
      BY <1>5, SessionsAreTyped DEF IInv
    <2>2. PICK s \in Sessions : s = [old EXCEPT !.billed = p]
      BY DEF Sessions
    <2>3. gw' = [gw EXCEPT ![ref] = s]
      BY <1>1, <1>5, <1>6, <2>1, <2>2
    <2>4. s.state = old.state /\ s.restaurant = old.restaurant
      BY <2>2 DEF Sessions
    <2>5. PICK t \in {"active", "past_due"} :
             /\ t = IF old.state = "paid" THEN "active" ELSE "past_due"
             /\ Emit(ref, {t})
      BY <1>1, <1>5, <1>6, <2>1
    <2>6. /\ net' \in SUBSET Events
          /\ \A e \in net' : e \in net \/ (e.ref = ref /\ e.type = t)
      BY <1>6, <2>5, EmittedEvents
    <2>7. old.state \in {"paid", "past_due"}
      BY <1>1, <1>5, <1>6, <2>1 DEF Standing
    <2>8. /\ s.state \in {"past_due", "failed"} => firstFailure'[s.restaurant] # None
          /\ t = "past_due" => firstFailure'[s.restaurant] # None
      BY <1>1, <2>1, <2>4, <2>5, <2>7 DEF SessionSound, HasFailed
    <2>9. \A e \in net' :
             \/ e \in net
             \/ /\ e.ref = ref
                /\ e.type \in {"active", "paid"} => s.state \notin {"open", "failed"}
                /\ e.type \in {"past_due", "failed"} =>
                      firstFailure'[s.restaurant] # None
      BY <2>4, <2>6, <2>7, <2>8
    <2>10. /\ firstFailure' \in [Restaurants -> Nat \cup {None}]
           /\ \A q \in Restaurants :
                 \/ firstFailure'[q] = firstFailure[q]
                 \/ firstFailure[q] = None /\ firstFailure'[q] = now
           /\ UNCHANGED <<rows, sweep, now, faults>>
      BY <1>1, FailuresTyped
    <2>11. /\ s.restaurant = gw[ref].restaurant
           /\ gw[ref].state \notin {"open", "failed"} => s.state \notin {"open", "failed"}
           /\ s.state \in {"past_due", "failed"} => firstFailure'[s.restaurant] # None
           /\ net' \in SUBSET Events
      BY <2>1, <2>4, <2>6, <2>8
    <2>12. QED
      BY <1>4, <2>3, <2>9, <2>10, <2>11, SessionStep
  <1>7. CASE ~Stripe(ref)
    BY <1>1, <1>4, <1>5, <1>7, ReadStep DEF World
  <1>8. QED
    BY <1>6, <1>7

-----------------------------------------------------------------------------
(* The cron, time and faults.                                              *)

\* The end of a period comes near.
LEMMA PeriodNearsEndKeeps ==
    ASSUME IInv, NEW id \in 1..Len(sub), PeriodNearsEnd(id)
    PROVE IInv'
  <1>1. PICK old \in Subscriptions : old = sub[id] /\ RowSound(old)
    BY RowsAreTyped DEF IInv
  <1>2. PICK row \in Subscriptions :
           /\ row = [old EXCEPT !.due = TRUE] /\ sub' = [sub EXCEPT ![id] = row]
    BY <1>1 DEF PeriodNearsEnd, Write, Subscriptions
  <1>3. /\ row.restaurant = sub[id].restaurant /\ row.status = sub[id].status
        /\ RowSound(row)
    BY <1>1, <1>2 DEF RowSound, Subscriptions
  <1>4. row.status = "expired" => FailedBefore(row.restaurant, now)
    BY <1>3 DEF IInv, GateNeedsGrace
  <1>5. QED
    BY <1>2, <1>3, <1>4, IdleIsSound, NoHandlerMoves, RowStep
    DEF PeriodNearsEnd, World, WorldStands

\* The sweep expires only rows it read with a deadline that had passed.
LEMMA SweepOneKeeps ==
    ASSUME IInv, NEW id \in 1..Len(sub), SweepOne(id)
    PROVE IInv'
  <1>1. PICK old \in Subscriptions : old = sub[id] /\ RowSound(old)
    BY RowsAreTyped DEF IInv
  <1>2. PICK row \in Subscriptions :
           row = [old EXCEPT !.status = "expired"] /\ sub' = [sub EXCEPT ![id] = row]
    BY <1>1 DEF SweepOne, Write, Subscriptions
  <1>3. row.restaurant = sub[id].restaurant /\ RowSound(row)
    BY <1>1, <1>2 DEF RowSound, Subscriptions
  <1>4. FailedBefore(row.restaurant, now)
    BY <1>3 DEF IInv, SweepOne
  <1>5. sweep' \subseteq sweep
    BY DEF SweepOne
  <1>6. QED
    BY <1>2, <1>3, <1>4, <1>5, IdleIsSound, NoHandlerMoves, RowStep
    DEF SweepOne, WorldStands

\* The sweep lists rows whose deadline has passed.
LEMMA SweepFindKeeps ==
    ASSUME IInv, SweepFind
    PROVE IInv'
  <1>0. TypeOK /\ now \in Nat /\ Len(sub) \in Nat
    BY LenProperties, NumbersAssumption DEF IInv, TypeOK
  <1>1. TypeOK'
    BY <1>0 DEF SweepFind, TypeOK, rows
  <1>2. Grows
    BY <1>0 DEF SweepFind, Grows, rows, TypeOK
  <1>3. \A id \in sweep' : FailedBefore(sub[id].restaurant, now)
    <2> SUFFICES ASSUME NEW id \in 1..Len(sub), Elapsed(id)
                 PROVE FailedBefore(sub[id].restaurant, now)
      BY DEF SweepFind
    <2>1. sub[id].graceUntil \in Nat /\ sub[id].graceUntil < now
      BY <1>0, RowsAreTyped DEF Elapsed
    <2>2. FailedBefore(sub[id].restaurant, sub[id].graceUntil + 1)
      BY <2>1, NoneAssumption DEF Elapsed, IInv, RowSound
    <2>3. /\ firstFailure[sub[id].restaurant] \in Nat
          /\ sub[id].restaurant \in Restaurants
      BY <1>0, <2>2, RowsAreTyped DEF FailedBefore, TypeOK
    <2>4. QED
      BY <1>0, <2>1, <2>2, <2>3, NumbersAssumption DEF FailedBefore
  <1>4. StepIsSound
    BY <1>3 DEF StepIsSound, SweepFind, rows, FailedBefore, IInv, HasFailed
  <1>5. QED
    BY <1>1, <1>2, <1>4, KeptByGrowth

\* Time passes.
LEMMA TickKeeps ==
    ASSUME IInv, Tick
    PROVE IInv'
  <1>0. TypeOK /\ now \in Nat /\ Len(sub) \in Nat
    BY LenProperties, NumbersAssumption DEF IInv, TypeOK
  <1>1. TypeOK'
    BY <1>0, NumbersAssumption DEF Tick, TypeOK, rows
  <1>2. Grows
    BY <1>0 DEF Tick, Grows, rows, TypeOK
  <1>3. \A r \in Restaurants : (HasFailed(r) => firstFailure[r] <= now)'
    BY <1>0 DEF Tick, IInv, HasFailed, TypeOK
  <1>4. StepIsSound
    BY <1>3 DEF StepIsSound, Tick, rows
  <1>5. QED
    BY <1>1, <1>2, <1>4, KeptByGrowth

\* A database call throws: the slot is emptied.
LEMMA AbortKeeps ==
    ASSUME IInv, NEW h \in Handlers, Abort(h)
    PROVE IInv'
  <1>1. HandlersMove(Idle) /\ net' \subseteq net
    BY IdleIsSound, ContinueMoves DEF Abort, IInv
  <1>2. faults' \in 0..MaxFaults
    BY NumbersAssumption DEF Abort, IInv, TypeOK
  <1>3. QED
    BY <1>1, <1>2, IdleIsSound, HandlerStep DEF Abort, rows, WorldStands, IInv, TypeOK

\* The process dies: all slots are emptied.
LEMMA CrashKeeps ==
    ASSUME IInv, Crash
    PROVE IInv'
  <1>0. TypeOK /\ now \in Nat /\ Len(sub) \in Nat
    BY LenProperties, NumbersAssumption DEF IInv, TypeOK
  <1>1. TypeOK'
    BY <1>0, IdleIsSound, NumbersAssumption DEF Crash, TypeOK, rows
  <1>2. Grows
    BY <1>0 DEF Crash, Grows, rows, TypeOK
  <1>3. \A h \in Handlers : HandlerSound(handlers[h])'
    BY DEF Crash, HandlerSound, Idle
  <1>4. StepIsSound
    BY <1>3 DEF StepIsSound, Crash, rows, IInv, HasFailed
  <1>5. QED
    BY <1>1, <1>2, <1>4, KeptByGrowth

-----------------------------------------------------------------------------
(* The theorems.                                                           *)

\* The empty tables satisfy the invariant.
LEMMA InvariantInitially == Init => IInv
  <1> SUFFICES ASSUME Init PROVE IInv
    OBVIOUS
  <1>1. sub \in Seq(Subscriptions) /\ Len(sub) = 0
    BY EmptySeq DEF Init
  <1>2. TypeOK
    BY <1>1, IdleIsSound, NumbersAssumption DEF Init, TypeOK
  <1>3. QED
    BY <1>1, <1>2, IdleIsSound DEF Init, IInv, BackedByOwnPayment, GateNeedsGrace

\* Every step keeps the invariant.
LEMMA InvariantPreserved == IInv /\ [Next]_vars => IInv'
  <1> SUFFICES ASSUME IInv, [Next]_vars PROVE IInv'
    OBVIOUS
  <1>1. CASE Gateway
    BY <1>1, CheckoutKeeps, RenewOrderKeeps, PayKeeps, DeclineKeeps, StripeEndsKeeps
    DEF Gateway
  <1>2. CASE \E h \in Handlers, e \in Events : Deliver(h, e)
    BY <1>2, DeliverKeeps
  <1>3. CASE \E h \in Handlers : Step(h)
    BY <1>3, StepKeeps
  <1>4. CASE \E h \in Handlers : Owner(h)
    BY <1>4, OwnerCancelKeeps, OwnerChangeKeeps DEF Owner
  <1>5. CASE \E h \in Handlers : Abort(h)
    BY <1>5, AbortKeeps
  <1>6. CASE \E id \in 1..Len(sub) : PeriodNearsEnd(id) \/ SweepOne(id)
    BY <1>6, PeriodNearsEndKeeps, SweepOneKeeps
  <1>7. CASE SweepFind
    BY <1>7, SweepFindKeeps
  <1>8. CASE Tick
    BY <1>8, TickKeeps
  <1>9. CASE Crash
    BY <1>9, CrashKeeps
  <1>10. CASE UNCHANGED vars
    <2>1. WorldStands /\ HandlersMove(Idle) /\ UNCHANGED <<rows, World>>
      BY <1>10, NoHandlerMoves DEF vars, rows, World, WorldStands
    <2>2. QED
      BY <2>1, IdleIsSound, ReadStep DEF WorldStands
  <1>11. QED
    BY <1>1, <1>2, <1>3, <1>4, <1>5, <1>6, <1>7, <1>8, <1>9, <1>10 DEF Next

\* The strengthening holds in every reachable state: what rows, sessions,
\* events and half-done handlers know of each other stays true at each await.
THEOREM InvariantHolds == Spec => []IInv
  BY InvariantInitially, InvariantPreserved, PTL DEF Spec

\* Every table and every handler's local state keep their types.
THEOREM TypesHold == Spec => []TypeOK
  <1>1. IInv => TypeOK
    BY DEF IInv
  <1>2. QED
    BY <1>1, InvariantHolds, PTL

\* For any number of restaurants, references and concurrent webhooks, every
\* row stands on a paid checkout of its own restaurant, and so does every charge.
THEOREM PaymentsAreOwn == Spec => []BackedByOwnPayment
  <1>1. IInv => BackedByOwnPayment
    BY DEF IInv
  <1>2. QED
    BY <1>1, InvariantHolds, PTL

\* No restaurant is gated before a payment of it failed and a whole grace
\* period passed, for any grace period and any overlap of sweep and webhooks.
THEOREM GateAfterGrace == Spec => []GateNeedsGrace
  <1>1. IInv => GateNeedsGrace
    BY DEF IInv
  <1>2. QED
    BY <1>1, InvariantHolds, PTL

-----------------------------------------------------------------------------
(* Counting rows and redemptions.  Most steps are quiet: they add no row,  *)
(* redeem nothing and bring no handler nearer to either.  Four are not,    *)
(* and each of them moves one handler from one count to the next.          *)

Counting(w) == \/ w.pc \in {"redeem", "redeemCommit"}
               \/ w.pc = "activate" /\ w.id = 0

OwnersStand == \A ref \in Refs : gw[ref] # None => gw'[ref].restaurant = gw[ref].restaurant

RowsStand == /\ Len(sub') = Len(sub)
             /\ \A id \in 1..Len(sub) : sub'[id].restaurant = sub[id].restaurant

Quiet == /\ OwnersStand /\ RowsStand
         /\ UNCHANGED <<timesRedeemed, redemptions>>
         /\ \A h \in Handlers : handlers'[h] = handlers[h] \/ ~Counting(handlers[h])'

\* The counts are of finite sets.
LEMMA CountsAreNumbers ==
    ASSUME IInv
    PROVE /\ Cardinality(Handlers) \in Nat \ {0}
          /\ \A S \in SUBSET Handlers : /\ IsFiniteSet(S) /\ Cardinality(S) \in Nat
                                        /\ Cardinality(S) <= Cardinality(Handlers)
          /\ \A r \in Restaurants : /\ IsFiniteSet(RowsOf(r)) /\ Cardinality(RowsOf(r)) \in Nat
                                    /\ redemptions[r] \in Nat
          /\ timesRedeemed \in Nat /\ MaxRedemptions \in Nat
  <1>1. Len(sub) \in Nat
    BY LenProperties DEF IInv, TypeOK
  <1>2. IsFiniteSet(1..Len(sub))
    BY <1>1, FS_Interval
  <1>3. \A r \in Restaurants : IsFiniteSet(RowsOf(r)) /\ Cardinality(RowsOf(r)) \in Nat
    BY <1>2, FS_Subset, FS_CardinalityType DEF RowsOf
  <1>4. \A S \in SUBSET Handlers : /\ IsFiniteSet(S) /\ Cardinality(S) \in Nat
                                   /\ Cardinality(S) <= Cardinality(Handlers)
    BY HandlersAssumption, FS_Subset, FS_CardinalityType
  <1>5. Cardinality(Handlers) \in Nat \ {0}
    BY HandlersAssumption, FS_CardinalityType, FS_EmptySet
  <1>6. QED
    BY <1>3, <1>4, <1>5, NumbersAssumption DEF IInv, TypeOK

\* A handler that counts is working on an event of a known owner.
LEMMA CountingHasOwner ==
    ASSUME IInv, NEW h \in Handlers,
           handlers[h].pc \in {"activate", "redeem", "redeemCommit"}
    PROVE /\ handlers[h].event.ref \in Refs /\ gw[handlers[h].event.ref] # None
          /\ Redeemer(h) \in Restaurants
  <1>1. PICK ref : ref = handlers[h].event.ref
    OBVIOUS
  <1>2. ref \in Refs /\ gw[ref] # None
    BY <1>1, HandlerFacts DEF HandlerSound, EventSound
  <1>3. QED
    BY <1>1, <1>2, SessionsAreTyped DEF Redeemer, IInv

\* It keeps its owner as long as it keeps its event.
LEMMA OwnerStays ==
    ASSUME IInv, OwnersStand, NEW h \in Handlers,
           handlers[h].pc \in {"activate", "redeem", "redeemCommit"},
           handlers'[h].event = handlers[h].event
    PROVE Redeemer(h)' = Redeemer(h)
  BY CountingHasOwner DEF Redeemer, OwnersStand

\* A quiet step keeps the rows of each restaurant and adds to no count.
LEMMA QuietSets ==
    ASSUME IInv, Quiet, NEW r \in Restaurants
    PROVE /\ RowsOf(r)' = RowsOf(r)
          /\ Creators(r)' \subseteq Creators(r)
          /\ Redeemers(r)' \subseteq Redeemers(r)
          /\ Spenders' \subseteq Spenders
  <1>1. RowsOf(r)' = RowsOf(r)
    BY DEF RowsOf, Quiet, RowsStand
  <1>2. \A h \in Handlers : Counting(handlers[h])' => handlers'[h] = handlers[h]
    BY DEF Quiet
  <1>3. OwnersStand
    BY DEF Quiet
  <1>4. Creators(r)' \subseteq Creators(r)
    BY <1>2, <1>3, OwnerStays DEF Creators, Counting, At
  <1>5. Redeemers(r)' \subseteq Redeemers(r)
    BY <1>2, <1>3, OwnerStays DEF Redeemers, Counting
  <1>6. Spenders' \subseteq Spenders
    BY <1>2 DEF Spenders, Counting, At
  <1>7. QED
    BY <1>1, <1>4, <1>5, <1>6

\* Numbers that are compared one by one.
LEMMA Subsets ==
    ASSUME IInv, NEW S \in SUBSET Handlers, NEW T \in SUBSET S
    PROVE /\ Cardinality(S) \in Nat /\ Cardinality(T) \in Nat
          /\ Cardinality(T) <= Cardinality(S)
  BY CountsAreNumbers, FS_Subset

\* A set that lost a handler is smaller by one.
LEMMA OneFewer ==
    ASSUME IInv, NEW S \in SUBSET Handlers, NEW h \in S, NEW T \in SUBSET (S \ {h})
    PROVE /\ Cardinality(S) \in Nat /\ Cardinality(T) \in Nat
          /\ Cardinality(T) + 1 <= Cardinality(S)
  <1>1. /\ IsFiniteSet(S) /\ Cardinality(S) \in Nat
        /\ Cardinality(S \ {h}) \in Nat /\ Cardinality(T) \in Nat
    BY CountsAreNumbers
  <1>2. Cardinality(S \ {h}) = Cardinality(S) - 1
    BY <1>1, FS_RemoveElement
  <1>3. Cardinality(T) <= Cardinality(S \ {h})
    BY Subsets
  <1>4. QED
    BY <1>1, <1>2, <1>3

\* A set that gained a handler is larger by at most one.
LEMMA OneMore ==
    ASSUME IInv, NEW S \in SUBSET Handlers, NEW h \in Handlers, NEW T \in SUBSET (S \cup {h})
    PROVE /\ Cardinality(S) \in Nat /\ Cardinality(T) \in Nat
          /\ Cardinality(T) <= Cardinality(S) + 1
  <1>1. /\ IsFiniteSet(S) /\ Cardinality(S) \in Nat
        /\ Cardinality(S \cup {h}) \in Nat /\ Cardinality(T) \in Nat
    BY CountsAreNumbers
  <1>2. Cardinality(S \cup {h}) <= Cardinality(S) + 1
    <2>1. CASE h \in S
      <3>1. S \cup {h} = S
        BY <2>1
      <3>2. QED
        BY <1>1, <3>1
    <2>2. CASE h \notin S
      <3>1. Cardinality(S \cup {h}) = Cardinality(S) + 1
        BY <1>1, <2>2, FS_AddElement
      <3>2. QED
        BY <1>1, <3>1
    <2>3. QED
      BY <2>1, <2>2
  <1>3. Cardinality(T) <= Cardinality(S \cup {h})
    BY Subsets
  <1>4. QED
    BY <1>1, <1>2, <1>3

\* The counted handlers are slots.
LEMMA CountsAreSlots ==
    /\ \A r : Creators(r) \subseteq Handlers /\ Redeemers(r) \subseteq Handlers
    /\ \A r : (Creators(r) \subseteq Handlers /\ Redeemers(r) \subseteq Handlers)'
    /\ Spenders \subseteq Handlers /\ (Spenders \subseteq Handlers)'
  BY DEF Creators, Redeemers, Spenders

\* A restaurant that gains no row and no creator keeps its bound.
LEMMA RowsStayCounted ==
    ASSUME IInv, NEW r \in Restaurants, RowsCounted(r), RowsOf(r)' = RowsOf(r),
           Creators(r)' \subseteq Creators(r)
    PROVE RowsCounted(r)'
  <1>1. PICK C \in SUBSET Handlers : Creators(r) = C
    BY CountsAreSlots
  <1>2. PICK D \in SUBSET C : Creators(r)' = D
    BY <1>1
  <1>3. PICK n \in Nat : Cardinality(RowsOf(r)) = n /\ Cardinality(RowsOf(r)') = n
    BY CountsAreNumbers
  <1>4. n + Cardinality(C) <= Cardinality(Handlers)
    BY <1>1, <1>3 DEF RowsCounted
  <1>5. n + Cardinality(D) <= Cardinality(Handlers)
    BY <1>4, Subsets, CountsAreNumbers
  <1>6. QED
    BY <1>2, <1>3, <1>5 DEF RowsCounted

\* One that redeems nothing and gains no redeemer keeps its bound.
LEMMA RedemptionsStayCounted ==
    ASSUME IInv, NEW r \in Restaurants, RedemptionsCounted(r), RowsOf(r)' = RowsOf(r),
           redemptions'[r] = redemptions[r], Redeemers(r)' \subseteq Redeemers(r)
    PROVE RedemptionsCounted(r)'
  <1>1. PICK C \in SUBSET Handlers : Redeemers(r) = C
    BY CountsAreSlots
  <1>2. PICK D \in SUBSET C : Redeemers(r)' = D
    BY <1>1
  <1>3. PICK n \in Nat : Cardinality(RowsOf(r)) = n /\ Cardinality(RowsOf(r)') = n
    BY CountsAreNumbers
  <1>4. redemptions[r] + Cardinality(C) <= n
    BY <1>1, <1>3 DEF RedemptionsCounted
  <1>5. redemptions[r] + Cardinality(D) <= n
    BY <1>4, Subsets, CountsAreNumbers
  <1>6. QED
    BY <1>2, <1>3, <1>5 DEF RedemptionsCounted

\* The code's own count stays bounded while nobody comes to spend it.
LEMMA SpendingStaysCounted ==
    ASSUME IInv, SpendingCounted, UNCHANGED timesRedeemed, Spenders' \subseteq Spenders
    PROVE SpendingCounted'
  <1>1. PICK C \in SUBSET Handlers : Spenders = C
    BY CountsAreSlots
  <1>2. PICK D \in SUBSET C : Spenders' = D
    BY <1>1
  <1>3. timesRedeemed + Cardinality(C) <= MaxRedemptions + Cardinality(Handlers) - 1
    BY <1>1 DEF SpendingCounted
  <1>4. timesRedeemed + Cardinality(D) <= MaxRedemptions + Cardinality(Handlers) - 1
    BY <1>3, Subsets, CountsAreNumbers
  <1>5. QED
    BY <1>2, <1>4 DEF SpendingCounted

\* A quiet step keeps every count.
LEMMA QuietKeepsCounts ==
    ASSUME IInv, Counted, Quiet
    PROVE Counted'
  <1>1. ASSUME NEW r \in Restaurants
        PROVE (RowsCounted(r) /\ RedemptionsCounted(r))'
    BY QuietSets, RowsStayCounted, RedemptionsStayCounted DEF Counted, Quiet
  <1>2. Spenders' \subseteq Spenders
    BY CountsAreSlots DEF Quiet, Counting, At, Spenders
  <1>3. SpendingCounted'
    BY <1>2, SpendingStaysCounted DEF Counted, Quiet
  <1>4. QED
    BY <1>1, <1>3 DEF Counted

-----------------------------------------------------------------------------
(* The quiet steps.                                                        *)

\* One slot goes on to a step that is not counted.
LEMMA OneSlotQuiet ==
    ASSUME IInv, OwnersStand, RowsStand, UNCHANGED <<timesRedeemed, redemptions>>,
           NEW h \in Handlers, NEW x, ~Counting(x), handlers' = [handlers EXCEPT ![h] = x]
    PROVE Quiet
  <1>1. \A k \in Handlers : handlers'[k] = handlers[k] \/ handlers'[k] = x
    BY DEF IInv, TypeOK
  <1>2. QED
    BY <1>1 DEF Quiet, Counting

\* No slot moves.
LEMMA NoSlotQuiet ==
    ASSUME OwnersStand, RowsStand, UNCHANGED <<timesRedeemed, redemptions, handlers>>
    PROVE Quiet
  BY DEF Quiet

\* What does not change the rows or the sessions leaves them standing.
LEMMA UnchangedStands ==
    /\ UNCHANGED gw => OwnersStand
    /\ UNCHANGED sub => RowsStand
  BY DEF OwnersStand, RowsStand

\* A written row stays its restaurant's.
LEMMA WriteStands ==
    ASSUME TypeOK, NEW id \in 1..Len(sub), NEW row, Write(id, row),
           row.restaurant = sub[id].restaurant
    PROVE RowsStand
  <1>1. /\ Len(sub') = Len(sub)
        /\ \A k \in 1..Len(sub) : sub'[k] = IF k = id THEN row ELSE sub[k]
    BY DEF Write, TypeOK
  <1>2. QED
    BY <1>1 DEF RowsStand

\* An empty slot, or one that writes a charge, is not counted.
LEMMA NotCounting ==
    ASSUME NEW w \in Work
    PROVE /\ ~Counting(Idle)
          /\ w.pc \notin {"activate", "redeem", "redeemCommit"} => ~Counting(w)
  BY DEF Counting, Idle

\* The end of an event is quiet.
LEMMA FinishQuiet ==
    ASSUME IInv, OwnersStand, RowsStand, UNCHANGED <<timesRedeemed, redemptions>>,
           NEW h \in Handlers, Finish(h)
    PROVE Quiet
  BY OneSlotQuiet, NotCounting, IdleIsSound DEF Finish

\* So is going on to the charge.
LEMMA ThenChargeSlot ==
    ASSUME NEW h \in Handlers, NEW id \in Nat, IInv, ThenCharge(h, id)
    PROVE \E x \in Work : ~Counting(x) /\ handlers' = [handlers EXCEPT ![h] = x]
  <1>1. CASE Finish(h)
    BY <1>1, IdleIsSound, NotCounting DEF Finish
  <1>2. CASE Continue(h, Charging(h, id))
    <2>1. PICK x : x = Charging(h, id)
      OBVIOUS
    <2>2. x \in Work /\ x.pc = "charge"
      BY <2>1, HandlerFacts DEF Charging, Work, Steps
    <2>3. QED
      BY <1>2, <2>1, <2>2, NotCounting DEF Continue
  <1>3. QED
    BY <1>1, <1>2 DEF ThenCharge, Charging

\* So is taking up an event for any step but activation.
LEMMA ReceivedQuiet ==
    ASSUME IInv, UNCHANGED <<gw, sub, timesRedeemed, redemptions>>,
           NEW h \in Handlers, NEW x, handlers' = [handlers EXCEPT ![h] = x],
           x.pc \notin {"activate", "redeem", "redeemCommit"}
    PROVE Quiet
  BY OneSlotQuiet, UnchangedStands DEF Counting

\* Webhooks that do not activate are quiet.
LEMMA OtherEventsQuiet ==
    ASSUME IInv, NEW h \in Handlers, NEW e \in Events,
           PaidLoad(h, e) \/ RecordFailed(h, e) \/ PastDueEvent(h, e)
           \/ CanceledEvent(h, e) \/ Ignore(h, e)
    PROVE Quiet
  <1>1. ASSUME NEW pc \in {"charge", "failed", "cancel"}, NEW id,
               Continue(h, Received(pc, e, id)),
               UNCHANGED <<gw, sub, timesRedeemed, redemptions>>
        PROVE Quiet
    <2>1. Received(pc, e, id).pc \notin {"activate", "redeem", "redeemCommit"}
      BY DEF Received, Idle
    <2>2. QED
      BY <1>1, <2>1, ReceivedQuiet DEF Continue
  <1>2. CASE PaidLoad(h, e)
    BY <1>1, <1>2 DEF PaidLoad, rows, World
  <1>3. CASE RecordFailed(h, e)
    BY <1>1, <1>3 DEF RecordFailed, World
  <1>4. CASE CanceledEvent(h, e)
    BY <1>1, <1>4 DEF CanceledEvent, rows, World
  <1>5. CASE PastDueEvent(h, e)
    <2>1. PICK id, grace :
             Continue(h, [Received("pastDue", e, id) EXCEPT !.grace = grace])
      BY <1>5 DEF PastDueEvent, PastDueLoad
    <2>2. [Received("pastDue", e, id) EXCEPT !.grace = grace].pc = "pastDue"
      BY DEF Received, Idle
    <2>3. QED
      BY <1>5, <2>1, <2>2, ReceivedQuiet DEF Continue, PastDueEvent, rows, World
  <1>6. CASE Ignore(h, e)
    BY <1>6, NoSlotQuiet, UnchangedStands DEF Ignore, rows, World
  <1>7. QED
    BY <1>2, <1>3, <1>4, <1>5, <1>6

\* Reads and ends of a failed payment, and the charge, are quiet.
LEMMA FailedQuiet ==
    ASSUME IInv, NEW h \in Handlers,
           FailedLoad(h) \/ FailedNoRow(h) \/ FailedPastDue(h) \/ FailedStop(h)
           \/ RecordPaid(h)
    PROVE Quiet
  <1>1. CASE FailedLoad(h)
    <2>1. PICK ref : Continue(h, [handlers[h] EXCEPT !.pc = "markPastDue", !.ref = ref])
      BY <1>1 DEF FailedLoad
    <2>2. [handlers[h] EXCEPT !.pc = "markPastDue", !.ref = ref].pc = "markPastDue"
      BY HandlerFacts DEF Work
    <2>3. QED
      BY <1>1, <2>1, <2>2, ReceivedQuiet DEF Continue, FailedLoad, rows, World
  <1>2. CASE FailedPastDue(h)
    <2>1. PICK id, grace :
             Continue(h, [Received("pastDue", handlers[h].event, id) EXCEPT !.grace = grace])
      BY <1>2 DEF FailedPastDue, PastDueLoad
    <2>2. [Received("pastDue", handlers[h].event, id) EXCEPT !.grace = grace].pc = "pastDue"
      BY DEF Received, Idle
    <2>3. QED
      BY <1>2, <2>1, <2>2, ReceivedQuiet DEF Continue, FailedPastDue, rows, World
  <1>3. CASE FailedNoRow(h) \/ FailedStop(h) \/ RecordPaid(h)
    BY <1>3, FinishQuiet, UnchangedStands
    DEF FailedNoRow, FailedStop, RecordPaid, rows, World
  <1>4. QED
    BY <1>1, <1>2, <1>3

\* Writes of a row that is there are quiet.
LEMMA CommitsQuiet ==
    ASSUME IInv, NEW h \in Handlers,
           PastDueCommit(h) \/ CancelCommit(h) \/ ChangeCommit(h)
    PROVE Quiet
  <1>1. PICK id : id = handlers[h].id
    OBVIOUS
  <1>2. TypeOK /\ id \in 1..Len(sub)
    BY <1>1, HandlerFacts DEF IInv, HandlerSound, At, PastDueCommit, CancelCommit, ChangeCommit
  <1>3. PICK row \in Subscriptions : row = sub[id]
    BY <1>2, RowsAreTyped
  <1>4. \E new : new.restaurant = row.restaurant /\ Write(id, new)
    BY <1>1, <1>3 DEF PastDueCommit, CancelCommit, ChangeCommit, Subscriptions
  <1>5. RowsStand
    BY <1>2, <1>3, <1>4, WriteStands
  <1>6. Finish(h) /\ UNCHANGED <<timesRedeemed, redemptions, gw>>
    BY DEF PastDueCommit, CancelCommit, ChangeCommit, World
  <1>7. QED
    BY <1>5, <1>6, FinishQuiet, UnchangedStands

\* An activation that found a row, and a code that is not redeemed, are quiet.
LEMMA ActivationQuiet ==
    ASSUME IInv, NEW h \in Handlers, ActivateUpdate(h) \/ RedeemSkip(h)
    PROVE Quiet
  <1>1. PICK id \in Nat : handlers[h].id = id
    BY HandlerFacts
  <1>2. ThenCharge(h, id) /\ UNCHANGED <<timesRedeemed, redemptions, gw>>
    BY <1>1 DEF ActivateUpdate, RedeemSkip, rows, World
  <1>3. RowsStand
    <2>1. CASE RedeemSkip(h)
      BY <2>1, UnchangedStands DEF RedeemSkip, rows
    <2>2. CASE ActivateUpdate(h)
      <3>1. TypeOK /\ id \in 1..Len(sub)
        BY <1>1, <2>2, HandlerFacts DEF IInv, HandlerSound, At, ActivateUpdate
      <3>2. PICK ref : ref = handlers[h].event.ref
        OBVIOUS
      <3>3. Write(id, Activated(sub[id].restaurant, ref))
        BY <1>1, <2>2, <3>2 DEF ActivateUpdate
      <3>4. Activated(sub[id].restaurant, ref).restaurant = sub[id].restaurant
        BY DEF Activated
      <3>5. QED
        BY <3>1, <3>3, <3>4, WriteStands
    <2>3. QED
      BY <2>1, <2>2
  <1>4. PICK x \in Work : ~Counting(x) /\ handlers' = [handlers EXCEPT ![h] = x]
    BY <1>2, ThenChargeSlot
  <1>5. QED
    BY <1>2, <1>3, <1>4, OneSlotQuiet, UnchangedStands

\* A session's state or package may change, never its owner.
LEMMA SessionChanges ==
    ASSUME IInv, NEW ref \in Refs, gw[ref] # None, NEW s,
           s.restaurant = gw[ref].restaurant, gw' = [gw EXCEPT ![ref] = s]
    PROVE OwnersStand
  BY DEF OwnersStand, IInv, TypeOK

\* A checkout takes a reference nobody holds.
LEMMA SessionOpens ==
    ASSUME IInv, NEW ref \in Refs, gw[ref] = None, NEW s, gw' = [gw EXCEPT ![ref] = s]
    PROVE OwnersStand
  BY DEF OwnersStand, IInv, TypeOK

\* What the gateways do is quiet.
LEMMA GatewayQuiet ==
    ASSUME IInv, Gateway
    PROVE Quiet
  <1>1. ASSUME NEW r, NEW p, NEW promo, NEW ref \in Refs, Checkout(r, p, promo, ref)
        PROVE Quiet
    BY <1>1, SessionOpens, NoSlotQuiet, UnchangedStands DEF Checkout, rows
  <1>2. ASSUME NEW id, NEW ref \in Refs, RenewOrder(id, ref)
        PROVE Quiet
    BY <1>2, SessionOpens, NoSlotQuiet, UnchangedStands DEF RenewOrder, rows
  <1>3. ASSUME NEW ref \in Refs, Pay(ref) \/ Decline(ref) \/ StripeEnds(ref)
        PROVE Quiet
    <2>1. gw[ref] # None /\ gw[ref] \in Sessions
      BY <1>3, SessionsAreTyped DEF Pay, Decline, StripeEnds, IInv
    <2>2. PICK s \in Sessions : gw[ref] = s
      BY <2>1
    <2>3. \E new : new.restaurant = s.restaurant /\ gw' = [gw EXCEPT ![ref] = new]
      <3>1. CASE UNCHANGED gw
        BY <2>2, <3>1 DEF IInv, TypeOK
      <3>2. CASE \E st : gw' = [gw EXCEPT ![ref].state = st]
        <4>1. PICK st : gw' = [gw EXCEPT ![ref].state = st]
          BY <3>2
        <4>2. gw' = [gw EXCEPT ![ref] = [s EXCEPT !.state = st]]
          BY <2>2, <4>1
        <4>3. [s EXCEPT !.state = st].restaurant = s.restaurant
          BY DEF Sessions
        <4>4. QED
          BY <4>2, <4>3
      <3>3. QED
        BY <1>3, <3>1, <3>2 DEF Pay, Decline, StripeEnds
    <2>4. OwnersStand
      BY <2>1, <2>2, <2>3, SessionChanges
    <2>5. QED
      BY <1>3, <2>4, NoSlotQuiet, UnchangedStands DEF Pay, Decline, StripeEnds, rows
  <1>4. QED
    BY <1>1, <1>2, <1>3 DEF Gateway

\* The owner's requests are quiet.
LEMMA OwnerQuiet ==
    ASSUME IInv, NEW h \in Handlers, Owner(h)
    PROVE Quiet
  <1>1. PICK r \in Restaurants : OwnerCancel(h, r) \/ \E p \in Packages : OwnerChange(h, r, p)
    BY DEF Owner
  <1>2. PICK id \in OwnersRows(r) :
           /\ \/ handlers' = [handlers EXCEPT ![h] = Owned("cancel", id)]
              \/ \E p \in Packages :
                   handlers' = [handlers EXCEPT ![h] = [Owned("change", id) EXCEPT !.pkg = p]]
           /\ \/ UNCHANGED gw
              \/ /\ Standing(sub[id].ref)
                 /\ \/ gw' = [gw EXCEPT ![sub[id].ref].state = "canceled"]
                    \/ \E p \in Packages : gw' = [gw EXCEPT ![sub[id].ref].billed = p]
           /\ UNCHANGED rows
    BY <1>1 DEF OwnerCancel, OwnerChange
  <1>3. id \in 1..Len(sub) /\ TypeOK
    BY DEF OwnersRows, CurrentForRestaurant, RowsOf, IInv
  <1>4. OwnersStand
    <2>1. PICK ref \in Refs : ref = sub[id].ref
      BY <1>3, RowsAreTyped
    <2>2. gw[ref] # None
      BY <1>3, <2>1 DEF IInv, RowSound, Backed
    <2>3. PICK s \in Sessions : gw[ref] = s
      BY <1>3, <2>2, SessionsAreTyped
    <2>4. UNCHANGED gw
          \/ \E new : new.restaurant = s.restaurant /\ gw' = [gw EXCEPT ![ref] = new]
      BY <1>2, <2>1, <2>3 DEF Sessions
    <2>5. QED
      BY <2>2, <2>3, <2>4, SessionChanges, UnchangedStands
  <1>5. PICK x : /\ handlers' = [handlers EXCEPT ![h] = x]
                 /\ x.pc \in {"cancel", "change"}
    <2>1. Owned("cancel", id).pc = "cancel"
      BY DEF Owned, Idle
    <2>2. \A p : [Owned("change", id) EXCEPT !.pkg = p].pc = "change"
      BY DEF Owned, Idle
    <2>3. QED
      BY <1>2, <2>1, <2>2
  <1>6. ~Counting(x)
    BY <1>5 DEF Counting
  <1>7. QED
    BY <1>2, <1>4, <1>5, <1>6, OneSlotQuiet, UnchangedStands DEF rows

\* So are the crons, time, failed calls and restarts.
LEMMA RestQuiet ==
    ASSUME IInv,
           \/ \E id \in 1..Len(sub) : PeriodNearsEnd(id) \/ SweepOne(id)
           \/ SweepFind \/ Tick \/ Crash
           \/ \E h \in Handlers : Abort(h)
    PROVE Quiet
  <1>1. ASSUME NEW id \in 1..Len(sub), PeriodNearsEnd(id) \/ SweepOne(id)
        PROVE Quiet
    <2>1. PICK row \in Subscriptions : row = sub[id]
      BY RowsAreTyped DEF IInv
    <2>2. \E new : new.restaurant = row.restaurant /\ Write(id, new)
      BY <1>1, <2>1 DEF PeriodNearsEnd, SweepOne, Subscriptions
    <2>3. RowsStand
      BY <2>1, <2>2, WriteStands DEF IInv
    <2>4. QED
      BY <1>1, <2>3, NoSlotQuiet, UnchangedStands DEF PeriodNearsEnd, SweepOne, World
  <1>2. CASE SweepFind \/ Tick
    BY <1>2, NoSlotQuiet, UnchangedStands DEF SweepFind, Tick, rows
  <1>3. CASE Crash
    <2>1. \A h \in Handlers : handlers'[h] = Idle
      BY <1>3 DEF Crash
    <2>2. QED
      BY <1>3, <2>1, UnchangedStands, NotCounting, IdleIsSound
      DEF Quiet, Crash, rows, Counting
  <1>4. ASSUME NEW h \in Handlers, Abort(h)
        PROVE Quiet
    BY <1>4, OneSlotQuiet, UnchangedStands, NotCounting, IdleIsSound
    DEF Abort, Continue, rows
  <1>5. QED
    BY <1>1, <1>2, <1>3, <1>4

-----------------------------------------------------------------------------
(* The steps that count.                                                   *)

\* A restaurant with rows has a current one.
LEMMA CurrentExists ==
    ASSUME IInv, NEW r, RowsOf(r) # {}
    PROVE CurrentForRestaurant(r) # {}
  <1> DEFINE mine == RowsOf(r)
  <1>1. PICK n \in Nat : n = Len(sub)
    BY LenProperties DEF IInv, TypeOK
  <1>2. mine \subseteq 1..n
    BY <1>1 DEF RowsOf
  <1> DEFINE below == {i \in Nat : n - i \in mine}
  <1>3. below # {}
    <2>1. PICK k \in mine : TRUE
      OBVIOUS
    <2>2. PICK i : i = n - k
      OBVIOUS
    <2>3. i \in Nat /\ n - i = k
      BY <1>1, <1>2, <2>1, <2>2
    <2>4. QED
      BY <2>1, <2>3
  <1>4. PICK R : R = OpToRel(<, Nat)
    BY Zenon
  <1>5. R = {ss \in Nat \X Nat : ss[1] < ss[2]}
    BY Zenon, <1>4 DEF OpToRel
  <1>6. IsWellFoundedOn(R, Nat)
    BY Zenon, <1>4, NatLessThanWellFounded
  <1>7. PICK i \in below : \A j \in below : <<j, i>> \notin R
    BY <1>3, <1>6, WFMin
  <1>8. \A j \in below : ~(j < i)
    BY <1>5, <1>7
  <1>9. \A k \in mine : k <= n - i
    <2> SUFFICES ASSUME NEW k \in mine
                 PROVE k <= n - i
      OBVIOUS
    <2>1. PICK j : j = n - k
      OBVIOUS
    <2>2. j \in Nat /\ n - j = k
      BY <1>1, <1>2, <2>1
    <2>3. j \in below
      BY <2>2
    <2>4. QED
      BY <1>1, <1>2, <1>8, <2>2, <2>3
  <1>10. QED
    BY <1>7, <1>9 DEF CurrentForRestaurant

\* Only the slot that moves can enter a count.
LEMMA OthersStay ==
    ASSUME IInv, UNCHANGED gw, NEW h \in Handlers, NEW x, handlers' = [handlers EXCEPT ![h] = x]
    PROVE /\ handlers'[h] = x
          /\ \A r : /\ Creators(r)' \ {h} \subseteq Creators(r) \ {h}
                    /\ Redeemers(r)' \ {h} \subseteq Redeemers(r) \ {h}
          /\ Spenders' \ {h} \subseteq Spenders \ {h}
  <1>1. handlers'[h] = x /\ \A k \in Handlers \ {h} : handlers'[k] = handlers[k]
    BY DEF IInv, TypeOK
  <1>2. \A k \in Handlers \ {h} : Redeemer(k)' = Redeemer(k)
    BY <1>1 DEF Redeemer
  <1>3. QED
    BY <1>1, <1>2 DEF Creators, Redeemers, Spenders, At

\* An activation that reads no row: its restaurant has none, so even if every
\* handler is about to create one there are no more rows than handlers.
LEMMA ActivateLoadCounts ==
    ASSUME IInv, Counted, NEW h \in Handlers, NEW e \in Events, ActivateLoad(h, e)
    PROVE Counted'
  <1>1. /\ UNCHANGED <<gw, sub, timesRedeemed, redemptions>> /\ e \in net
        /\ RowsStand /\ OwnersStand
    BY UnchangedStands DEF ActivateLoad, Receive, rows, World
  <1>2. PICK r0 \in Restaurants : gw[e.ref].restaurant = r0
    BY <1>1, ReceivedEvent
  <1>3. PICK id : /\ IF CurrentForRestaurant(r0) = {} THEN id = 0
                     ELSE id \in CurrentForRestaurant(r0)
                  /\ handlers' = [handlers EXCEPT ![h] = Received("activate", e, id)]
    BY <1>2 DEF ActivateLoad, Continue
  <1>4. PICK x : x = Received("activate", e, id)
    OBVIOUS
  <1>5. x.pc = "activate" /\ x.event = e /\ x.id = id
    BY <1>4 DEF Received, Idle
  <1>6. CASE CurrentForRestaurant(r0) # {}
    <2>1. id # 0
      BY <1>3, <1>6 DEF CurrentForRestaurant, RowsOf
    <2>2. ~Counting(x)
      BY <1>5, <2>1 DEF Counting
    <2>3. QED
      BY <1>1, <1>3, <1>4, <2>2, OneSlotQuiet, QuietKeepsCounts
  <1>7. CASE CurrentForRestaurant(r0) = {}
    <2>1. RowsOf(r0) = {}
      BY <1>7, CurrentExists
    <2>2. /\ handlers'[h] = x
          /\ \A r : /\ Creators(r)' \ {h} \subseteq Creators(r) \ {h}
                    /\ Redeemers(r)' \ {h} \subseteq Redeemers(r) \ {h}
          /\ Spenders' \ {h} \subseteq Spenders \ {h}
      BY <1>1, <1>3, <1>4, OthersStay
    <2>3. \A r : RowsOf(r)' = RowsOf(r)
      BY <1>1 DEF RowsOf
    <2>4. \A r : Redeemers(r)' \subseteq Redeemers(r)
      BY <1>5, <2>2 DEF Redeemers
    <2>5. Spenders' \subseteq Spenders
      BY <1>5, <2>2 DEF Spenders, At
    <2>6. Redeemer(h)' = r0
      BY <1>1, <1>2, <1>5, <2>2 DEF Redeemer
    <2>7. \A r : r # r0 => Creators(r)' \subseteq Creators(r)
      BY <2>2, <2>6 DEF Creators
    <2>8. RowsCounted(r0)'
      <3>1. PICK D \in SUBSET Handlers : Creators(r0)' = D
        BY CountsAreSlots
      <3>2. Cardinality(RowsOf(r0)') = 0
        BY <2>1, <2>3, FS_EmptySet
      <3>3. 0 + Cardinality(D) <= Cardinality(Handlers)
        BY CountsAreNumbers
      <3>4. QED
        BY <3>1, <3>2, <3>3 DEF RowsCounted
    <2>9. \A r \in Restaurants : r # r0 => RowsCounted(r)'
      BY <2>3, <2>7, RowsStayCounted DEF Counted
    <2>10. \A r \in Restaurants : RedemptionsCounted(r)'
      BY <1>1, <2>3, <2>4, RedemptionsStayCounted DEF Counted
    <2>11. SpendingCounted'
      BY <1>1, <2>5, SpendingStaysCounted DEF Counted
    <2>12. QED
      BY <2>8, <2>9, <2>10, <2>11 DEF Counted
  <1>8. QED
    BY <1>6, <1>7

\* The slot of an activation that has created its row.
LEMMA CreatedSlot ==
    ASSUME IInv, NEW h \in Handlers, ActivateCreate(h)
    PROVE \E x : /\ handlers' = [handlers EXCEPT ![h] = x]
                 /\ \/ ~Counting(x)
                    \/ x.pc = "redeem" /\ x.event = handlers[h].event
  <1>1. PICK id \in Nat : Len(sub) + 1 = id
    BY LenProperties DEF IInv, TypeOK
  <1>2. CASE ThenCharge(h, id)
    BY <1>2, ThenChargeSlot
  <1>3. CASE Continue(h, [handlers[h] EXCEPT !.pc = "redeem", !.id = id])
    <2>1. PICK x : x = [handlers[h] EXCEPT !.pc = "redeem", !.id = id]
      OBVIOUS
    <2>2. x.pc = "redeem" /\ x.event = handlers[h].event
      BY <2>1, HandlerFacts DEF Work
    <2>3. QED
      BY <1>3, <2>1, <2>2 DEF Continue
  <1>4. QED
    BY <1>1, <1>2, <1>3 DEF ActivateCreate

\* One row comes, one creator goes, and that one may now redeem.
LEMMA ActivateCreateCounts ==
    ASSUME IInv, Counted, NEW h \in Handlers, ActivateCreate(h)
    PROVE Counted'
  <1>1. /\ UNCHANGED <<gw, timesRedeemed, redemptions>> /\ At(h, "activate")
        /\ handlers[h].id = 0
    BY DEF ActivateCreate, World
  <1>2. PICK r0 \in Restaurants : Redeemer(h) = r0
    BY <1>1, CountingHasOwner DEF At
  <1>3. PICK x : /\ handlers' = [handlers EXCEPT ![h] = x]
                 /\ \/ ~Counting(x)
                    \/ x.pc = "redeem" /\ x.event = handlers[h].event
    BY CreatedSlot
  <1>4. /\ handlers'[h] = x
        /\ \A r : /\ Creators(r)' \ {h} \subseteq Creators(r) \ {h}
                  /\ Redeemers(r)' \ {h} \subseteq Redeemers(r) \ {h}
        /\ Spenders' \ {h} \subseteq Spenders \ {h}
    BY <1>1, <1>3, OthersStay
  <1>5. PICK n \in Nat : n = Len(sub)
    BY LenProperties DEF IInv, TypeOK
  <1>6. /\ Len(sub') = n + 1 /\ sub'[n + 1].restaurant = r0
        /\ \A id \in 1..n : sub'[id] = sub[id]
    <2>1. PICK row \in Subscriptions : /\ row = Activated(gw[handlers[h].event.ref].restaurant,
                                                          handlers[h].event.ref)
                                       /\ row.restaurant = gw[handlers[h].event.ref].restaurant
      BY <1>1, ActivatedRow DEF IInv
    <2>2. sub' = Append(sub, row) /\ row.restaurant = r0
      BY <1>2, <2>1 DEF ActivateCreate, Redeemer
    <2>3. QED
      BY <1>5, <2>2, AppendProperties DEF IInv, TypeOK
  <1>7. RowsOf(r0)' = RowsOf(r0) \cup {n + 1} /\ n + 1 \notin RowsOf(r0)
    BY <1>5, <1>6 DEF RowsOf
  <1>8. \A r : r # r0 => RowsOf(r)' = RowsOf(r)
    BY <1>5, <1>6 DEF RowsOf
  <1>9. PICK k \in Nat : /\ Cardinality(RowsOf(r0)) = k
                         /\ Cardinality(RowsOf(r0)') = k + 1
    BY <1>7, CountsAreNumbers, FS_AddElement
  <1>10. ~Counting(x) \/ Redeemer(h)' = r0
    BY <1>1, <1>2, <1>3, <1>4 DEF Redeemer
  <1>11. \A r : h \notin Creators(r)'
    BY <1>3, <1>4 DEF Creators, At, Counting
  <1>12. RowsCounted(r0)'
    <2>1. PICK C \in SUBSET Handlers : Creators(r0) = C
      BY CountsAreSlots
    <2>2. h \in C
      BY <1>1, <1>2, <2>1 DEF Creators
    <2>3. PICK D \in SUBSET (C \ {h}) : Creators(r0)' = D
      BY <1>4, <1>11, <2>1
    <2>4. k + Cardinality(C) <= Cardinality(Handlers)
      BY <1>9, <2>1 DEF Counted, RowsCounted
    <2>5. (k + 1) + Cardinality(D) <= Cardinality(Handlers)
      BY <2>2, <2>4, OneFewer, CountsAreNumbers
    <2>6. QED
      BY <1>9, <2>3, <2>5 DEF RowsCounted
  <1>13. RedemptionsCounted(r0)'
    <2>1. PICK C \in SUBSET Handlers : Redeemers(r0) = C
      BY CountsAreSlots
    <2>2. PICK D \in SUBSET (C \cup {h}) : Redeemers(r0)' = D
      BY <1>4, <2>1
    <2>3. redemptions[r0] + Cardinality(C) <= k
      BY <1>9, <2>1 DEF Counted, RedemptionsCounted
    <2>4. redemptions[r0] + Cardinality(D) <= k + 1
      BY <2>3, OneMore, CountsAreNumbers
    <2>5. QED
      BY <1>1, <1>9, <2>2, <2>4 DEF RedemptionsCounted
  <1>14. ASSUME NEW r \in Restaurants, r # r0
         PROVE (RowsCounted(r) /\ RedemptionsCounted(r))'
    <2>1. Creators(r)' \subseteq Creators(r)
      BY <1>4, <1>11
    <2>2. h \notin Redeemers(r)'
      BY <1>4, <1>10, <1>14 DEF Redeemers, Counting
    <2>3. Redeemers(r)' \subseteq Redeemers(r)
      BY <1>4, <2>2
    <2>4. QED
      BY <1>1, <1>8, <1>14, <2>1, <2>3, RowsStayCounted, RedemptionsStayCounted DEF Counted
  <1>15. SpendingCounted'
    <2>1. h \notin Spenders'
      BY <1>3, <1>4 DEF Spenders, At, Counting
    <2>2. Spenders' \subseteq Spenders
      BY <1>4, <2>1
    <2>3. QED
      BY <1>1, <2>2, SpendingStaysCounted DEF Counted
  <1>16. QED
    BY <1>12, <1>13, <1>14, <1>15 DEF Counted

\* A redemption that begins: the code had one left, and the other handlers are
\* all that can have passed the same test.
LEMMA RedeemLoadCounts ==
    ASSUME IInv, Counted, NEW h \in Handlers, RedeemLoad(h)
    PROVE Counted'
  <1>1. /\ UNCHANGED <<gw, sub, timesRedeemed, redemptions>> /\ At(h, "redeem")
        /\ timesRedeemed < MaxRedemptions
    BY DEF RedeemLoad, Redeemable, rows, World
  <1>2. PICK x : x = [handlers[h] EXCEPT !.pc = "redeemCommit"]
    OBVIOUS
  <1>3. x.pc = "redeemCommit" /\ x.event = handlers[h].event
    BY <1>2, HandlerFacts DEF Work
  <1>4. handlers' = [handlers EXCEPT ![h] = x]
    BY <1>2 DEF RedeemLoad, Continue
  <1>5. /\ handlers'[h] = x
        /\ \A r : /\ Creators(r)' \ {h} \subseteq Creators(r) \ {h}
                  /\ Redeemers(r)' \ {h} \subseteq Redeemers(r) \ {h}
    BY <1>1, <1>4, OthersStay
  <1>6. Redeemer(h)' = Redeemer(h)
    BY <1>1, <1>3, <1>5 DEF Redeemer
  <1>7. \A r : Creators(r)' \subseteq Creators(r) /\ Redeemers(r)' \subseteq Redeemers(r)
    BY <1>1, <1>3, <1>5, <1>6 DEF Creators, Redeemers, At
  <1>8. \A r : RowsOf(r)' = RowsOf(r)
    BY <1>1 DEF RowsOf
  <1>9. \A r \in Restaurants : (RowsCounted(r) /\ RedemptionsCounted(r))'
    BY <1>1, <1>7, <1>8, RowsStayCounted, RedemptionsStayCounted DEF Counted
  <1>10. SpendingCounted'
    <2>1. PICK D \in SUBSET Handlers : Spenders' = D
      BY CountsAreSlots
    <2>2. Cardinality(D) \in Nat /\ Cardinality(D) <= Cardinality(Handlers)
      BY CountsAreNumbers
    <2>3. timesRedeemed + Cardinality(D) <= MaxRedemptions + Cardinality(Handlers) - 1
      BY <1>1, <2>2, CountsAreNumbers
    <2>4. QED
      BY <1>1, <2>1, <2>3 DEF SpendingCounted
  <1>11. QED
    BY <1>9, <1>10 DEF Counted

\* A redemption that ends: one more of the code, one handler fewer at it.
LEMMA RedeemCommitCounts ==
    ASSUME IInv, Counted, NEW h \in Handlers, RedeemCommit(h)
    PROVE Counted'
  <1>1. /\ UNCHANGED <<gw, sub>> /\ At(h, "redeemCommit")
        /\ timesRedeemed' = timesRedeemed + 1
    BY DEF RedeemCommit, World
  <1>2. PICK r0 \in Restaurants : Redeemer(h) = r0
    BY <1>1, CountingHasOwner DEF At
  <1>3. redemptions' = [redemptions EXCEPT ![r0] = @ + 1]
    BY <1>2 DEF RedeemCommit
  <1>4. /\ redemptions'[r0] = redemptions[r0] + 1
        /\ \A r \in Restaurants : r # r0 => redemptions'[r] = redemptions[r]
    BY <1>3 DEF IInv, TypeOK
  <1>5. PICK id \in Nat : handlers[h].id = id
    BY HandlerFacts
  <1>6. PICK x \in Work : ~Counting(x) /\ handlers' = [handlers EXCEPT ![h] = x]
    BY <1>5, ThenChargeSlot DEF RedeemCommit
  <1>7. /\ handlers'[h] = x
        /\ \A r : /\ Creators(r)' \ {h} \subseteq Creators(r) \ {h}
                  /\ Redeemers(r)' \ {h} \subseteq Redeemers(r) \ {h}
        /\ Spenders' \ {h} \subseteq Spenders \ {h}
    BY <1>1, <1>6, OthersStay
  <1>8. h \notin Spenders' /\ \A r : h \notin Creators(r)' /\ h \notin Redeemers(r)'
    <2>1. ~Counting(handlers[h])'
      BY <1>6, <1>7 DEF Counting
    <2>2. QED
      BY <2>1 DEF Spenders, Creators, Redeemers, Counting, At
  <1>9. \A r : /\ Creators(r)' \subseteq Creators(r) \ {h}
               /\ Redeemers(r)' \subseteq Redeemers(r) \ {h}
    BY <1>7, <1>8
  <1>10. Spenders' \subseteq Spenders \ {h}
    BY <1>7, <1>8
  <1>11. \A r : RowsOf(r)' = RowsOf(r)
    BY <1>1 DEF RowsOf
  <1>12. \A r \in Restaurants : RowsCounted(r)'
    BY <1>9, <1>11, RowsStayCounted DEF Counted
  <1>13. \A r \in Restaurants : r # r0 => RedemptionsCounted(r)'
    BY <1>4, <1>9, <1>11, RedemptionsStayCounted DEF Counted
  <1>14. RedemptionsCounted(r0)'
    <2>1. PICK C \in SUBSET Handlers : Redeemers(r0) = C
      BY CountsAreSlots
    <2>2. h \in C
      BY <1>1, <1>2, <2>1 DEF Redeemers, At
    <2>3. PICK D \in SUBSET (C \ {h}) : Redeemers(r0)' = D
      BY <1>9, <2>1
    <2>4. PICK k \in Nat : Cardinality(RowsOf(r0)) = k /\ Cardinality(RowsOf(r0)') = k
      BY <1>11, CountsAreNumbers
    <2>5. redemptions[r0] + Cardinality(C) <= k
      BY <2>1, <2>4 DEF Counted, RedemptionsCounted
    <2>6. (redemptions[r0] + 1) + Cardinality(D) <= k
      BY <2>2, <2>5, OneFewer, CountsAreNumbers
    <2>7. QED
      BY <1>4, <2>3, <2>4, <2>6 DEF RedemptionsCounted
  <1>15. SpendingCounted'
    <2>1. PICK C \in SUBSET Handlers : Spenders = C
      BY CountsAreSlots
    <2>2. h \in C
      BY <1>1, <2>1 DEF Spenders
    <2>3. PICK D \in SUBSET (C \ {h}) : Spenders' = D
      BY <1>10, <2>1
    <2>4. timesRedeemed + Cardinality(C) <= MaxRedemptions + Cardinality(Handlers) - 1
      BY <2>1 DEF Counted, SpendingCounted
    <2>5. (timesRedeemed + 1) + Cardinality(D) <= MaxRedemptions + Cardinality(Handlers) - 1
      BY <2>2, <2>4, OneFewer, CountsAreNumbers
    <2>6. QED
      BY <1>1, <2>3, <2>5 DEF SpendingCounted
  <1>16. QED
    BY <1>12, <1>13, <1>14, <1>15 DEF Counted

\* Nothing is counted at the start.
LEMMA CountedInitially == Init => Counted
  <1> SUFFICES ASSUME Init PROVE Counted
    OBVIOUS
  <1>1. IInv /\ Len(sub) = 0
    BY InvariantInitially DEF Init
  <1>2. \A r : RowsOf(r) = {} /\ Creators(r) = {} /\ Redeemers(r) = {}
    BY <1>1 DEF Init, RowsOf, Creators, Redeemers, At, Idle
  <1>3. Spenders = {}
    BY DEF Init, Spenders, At, Idle
  <1>4. Cardinality({}) = 0
    BY FS_EmptySet
  <1>5. ASSUME NEW r \in Restaurants
        PROVE RowsCounted(r) /\ RedemptionsCounted(r)
    <2>1. /\ Cardinality(RowsOf(r)) = 0 /\ Cardinality(Creators(r)) = 0
          /\ Cardinality(Redeemers(r)) = 0
      BY <1>2, <1>4
    <2>2. redemptions[r] = 0
      BY DEF Init
    <2>3. QED
      BY <1>1, <2>1, <2>2, CountsAreNumbers DEF RowsCounted, RedemptionsCounted
  <1>6. SpendingCounted
    BY <1>1, <1>3, <1>4, CountsAreNumbers DEF Init, SpendingCounted
  <1>7. QED
    BY <1>5, <1>6 DEF Counted

\* Every step keeps the counts.
LEMMA CountedPreserved == IInv /\ Counted /\ [Next]_vars => Counted'
  <1> SUFFICES ASSUME IInv, Counted, [Next]_vars PROVE Counted'
    OBVIOUS
  <1>1. CASE Gateway
    BY <1>1, GatewayQuiet, QuietKeepsCounts
  <1>2. ASSUME NEW h \in Handlers, NEW e \in Events, Deliver(h, e)
        PROVE Counted'
    BY <1>2, ActivateLoadCounts, OtherEventsQuiet, QuietKeepsCounts DEF Deliver
  <1>3. ASSUME NEW h \in Handlers, Step(h)
        PROVE Counted'
    <2>1. CASE ActivateCreate(h) \/ RedeemLoad(h) \/ RedeemCommit(h)
      BY <2>1, ActivateCreateCounts, RedeemLoadCounts, RedeemCommitCounts
    <2>2. CASE ~(ActivateCreate(h) \/ RedeemLoad(h) \/ RedeemCommit(h))
      BY <1>3, <2>2, ActivationQuiet, FailedQuiet, CommitsQuiet, QuietKeepsCounts DEF Step
    <2>3. QED
      BY <2>1, <2>2
  <1>4. ASSUME NEW h \in Handlers, Owner(h)
        PROVE Counted'
    BY <1>4, OwnerQuiet, QuietKeepsCounts
  <1>5. CASE \/ \E id \in 1..Len(sub) : PeriodNearsEnd(id) \/ SweepOne(id)
             \/ SweepFind \/ Tick \/ Crash
             \/ \E h \in Handlers : Abort(h)
    BY <1>5, RestQuiet, QuietKeepsCounts
  <1>6. CASE UNCHANGED vars
    BY <1>6, NoSlotQuiet, UnchangedStands, QuietKeepsCounts DEF vars, rows
  <1>7. QED
    BY <1>1, <1>2, <1>3, <1>4, <1>5, <1>6 DEF Next

\* The counts hold in every reachable state.
LEMMA CountsHold == Spec => [](IInv /\ Counted)
  <1>1. Init => IInv /\ Counted
    BY InvariantInitially, CountedInitially
  <1>2. (IInv /\ Counted) /\ [Next]_vars => (IInv /\ Counted)'
    BY InvariantPreserved, CountedPreserved
  <1>3. QED
    BY <1>1, <1>2, PTL DEF Spec

\* However many first payments are activated at once, a restaurant has no more
\* rows than there are concurrent handlers.
THEOREM RowsStayBounded == Spec => []RowsAreBounded
  <1>1. IInv /\ Counted => RowsAreBounded
    <2> SUFFICES ASSUME IInv, Counted, NEW r \in Restaurants
                 PROVE Cardinality(RowsOf(r)) <= Cardinality(Handlers)
      BY DEF RowsAreBounded
    <2>1. PICK C \in SUBSET Handlers : Creators(r) = C
      BY CountsAreSlots
    <2>2. Cardinality(RowsOf(r)) + Cardinality(C) <= Cardinality(Handlers)
      BY <2>1 DEF Counted, RowsCounted
    <2>3. QED
      BY <2>2, CountsAreNumbers
  <1>2. QED
    BY <1>1, CountsHold, PTL

\* Overlapping redemptions pass max_redemptions by at most the handlers there
\* are besides one, for any limit and any number of handlers.
THEOREM OvershootStaysBounded == Spec => []PromoOvershootIsBounded
  <1>1. IInv /\ Counted => PromoOvershootIsBounded
    <2> SUFFICES ASSUME IInv, Counted PROVE PromoOvershootIsBounded
      OBVIOUS
    <2>1. PICK C \in SUBSET Handlers : Spenders = C
      BY CountsAreSlots
    <2>2. timesRedeemed + Cardinality(C) <= MaxRedemptions + Cardinality(Handlers) - 1
      BY <2>1 DEF Counted, SpendingCounted
    <2>3. QED
      BY <2>2, CountsAreNumbers DEF PromoOvershootIsBounded
  <1>2. QED
    BY <1>1, CountsHold, PTL

\* A code is redeemed for the creation of a row only, never for a renewal or a
\* redelivered event: no restaurant has more redemptions than rows.
THEOREM RedeemedOncePerRow == Spec => []RedeemedOnlyOnCreation
  <1>1. IInv /\ Counted => RedeemedOnlyOnCreation
    <2> SUFFICES ASSUME IInv, Counted, NEW r \in Restaurants
                 PROVE redemptions[r] <= Cardinality(RowsOf(r))
      BY DEF RedeemedOnlyOnCreation
    <2>1. PICK C \in SUBSET Handlers : Redeemers(r) = C
      BY CountsAreSlots
    <2>2. redemptions[r] + Cardinality(C) <= Cardinality(RowsOf(r))
      BY <2>1 DEF Counted, RedemptionsCounted
    <2>3. QED
      BY <2>2, CountsAreNumbers
  <1>2. QED
    BY <1>1, CountsHold, PTL
=============================================================================
