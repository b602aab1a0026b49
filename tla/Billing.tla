------------------------------- MODULE Billing -------------------------------
(***************************************************************************)
(* Subscriptions, charges and promo codes of the restaurants, as the       *)
(* NestJS backend keeps them from gateway webhooks, owner requests and two *)
(* hourly crons.                                                           *)
(*                                                                         *)
(* A webhook or request is an async function over a shared database; it    *)
(* runs in one of the slots Handlers and is split at its awaits, as in     *)
(* ModelPipeline: a Load step reads the rows and applies the early         *)
(* returns, a Commit step issues the write, by row id and without testing  *)
(* again what was read.  The gateways live outside: gw is what they know   *)
(* of each reference (a Stripe subscription, or a Safepay one-off order),  *)
(* net the webhook events they have emitted.  Events arrive in any order;  *)
(* while Redelivery holds every event may be delivered again at any time,  *)
(* otherwise an event goes once its handler has answered 200.              *)
(***************************************************************************)
EXTENDS Integers, Sequences, FiniteSets

CONSTANTS Restaurants,
          Packages,        \* active subscription packages
          Refs,            \* gateway references, fresh at each checkout
          StripeRefs,      \* those of Stripe; the others are Safepay orders
          Handlers,        \* concurrent webhook deliveries and requests
          Grace,           \* SUBSCRIPTION_GRACE_PERIOD_DAYS
          MaxRedemptions,  \* of the one promo code
          Redelivery,      \* whether an acknowledged event may come again
          None,            \* SQL NULL
          MaxTime,         \* bound: the clock
          MaxFaults        \* bound: crashes and failed database calls

ASSUME RefsAssumption == StripeRefs \subseteq Refs
ASSUME NumbersAssumption == /\ Grace \in Nat \ {0}
                            /\ MaxRedemptions \in Nat
                            /\ MaxTime \in Nat /\ MaxFaults \in Nat
                            /\ Redelivery \in BOOLEAN
ASSUME HandlersAssumption == IsFiniteSet(Handlers) /\ Handlers # {}
ASSUME NoneAssumption == None \notin Restaurants \cup Packages \cup Refs \cup Nat

VARIABLES sub,            \* the subscriptions rows, in order of creation
          charges,        \* the charges rows, duplicates counted once
          timesRedeemed,  \* promo_codes.times_redeemed
          redemptions,    \* promo_redemptions rows of each restaurant
          gw,             \* what the gateway holds of each reference
          net,            \* emitted webhook events
          handlers,       \* what each slot is doing
          sweep,          \* rows the running grace sweep has still to expire
          firstFailure,   \* history: when a restaurant's payment first failed
          now, faults

rows == <<sub, charges, timesRedeemed, redemptions>>
vars == <<rows, gw, net, handlers, sweep, firstFailure, now, faults>>

Subscriptions == [restaurant : Restaurants, pkg : Packages,
                  status : {"active", "past_due", "expired", "canceled"},
                  graceUntil : Nat \cup {None}, ref : Refs, due : BOOLEAN]

Charges == [restaurant : Restaurants, ref : Refs, status : {"paid", "failed"}]

\* pkg and promo are the metadata a reference carries on all its events;
\* billed is the package Stripe charges for.
Sessions == [state : {"open", "paid", "past_due", "failed", "canceled"},
             restaurant : Restaurants, pkg : Packages, billed : Packages,
             promo : BOOLEAN]

\* charge_paid, charge_failed: all that Safepay reports, of its orders.
ChargeEvents == [type : {"paid", "failed"}, ref : Refs]

SubscriptionEvents == [type : {"active", "past_due", "canceled"}, ref : StripeRefs]

Events == ChargeEvents \cup SubscriptionEvents

ASSUME NullAssumption == None \notin Sessions /\ None \notin Events

Steps == {"idle", "activate", "redeem", "redeemCommit", "charge", "failed",
          "markPastDue", "pastDue", "cancel", "change"}

\* id, ref, grace, pkg: the row and the values the handler has read.
Work == [pc : Steps, event : Events \cup {None}, id : Nat,
         ref : Refs \cup {None}, grace : Nat \cup {None},
         pkg : Packages \cup {None}]

Idle == [pc |-> "idle", event |-> None, id |-> 0, ref |-> None, grace |-> None,
         pkg |-> None]

TypeOK == /\ sub \in Seq(Subscriptions)
          /\ charges \in SUBSET Charges
          /\ timesRedeemed \in Nat
          /\ redemptions \in [Restaurants -> Nat]
          /\ gw \in [Refs -> Sessions \cup {None}]
          /\ net \in SUBSET Events
          /\ handlers \in [Handlers -> Work]
          /\ sweep \in SUBSET (1..Len(sub))
          /\ firstFailure \in [Restaurants -> Nat \cup {None}]
          /\ now \in 0..MaxTime
          /\ faults \in 0..MaxFaults

Init == /\ sub = <<>>
        /\ charges = {}
        /\ timesRedeemed = 0
        /\ redemptions = [r \in Restaurants |-> 0]
        /\ gw = [ref \in Refs |-> None]
        /\ net = {}
        /\ handlers = [h \in Handlers |-> Idle]
        /\ sweep = {}
        /\ firstFailure = [r \in Restaurants |-> None]
        /\ now = 0
        /\ faults = 0

-----------------------------------------------------------------------------
(* Reads.                                                                  *)

Stripe(ref) == ref \in StripeRefs

RowsOf(r) == {id \in 1..Len(sub) : sub[id].restaurant = r}

\* Mutant: the "where: { restaurantId }" is dropped.
CurrentOfAnyone(r) == {id \in 1..Len(sub) : id = Len(sub)}

\* The newest row of r; nothing if it has none.
CurrentForRestaurant(r) == {id \in RowsOf(r) : \A k \in RowsOf(r) : k <= id}

\* findFirst without an order: any of these rows.
FindByGatewayRef(ref) == {id \in 1..Len(sub) : sub[id].ref = ref}

\* Mutant: the limit is compared with <=.
RedeemableOneMore(r) == timesRedeemed <= MaxRedemptions /\ redemptions[r] = 0

Redeemable(r) == timesRedeemed < MaxRedemptions /\ redemptions[r] = 0

-----------------------------------------------------------------------------
(* How a slot moves.                                                       *)

At(h, pc) == handlers[h].pc = pc

Receive(h, e, type) == At(h, "idle") /\ e \in net /\ e.type = type

Continue(h, work) == /\ handlers' = [handlers EXCEPT ![h] = work]
                     /\ UNCHANGED net

\* The answer 200, after which the gateway stops retrying the event.
Acknowledged(e) == net' = IF Redelivery THEN net ELSE net \ {e}

Finish(h) == /\ handlers' = [handlers EXCEPT ![h] = Idle]
             /\ Acknowledged(handlers[h].event)

\* handleChargePaid goes on to write the charge; an activation event ends.
ThenCharge(h, id) ==
    IF handlers[h].event.type = "paid"
    THEN Continue(h, [handlers[h] EXCEPT !.pc = "charge", !.id = id])
    ELSE Finish(h)

Write(id, row) == sub' = [sub EXCEPT ![id] = row]

World == <<gw, sweep, firstFailure, now, faults>>

-----------------------------------------------------------------------------
(* The gateways: checkout sessions, payments and the events they emit.     *)

Session(r, p, promo) == [state |-> "open", restaurant |-> r, pkg |-> p,
                         billed |-> p, promo |-> promo]

\* An owner's checkout: refused only while the current row is active.  The
\* code is tested here and again, if at all, when it is redeemed.
Checkout(r, p, promo, ref) ==
    /\ gw[ref] = None
    /\ \A id \in CurrentForRestaurant(r) : sub[id].status # "active"
    /\ promo => Redeemable(r)
    /\ gw' = [gw EXCEPT ![ref] = Session(r, p, promo)]
    /\ UNCHANGED <<rows, net, handlers, sweep, firstFailure, now, faults>>

\* One iteration of the renewal cron: a fresh Safepay order for a row whose
\* period is about to end.  Nothing records that an order is already open.
RenewOrder(id, ref) ==
    /\ gw[ref] = None /\ ~Stripe(ref)
    /\ sub[id].status = "active" /\ ~Stripe(sub[id].ref) /\ sub[id].due
    /\ gw' = [gw EXCEPT ![ref] = Session(sub[id].restaurant, sub[id].pkg, FALSE)]
    /\ UNCHANGED <<rows, net, handlers, sweep, firstFailure, now, faults>>

PeriodNearsEnd(id) ==
    /\ ~Stripe(sub[id].ref) /\ ~sub[id].due
    /\ Write(id, [sub[id] EXCEPT !.due = TRUE])
    /\ UNCHANGED <<charges, timesRedeemed, redemptions, net, handlers, World>>

Emit(ref, types) == net' = net \cup {[type |-> t, ref |-> ref] : t \in types}

\* The customer pays: a first payment, or Stripe's retry of a failed one.
Pay(ref) ==
    /\ gw[ref] # None /\ gw[ref].state \in {"open", "past_due"}
    /\ gw' = [gw EXCEPT ![ref].state = "paid"]
    /\ Emit(ref, IF Stripe(ref) THEN {"active", "paid"} ELSE {"paid"})
    /\ UNCHANGED <<rows, handlers, sweep, firstFailure, now, faults>>

\* A Stripe renewal is declined, or a Safepay order fails, is cancelled or
\* expires unpaid.
Decline(ref) ==
    /\ gw[ref] # None
    /\ gw[ref].state = (IF Stripe(ref) THEN "paid" ELSE "open")
    /\ gw' = [gw EXCEPT ![ref].state = IF Stripe(ref) THEN "past_due" ELSE "failed"]
    /\ Emit(ref, IF Stripe(ref) THEN {"past_due", "failed"} ELSE {"failed"})
    /\ firstFailure' = [firstFailure EXCEPT ![gw[ref].restaurant] =
                            IF @ = None THEN now ELSE @]
    /\ UNCHANGED <<rows, handlers, sweep, now, faults>>

\* Stripe gives up retrying, or the subscription is ended from its dashboard.
\* One whose first payment is not through yet (incomplete) is reported like that
\* too, and may be paid after all.
StripeEnds(ref) ==
    /\ Stripe(ref) /\ gw[ref] # None
    /\ \/ /\ gw[ref].state \in {"paid", "past_due"}
          /\ gw' = [gw EXCEPT ![ref].state = "canceled"]
       \/ gw[ref].state = "open" /\ UNCHANGED gw
    /\ Emit(ref, {"canceled"})
    /\ UNCHANGED <<rows, handlers, sweep, firstFailure, now, faults>>

-----------------------------------------------------------------------------
(* Webhooks that activate.                                                 *)

Received(pc, e, id) == [Idle EXCEPT !.pc = pc, !.event = e, !.id = id]

\* Stripe's subscription event, or a paid Safepay order, which carries the
\* metadata too; reads the restaurant's current row.
ActivateLoad(h, e) ==
    /\ Receive(h, e, IF Stripe(e.ref) THEN "active" ELSE "paid")
    /\ LET cur == CurrentForRestaurant(gw[e.ref].restaurant)
       IN  \E id \in IF cur = {} THEN {0} ELSE cur :
              Continue(h, Received("activate", e, id))
    /\ UNCHANGED <<rows, World>>

Activated(r, ref) == [restaurant |-> r, pkg |-> gw[ref].pkg, status |-> "active",
                      graceUntil |-> None, ref |-> ref, due |-> FALSE]

\* Mutant: activation always creates a row.
ActivateCreateAlways(h) ==
    LET ref == handlers[h].event.ref
    IN  /\ At(h, "activate")
        /\ sub' = Append(sub, Activated(gw[ref].restaurant, ref))
        /\ ThenCharge(h, Len(sub) + 1)
        /\ UNCHANGED <<charges, timesRedeemed, redemptions, World>>

\* No row was read: one is created, and only then is a promo code redeemed.
ActivateCreate(h) ==
    LET ref == handlers[h].event.ref
    IN  /\ At(h, "activate") /\ handlers[h].id = 0
        /\ sub' = Append(sub, Activated(gw[ref].restaurant, ref))
        /\ IF gw[ref].promo
           THEN Continue(h, [handlers[h] EXCEPT !.pc = "redeem", !.id = Len(sub) + 1])
           ELSE ThenCharge(h, Len(sub) + 1)
        /\ UNCHANGED <<charges, timesRedeemed, redemptions, World>>

ActivateUpdate(h) ==
    LET id == handlers[h].id
    IN  /\ At(h, "activate") /\ id # 0
        /\ Write(id, Activated(sub[id].restaurant, handlers[h].event.ref))
        /\ ThenCharge(h, id)
        /\ UNCHANGED <<charges, timesRedeemed, redemptions, World>>

Redeemer(h) == gw[handlers[h].event.ref].restaurant

RedeemLoad(h) ==
    /\ At(h, "redeem") /\ Redeemable(Redeemer(h))
    /\ Continue(h, [handlers[h] EXCEPT !.pc = "redeemCommit"])
    /\ UNCHANGED <<rows, World>>

\* The code is used up, used already, or was switched off by a root admin.
RedeemSkip(h) ==
    /\ At(h, "redeem")
    /\ ThenCharge(h, handlers[h].id)
    /\ UNCHANGED <<rows, World>>

RedeemCommit(h) ==
    /\ At(h, "redeemCommit")
    /\ timesRedeemed' = timesRedeemed + 1
    /\ redemptions' = [redemptions EXCEPT ![Redeemer(h)] = @ + 1]
    /\ ThenCharge(h, handlers[h].id)
    /\ UNCHANGED <<sub, charges, World>>

\* Stripe's invoice.paid carries no metadata: it needs a row to belong to.
PaidLoad(h, e) ==
    /\ Receive(h, e, "paid") /\ Stripe(e.ref)
    /\ \E id \in FindByGatewayRef(e.ref) : Continue(h, Received("charge", e, id))
    /\ UNCHANGED <<rows, World>>

Charge(r, ref, status) ==
    charges' = charges \cup {[restaurant |-> r, ref |-> ref, status |-> status]}

RecordPaid(h) ==
    /\ At(h, "charge")
    /\ Charge(sub[handlers[h].id].restaurant, handlers[h].event.ref, "paid")
    /\ Finish(h)
    /\ UNCHANGED <<sub, timesRedeemed, redemptions, World>>

-----------------------------------------------------------------------------
(* Webhooks of failed payments and cancellations.                          *)

\* The charge's restaurant: from the row for Stripe, the metadata for Safepay.
RecordFailed(h, e) ==
    /\ Receive(h, e, "failed")
    /\ \/ /\ Stripe(e.ref)
          /\ \E id \in FindByGatewayRef(e.ref) :
                /\ Charge(sub[id].restaurant, e.ref, "failed")
                /\ Continue(h, Received("failed", e, id))
       \/ /\ ~Stripe(e.ref)
          /\ Charge(gw[e.ref].restaurant, e.ref, "failed")
          /\ Continue(h, Received("failed", e, 0))
    /\ UNCHANGED <<sub, timesRedeemed, redemptions, World>>

FailedRestaurant(h) ==
    IF handlers[h].id = 0 THEN gw[handlers[h].event.ref].restaurant
                          ELSE sub[handlers[h].id].restaurant

\* markPastDue goes by the reference of the restaurant's current row, whatever
\* reference the failed charge was for, as long as the gateway is the same.
FailedLoad(h) ==
    /\ At(h, "failed")
    /\ \E id \in CurrentForRestaurant(FailedRestaurant(h)) :
          /\ Stripe(sub[id].ref) = Stripe(handlers[h].event.ref)
          /\ Continue(h, [handlers[h] EXCEPT !.pc = "markPastDue",
                                             !.ref = sub[id].ref])
    /\ UNCHANGED <<rows, World>>

FailedNoRow(h) ==
    /\ At(h, "failed")
    /\ \A id \in CurrentForRestaurant(FailedRestaurant(h)) :
          Stripe(sub[id].ref) # Stripe(handlers[h].event.ref)
    /\ Finish(h)
    /\ UNCHANGED <<rows, World>>

\* The row found by ref, unless it is expired already, and the deadline to
\* write: the one it has, or one Grace from now.
PastDueLoad(h, e, ref) ==
    \E id \in FindByGatewayRef(ref) :
       /\ sub[id].status # "expired"
       /\ Continue(h, [Received("pastDue", e, id) EXCEPT
                          !.grace = IF sub[id].graceUntil = None THEN now + Grace
                                    ELSE sub[id].graceUntil])

PastDueEvent(h, e) ==
    /\ Receive(h, e, "past_due") /\ PastDueLoad(h, e, e.ref)
    /\ UNCHANGED <<rows, World>>

FailedPastDue(h) ==
    /\ At(h, "markPastDue") /\ PastDueLoad(h, handlers[h].event, handlers[h].ref)
    /\ UNCHANGED <<rows, World>>

FailedStop(h) ==
    /\ At(h, "markPastDue")
    /\ \/ FindByGatewayRef(handlers[h].ref) = {}
       \/ \E id \in FindByGatewayRef(handlers[h].ref) : sub[id].status = "expired"
    /\ Finish(h)
    /\ UNCHANGED <<rows, World>>

PastDueCommit(h) ==
    LET id == handlers[h].id
    IN  /\ At(h, "pastDue")
        /\ Write(id, [sub[id] EXCEPT !.status = "past_due",
                                     !.graceUntil = handlers[h].grace])
        /\ Finish(h)
        /\ UNCHANGED <<charges, timesRedeemed, redemptions, World>>

CanceledEvent(h, e) ==
    /\ Receive(h, e, "canceled")
    /\ \E id \in FindByGatewayRef(e.ref) : Continue(h, Received("cancel", e, id))
    /\ UNCHANGED <<rows, World>>

\* The last write of markCanceled and of the owner's cancel alike.
CancelCommit(h) ==
    LET id == handlers[h].id
    IN  /\ At(h, "cancel")
        /\ Write(id, [sub[id] EXCEPT !.status = "canceled", !.graceUntil = None])
        /\ Finish(h)
        /\ UNCHANGED <<charges, timesRedeemed, redemptions, World>>

\* Events that are answered 200 and dropped: no row has their reference, or
\* the row is expired and cannot become past due.
Ignore(h, e) ==
    /\ At(h, "idle") /\ e \in net
    /\ \/ /\ FindByGatewayRef(e.ref) = {}
          /\ Stripe(e.ref) /\ e.type # "active"
       \/ /\ e.type = "past_due"
          /\ \E id \in FindByGatewayRef(e.ref) : sub[id].status = "expired"
    /\ Acknowledged(e)
    /\ UNCHANGED <<rows, handlers, World>>

-----------------------------------------------------------------------------
(* The owner's requests.                                                   *)

Owned(pc, id) == [Idle EXCEPT !.pc = pc, !.id = id]

OwnersRows(r) == {id \in CurrentForRestaurant(r) : sub[id].status # "canceled"}

Standing(ref) == gw[ref].state \in {"paid", "past_due"}

\* cancel: Stripe is told first and emits its event; then the row is written.
\* The call throws if Stripe has ended the subscription already.
OwnerCancel(h, r) ==
    \E id \in OwnersRows(r) :
       /\ At(h, "idle")
       /\ handlers' = [handlers EXCEPT ![h] = Owned("cancel", id)]
       /\ LET ref == sub[id].ref
          IN  IF Stripe(ref)
              THEN /\ Standing(ref)
                   /\ gw' = [gw EXCEPT ![ref].state = "canceled"]
                   /\ Emit(ref, {"canceled"})
              ELSE UNCHANGED <<gw, net>>
       /\ UNCHANGED <<rows, sweep, firstFailure, now, faults>>

\* changePackage: Stripe is told the new price, not the new metadata, and
\* reports the updated subscription; for Safepay nothing is sent.
OwnerChange(h, r, p) ==
    \E id \in OwnersRows(r) :
       /\ At(h, "idle")
       /\ handlers' = [handlers EXCEPT ![h] = [Owned("change", id) EXCEPT !.pkg = p]]
       /\ LET ref == sub[id].ref
          IN  IF Stripe(ref)
              THEN /\ Standing(ref)
                   /\ gw' = [gw EXCEPT ![ref].billed = p]
                   /\ Emit(ref, {IF gw[ref].state = "paid" THEN "active"
                                                           ELSE "past_due"})
              ELSE UNCHANGED <<gw, net>>
       /\ UNCHANGED <<rows, sweep, firstFailure, now, faults>>

ChangeCommit(h) ==
    LET id == handlers[h].id
    IN  /\ At(h, "change")
        /\ Write(id, [sub[id] EXCEPT !.pkg = handlers[h].pkg])
        /\ Finish(h)
        /\ UNCHANGED <<charges, timesRedeemed, redemptions, World>>

-----------------------------------------------------------------------------
(* The grace cron, time and faults.                                        *)

\* Mutant: the deadline's own day counts as elapsed.
ElapsedEarly(id) == /\ sub[id].status = "past_due"
                    /\ sub[id].graceUntil # None /\ sub[id].graceUntil <= now

Elapsed(id) == /\ sub[id].status = "past_due"
               /\ sub[id].graceUntil # None /\ sub[id].graceUntil < now

\* One sweep at a time ("running"): it reads all elapsed rows first.
SweepFind ==
    /\ sweep = {}
    /\ sweep' = {id \in 1..Len(sub) : Elapsed(id)}
    /\ UNCHANGED <<rows, gw, net, handlers, firstFailure, now, faults>>

\* Mutant: the mail is sent before the row is written.
SweepOneMailFirst(id) ==
    /\ id \in sweep
    /\ \/ Write(id, [sub[id] EXCEPT !.status = "expired"]) /\ sweep' = sweep \ {id}
       \/ sub' = sub /\ sweep' = {}
    /\ UNCHANGED <<charges, timesRedeemed, redemptions, gw, net, handlers,
                   firstFailure, now, faults>>

\* It then expires them one by one; the mail's query may throw, which ends
\* the sweep.
SweepOne(id) ==
    /\ id \in sweep
    /\ Write(id, [sub[id] EXCEPT !.status = "expired"])
    /\ sweep' \in {sweep \ {id}, {}}
    /\ UNCHANGED <<charges, timesRedeemed, redemptions, gw, net, handlers,
                   firstFailure, now, faults>>

Tick == /\ now < MaxTime /\ now' = now + 1
        /\ UNCHANGED <<rows, gw, net, handlers, sweep, firstFailure, faults>>

\* Mutant: the error is swallowed and the event answered 200.
AbortAnswered(h) == /\ faults < MaxFaults /\ ~At(h, "idle")
                    /\ faults' = faults + 1
                    /\ Finish(h)
                    /\ UNCHANGED <<rows, gw, sweep, firstFailure, now>>

\* A database call throws: the request is answered 500 and its event stays.
Abort(h) == /\ faults < MaxFaults /\ ~At(h, "idle")
            /\ faults' = faults + 1
            /\ Continue(h, Idle)
            /\ UNCHANGED <<rows, gw, sweep, firstFailure, now>>

\* The process restarts.
Crash == /\ faults < MaxFaults
         /\ faults' = faults + 1
         /\ handlers' = [h \in Handlers |-> Idle]
         /\ sweep' = {}
         /\ UNCHANGED <<rows, gw, net, firstFailure, now>>

-----------------------------------------------------------------------------

Gateway == \/ \E r \in Restaurants, p \in Packages, promo \in BOOLEAN, ref \in Refs :
                 Checkout(r, p, promo, ref)
           \/ \E ref \in Refs : \/ \E id \in 1..Len(sub) : RenewOrder(id, ref)
                                \/ Pay(ref) \/ Decline(ref) \/ StripeEnds(ref)

Deliver(h, e) == \/ ActivateLoad(h, e) \/ PaidLoad(h, e) \/ RecordFailed(h, e)
                 \/ PastDueEvent(h, e) \/ CanceledEvent(h, e) \/ Ignore(h, e)

Step(h) == \/ ActivateCreate(h) \/ ActivateUpdate(h)
           \/ RedeemLoad(h) \/ RedeemSkip(h) \/ RedeemCommit(h)
           \/ RecordPaid(h) \/ FailedLoad(h) \/ FailedNoRow(h)
           \/ FailedPastDue(h) \/ FailedStop(h)
           \/ PastDueCommit(h) \/ CancelCommit(h) \/ ChangeCommit(h)

Owner(h) == \E r \in Restaurants : \/ OwnerCancel(h, r)
                                   \/ \E p \in Packages : OwnerChange(h, r, p)

Next == \/ Gateway
        \/ \E h \in Handlers : \/ \E e \in Events : Deliver(h, e)
                               \/ Step(h) \/ Owner(h) \/ Abort(h)
        \/ \E id \in 1..Len(sub) : PeriodNearsEnd(id) \/ SweepOne(id)
        \/ SweepFind \/ Tick \/ Crash

Spec == Init /\ [][Next]_vars

\* Awaits return, the hourly cron fires, and a gateway repeats an event until
\* it is answered 200; delivery is strongly fair because a slot being taken
\* by other requests is a bound of the model, not of the server.
Fairness == /\ \A h \in Handlers : WF_vars(Step(h))
            /\ \A e \in Events : SF_vars(\E h \in Handlers : Deliver(h, e))
            /\ WF_vars(SweepFind)
            /\ WF_vars(\E id \in 1..Len(sub) : SweepOne(id))

FairSpec == Spec /\ Fairness

-----------------------------------------------------------------------------
(* What holds.                                                             *)

Backed(r, ref) == /\ gw[ref] # None
                  /\ gw[ref].restaurant = r
                  /\ gw[ref].state \notin {"open", "failed"}

\* Every subscription row and every charge hangs on a checkout of that very
\* restaurant, and a row on one that was paid: whatever the order of the
\* events, no restaurant is served, billed or failed on another's payment.
BackedByOwnPayment ==
    /\ \A id \in 1..Len(sub) : Backed(sub[id].restaurant, sub[id].ref)
    /\ \A c \in charges : gw[c.ref] # None /\ gw[c.ref].restaurant = c.restaurant

\* A payment of r failed, and a grace period from then ends before time t.
FailedBefore(r, t) == firstFailure[r] # None /\ firstFailure[r] + Grace < t

\* A restaurant's menu goes dark only when a payment of it failed and a whole
\* grace period has passed since, however the webhooks and the sweep overlap.
GateNeedsGrace ==
    \A id \in 1..Len(sub) :
       sub[id].status = "expired" => FailedBefore(sub[id].restaurant, now)

\* "One logical row" can break, but only by first activations that overlap:
\* a restaurant never has more rows than there are concurrent handlers.
RowsAreBounded ==
    \A r \in Restaurants : Cardinality(RowsOf(r)) <= Cardinality(Handlers)

\* A promo code is redeemed for a row's creation and never for a renewal or a
\* redelivered event: no restaurant has more redemptions than rows.
RedeemedOnlyOnCreation ==
    \A r \in Restaurants : redemptions[r] <= Cardinality(RowsOf(r))

\* max_redemptions is tested before it is spent; redemptions in progress
\* together can pass it, by at most the handlers there are besides one.
PromoOvershootIsBounded ==
    timesRedeemed <= MaxRedemptions + Cardinality(Handlers) - 1

(* The inductive invariant of the proofs.                                  *)

HasFailed(r) == firstFailure[r] # None

SessionSound(s) == s.state \in {"past_due", "failed"} => HasFailed(s.restaurant)

EventSound(e) ==
    /\ gw[e.ref] # None
    /\ e.type \in {"active", "paid"} => gw[e.ref].state \notin {"open", "failed"}
    /\ e.type \in {"past_due", "failed"} => HasFailed(gw[e.ref].restaurant)

\* A deadline was set by a failed payment, one Grace or more ahead of it.
RowSound(row) ==
    /\ Backed(row.restaurant, row.ref)
    /\ row.graceUntil # None => FailedBefore(row.restaurant, row.graceUntil + 1)

\* What a handler relies on between its steps: w.id is a row of the event's
\* restaurant, and a deadline it is about to write is as old as it should be.
HandlerSound(w) ==
    /\ w.pc \in {"activate", "redeem", "redeemCommit", "charge", "failed",
                 "markPastDue"} => w.event # None /\ EventSound(w.event)
    /\ w.pc \in {"redeem", "redeemCommit", "charge", "pastDue", "cancel", "change"} =>
          w.id \in 1..Len(sub)
    /\ w.pc \in {"activate", "redeem", "redeemCommit", "charge", "failed"} /\ w.id # 0 =>
          w.id \in 1..Len(sub) /\ sub[w.id].restaurant = gw[w.event.ref].restaurant
    /\ w.pc = "activate" => w.event.type \in {"active", "paid"}
    /\ w.pc \in {"failed", "markPastDue"} => w.event.type = "failed"
    /\ w.pc = "markPastDue" =>
          /\ w.ref # None /\ gw[w.ref] # None
          /\ gw[w.ref].restaurant = gw[w.event.ref].restaurant
    /\ w.pc = "pastDue" => /\ w.grace # None
                           /\ FailedBefore(sub[w.id].restaurant, w.grace + 1)
    /\ w.pc = "change" => w.pkg # None

IInv == /\ TypeOK
        /\ \A r \in Restaurants : firstFailure[r] # None => firstFailure[r] <= now
        /\ \A ref \in Refs : gw[ref] # None => SessionSound(gw[ref])
        /\ \A e \in net : EventSound(e)
        /\ \A id \in 1..Len(sub) : RowSound(sub[id])
        /\ \A h \in Handlers : HandlerSound(handlers[h])
        /\ \A id \in sweep : FailedBefore(sub[id].restaurant, now)
        /\ BackedByOwnPayment /\ GateNeedsGrace

(* And, on top of it, what the bounds on rows and redemptions rest on: a   *)
(* handler half-way to a row or a redemption counts as if it were there.   *)

Creators(r) == {h \in Handlers : At(h, "activate") /\ handlers[h].id = 0 /\ Redeemer(h) = r}

Redeemers(r) == {h \in Handlers : handlers[h].pc \in {"redeem", "redeemCommit"} /\ Redeemer(h) = r}

Spenders == {h \in Handlers : At(h, "redeemCommit")}

RowsCounted(r) ==
    Cardinality(RowsOf(r)) + Cardinality(Creators(r)) <= Cardinality(Handlers)

RedemptionsCounted(r) ==
    redemptions[r] + Cardinality(Redeemers(r)) <= Cardinality(RowsOf(r))

SpendingCounted ==
    timesRedeemed + Cardinality(Spenders) <= MaxRedemptions + Cardinality(Handlers) - 1

Counted == /\ \A r \in Restaurants : RowsCounted(r) /\ RedemptionsCounted(r)
           /\ SpendingCounted

\* The cron ends every grace period: a row whose deadline has passed does not
\* stay past due.
GraceEnds ==
    \A id \in 1..Cardinality(Handlers) :
       (id \in DOMAIN sub /\ Elapsed(id)) ~> ~(id \in DOMAIN sub /\ Elapsed(id))

ActivatingEvent(ref) == [type |-> IF Stripe(ref) THEN "active" ELSE "paid",
                         ref |-> ref]

Waiting(ref, r) == /\ ActivatingEvent(ref) \in net /\ gw[ref].restaurant = r
                   /\ \A h \in Handlers : handlers[h].event # ActivatingEvent(ref)

IsActive(r) == \E id \in CurrentForRestaurant(r) : sub[id].status = "active"

\* Money is not taken for nothing: once a payment's activating event is out,
\* the restaurant's current row becomes active, through crashes and retries.
PaymentActivates ==
    \A ref \in Refs, r \in Restaurants : Waiting(ref, r) ~> IsActive(r)

-----------------------------------------------------------------------------
(* What a document says and the code does not keep.                       *)

\* A restaurant expires "without payment" (USER-APP-subscription-and-ui.md:39),
\* so not while the order its row stands on is paid and its period running.
\* Any other order of it that lapses unpaid starts a grace period all the same.
ExpiredIsUnpaid ==
    \A id \in 1..Len(sub) :
       sub[id].status = "expired" => gw[sub[id].ref].state # "paid" \/ sub[id].due

\* The row says which package the restaurant is on (schema.prisma:440): at
\* rest, the one Stripe bills.  Stripe reports a change of package under the
\* metadata of the old one, and that report is written over the change.
PackageIsBilled ==
    (\A h \in Handlers : At(h, "idle")) /\ net = {} =>
       \A id \in 1..Len(sub) :
          Stripe(sub[id].ref) => sub[id].pkg = gw[sub[id].ref].billed
=============================================================================
