----------------------------- MODULE Catalogue -----------------------------
(***************************************************************************)
(* The packages and promo codes the operator sells with                    *)
(* (RootPackagesService, RootPromoCodesService), edited while restaurants  *)
(* check out, pay and subscribe with them (PaymentsService).  Billing is   *)
(* about the life of a subscription under one fixed package and code; here *)
(* a subscription only begins, is moved or is canceled.                    *)
(*                                                                         *)
(* Requests and webhooks run in the slots Reqs and interleave between what *)
(* they read and what they write; those whose write does not depend on     *)
(* the read are one step.  Foreign keys and unique indexes hold at each    *)
(* write, and a write they refuse changes nothing.  A code's window        *)
(* startsAt..endsAt is left out (a checkout may come without it), and so   *)
(* are a package's two prices (here one) and what a code applies to.  An   *)
(* update of a code leaves its limit and its name alone here.              *)
(***************************************************************************)
EXTENDS Integers, Sequences, FiniteSets

CONSTANTS Reqs,           \* concurrent requests and webhooks
          Restaurants,
          Codes,          \* promo codes, normalised
          Currencies,     \* of the gateways
          Prices,         \* of packages, in minor units
          Amounts,        \* of discounts: percents or minor units
          Limits,         \* maxRedemptions
          None,           \* SQL NULL; in an update, a field that is not given
          Null,           \* in an update, the field set to null
          Gone,           \* a row that was deleted
          MaxRows,        \* bounds: packages and codes made,
          MaxSessions     \* checkouts

ASSUME NumbersAssumption ==
    /\ Prices \subseteq Nat /\ Amounts \subseteq Nat /\ Limits \subseteq Nat
    /\ MaxRows \in Nat /\ MaxSessions \in Nat
ASSUME NullAssumption ==
    /\ None \notin Codes \cup Currencies \cup Nat /\ Null \notin Currencies \cup {None}
    /\ Cardinality({"percent", "fixed"} \cup {None}) = 3

VARIABLES packages,     \* the subscription_packages rows, by id
          promos,       \* the promo_codes rows, by id
          redemptions,  \* the promo_redemptions rows, by id
          subs,         \* the subscriptions rows, by id
          sessions,     \* the checkouts open or paid at the gateway
          reqs          \* what each slot is doing

vars == <<packages, promos, redemptions, subs, sessions, reqs>>

PackageRows == [price : Nat, active : BOOLEAN]

PromoRows == [code : Codes, type : {"percent", "fixed"}, amount : Nat,
              currency : Currencies \cup {None}, max : Nat \cup {None},
              active : BOOLEAN, redeemed : Nat]

Redemptions == [promo : Nat, restaurant : Restaurants, session : Nat]

ASSUME GoneAssumption == Gone \notin PackageRows \cup PromoRows \cup Redemptions

SubRows == [restaurant : Restaurants, package : Nat, active : BOOLEAN]

\* What the gateway keeps of a checkout: its metadata, the price it charges,
\* and (history) the package's own price.
Sessions == [restaurant : Restaurants, package : Nat, code : Codes \cup {None},
             price : Nat, base : Nat, state : {"open", "paid", "answered"}]

\* A partial update; currency None leaves it, Null clears it.
Updates == [type : {"percent", "fixed"} \cup {None}, amount : Amounts \cup {None},
            currency : Currencies \cup {None, Null}]

NoUpdate == [type |-> None, amount |-> None, currency |-> None]

Steps == {"idle", "removePackage", "removePromo", "update", "change", "activate",
          "redeem", "redeemCommit"}

\* id is the package or the promo code, row the subscription, session the
\* checkout.  A deletion of a promo code keeps (history) in row how many
\* redemptions there were of any code when it was checked.
Work == [pc : Steps, id : Nat, row : Nat, session : Nat, type : {"percent", "fixed"} \cup {None},
         currency : Currencies \cup {None}, update : Updates]

Idle == [pc |-> "idle", id |-> 0, row |-> 0, session |-> 0, type |-> None,
         currency |-> None, update |-> NoUpdate]

TypeOK == /\ packages \in Seq(PackageRows \cup {Gone})
          /\ promos \in Seq(PromoRows \cup {Gone})
          /\ redemptions \in Seq(Redemptions \cup {Gone})
          /\ subs \in Seq(SubRows)
          /\ sessions \in Seq(Sessions)
          /\ reqs \in [Reqs -> Work]

Init == /\ packages = <<>>
        /\ promos = <<>>
        /\ redemptions = <<>>
        /\ subs = <<>>
        /\ sessions = <<>>
        /\ reqs = [h \in Reqs |-> Idle]

-----------------------------------------------------------------------------

At(h, pc) == reqs[h].pc = pc

Go(h, work) == reqs' = [reqs EXCEPT ![h] = work]

Quit(h) == Go(h, Idle)

Sold == {p \in DOMAIN packages : packages[p] # Gone}
Issued == {i \in DOMAIN promos : promos[i] # Gone}
SubscribersOf(p) == {k \in DOMAIN subs : subs[k].package = p}

\* currentForRestaurant: the newest row, 0 if there is none.
CurrentFor(r) == LET rows == {k \in DOMAIN subs : subs[k].restaurant = r}
                 IN  IF rows = {} THEN 0 ELSE CHOOSE k \in rows : \A j \in rows : j =< k

ActiveFor(r) == CurrentFor(r) # 0 /\ subs[CurrentFor(r)].active

PromoOf(code) == {i \in Issued : promos[i].code = code}

Redeemed == {d \in DOMAIN redemptions : redemptions[d] # Gone}
RedemptionsOf(i) == {d \in Redeemed : redemptions[d].promo = i}

UsedBy(i, r) == \E d \in RedemptionsOf(i) : redemptions[d].restaurant = r

UsedUp(i) == promos[i].max # None /\ promos[i].redeemed >= promos[i].max

-----------------------------------------------------------------------------
(* Packages.                                                               *)

PackageCreate ==
    \E price \in Prices :
       /\ Len(packages) + Len(promos) < MaxRows
       /\ packages' = Append(packages, [price |-> price, active |-> TRUE])
       /\ UNCHANGED <<promos, redemptions, subs, sessions, reqs>>

\* update, retire, activate.
PackageEdit(p) ==
    /\ p \in Sold
    /\ \/ \E price \in Prices : packages' = [packages EXCEPT ![p].price = price]
       \/ packages' = [packages EXCEPT ![p].active = ~@]
    /\ UNCHANGED <<promos, redemptions, subs, sessions, reqs>>

PackageRemoveCheck(h, p) ==
    /\ At(h, "idle") /\ p \in Sold /\ SubscribersOf(p) = {}
    /\ Go(h, [Idle EXCEPT !.pc = "removePackage", !.id = p])
    /\ UNCHANGED <<packages, promos, redemptions, subs, sessions>>

\* Mutant: only the count before the delete protects the subscribers.
NoRestrict(p) == FALSE

\* ON DELETE RESTRICT.
Restricts(p) == SubscribersOf(p) # {}

PackageRemove(h) ==
    LET p == reqs[h].id
    IN  /\ At(h, "removePackage")
        /\ packages' = IF p \in Sold /\ ~Restricts(p) THEN [packages EXCEPT ![p] = Gone]
                                                      ELSE packages
        /\ Quit(h)
        /\ UNCHANGED <<promos, redemptions, subs, sessions>>

-----------------------------------------------------------------------------
(* Promo codes.                                                            *)

\* assertDiscountShape.
HasShape(type, amount, currency) ==
    IF type = "percent" THEN amount =< 100 /\ currency = None ELSE currency # None

\* The code is unique.
PromoCreate ==
    \E code \in Codes, type \in {"percent", "fixed"}, amount \in Amounts,
       currency \in Currencies \cup {None}, max \in Limits \cup {None} :
       /\ Len(packages) + Len(promos) < MaxRows
       /\ HasShape(type, amount, currency) /\ PromoOf(code) = {}
       /\ promos' = Append(promos, [code |-> code, type |-> type, amount |-> amount,
                                    currency |-> currency, max |-> max,
                                    active |-> TRUE, redeemed |-> 0])
       /\ UNCHANGED <<packages, redemptions, subs, sessions, reqs>>

Given(new, old) == IF new = None THEN old ELSE new

\* What the row would be: the fields given, and those read for the rest.
TypeAfter(i, update) == Given(update.type, promos[i].type)
AmountAfter(i, update) == Given(update.amount, promos[i].amount)
CurrencyAfter(i, update) ==
    IF update.currency = Null THEN None ELSE Given(update.currency, promos[i].currency)

MergedHasShape(i, update) == HasShape(TypeAfter(i, update), AmountAfter(i, update),
                                      CurrencyAfter(i, update))

\* The currency is written even if it is not given, and with the type that was
\* read.
PromoUpdateLoad(h, i, update) ==
    /\ At(h, "idle") /\ i \in Issued /\ update # NoUpdate
    /\ MergedHasShape(i, update)
    /\ Go(h, [Idle EXCEPT !.pc = "update", !.id = i, !.update = update,
                !.currency = IF TypeAfter(i, update) = "fixed" THEN CurrencyAfter(i, update)
                                                               ELSE None])
    /\ UNCHANGED <<packages, promos, redemptions, subs, sessions>>

PromoUpdate(h) ==
    LET i == reqs[h].id
        update == reqs[h].update
    IN  /\ At(h, "update")
        /\ promos' = IF i \in Issued
                     THEN [promos EXCEPT ![i].type = Given(update.type, @),
                                         ![i].amount = Given(update.amount, @),
                                         ![i].currency = reqs[h].currency]
                     ELSE promos
        /\ Quit(h)
        /\ UNCHANGED <<packages, redemptions, subs, sessions>>

\* activate, deactivate.
PromoToggle(i) ==
    /\ i \in Issued
    /\ promos' = [promos EXCEPT ![i].active = ~@]
    /\ UNCHANGED <<packages, redemptions, subs, sessions, reqs>>

PromoRemoveCheck(h, i) ==
    /\ At(h, "idle") /\ i \in Issued /\ promos[i].redeemed = 0
    /\ Go(h, [Idle EXCEPT !.pc = "removePromo", !.id = i, !.row = Len(redemptions)])
    /\ UNCHANGED <<packages, promos, redemptions, subs, sessions>>

\* Redemptions made since the check go with the row (ON DELETE CASCADE).
PromoRemove(h) ==
    LET i == reqs[h].id
    IN  /\ At(h, "removePromo")
        /\ promos' = [promos EXCEPT ![i] = Gone]
        /\ redemptions' = [d \in DOMAIN redemptions |->
                              IF d \in RedemptionsOf(i) THEN Gone ELSE redemptions[d]]
        /\ Quit(h)
        /\ UNCHANGED <<packages, subs, sessions>>

-----------------------------------------------------------------------------
(* Checkout, and the webhook of a payment.                                 *)

\* Mutant: the percentage is added.
Surcharged(base, amount) == (base * (100 + amount) * 2 + 100) \div 200

\* Math.round(base * (1 - amount / 100)).
Percentage(base, amount) == (base * (100 - amount) * 2 + 100) \div 200

Clamped(price) == IF price < 0 THEN 0 ELSE price

Discounted(base, currency, promo) ==
    IF promo.type = "percent" THEN Clamped(Percentage(base, promo.amount))
    ELSE IF promo.currency = currency THEN Clamped(base - promo.amount) ELSE base

PromoValid(i, r) == promos[i].active /\ ~UsedUp(i) /\ ~UsedBy(i, r)

Open(r, p, code, price) ==
    /\ sessions' = Append(sessions, [restaurant |-> r, package |-> p, code |-> code,
                                     price |-> price, base |-> packages[p].price,
                                     state |-> "open"])
    /\ UNCHANGED <<packages, promos, redemptions, subs, reqs>>

\* Safepay charges one currency, Stripe the other.
Checkout(r, p, currency) ==
    /\ Len(sessions) < MaxSessions
    /\ p \in Sold /\ packages[p].active
    /\ ~ActiveFor(r)
    /\ \/ Open(r, p, None, packages[p].price)
       \/ \E i \in Issued :
             /\ PromoValid(i, r)
             /\ Open(r, p, promos[i].code, Discounted(packages[p].price, currency, promos[i]))

Pay(s) ==
    /\ sessions[s].state = "open"
    /\ sessions' = [sessions EXCEPT ![s].state = "paid"]
    /\ UNCHANGED <<packages, promos, redemptions, subs, reqs>>

Answered(s) == sessions' = [sessions EXCEPT ![s].state = "answered"]

\* Mutant: a package that was retired meanwhile is unknown.
Retired(p) == p \in Sold /\ packages[p].active

Known(p) == p \in Sold

\* An event of an unknown package is answered 200.  The package and the
\* restaurant's row are read together.
ActivateLoad(h, s) ==
    /\ At(h, "idle") /\ sessions[s].state = "paid"
    /\ IF Known(sessions[s].package)
       THEN /\ Go(h, [Idle EXCEPT !.pc = "activate", !.session = s,
                                  !.row = CurrentFor(sessions[s].restaurant)])
            /\ UNCHANGED sessions
       ELSE Answered(s) /\ UNCHANGED reqs
    /\ UNCHANGED <<packages, promos, redemptions, subs>>

\* The restaurant's row is moved to the package, or made.  The package may be
\* gone by now: the write fails, and the event comes again.  Only a new row
\* redeems the code.
Activate(h) ==
    LET s == reqs[h].session
        row == [restaurant |-> sessions[s].restaurant, package |-> sessions[s].package,
                active |-> TRUE]
        created == reqs[h].row = 0
    IN  /\ At(h, "activate")
        /\ IF row.package \notin Sold
           THEN Quit(h) /\ UNCHANGED <<subs, sessions>>
           ELSE /\ subs' = IF created THEN Append(subs, row)
                                      ELSE [subs EXCEPT ![reqs[h].row] = row]
                /\ IF created /\ sessions[s].code # None
                   THEN Go(h, [reqs[h] EXCEPT !.pc = "redeem"]) /\ UNCHANGED sessions
                   ELSE Answered(s) /\ Quit(h)
        /\ UNCHANGED <<packages, promos, redemptions>>

RedeemLoad(h) ==
    LET s == reqs[h].session
        valid == {i \in PromoOf(sessions[s].code) : PromoValid(i, sessions[s].restaurant)}
    IN  /\ At(h, "redeem")
        /\ IF valid = {}
           THEN Answered(s) /\ Quit(h)
           ELSE /\ \E i \in valid : Go(h, [reqs[h] EXCEPT !.pc = "redeemCommit", !.id = i])
                /\ UNCHANGED sessions
        /\ UNCHANGED <<packages, promos, redemptions, subs>>

\* Mutant: the count is not part of the transaction.
RowOnly(i) == promos

CountAndRow(i) == [promos EXCEPT ![i].redeemed = @ + 1]

\* One transaction; it fails if the code is gone, and the event comes again.
RedeemCommit(h) ==
    LET s == reqs[h].session
        i == reqs[h].id
    IN  /\ At(h, "redeemCommit")
        /\ IF i \in Issued
           THEN /\ promos' = CountAndRow(i)
                /\ redemptions' = Append(redemptions,
                     [promo |-> i, restaurant |-> sessions[s].restaurant, session |-> s])
                /\ Answered(s)
           ELSE UNCHANGED <<promos, redemptions, sessions>>
        /\ Quit(h)
        /\ UNCHANGED <<packages, subs>>

Cancel(r) ==
    /\ ActiveFor(r)
    /\ subs' = [subs EXCEPT ![CurrentFor(r)].active = FALSE]
    /\ UNCHANGED <<packages, promos, redemptions, sessions, reqs>>

ChangeLoad(h, r, p) ==
    /\ At(h, "idle") /\ ActiveFor(r) /\ p \in Sold /\ packages[p].active
    /\ Go(h, [Idle EXCEPT !.pc = "change", !.row = CurrentFor(r), !.id = p])
    /\ UNCHANGED <<packages, promos, redemptions, subs, sessions>>

Change(h) ==
    /\ At(h, "change")
    /\ subs' = IF reqs[h].id \in Sold
               THEN [subs EXCEPT ![reqs[h].row].package = reqs[h].id] ELSE subs
    /\ Quit(h)
    /\ UNCHANGED <<packages, promos, redemptions, sessions>>

-----------------------------------------------------------------------------

Next == \/ PackageCreate \/ PromoCreate
        \/ \E p \in DOMAIN packages : PackageEdit(p)
        \/ \E i \in DOMAIN promos : PromoToggle(i)
        \/ \E r \in Restaurants : \/ Cancel(r)
                                \/ \E p \in DOMAIN packages, c \in Currencies : Checkout(r, p, c)
        \/ \E s \in DOMAIN sessions : Pay(s)
        \/ \E h \in Reqs :
             \/ \E p \in DOMAIN packages : PackageRemoveCheck(h, p)
             \/ \E i \in DOMAIN promos : \/ PromoRemoveCheck(h, i)
                                         \/ \E u \in Updates : PromoUpdateLoad(h, i, u)
             \/ \E s \in DOMAIN sessions : ActivateLoad(h, s)
             \/ \E r \in Restaurants, p \in DOMAIN packages : ChangeLoad(h, r, p)
             \/ PackageRemove(h) \/ PromoUpdate(h) \/ PromoRemove(h)
             \/ Activate(h) \/ RedeemLoad(h) \/ RedeemCommit(h) \/ Change(h)

Spec == Init /\ [][Next]_vars

-----------------------------------------------------------------------------

\* "A package with live subscriptions must be soft-retired, never hard-deleted
\* out from under them": whatever is deleted while it is being bought.
SubscribersKeepTheirPackage == \A k \in DOMAIN subs : subs[k].package \in Sold

\* A payment is lost on the restaurant only if its package was deleted: not if
\* it was retired or repriced while the owner was paying.
PaymentsAreHonoured ==
    \A s \in DOMAIN sessions :
       /\ sessions[s].state = "answered"
       /\ \A k \in DOMAIN subs : subs[k].restaurant # sessions[s].restaurant
       => packages[sessions[s].package] = Gone

\* Whatever updates of a code make of it together, nobody is charged more than
\* the package costs, nor less than nothing.
PricesAreSane == \A s \in DOMAIN sessions : sessions[s].price \in 0..sessions[s].base

\* The count a deletion goes by is no older than its check: the redemptions it
\* is about to take along, however many raced it, were all made since.
HistoryLostIsRecent ==
    \A h \in Reqs : At(h, "removePromo") =>
       \A d \in RedemptionsOf(reqs[h].id) : d > reqs[h].row

\* "This code has redemption history and cannot be deleted": no redemption is
\* ever deleted.
HistoryIsKept == \A d \in DOMAIN redemptions : redemptions[d] # Gone

\* "This promo code has already been used on this restaurant": nobody
\* subscribes twice with one code's discount.
CodesServeOnce ==
    \A s, t \in DOMAIN sessions :
       /\ s # t /\ Known(sessions[s].package)
       /\ sessions[s].restaurant = sessions[t].restaurant
       /\ sessions[s].state = "answered" /\ sessions[t].state = "answered"
       /\ sessions[s].price < sessions[s].base /\ sessions[t].price < sessions[t].base
       => sessions[s].code # sessions[t].code

-----------------------------------------------------------------------------
(* The inductive invariant.                                                *)

\* A code that is there counts its redemptions.
RedemptionsAreCounted ==
    \A i \in Issued : promos[i].redeemed = Cardinality(RedemptionsOf(i))

\* What rows and checkouts refer to was made, if it is not there any more.
RowsSound ==
    /\ \A s \in DOMAIN sessions : sessions[s].package \in DOMAIN packages
    /\ \A d \in Redeemed : redemptions[d].promo \in DOMAIN promos

HasRow(r) == \E k \in DOMAIN subs : subs[k].restaurant = r

\* What a request carries over to its write: the row it is to move is of the
\* restaurant that paid, one that is to redeem has made a row, and the code it
\* is to delete was redeemed only since it was checked.
WorkSound(work) ==
    LET s == work.session
        k == work.row
    IN  /\ work.pc \in {"activate", "redeem", "redeemCommit"} => s \in DOMAIN sessions
        /\ work.pc = "activate" /\ k # 0 =>
              k \in DOMAIN subs /\ subs[k].restaurant = sessions[s].restaurant
        /\ work.pc \in {"redeem", "redeemCommit"} => HasRow(sessions[s].restaurant)
        /\ work.pc = "removePromo" => /\ k =< Len(redemptions)
                                      /\ \A d \in RedemptionsOf(work.id) : k < d

RequestsSound == \A h \in Reqs : WorkSound(reqs[h])

IInv == /\ TypeOK /\ RowsSound /\ RequestsSound
        /\ SubscribersKeepTheirPackage /\ PaymentsAreHonoured
        /\ PricesAreSane /\ RedemptionsAreCounted
=============================================================================
