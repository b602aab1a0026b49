-------------------------- MODULE Catalogue_proofs --------------------------
(***************************************************************************)
(* Proofs about Catalogue, for every choice of its constants.              *)
(*                                                                         *)
(* What a step does to each table is stated first (PackagesKept, ...), and *)
(* shown action by action; the parts of the invariant follow from those    *)
(* five alone.                                                             *)
(***************************************************************************)
EXTENDS Catalogue, FiniteSetTheorems, SequenceTheorems, WellFoundedInduction, TLAPS

-----------------------------------------------------------------------------
(* Types.                                                                  *)

\* A function on 1..n is a sequence of length n.
LEMMA FunctionIsASeq ==
    ASSUME NEW T, NEW n \in Nat, NEW f \in [1..n -> T]
    PROVE f \in Seq(T) /\ Len(f) = n
  <1>1. f \in Seq(T)
    BY SeqDef
  <1>2. QED
    BY <1>1, LenProperties

\* A row that is inserted.
LEMMA Inserted ==
    ASSUME NEW T, NEW table \in Seq(T), NEW row \in T
    PROVE /\ Append(table, row) \in Seq(T)
          /\ DOMAIN table = 1..Len(table) /\ Len(table) \in Nat
          /\ DOMAIN Append(table, row) = DOMAIN table \cup {Len(table) + 1}
          /\ Len(table) + 1 \notin DOMAIN table
          /\ Append(table, row)[Len(table) + 1] = row
          /\ \A k \in DOMAIN table : Append(table, row)[k] = table[k]
  <1>1. /\ Append(table, row) \in Seq(T) /\ Len(Append(table, row)) = Len(table) + 1
        /\ Append(table, row)[Len(table) + 1] = row
        /\ \A k \in 1..Len(table) : Append(table, row)[k] = table[k]
        /\ DOMAIN Append(table, row) = 1..Len(Append(table, row))
        /\ DOMAIN table = 1..Len(table) /\ Len(table) \in Nat
    BY AppendProperties, LenProperties
  <1>2. QED
    BY <1>1

\* A row that is written.
LEMMA Written ==
    ASSUME NEW T, NEW table \in Seq(T), NEW k \in DOMAIN table, NEW row \in T
    PROVE /\ [table EXCEPT ![k] = row] \in Seq(T)
          /\ DOMAIN [table EXCEPT ![k] = row] = DOMAIN table
          /\ \A j \in DOMAIN table :
                [table EXCEPT ![k] = row][j] = IF j = k THEN row ELSE table[j]
  <1>1. k \in 1..Len(table)
    BY LenProperties
  <1>2. QED
    BY <1>1, ExceptSeq

\* The rows of a table.
LEMMA RowsAreTyped ==
    ASSUME NEW T, NEW table \in Seq(T)
    PROVE /\ Len(table) \in Nat /\ DOMAIN table = 1..Len(table) /\ DOMAIN table \subseteq Nat
          /\ 0 \notin DOMAIN table /\ \A k \in DOMAIN table : table[k] \in T
  BY LenProperties

\* ... are what the table is of.
LEMMA TablesAreTyped ==
    ASSUME TypeOK
    PROVE /\ \A p \in Sold : p \in DOMAIN packages /\ packages[p] \in PackageRows
          /\ \A i \in Issued : i \in DOMAIN promos /\ promos[i] \in PromoRows
          /\ \A d \in Redeemed : d \in DOMAIN redemptions /\ redemptions[d] \in Redemptions
          /\ \A k \in DOMAIN subs : k \in Nat /\ k # 0 /\ subs[k] \in SubRows
          /\ \A s \in DOMAIN sessions : s \in Nat /\ sessions[s] \in Sessions
  <1>1. /\ \A p \in DOMAIN packages : packages[p] \in PackageRows \cup {Gone}
        /\ \A i \in DOMAIN promos : promos[i] \in PromoRows \cup {Gone}
        /\ \A d \in DOMAIN redemptions : redemptions[d] \in Redemptions \cup {Gone}
        /\ \A k \in DOMAIN subs : k \in Nat /\ k # 0 /\ subs[k] \in SubRows
        /\ \A s \in DOMAIN sessions : s \in Nat /\ sessions[s] \in Sessions
    BY RowsAreTyped DEF TypeOK
  <1>2. QED
    BY <1>1 DEF Sold, Issued, Redeemed

\* A code's redemptions are finitely many.
LEMMA RedemptionsAreFinite ==
    ASSUME TypeOK, NEW i
    PROVE IsFiniteSet(RedemptionsOf(i))
  <1>1. PICK m : m = Len(redemptions)
    OBVIOUS
  <1>2. m \in Nat /\ RedemptionsOf(i) \subseteq 1..m
    BY <1>1, RowsAreTyped DEF TypeOK, RedemptionsOf, Redeemed
  <1>3. IsFiniteSet(1..m)
    BY <1>2, FS_Interval
  <1>4. QED
    BY <1>2, <1>3, FS_Subset

\* The fields of a request.
LEMMA RequestIsTyped ==
    ASSUME TypeOK, NEW h \in Reqs
    PROVE /\ reqs[h] \in Work
          /\ reqs[h].id \in Nat /\ reqs[h].row \in Nat /\ reqs[h].session \in Nat
          /\ reqs[h].currency \in Currencies \cup {None} /\ reqs[h].update \in Updates
  BY DEF TypeOK, Work

\* A free slot, which carries nothing over.
LEMMA IdleIsTyped == Idle \in Work /\ WorkSound(Idle)
  BY DEF Idle, Work, Steps, NoUpdate, Updates, WorkSound

\* A restaurant's current row is its own.
LEMMA CurrentIsItsOwn ==
    ASSUME TypeOK, NEW r
    PROVE \/ CurrentFor(r) = 0
          \/ CurrentFor(r) \in DOMAIN subs /\ subs[CurrentFor(r)].restaurant = r
  <1> DEFINE rows == {k \in DOMAIN subs : subs[k].restaurant = r}
  <1>1. CASE rows = {}
    BY <1>1 DEF CurrentFor
  <1>2. CASE rows # {}
    <2>1. PICK n : n = Len(subs)
      OBVIOUS
    <2>2. n \in Nat /\ rows \subseteq 1..n
      BY <2>1, RowsAreTyped DEF TypeOK
    <2>3. \E k \in rows : \A j \in rows : j =< k
      <3> DEFINE below == {i \in Nat : n - i \in rows}
      <3>1. below # {}
        <4>1. PICK k \in rows : TRUE
          BY <1>2
        <4>2. PICK i : i = n - k
          OBVIOUS
        <4>3. i \in Nat /\ n - i = k
          BY <2>2, <4>1, <4>2
        <4>4. QED
          BY <4>1, <4>3
      <3>2. PICK R : R = OpToRel(<, Nat)
        BY Zenon
      <3>3. R = {ss \in Nat \X Nat : ss[1] < ss[2]}
        BY Zenon, <3>2 DEF OpToRel
      <3>4. IsWellFoundedOn(R, Nat)
        BY Zenon, <3>2, NatLessThanWellFounded
      <3>5. PICK i \in below : \A j \in below : <<j, i>> \notin R
        BY <3>1, <3>4, WFMin
      <3>6. \A j \in below : ~(j < i)
        BY <3>3, <3>5
      <3>7. ASSUME NEW k \in rows
            PROVE k =< n - i
        <4>1. PICK j : j = n - k
          OBVIOUS
        <4>2. j \in Nat /\ n - j = k
          BY <2>2, <4>1
        <4>3. j \in below
          BY <4>2
        <4>4. QED
          BY <2>2, <3>6, <4>1, <4>2, <4>3
      <3>8. QED
        BY <3>5, <3>7
    <2>4. CurrentFor(r) = CHOOSE k \in rows : \A j \in rows : j =< k
      BY <1>2 DEF CurrentFor
    <2>5. CurrentFor(r) \in rows
      BY <2>3, <2>4
    <2>6. QED
      BY <2>5
  <1>3. QED
    BY <1>1, <1>2

-----------------------------------------------------------------------------
(* Prices.                                                                 *)

\* A percentage takes nothing from a price that it does not have: it may be
\* more than a hundred.
LEMMA PercentageIsLess ==
    ASSUME NEW base \in Nat, NEW amount \in Nat
    PROVE Percentage(base, amount) \in Int /\ Percentage(base, amount) =< base
  <1>1. PICK x : base * amount = x
    OBVIOUS
  <1>2. x \in Nat
    BY <1>1
  <1>3. base * (100 - amount) = 100 * base - x
    BY <1>1
  <1>4. PICK y : y = (100 * base - x) * 2 + 100
    OBVIOUS
  <1>5. y \in Int /\ y =< 200 * base + 100
    BY <1>2, <1>4
  <1>6. y \div 200 \in Int /\ y \div 200 =< base
    BY <1>5
  <1>7. QED
    BY <1>3, <1>4, <1>6 DEF Percentage

\* Whatever row a code has, it makes a price no higher.
LEMMA DiscountedIsLess ==
    ASSUME NEW base \in Nat, NEW currency, NEW promo \in PromoRows
    PROVE Discounted(base, currency, promo) \in 0..base
  <1>1. promo.amount \in Nat
    BY DEF PromoRows
  <1>2. CASE promo.type = "percent"
    <2>1. Percentage(base, promo.amount) \in Int /\ Percentage(base, promo.amount) =< base
      BY <1>1, PercentageIsLess
    <2>2. Clamped(Percentage(base, promo.amount)) \in 0..base
      BY <2>1 DEF Clamped
    <2>3. QED
      BY <1>2, <2>2 DEF Discounted
  <1>3. CASE promo.type # "percent" /\ promo.currency = currency
    <2>1. Clamped(base - promo.amount) \in 0..base
      BY <1>1 DEF Clamped
    <2>2. QED
      BY <1>3, <2>1 DEF Discounted
  <1>4. CASE promo.type # "percent" /\ promo.currency # currency
    BY <1>4 DEF Discounted
  <1>5. QED
    BY <1>2, <1>3, <1>4

-----------------------------------------------------------------------------
(* What a step does to each table.                                         *)

\* A package that is deleted stays so, and none is that a restaurant is
\* subscribed to.
PackagesKept ==
    /\ packages' \in Seq(PackageRows \cup {Gone})
    /\ DOMAIN packages \subseteq DOMAIN packages'
    /\ \A p \in DOMAIN packages : packages[p] = Gone => packages'[p] = Gone
    /\ \A k \in DOMAIN subs : subs[k].package \in Sold => subs[k].package \in Sold'

\* A subscription stays with its restaurant and is moved only to a package
\* that is there.
SubsKept ==
    /\ subs' \in Seq(SubRows)
    /\ DOMAIN subs \subseteq DOMAIN subs'
    /\ \A k \in DOMAIN subs : subs'[k].restaurant = subs[k].restaurant
    /\ \A k \in DOMAIN subs' :
          \/ k \in DOMAIN subs /\ subs'[k].package = subs[k].package
          \/ subs'[k].package \in Sold /\ packages' = packages

\* Redemptions are only added at the end, or deleted.
HistoryGrows ==
    /\ Len(redemptions) =< Len(redemptions')
    /\ \A d \in Redeemed' : \/ d \in Redeemed /\ redemptions'[d].promo = redemptions[d].promo
                            \/ Len(redemptions) < d

\* Codes are counted as they are redeemed.
PromosKept ==
    /\ promos' \in Seq(PromoRows \cup {Gone})
    /\ redemptions' \in Seq(Redemptions \cup {Gone})
    /\ \A d \in Redeemed' : redemptions'[d].promo \in DOMAIN promos'
    /\ RedemptionsAreCounted' /\ HistoryGrows

\* A checkout stays what it is; one is answered when its restaurant has a row
\* or its package is gone.
SameCheckout(t, s) == /\ t.restaurant = s.restaurant /\ t.package = s.package
                      /\ t.price = s.price /\ t.base = s.base

HasRowNext(r) == \E k \in DOMAIN subs' : subs'[k].restaurant = r

SessionsKept ==
    /\ sessions' \in Seq(Sessions)
    /\ DOMAIN sessions \subseteq DOMAIN sessions'
    /\ \A s \in DOMAIN sessions : SameCheckout(sessions'[s], sessions[s])
    /\ \A s \in DOMAIN sessions' :
          \/ /\ s \in DOMAIN sessions
             /\ sessions'[s].state = "answered" =>
                   \/ sessions[s].state = "answered"
                   \/ HasRowNext(sessions[s].restaurant)
                   \/ packages[sessions[s].package] = Gone
          \/ /\ sessions'[s].package \in DOMAIN packages /\ sessions'[s].state = "open"
             /\ sessions'[s].price \in 0..sessions'[s].base

\* A request carries over what it read, or was to write.
RequestsKept ==
    /\ reqs' \in [Reqs -> Work]
    /\ \A h \in Reqs, work \in Work :
          reqs'[h] = work => reqs[h] = work \/ WorkSound(work) \/ WorkSound(work)'

\* A deletion that was checked has a history only of what came after.
LEMMA HistoryStaysRecent ==
    ASSUME TypeOK, PromosKept, NEW i, NEW k \in Nat, k =< Len(redemptions),
           \A d \in RedemptionsOf(i) : k < d
    PROVE k =< Len(redemptions') /\ \A d \in RedemptionsOf(i)' : k < d
  <1>1. PICK n, m : n = Len(redemptions) /\ m = Len(redemptions')
    OBVIOUS
  <1>2. /\ n \in Nat /\ m \in Nat /\ n =< m /\ k =< n
        /\ DOMAIN redemptions' \subseteq Nat
    BY <1>1, RowsAreTyped DEF TypeOK, PromosKept, HistoryGrows
  <1>3. ASSUME NEW d \in RedemptionsOf(i)'
        PROVE k < d
    <2>1. d \in Redeemed' /\ redemptions'[d].promo = i /\ d \in Nat
      BY <1>2, <1>3 DEF RedemptionsOf, Redeemed
    <2>2. CASE d \in Redeemed /\ redemptions'[d].promo = redemptions[d].promo
      BY <2>1, <2>2 DEF RedemptionsOf
    <2>3. CASE n < d
      BY <1>2, <2>1, <2>3
    <2>4. QED
      BY <1>1, <2>1, <2>2, <2>3 DEF PromosKept, HistoryGrows
  <1>4. QED
    BY <1>1, <1>2, <1>3

\* What a request has read stays true of the restaurant's rows and checkouts.
LEMMA WorkStaysSound ==
    ASSUME TypeOK, SubsKept, SessionsKept, PromosKept, NEW work \in Work, WorkSound(work)
    PROVE WorkSound(work)'
  <1>1. PICK s, k : s = work.session /\ k = work.row
    OBVIOUS
  <1>2. ASSUME s \in DOMAIN sessions
        PROVE s \in DOMAIN sessions' /\ sessions'[s].restaurant = sessions[s].restaurant
    BY <1>2 DEF SessionsKept, SameCheckout
  <1>3. ASSUME k \in DOMAIN subs
        PROVE k \in DOMAIN subs' /\ subs'[k].restaurant = subs[k].restaurant
    BY <1>3 DEF SubsKept
  <1>4. ASSUME NEW r, HasRow(r)
        PROVE HasRow(r)'
    BY <1>4 DEF HasRow, SubsKept
  <1>5. work.pc \in {"activate", "redeem", "redeemCommit"} => s \in DOMAIN sessions
    BY <1>1 DEF WorkSound
  <1>6. work.pc = "activate" /\ k # 0 =>
           k \in DOMAIN subs /\ subs[k].restaurant = sessions[s].restaurant
    BY <1>1 DEF WorkSound
  <1>7. work.pc \in {"redeem", "redeemCommit"} => HasRow(sessions[s].restaurant)
    BY <1>1 DEF WorkSound
  <1>8. work.pc \in {"redeem", "redeemCommit"} =>
           \E j \in DOMAIN subs' : subs'[j].restaurant = sessions'[s].restaurant
    BY <1>2, <1>4, <1>5, <1>7 DEF HasRow
  <1>9. ASSUME work.pc = "removePromo"
        PROVE k =< Len(redemptions') /\ \A d \in RedemptionsOf(work.id)' : k < d
    <2>1. k \in Nat
      BY <1>1 DEF Work
    <2>2. k =< Len(redemptions) /\ \A d \in RedemptionsOf(work.id) : k < d
      BY <1>1, <1>9 DEF WorkSound
    <2>3. QED
      BY <2>1, <2>2, HistoryStaysRecent
  <1>10. QED
    BY <1>1, <1>2, <1>3, <1>5, <1>6, <1>8, <1>9 DEF WorkSound, HasRow

\* The five are enough for the invariant.
LEMMA TablesKept ==
    ASSUME IInv, PackagesKept, SubsKept, PromosKept, SessionsKept, RequestsKept
    PROVE IInv'
  <1>1. TypeOK'
    BY DEF TypeOK, PackagesKept, SubsKept, PromosKept, SessionsKept, RequestsKept
  <1>2. RowsSound'
    <2>1. ASSUME NEW s \in DOMAIN sessions'
          PROVE sessions'[s].package \in DOMAIN packages'
      <3>1. CASE s \in DOMAIN sessions
        BY <3>1 DEF IInv, RowsSound, PackagesKept, SessionsKept, SameCheckout
      <3>2. CASE s \notin DOMAIN sessions
        BY <2>1, <3>2 DEF PackagesKept, SessionsKept
      <3>3. QED
        BY <3>1, <3>2
    <2>2. QED
      BY <2>1 DEF RowsSound, PromosKept
  <1>3. RequestsSound'
    <2>1. ASSUME NEW h \in Reqs, NEW work \in Work, reqs'[h] = work
          PROVE WorkSound(work)'
      <3>1. reqs[h] = work => WorkSound(work)
        BY DEF IInv, RequestsSound
      <3>2. QED
        BY <2>1, <3>1, WorkStaysSound DEF RequestsKept, IInv
    <2>2. \A h \in Reqs : reqs'[h] \in Work
      BY DEF RequestsKept
    <2>3. QED
      BY <2>1, <2>2 DEF RequestsSound
  <1>4. SubscribersKeepTheirPackage'
    BY DEF IInv, SubscribersKeepTheirPackage, PackagesKept, SubsKept, Sold
  <1>5. PaymentsAreHonoured'
    <2>1. ASSUME NEW s \in DOMAIN sessions', sessions'[s].state = "answered",
                 \A k \in DOMAIN subs' : subs'[k].restaurant # sessions'[s].restaurant
          PROVE packages'[sessions'[s].package] = Gone
      <3>1. s \in DOMAIN sessions
        BY <2>1 DEF SessionsKept
      <3>2. SameCheckout(sessions'[s], sessions[s])
        BY <3>1 DEF SessionsKept
      <3>3. /\ ~HasRowNext(sessions[s].restaurant)
            /\ \A k \in DOMAIN subs : subs[k].restaurant # sessions[s].restaurant
        BY <2>1, <3>2 DEF SubsKept, SameCheckout, HasRowNext
      <3>4. sessions[s].state = "answered" \/ packages[sessions[s].package] = Gone
        BY <2>1, <3>1, <3>3 DEF SessionsKept
      <3>5. packages[sessions[s].package] = Gone
        BY <3>1, <3>3, <3>4 DEF IInv, PaymentsAreHonoured
      <3>6. sessions[s].package \in DOMAIN packages
        BY <3>1 DEF IInv, RowsSound
      <3>7. QED
        BY <3>2, <3>5, <3>6 DEF PackagesKept, SameCheckout
    <2>2. QED
      BY <2>1 DEF PaymentsAreHonoured
  <1>6. PricesAreSane'
    <2>1. ASSUME NEW s \in DOMAIN sessions'
          PROVE sessions'[s].price \in 0..sessions'[s].base
      <3>1. CASE s \in DOMAIN sessions
        BY <3>1 DEF IInv, PricesAreSane, SessionsKept, SameCheckout
      <3>2. CASE s \notin DOMAIN sessions
        BY <2>1, <3>2 DEF SessionsKept
      <3>3. QED
        BY <3>1, <3>2
    <2>2. QED
      BY <2>1 DEF PricesAreSane
  <1>7. RedemptionsAreCounted'
    BY DEF PromosKept
  <1>8. QED
    BY <1>1, <1>2, <1>3, <1>4, <1>5, <1>6, <1>7 DEF IInv

-----------------------------------------------------------------------------
(* Tables a step leaves alone.                                             *)

\* A table no step wrote is kept.
LEMMA SamePackages ==
    ASSUME TypeOK, packages' = packages
    PROVE PackagesKept
  BY DEF TypeOK, PackagesKept, Sold

\* ... nor the subscriptions, ...
LEMMA SameSubs ==
    ASSUME TypeOK, subs' = subs
    PROVE SubsKept
  BY DEF TypeOK, SubsKept

\* ... the codes and their redemptions, ...
LEMMA SamePromos ==
    ASSUME IInv, promos' = promos, redemptions' = redemptions
    PROVE PromosKept
  <1>1. /\ Issued' = Issued /\ Redeemed' = Redeemed
        /\ \A i : RedemptionsOf(i)' = RedemptionsOf(i)
    BY DEF Issued, Redeemed, RedemptionsOf
  <1>2. RedemptionsAreCounted'
    BY <1>1 DEF IInv, RedemptionsAreCounted
  <1>3. HistoryGrows
    BY <1>1, RowsAreTyped DEF IInv, TypeOK, HistoryGrows
  <1>4. QED
    BY <1>1, <1>2, <1>3 DEF IInv, TypeOK, RowsSound, PromosKept

\* ... the checkouts, ...
LEMMA SameSessions ==
    ASSUME TypeOK, sessions' = sessions
    PROVE SessionsKept
  BY DEF TypeOK, SessionsKept, SameCheckout

\* ... the requests ...
LEMMA SameRequests ==
    ASSUME TypeOK, reqs' = reqs
    PROVE RequestsKept
  BY DEF TypeOK, RequestsKept

\* ... but for one slot.
LEMMA OneRequest ==
    ASSUME TypeOK, NEW h \in Reqs, NEW work \in Work, Go(h, work),
           WorkSound(work) \/ WorkSound(work)'
    PROVE RequestsKept
  <1>1. /\ reqs' \in [Reqs -> Work] /\ reqs'[h] = work
        /\ \A g \in Reqs : g # h => reqs'[g] = reqs[g]
    BY DEF TypeOK, Go
  <1>2. QED
    BY <1>1 DEF RequestsKept

\* A request that ends.
LEMMA QuitKept ==
    ASSUME TypeOK, NEW h \in Reqs, Quit(h)
    PROVE RequestsKept
  BY IdleIsTyped, OneRequest DEF Quit

\* A checkout that is answered.
LEMMA AnsweredKept ==
    ASSUME TypeOK, NEW s \in DOMAIN sessions, Answered(s),
           HasRowNext(sessions[s].restaurant) \/ packages[sessions[s].package] = Gone
    PROVE SessionsKept
  <1>1. sessions[s] \in Sessions
    BY TablesAreTyped
  <1>2. PICK t : t = [sessions[s] EXCEPT !.state = "answered"]
    OBVIOUS
  <1>3. t \in Sessions /\ SameCheckout(t, sessions[s])
    BY <1>1, <1>2 DEF Sessions, SameCheckout
  <1>4. sessions' = [sessions EXCEPT ![s] = t]
    BY <1>2 DEF Answered
  <1>5. /\ sessions' \in Seq(Sessions) /\ DOMAIN sessions' = DOMAIN sessions
        /\ \A u \in DOMAIN sessions : sessions'[u] = IF u = s THEN t ELSE sessions[u]
    BY <1>3, <1>4, Written DEF TypeOK
  <1>6. QED
    BY <1>3, <1>5 DEF SessionsKept, SameCheckout

-----------------------------------------------------------------------------
(* The operator's actions.                                                 *)

\* A package that is made.
LEMMA KeptPackageCreate ==
    ASSUME IInv, PackageCreate
    PROVE IInv'
  <1>1. TypeOK
    BY DEF IInv
  <1>2. PICK price \in Prices :
           packages' = Append(packages, [price |-> price, active |-> TRUE])
    BY DEF PackageCreate
  <1>3. PICK row : row = [price |-> price, active |-> TRUE]
    OBVIOUS
  <1>4. row \in PackageRows
    BY <1>3, NumbersAssumption DEF PackageRows
  <1>5. /\ packages' \in Seq(PackageRows \cup {Gone}) /\ DOMAIN packages \subseteq DOMAIN packages'
        /\ \A p \in DOMAIN packages : packages'[p] = packages[p]
    BY <1>1, <1>2, <1>3, <1>4, Inserted DEF TypeOK
  <1>6. PackagesKept
    BY <1>5 DEF PackagesKept, Sold
  <1>7. QED
    BY <1>1, <1>6, SameSubs, SamePromos, SameSessions, SameRequests, TablesKept
       DEF PackageCreate

\* A package that is edited is still sold.
LEMMA KeptPackageEdit ==
    ASSUME IInv, NEW p \in DOMAIN packages, PackageEdit(p)
    PROVE IInv'
  <1>1. TypeOK /\ p \in Sold /\ packages[p] \in PackageRows
    BY TablesAreTyped DEF IInv, PackageEdit
  <1>2. \E row \in PackageRows : packages' = [packages EXCEPT ![p] = row]
    <2>1. CASE \E price \in Prices : packages' = [packages EXCEPT ![p].price = price]
      <3>1. PICK price \in Prices : packages' = [packages EXCEPT ![p].price = price]
        BY <2>1
      <3>2. PICK row : row = [packages[p] EXCEPT !.price = price]
        OBVIOUS
      <3>3. row \in PackageRows
        BY <1>1, <3>2, NumbersAssumption DEF PackageRows
      <3>4. packages' = [packages EXCEPT ![p] = row]
        BY <3>1, <3>2
      <3>5. QED
        BY <3>3, <3>4
    <2>2. CASE packages' = [packages EXCEPT ![p].active = ~@]
      <3>1. PICK row : row = [packages[p] EXCEPT !.active = ~packages[p].active]
        OBVIOUS
      <3>2. row \in PackageRows
        BY <1>1, <3>1 DEF PackageRows
      <3>3. packages' = [packages EXCEPT ![p] = row]
        BY <2>2, <3>1
      <3>4. QED
        BY <3>2, <3>3
    <2>3. QED
      BY <2>1, <2>2 DEF PackageEdit
  <1>3. PICK row \in PackageRows : packages' = [packages EXCEPT ![p] = row]
    BY <1>2
  <1>4. /\ packages' \in Seq(PackageRows \cup {Gone}) /\ DOMAIN packages' = DOMAIN packages
        /\ \A q \in DOMAIN packages : packages'[q] = IF q = p THEN row ELSE packages[q]
    BY <1>1, <1>3, Written DEF TypeOK
  <1>5. PackagesKept
    BY <1>1, <1>4, GoneAssumption DEF PackagesKept, Sold
  <1>6. QED
    BY <1>1, <1>5, SameSubs, SamePromos, SameSessions, SameRequests, TablesKept DEF PackageEdit

\* A package is deleted only if no restaurant has it.
LEMMA KeptPackageRemove ==
    ASSUME IInv, NEW h \in Reqs, PackageRemove(h)
    PROVE IInv'
  <1>1. TypeOK
    BY DEF IInv
  <1>2. PICK p : p = reqs[h].id
    OBVIOUS
  <1>3. CASE p \in Sold /\ ~Restricts(p)
    <2>1. packages' = [packages EXCEPT ![p] = Gone]
      BY <1>2, <1>3 DEF PackageRemove
    <2>2. p \in DOMAIN packages
      BY <1>3 DEF Sold
    <2>3. /\ packages' \in Seq(PackageRows \cup {Gone}) /\ DOMAIN packages' = DOMAIN packages
          /\ \A q \in DOMAIN packages : packages'[q] = IF q = p THEN Gone ELSE packages[q]
      BY <1>1, <2>1, <2>2, Written DEF TypeOK
    <2>4. \A k \in DOMAIN subs : subs[k].package # p
      BY <1>3 DEF Restricts, SubscribersOf
    <2>5. PackagesKept
      BY <2>3, <2>4 DEF PackagesKept, Sold
    <2>6. QED
      BY <1>1, <2>5, SameSubs, SamePromos, SameSessions, QuitKept, TablesKept DEF PackageRemove
  <1>4. CASE ~(p \in Sold /\ ~Restricts(p))
    <2>1. packages' = packages
      BY <1>2, <1>4 DEF PackageRemove
    <2>2. QED
      BY <1>1, <2>1, SamePackages, SameSubs, SamePromos, SameSessions, QuitKept, TablesKept
         DEF PackageRemove
  <1>5. QED
    BY <1>3, <1>4

\* A code that is new has no redemptions.
LEMMA KeptPromoCreate ==
    ASSUME IInv, PromoCreate
    PROVE IInv'
  <1>1. TypeOK
    BY DEF IInv
  <1>2. PICK row \in PromoRows : promos' = Append(promos, row) /\ row.redeemed = 0
    <2>1. PICK code \in Codes, type \in {"percent", "fixed"}, amount \in Amounts,
               currency \in Currencies \cup {None}, max \in Limits \cup {None} :
             promos' = Append(promos, [code |-> code, type |-> type, amount |-> amount,
                                       currency |-> currency, max |-> max,
                                       active |-> TRUE, redeemed |-> 0])
      BY DEF PromoCreate
    <2>2. amount \in Nat /\ max \in Nat \cup {None}
      BY NumbersAssumption
    <2>3. PICK row : row = [code |-> code, type |-> type, amount |-> amount,
                            currency |-> currency, max |-> max, active |-> TRUE, redeemed |-> 0]
      OBVIOUS
    <2>4. row \in PromoRows /\ row.redeemed = 0
      BY <2>2, <2>3 DEF PromoRows
    <2>5. QED
      BY <2>1, <2>3, <2>4
  <1>3. PICK new : new = Len(promos) + 1
    OBVIOUS
  <1>4. /\ promos' \in Seq(PromoRows \cup {Gone}) /\ DOMAIN promos' = DOMAIN promos \cup {new}
        /\ new \notin DOMAIN promos /\ promos'[new] = row
        /\ \A i \in DOMAIN promos : promos'[i] = promos[i]
    BY <1>1, <1>2, <1>3, Inserted DEF TypeOK
  <1>5. /\ Redeemed' = Redeemed /\ redemptions' = redemptions
        /\ \A i : RedemptionsOf(i)' = RedemptionsOf(i)
    BY DEF PromoCreate, Redeemed, RedemptionsOf
  <1>6. RedemptionsOf(new) = {}
    BY <1>4 DEF IInv, RowsSound, RedemptionsOf
  <1>7. RedemptionsAreCounted'
    <2>1. ASSUME NEW i \in Issued'
          PROVE promos'[i].redeemed = Cardinality(RedemptionsOf(i)')
      <3>1. CASE i = new
        BY <1>2, <1>4, <1>5, <1>6, <3>1, FS_EmptySet
      <3>2. CASE i # new
        BY <1>4, <1>5, <2>1, <3>2 DEF IInv, RedemptionsAreCounted, Issued
      <3>3. QED
        BY <3>1, <3>2
    <2>2. QED
      BY <2>1 DEF RedemptionsAreCounted
  <1>8. HistoryGrows
    BY <1>1, <1>5, RowsAreTyped DEF TypeOK, HistoryGrows
  <1>9. PromosKept
    BY <1>1, <1>4, <1>5, <1>7, <1>8 DEF IInv, TypeOK, RowsSound, PromosKept
  <1>10. QED
    BY <1>1, <1>9, SamePackages, SameSubs, SameSessions, SameRequests, TablesKept DEF PromoCreate

\* A code that is edited, its count left as it is.
LEMMA PromoWritten ==
    ASSUME IInv, NEW i \in Issued, NEW row \in PromoRows, row.redeemed = promos[i].redeemed,
           promos' = [promos EXCEPT ![i] = row], redemptions' = redemptions
    PROVE PromosKept
  <1>1. TypeOK /\ i \in DOMAIN promos
    BY DEF IInv, Issued
  <1>2. /\ promos' \in Seq(PromoRows \cup {Gone}) /\ DOMAIN promos' = DOMAIN promos
        /\ \A j \in DOMAIN promos : promos'[j] = IF j = i THEN row ELSE promos[j]
    BY <1>1, Written DEF TypeOK
  <1>3. /\ Redeemed' = Redeemed
        /\ \A j : RedemptionsOf(j)' = RedemptionsOf(j)
    BY DEF Redeemed, RedemptionsOf
  <1>4. Issued' = Issued
    BY <1>2, GoneAssumption DEF Issued
  <1>5. RedemptionsAreCounted'
    BY <1>2, <1>3, <1>4 DEF IInv, RedemptionsAreCounted, Issued
  <1>6. HistoryGrows
    BY <1>1, <1>3, RowsAreTyped DEF TypeOK, HistoryGrows
  <1>7. QED
    BY <1>1, <1>2, <1>3, <1>5, <1>6 DEF IInv, TypeOK, RowsSound, PromosKept

\* The row an update writes.
Updated(row, update, currency) ==
    [row EXCEPT !.type = Given(update.type, @), !.amount = Given(update.amount, @),
                !.currency = currency]

\* An update writes what was given and the currency it has worked out.
LEMMA KeptPromoUpdate ==
    ASSUME IInv, NEW h \in Reqs, PromoUpdate(h)
    PROVE IInv'
  <1>1. TypeOK
    BY DEF IInv
  <1>2. PICK i, update, currency :
           i = reqs[h].id /\ update = reqs[h].update /\ currency = reqs[h].currency
    OBVIOUS
  <1>3. update \in Updates /\ currency \in Currencies \cup {None}
    BY <1>1, <1>2, RequestIsTyped
  <1>4. PromosKept
    <2>1. CASE i \in Issued
      <3>1. promos[i] \in PromoRows
        BY <1>1, <2>1, TablesAreTyped
      <3>2. PICK row : row = Updated(promos[i], update, currency)
        OBVIOUS
      <3>3. /\ Given(update.type, promos[i].type) \in {"percent", "fixed"}
            /\ Given(update.amount, promos[i].amount) \in Nat
        BY <1>3, <3>1, NumbersAssumption DEF Given, Updates, PromoRows
      <3>4. row \in PromoRows /\ row.redeemed = promos[i].redeemed
        BY <1>3, <3>1, <3>2, <3>3 DEF Updated, PromoRows
      <3>5. promos' = [promos EXCEPT ![i].type = Given(update.type, @),
                                     ![i].amount = Given(update.amount, @),
                                     ![i].currency = currency]
        BY <1>2, <2>1 DEF PromoUpdate
      <3>6. promos' = [promos EXCEPT ![i] = row]
        BY <2>1, <3>1, <3>2, <3>5 DEF Updated, Issued, PromoRows
      <3>7. redemptions' = redemptions
        BY DEF PromoUpdate
      <3>8. QED
        BY <2>1, <3>4, <3>6, <3>7, PromoWritten
    <2>2. CASE i \notin Issued
      BY <1>2, <2>2, SamePromos DEF PromoUpdate
    <2>3. QED
      BY <2>1, <2>2
  <1>5. QED
    BY <1>1, <1>4, SamePackages, SameSubs, SameSessions, QuitKept, TablesKept DEF PromoUpdate

\* A code that is turned off or on.
LEMMA KeptPromoToggle ==
    ASSUME IInv, NEW i \in DOMAIN promos, PromoToggle(i)
    PROVE IInv'
  <1>1. TypeOK /\ i \in Issued /\ promos[i] \in PromoRows
    BY TablesAreTyped DEF IInv, PromoToggle
  <1>2. PICK row : row = [promos[i] EXCEPT !.active = ~promos[i].active]
    OBVIOUS
  <1>3. row \in PromoRows /\ row.redeemed = promos[i].redeemed
    BY <1>1, <1>2 DEF PromoRows
  <1>4. promos' = [promos EXCEPT ![i] = row]
    BY <1>2 DEF PromoToggle
  <1>5. PromosKept
    BY <1>1, <1>3, <1>4, PromoWritten DEF PromoToggle
  <1>6. QED
    BY <1>1, <1>5, SamePackages, SameSubs, SameSessions, SameRequests, TablesKept DEF PromoToggle

\* A code takes its redemptions with it.
LEMMA KeptPromoRemove ==
    ASSUME IInv, NEW h \in Reqs, PromoRemove(h)
    PROVE IInv'
  <1>1. TypeOK
    BY DEF IInv
  <1>2. PICK i : i = reqs[h].id
    OBVIOUS
  <1>3. /\ promos' \in Seq(PromoRows \cup {Gone}) /\ DOMAIN promos' = DOMAIN promos
        /\ \A j \in DOMAIN promos : promos'[j] = IF j = i THEN Gone ELSE promos[j]
    <2>1. promos' = [promos EXCEPT ![i] = Gone]
      BY <1>2 DEF PromoRemove
    <2>2. CASE i \in DOMAIN promos
      BY <1>1, <2>1, <2>2, Written DEF TypeOK
    <2>3. CASE i \notin DOMAIN promos
      <3>1. promos' = promos
        BY <1>1, <2>1, <2>3 DEF TypeOK
      <3>2. QED
        BY <1>1, <2>3, <3>1 DEF TypeOK
    <2>4. QED
      BY <2>2, <2>3
  <1>4. /\ redemptions' \in Seq(Redemptions \cup {Gone}) /\ DOMAIN redemptions' = DOMAIN redemptions
        /\ \A d \in DOMAIN redemptions :
              redemptions'[d] = IF d \in RedemptionsOf(i) THEN Gone ELSE redemptions[d]
    <2>1. redemptions' = [d \in DOMAIN redemptions |->
                            IF d \in RedemptionsOf(i) THEN Gone ELSE redemptions[d]]
      BY <1>2 DEF PromoRemove
    <2>2. PICK n : n = Len(redemptions)
      OBVIOUS
    <2>3. /\ n \in Nat /\ DOMAIN redemptions = 1..n
          /\ \A d \in 1..n : redemptions[d] \in Redemptions \cup {Gone}
      BY <1>1, <2>2, RowsAreTyped DEF TypeOK
    <2>4. redemptions' \in [1..n -> Redemptions \cup {Gone}]
      BY <2>1, <2>3
    <2>5. QED
      BY <2>1, <2>3, <2>4, FunctionIsASeq
  <1>5. Redeemed' = Redeemed \ RedemptionsOf(i)
    BY <1>4 DEF Redeemed
  <1>6. \A j : j # i => RedemptionsOf(j)' = RedemptionsOf(j)
    BY <1>4, <1>5 DEF RedemptionsOf, Redeemed
  <1>7. RedemptionsAreCounted'
    <2>1. ASSUME NEW j \in Issued'
          PROVE promos'[j].redeemed = Cardinality(RedemptionsOf(j)')
      <3>1. j # i /\ j \in Issued /\ promos'[j] = promos[j]
        BY <1>3 DEF Issued
      <3>2. QED
        BY <1>6, <3>1 DEF IInv, RedemptionsAreCounted
    <2>2. QED
      BY <2>1 DEF RedemptionsAreCounted
  <1>8. \A d \in Redeemed' : redemptions'[d].promo \in DOMAIN promos'
    BY <1>3, <1>4, <1>5 DEF IInv, RowsSound, Redeemed
  <1>9. HistoryGrows
    <2>1. PICK n, m : n = Len(redemptions) /\ m = Len(redemptions')
      OBVIOUS
    <2>2. n \in Nat /\ m \in Nat /\ 1..n = 1..m
      BY <1>1, <1>4, <2>1, RowsAreTyped DEF TypeOK
    <2>3. n =< m
      BY <2>2
    <2>4. QED
      BY <1>4, <1>5, <2>1, <2>3 DEF HistoryGrows, Redeemed
  <1>10. PromosKept
    BY <1>3, <1>4, <1>7, <1>8, <1>9 DEF PromosKept
  <1>11. QED
    BY <1>1, <1>10, SamePackages, SameSubs, SameSessions, QuitKept, TablesKept DEF PromoRemove

\* A code that has counted no redemption has none.
LEMMA NoneIsRedeemed ==
    ASSUME IInv, NEW i \in Issued, promos[i].redeemed = 0
    PROVE RedemptionsOf(i) = {}
  <1>1. IsFiniteSet(RedemptionsOf(i))
    BY RedemptionsAreFinite DEF IInv
  <1>2. Cardinality(RedemptionsOf(i)) = 0
    BY DEF IInv, RedemptionsAreCounted
  <1>3. QED
    BY <1>1, <1>2, FS_EmptySet

\* What the operator's requests read before they write.
LEMMA KeptChecks ==
    ASSUME IInv, NEW h \in Reqs,
           \/ \E p \in DOMAIN packages : PackageRemoveCheck(h, p)
           \/ \E i \in DOMAIN promos : \/ PromoRemoveCheck(h, i)
                                       \/ \E u \in Updates : PromoUpdateLoad(h, i, u)
           \/ \E r \in Restaurants, p \in DOMAIN packages : ChangeLoad(h, r, p)
    PROVE IInv'
  <1>1. TypeOK
    BY DEF IInv
  <1>2. UNCHANGED <<packages, promos, redemptions, subs, sessions>>
    BY DEF PackageRemoveCheck, PromoRemoveCheck, PromoUpdateLoad, ChangeLoad
  <1>3. DOMAIN packages \subseteq Nat /\ DOMAIN promos \subseteq Nat
    BY <1>1, RowsAreTyped DEF TypeOK
  <1>4. RequestsKept
    <2>1. CASE \E p \in DOMAIN packages : PackageRemoveCheck(h, p)
      <3>1. PICK p \in DOMAIN packages : PackageRemoveCheck(h, p)
        BY <2>1
      <3>2. PICK work : work = [Idle EXCEPT !.pc = "removePackage", !.id = p]
        OBVIOUS
      <3>3. work \in Work /\ work.pc = "removePackage"
        BY <1>3, <3>2, IdleIsTyped DEF Work, Steps, Idle
      <3>4. WorkSound(work)
        BY <3>3 DEF WorkSound
      <3>5. QED
        BY <1>1, <3>1, <3>2, <3>3, <3>4, OneRequest DEF PackageRemoveCheck
    <2>2. CASE \E i \in DOMAIN promos : PromoRemoveCheck(h, i)
      <3>1. PICK i \in DOMAIN promos : PromoRemoveCheck(h, i)
        BY <2>2
      <3>2. PICK n : n = Len(redemptions)
        OBVIOUS
      <3>3. n \in Nat
        BY <1>1, <3>2, RowsAreTyped DEF TypeOK
      <3>4. PICK work : work = [Idle EXCEPT !.pc = "removePromo", !.id = i, !.row = n]
        OBVIOUS
      <3>5. work \in Work /\ work.pc = "removePromo" /\ work.id = i /\ work.row = n
        BY <1>3, <3>3, <3>4, IdleIsTyped DEF Work, Steps, Idle
      <3>6. RedemptionsOf(i) = {}
        BY <1>1, <3>1, NoneIsRedeemed DEF PromoRemoveCheck
      <3>7. WorkSound(work)
        BY <3>2, <3>3, <3>5, <3>6 DEF WorkSound
      <3>8. QED
        BY <1>1, <3>1, <3>2, <3>4, <3>5, <3>7, OneRequest DEF PromoRemoveCheck
    <2>3. CASE \E i \in DOMAIN promos : \E u \in Updates : PromoUpdateLoad(h, i, u)
      <3>1. PICK i \in DOMAIN promos, u \in Updates : PromoUpdateLoad(h, i, u)
        BY <2>3
      <3>2. PICK currency : currency = IF TypeAfter(i, u) = "fixed" THEN CurrencyAfter(i, u)
                                                                    ELSE None
        OBVIOUS
      <3>3. promos[i] \in PromoRows
        BY <1>1, <3>1, TablesAreTyped DEF PromoUpdateLoad
      <3>4. currency \in Currencies \cup {None}
        BY <3>2, <3>3 DEF CurrencyAfter, Given, Updates, PromoRows
      <3>5. PICK work : work = [Idle EXCEPT !.pc = "update", !.id = i, !.update = u,
                                            !.currency = currency]
        OBVIOUS
      <3>6. work \in Work /\ work.pc = "update"
        BY <1>3, <3>4, <3>5, IdleIsTyped DEF Work, Steps, Idle
      <3>7. WorkSound(work)
        BY <3>6 DEF WorkSound
      <3>8. QED
        BY <1>1, <3>1, <3>2, <3>5, <3>6, <3>7, OneRequest DEF PromoUpdateLoad
    <2>4. CASE \E r \in Restaurants, p \in DOMAIN packages : ChangeLoad(h, r, p)
      <3>1. PICK r \in Restaurants, p \in DOMAIN packages : ChangeLoad(h, r, p)
        BY <2>4
      <3>2. CurrentFor(r) \in Nat
        BY <1>1, CurrentIsItsOwn, TablesAreTyped
      <3>3. PICK k : k = CurrentFor(r)
        OBVIOUS
      <3>4. PICK work : work = [Idle EXCEPT !.pc = "change", !.row = k, !.id = p]
        OBVIOUS
      <3>5. work \in Work /\ work.pc = "change"
        BY <1>3, <3>2, <3>3, <3>4, IdleIsTyped DEF Work, Steps, Idle
      <3>6. WorkSound(work)
        BY <3>5 DEF WorkSound
      <3>7. QED
        BY <1>1, <3>1, <3>3, <3>4, <3>5, <3>6, OneRequest DEF ChangeLoad
    <2>5. QED
      BY <2>1, <2>2, <2>3, <2>4
  <1>5. QED
    BY <1>1, <1>2, <1>4, SamePackages, SameSubs, SamePromos, SameSessions, TablesKept

-----------------------------------------------------------------------------
(* Checkout and payment.                                                   *)

\* A checkout is opened for a package that is there, at no more than its price.
LEMMA KeptCheckout ==
    ASSUME IInv, NEW r \in Restaurants, NEW p \in DOMAIN packages, NEW c \in Currencies,
           Checkout(r, p, c)
    PROVE IInv'
  <1>1. TypeOK /\ p \in Sold /\ packages[p] \in PackageRows /\ p \in Nat
    BY TablesAreTyped, RowsAreTyped DEF IInv, Checkout, TypeOK
  <1>2. PICK base : base = packages[p].price
    OBVIOUS
  <1>3. base \in Nat
    BY <1>1, <1>2 DEF PackageRows
  <1>4. \E code \in Codes \cup {None}, price \in 0..base : Open(r, p, code, price)
    <2>1. CASE Open(r, p, None, packages[p].price)
      BY <1>2, <1>3, <2>1
    <2>2. CASE \E i \in Issued :
                  /\ PromoValid(i, r)
                  /\ Open(r, p, promos[i].code, Discounted(packages[p].price, c, promos[i]))
      <3>1. PICK i \in Issued :
                   Open(r, p, promos[i].code, Discounted(base, c, promos[i]))
        BY <1>2, <2>2
      <3>2. promos[i] \in PromoRows
        BY <1>1, TablesAreTyped
      <3>3. promos[i].code \in Codes
        BY <3>2 DEF PromoRows
      <3>4. Discounted(base, c, promos[i]) \in 0..base
        BY <1>3, <3>2, DiscountedIsLess
      <3>5. QED
        BY <3>1, <3>3, <3>4
    <2>3. QED
      BY <2>1, <2>2 DEF Checkout
  <1>5. PICK code \in Codes \cup {None}, price \in 0..base : Open(r, p, code, price)
    BY <1>4
  <1>6. PICK t : t = [restaurant |-> r, package |-> p, code |-> code, price |-> price,
                      base |-> base, state |-> "open"]
    OBVIOUS
  <1>7. /\ t \in Sessions /\ t.package = p /\ t.state = "open" /\ t.price = price
        /\ t.base = base
    BY <1>1, <1>3, <1>6 DEF Sessions
  <1>8. sessions' = Append(sessions, t)
    BY <1>2, <1>5, <1>6 DEF Open
  <1>9. /\ sessions' \in Seq(Sessions)
        /\ DOMAIN sessions' = DOMAIN sessions \cup {Len(sessions) + 1}
        /\ sessions'[Len(sessions) + 1] = t
        /\ \A s \in DOMAIN sessions : sessions'[s] = sessions[s]
    BY <1>1, <1>7, <1>8, Inserted DEF TypeOK
  <1>10. SessionsKept
    BY <1>7, <1>9 DEF SessionsKept, SameCheckout
  <1>11. QED
    BY <1>1, <1>5, <1>10, SamePackages, SameSubs, SamePromos, SameRequests, TablesKept DEF Open

\* The owner pays.
LEMMA KeptPay ==
    ASSUME IInv, NEW s \in DOMAIN sessions, Pay(s)
    PROVE IInv'
  <1>1. TypeOK /\ sessions[s] \in Sessions
    BY TablesAreTyped DEF IInv
  <1>2. PICK t : t = [sessions[s] EXCEPT !.state = "paid"]
    OBVIOUS
  <1>3. t \in Sessions /\ SameCheckout(t, sessions[s]) /\ t.state # "answered"
    BY <1>1, <1>2 DEF Sessions, SameCheckout
  <1>4. sessions' = [sessions EXCEPT ![s] = t]
    BY <1>2 DEF Pay
  <1>5. /\ sessions' \in Seq(Sessions) /\ DOMAIN sessions' = DOMAIN sessions
        /\ \A u \in DOMAIN sessions : sessions'[u] = IF u = s THEN t ELSE sessions[u]
    BY <1>1, <1>3, <1>4, Written DEF TypeOK
  <1>6. SessionsKept
    BY <1>3, <1>5 DEF SessionsKept, SameCheckout
  <1>7. QED
    BY <1>1, <1>6, SamePackages, SameSubs, SamePromos, SameRequests, TablesKept DEF Pay

\* A payment for a package that is gone is answered; one for another goes on
\* with the restaurant's row.
LEMMA KeptActivateLoad ==
    ASSUME IInv, NEW h \in Reqs, NEW s \in DOMAIN sessions, ActivateLoad(h, s)
    PROVE IInv'
  <1>1. TypeOK /\ sessions[s].package \in DOMAIN packages /\ s \in Nat
    BY TablesAreTyped DEF IInv, RowsSound
  <1>2. CASE Known(sessions[s].package)
    <2>1. PICK k : k = CurrentFor(sessions[s].restaurant)
      OBVIOUS
    <2>2. k = 0 \/ (k \in DOMAIN subs /\ subs[k].restaurant = sessions[s].restaurant)
      BY <1>1, <2>1, CurrentIsItsOwn
    <2>3. k \in Nat
      BY <1>1, <2>2, TablesAreTyped
    <2>4. PICK work : work = [Idle EXCEPT !.pc = "activate", !.session = s, !.row = k]
      OBVIOUS
    <2>5. work \in Work /\ work.pc = "activate" /\ work.session = s /\ work.row = k
      BY <1>1, <2>3, <2>4, IdleIsTyped DEF Work, Steps, Idle
    <2>6. WorkSound(work)
      BY <2>2, <2>5 DEF WorkSound
    <2>7. RequestsKept
      BY <1>1, <1>2, <2>1, <2>4, <2>5, <2>6, OneRequest DEF ActivateLoad
    <2>8. QED
      BY <1>1, <1>2, <2>7, SamePackages, SameSubs, SamePromos, SameSessions, TablesKept
         DEF ActivateLoad
  <1>3. CASE ~Known(sessions[s].package)
    <2>1. packages[sessions[s].package] = Gone
      BY <1>1, <1>3 DEF Known, Sold
    <2>2. SessionsKept
      BY <1>1, <1>3, <2>1, AnsweredKept DEF ActivateLoad
    <2>3. QED
      BY <1>1, <1>3, <2>2, SamePackages, SameSubs, SamePromos, SameRequests, TablesKept
         DEF ActivateLoad
  <1>4. QED
    BY <1>2, <1>3

\* A row that is written is of the restaurant that was there, and of a package
\* that is.
LEMMA SubWritten ==
    ASSUME TypeOK, packages' = packages, NEW k \in DOMAIN subs, NEW row \in SubRows,
           subs' = [subs EXCEPT ![k] = row], row.restaurant = subs[k].restaurant,
           row.package = subs[k].package \/ row.package \in Sold
    PROVE SubsKept /\ subs'[k] = row /\ k \in DOMAIN subs'
  <1>1. /\ subs' \in Seq(SubRows) /\ DOMAIN subs' = DOMAIN subs
        /\ \A j \in DOMAIN subs : subs'[j] = IF j = k THEN row ELSE subs[j]
    BY Written DEF TypeOK
  <1>2. QED
    BY <1>1 DEF SubsKept

\* A payment makes the restaurant's row or moves it: either way it has one.
LEMMA KeptActivate ==
    ASSUME IInv, NEW h \in Reqs, Activate(h)
    PROVE IInv'
  <1>1. PICK old \in Work : reqs[h] = old
    BY RequestIsTyped DEF IInv
  <1>2. PICK s, k : old.session = s /\ old.row = k
    OBVIOUS
  <1>3. TypeOK /\ old.pc = "activate" /\ WorkSound(old)
    BY <1>1 DEF IInv, RequestsSound, Activate, At
  <1>4. /\ s \in DOMAIN sessions /\ sessions[s] \in Sessions
        /\ k # 0 => k \in DOMAIN subs /\ subs[k].restaurant = sessions[s].restaurant
    BY <1>2, <1>3, TablesAreTyped DEF WorkSound
  <1>5. PICK row : row = [restaurant |-> sessions[s].restaurant, package |-> sessions[s].package,
                          active |-> TRUE]
    OBVIOUS
  <1>6. /\ row \in SubRows /\ row.restaurant = sessions[s].restaurant
        /\ row.package = sessions[s].package
    BY <1>4, <1>5 DEF SubRows, Sessions
  <1>7. CASE row.package \notin Sold
    <2>1. Quit(h) /\ UNCHANGED <<subs, sessions>>
      BY <1>1, <1>2, <1>5, <1>7 DEF Activate
    <2>2. QED
      BY <1>3, <2>1, SamePackages, SameSubs, SamePromos, SameSessions, QuitKept, TablesKept
         DEF Activate
  <1>8. CASE row.package \in Sold
    <2>1. SubsKept /\ HasRowNext(sessions[s].restaurant)
      <3>1. CASE k = 0
        <4>1. subs' = Append(subs, row)
          BY <1>1, <1>2, <1>5, <1>8, <3>1 DEF Activate
        <4>2. /\ subs' \in Seq(SubRows) /\ DOMAIN subs' = DOMAIN subs \cup {Len(subs) + 1}
              /\ subs'[Len(subs) + 1] = row
              /\ \A j \in DOMAIN subs : subs'[j] = subs[j]
          BY <1>3, <1>6, <4>1, Inserted DEF TypeOK
        <4>3. packages' = packages
          BY DEF Activate
        <4>4. QED
          BY <1>6, <1>8, <4>2, <4>3 DEF SubsKept, HasRowNext
      <3>2. CASE k # 0
        <4>1. subs' = [subs EXCEPT ![k] = row] /\ packages' = packages
          BY <1>1, <1>2, <1>5, <1>8, <3>2 DEF Activate
        <4>2. k \in DOMAIN subs /\ row.restaurant = subs[k].restaurant
          BY <1>4, <1>6, <3>2
        <4>3. SubsKept /\ subs'[k] = row /\ k \in DOMAIN subs'
          BY <1>3, <1>6, <1>8, <4>1, <4>2, SubWritten
        <4>4. QED
          BY <1>6, <4>3 DEF HasRowNext
      <3>3. QED
        BY <3>1, <3>2
    <2>2. CASE Answered(s) /\ Quit(h)
      BY <1>3, <1>4, <2>1, <2>2, SamePackages, SamePromos, AnsweredKept, QuitKept, TablesKept
         DEF Activate
    <2>3. CASE Go(h, [old EXCEPT !.pc = "redeem"]) /\ UNCHANGED sessions
      <3>1. PICK work : work = [old EXCEPT !.pc = "redeem"]
        OBVIOUS
      <3>2. work \in Work /\ work.pc = "redeem" /\ work.session = s
        BY <1>2, <3>1 DEF Work, Steps
      <3>3. WorkSound(work)'
        BY <1>4, <2>1, <2>3, <3>2 DEF WorkSound, HasRow, HasRowNext
      <3>4. RequestsKept
        BY <1>3, <2>3, <3>1, <3>2, <3>3, OneRequest
      <3>5. QED
        BY <1>3, <2>1, <2>3, <3>4, SamePackages, SamePromos, SameSessions, TablesKept DEF Activate
    <2>4. QED
      BY <1>1, <1>2, <1>5, <1>8, <2>2, <2>3 DEF Activate
  <1>9. QED
    BY <1>7, <1>8

\* The code of a payment is looked up again.
LEMMA KeptRedeemLoad ==
    ASSUME IInv, NEW h \in Reqs, RedeemLoad(h)
    PROVE IInv'
  <1>1. PICK old \in Work : reqs[h] = old
    BY RequestIsTyped DEF IInv
  <1>2. PICK s : old.session = s
    OBVIOUS
  <1>3. TypeOK /\ old.pc = "redeem" /\ WorkSound(old)
    BY <1>1 DEF IInv, RequestsSound, RedeemLoad, At
  <1>4. s \in DOMAIN sessions /\ HasRow(sessions[s].restaurant)
    BY <1>2, <1>3 DEF WorkSound
  <1>5. UNCHANGED <<packages, promos, redemptions, subs>>
    BY DEF RedeemLoad
  <1>6. CASE Answered(s) /\ Quit(h)
    <2>1. HasRowNext(sessions[s].restaurant)
      BY <1>4, <1>5 DEF HasRow, HasRowNext
    <2>2. QED
      BY <1>3, <1>4, <1>5, <1>6, <2>1, SamePackages, SameSubs, SamePromos, AnsweredKept, QuitKept,
         TablesKept
  <1>7. CASE /\ \E i \in Issued : Go(h, [old EXCEPT !.pc = "redeemCommit", !.id = i])
             /\ UNCHANGED sessions
    <2>1. PICK i \in Issued : Go(h, [old EXCEPT !.pc = "redeemCommit", !.id = i])
      BY <1>7
    <2>2. i \in Nat
      BY <1>3, RowsAreTyped DEF TypeOK, Issued
    <2>3. PICK work : work = [old EXCEPT !.pc = "redeemCommit", !.id = i]
      OBVIOUS
    <2>4. work \in Work /\ work.pc = "redeemCommit" /\ work.session = s
      BY <1>2, <2>2, <2>3 DEF Work, Steps
    <2>5. WorkSound(work)
      BY <1>4, <2>4 DEF WorkSound
    <2>6. RequestsKept
      BY <1>3, <2>1, <2>3, <2>4, <2>5, OneRequest
    <2>7. QED
      BY <1>3, <1>5, <1>7, <2>6, SamePackages, SameSubs, SamePromos, SameSessions, TablesKept
  <1>8. QED
    BY <1>1, <1>2, <1>6, <1>7 DEF RedeemLoad, PromoOf

\* A redemption and its count are one write.
LEMMA KeptRedeemCommit ==
    ASSUME IInv, NEW h \in Reqs, RedeemCommit(h)
    PROVE IInv'
  <1>1. PICK old \in Work : reqs[h] = old
    BY RequestIsTyped DEF IInv
  <1>2. PICK s, i : old.session = s /\ old.id = i
    OBVIOUS
  <1>3. TypeOK /\ old.pc = "redeemCommit" /\ WorkSound(old)
    BY <1>1 DEF IInv, RequestsSound, RedeemCommit, At
  <1>4. /\ s \in DOMAIN sessions /\ HasRow(sessions[s].restaurant)
        /\ s \in Nat /\ sessions[s] \in Sessions
    BY <1>2, <1>3, TablesAreTyped DEF WorkSound
  <1>5. UNCHANGED <<packages, subs>> /\ Quit(h)
    BY DEF RedeemCommit
  <1>6. CASE i \notin Issued
    <2>1. UNCHANGED <<promos, redemptions, sessions>>
      BY <1>1, <1>2, <1>6 DEF RedeemCommit
    <2>2. QED
      BY <1>3, <1>5, <2>1, SamePackages, SameSubs, SamePromos, SameSessions, QuitKept, TablesKept
  <1>7. CASE i \in Issued
    <2>1. promos[i] \in PromoRows /\ i \in DOMAIN promos /\ i \in Nat
      BY <1>3, <1>7, TablesAreTyped, RowsAreTyped DEF TypeOK
    <2>2. PICK n : promos[i].redeemed = n
      OBVIOUS
    <2>3. PICK row : row = [promos[i] EXCEPT !.redeemed = n + 1]
      OBVIOUS
    <2>4. n \in Nat /\ row \in PromoRows /\ row.redeemed = n + 1
      BY <2>1, <2>2, <2>3 DEF PromoRows
    <2>5. promos' = [promos EXCEPT ![i] = row]
      BY <1>1, <1>2, <1>7, <2>2, <2>3 DEF RedeemCommit, CountAndRow
    <2>6. /\ promos' \in Seq(PromoRows \cup {Gone}) /\ DOMAIN promos' = DOMAIN promos
          /\ \A j \in DOMAIN promos : promos'[j] = IF j = i THEN row ELSE promos[j]
      BY <1>3, <2>1, <2>4, <2>5, Written DEF TypeOK
    <2>7. PICK entry : entry = [promo |-> i, restaurant |-> sessions[s].restaurant, session |-> s]
      OBVIOUS
    <2>8. entry \in Redemptions /\ entry.promo = i /\ entry # Gone
      <3>1. entry \in Redemptions /\ entry.promo = i
        BY <1>4, <2>1, <2>7 DEF Redemptions, Sessions
      <3>2. QED
        BY <3>1, GoneAssumption
    <2>9. redemptions' = Append(redemptions, entry)
      BY <1>1, <1>2, <1>7, <2>7 DEF RedeemCommit
    <2>10. PICK new : Len(redemptions) + 1 = new
      OBVIOUS
    <2>11. /\ redemptions' \in Seq(Redemptions \cup {Gone})
           /\ DOMAIN redemptions' = DOMAIN redemptions \cup {new} /\ new \notin DOMAIN redemptions
           /\ redemptions'[new] = entry
           /\ \A d \in DOMAIN redemptions : redemptions'[d] = redemptions[d]
      BY <1>3, <2>8, <2>9, <2>10, Inserted DEF TypeOK
    <2>12. Redeemed' = Redeemed \cup {new}
      BY <2>8, <2>11 DEF Redeemed
    <2>13. \A j : RedemptionsOf(j)' = IF j = i THEN RedemptionsOf(j) \cup {new} ELSE RedemptionsOf(j)
      BY <2>8, <2>11, <2>12 DEF RedemptionsOf, Redeemed
    <2>14. new \notin RedemptionsOf(i) /\ IsFiniteSet(RedemptionsOf(i))
      BY <1>3, <2>11, RedemptionsAreFinite DEF RedemptionsOf, Redeemed
    <2>15. Cardinality(RedemptionsOf(i) \cup {new}) = Cardinality(RedemptionsOf(i)) + 1
      BY <2>14, FS_AddElement
    <2>16. RedemptionsAreCounted'
      <3>1. ASSUME NEW j \in Issued'
            PROVE promos'[j].redeemed = Cardinality(RedemptionsOf(j)')
        <4>1. CASE j = i
          <5>1. Cardinality(RedemptionsOf(i)) = n
            BY <1>7, <2>2 DEF IInv, RedemptionsAreCounted
          <5>2. promos'[j].redeemed = n + 1
            BY <2>1, <2>4, <2>6, <4>1
          <5>3. QED
            BY <2>13, <2>15, <4>1, <5>1, <5>2
        <4>2. CASE j # i
          <5>1. j \in Issued /\ promos'[j] = promos[j]
            BY <2>6, <4>2 DEF Issued
          <5>2. QED
            BY <2>13, <4>2, <5>1 DEF IInv, RedemptionsAreCounted
        <4>3. QED
          BY <4>1, <4>2
      <3>2. QED
        BY <3>1 DEF RedemptionsAreCounted
    <2>17. \A d \in Redeemed' : redemptions'[d].promo \in DOMAIN promos'
      BY <2>1, <2>6, <2>8, <2>11, <2>12 DEF IInv, RowsSound, Redeemed
    <2>18. HistoryGrows
      <3>1. PICK n1, m1 : n1 = Len(redemptions) /\ m1 = Len(redemptions')
        OBVIOUS
      <3>2. /\ n1 \in Nat /\ m1 \in Nat /\ DOMAIN redemptions = 1..n1
            /\ DOMAIN redemptions' = 1..m1
        BY <1>3, <2>11, <3>1, RowsAreTyped DEF TypeOK
      <3>3. n1 =< m1 /\ n1 < new
        BY <2>10, <2>11, <3>1, <3>2
      <3>4. \A d \in Redeemed : redemptions'[d].promo = redemptions[d].promo
        BY <2>11 DEF Redeemed
      <3>5. QED
        BY <2>12, <3>1, <3>3, <3>4 DEF HistoryGrows
    <2>19. PromosKept
      BY <2>6, <2>11, <2>16, <2>17, <2>18 DEF PromosKept
    <2>20. SessionsKept
      <3>1. HasRowNext(sessions[s].restaurant)
        BY <1>4, <1>5 DEF HasRow, HasRowNext
      <3>2. Answered(s)
        BY <1>1, <1>2, <1>7 DEF RedeemCommit
      <3>3. QED
        BY <1>3, <1>4, <3>1, <3>2, AnsweredKept
    <2>21. QED
      BY <1>3, <1>5, <2>19, <2>20, SamePackages, SameSubs, QuitKept, TablesKept
  <1>8. QED
    BY <1>6, <1>7

\* A subscription that is canceled keeps its package.
LEMMA KeptCancel ==
    ASSUME IInv, NEW r \in Restaurants, Cancel(r)
    PROVE IInv'
  <1>1. PICK k : k = CurrentFor(r)
    OBVIOUS
  <1>2. TypeOK /\ k \in DOMAIN subs /\ subs[k] \in SubRows
    BY <1>1, CurrentIsItsOwn, TablesAreTyped DEF IInv, Cancel, ActiveFor
  <1>3. PICK row : row = [subs[k] EXCEPT !.active = FALSE]
    OBVIOUS
  <1>4. row \in SubRows /\ row.restaurant = subs[k].restaurant /\ row.package = subs[k].package
    BY <1>2, <1>3 DEF SubRows
  <1>5. subs' = [subs EXCEPT ![k] = row] /\ packages' = packages
    BY <1>1, <1>3 DEF Cancel
  <1>6. SubsKept
    BY <1>2, <1>4, <1>5, SubWritten
  <1>7. QED
    BY <1>2, <1>6, SamePackages, SamePromos, SameSessions, SameRequests, TablesKept DEF Cancel

\* A change of package is written if the package is there.
LEMMA KeptChange ==
    ASSUME IInv, NEW h \in Reqs, Change(h)
    PROVE IInv'
  <1>1. PICK k, p : k = reqs[h].row /\ p = reqs[h].id
    OBVIOUS
  <1>2. TypeOK /\ p \in Nat
    BY <1>1, RequestIsTyped DEF IInv
  <1>3. SubsKept
    <2>1. CASE p \in Sold /\ k \in DOMAIN subs
      <3>1. subs[k] \in SubRows
        BY <1>2, <2>1, TablesAreTyped
      <3>2. PICK row : row = [subs[k] EXCEPT !.package = p]
        OBVIOUS
      <3>3. row \in SubRows /\ row.restaurant = subs[k].restaurant /\ row.package = p
        BY <1>2, <3>1, <3>2 DEF SubRows
      <3>4. subs' = [subs EXCEPT ![k] = row] /\ packages' = packages
        BY <1>1, <2>1, <3>2 DEF Change
      <3>5. QED
        BY <1>2, <2>1, <3>3, <3>4, SubWritten
    <2>2. CASE ~(p \in Sold /\ k \in DOMAIN subs)
      <3>1. subs' = subs
        BY <1>1, <1>2, <2>2 DEF Change, TypeOK
      <3>2. QED
        BY <1>2, <3>1, SameSubs
    <2>3. QED
      BY <2>1, <2>2
  <1>4. QED
    BY <1>2, <1>3, SamePackages, SamePromos, SameSessions, QuitKept, TablesKept DEF Change

-----------------------------------------------------------------------------
(* The theorems.                                                           *)

\* Nothing is sold yet.
LEMMA InitialInvariant == Init => IInv
  <1>1. SUFFICES ASSUME Init PROVE IInv
    OBVIOUS
  <1>2. /\ packages = <<>> /\ promos = <<>> /\ redemptions = <<>> /\ subs = <<>>
        /\ sessions = <<>> /\ reqs = [h \in Reqs |-> Idle]
    BY <1>1 DEF Init
  <1>3. TypeOK
    BY <1>2, EmptySeq, IdleIsTyped DEF TypeOK
  <1>4. RowsSound /\ SubscribersKeepTheirPackage /\ PaymentsAreHonoured /\ PricesAreSane
    BY <1>2 DEF RowsSound, Redeemed, SubscribersKeepTheirPackage, PaymentsAreHonoured,
       PricesAreSane
  <1>5. RequestsSound
    BY <1>2, IdleIsTyped DEF RequestsSound
  <1>6. RedemptionsAreCounted
    BY <1>2 DEF RedemptionsAreCounted, Issued
  <1>7. QED
    BY <1>3, <1>4, <1>5, <1>6 DEF IInv

\* Every step keeps the invariant.
LEMMA InvariantNext == IInv /\ [Next]_vars => IInv'
  <1>1. SUFFICES ASSUME IInv, Next \/ UNCHANGED vars PROVE IInv'
    OBVIOUS
  <1>2. CASE UNCHANGED vars
    BY <1>1, <1>2, SamePackages, SameSubs, SamePromos, SameSessions, SameRequests, TablesKept
       DEF vars, IInv
  <1>3. CASE Next
    BY <1>1, <1>3, KeptPackageCreate, KeptPromoCreate, KeptPackageEdit, KeptPromoToggle,
       KeptCancel, KeptCheckout, KeptPay, KeptChecks, KeptActivateLoad, KeptPackageRemove,
       KeptPromoUpdate, KeptPromoRemove, KeptActivate, KeptRedeemLoad, KeptRedeemCommit,
       KeptChange DEF Next
  <1>4. QED
    BY <1>1, <1>2, <1>3

\* The invariant holds of every state the operator and the owners can reach.
THEOREM InvariantStays == Spec => []IInv
  BY InitialInvariant, InvariantNext, PTL DEF Spec

\* Every variable has its type.
THEOREM TypeStays == Spec => []TypeOK
  <1>1. IInv => TypeOK
    BY DEF IInv
  <1>2. QED
    BY <1>1, InvariantStays, PTL

\* No package is deleted from under a restaurant that is subscribed to it.
THEOREM SubscribersKeepIt == Spec => []SubscribersKeepTheirPackage
  <1>1. IInv => SubscribersKeepTheirPackage
    BY DEF IInv
  <1>2. QED
    BY <1>1, InvariantStays, PTL

\* A payment that is answered without a subscription was for a package that is
\* gone.
THEOREM PaymentsAreAlwaysHonoured == Spec => []PaymentsAreHonoured
  <1>1. IInv => PaymentsAreHonoured
    BY DEF IInv
  <1>2. QED
    BY <1>1, InvariantStays, PTL

\* No checkout charges more than the package costs, or less than nothing.
THEOREM PricesStaySane == Spec => []PricesAreSane
  <1>1. IInv => PricesAreSane
    BY DEF IInv
  <1>2. QED
    BY <1>1, InvariantStays, PTL

\* A deletion takes no redemption along that was there when it was checked: a
\* code is deleted with a history only if it was redeemed in between.
THEOREM HistoryLostStaysRecent == Spec => []HistoryLostIsRecent
  <1>1. IInv => HistoryLostIsRecent
    <2>1. ASSUME IInv, NEW h \in Reqs, At(h, "removePromo"), NEW d \in RedemptionsOf(reqs[h].id)
          PROVE d > reqs[h].row
      <3>1. reqs[h].row < d
        BY <2>1 DEF IInv, RequestsSound, WorkSound, At
      <3>2. reqs[h].row \in Nat /\ d \in Nat
        BY <2>1, RequestIsTyped, RowsAreTyped DEF IInv, TypeOK, RedemptionsOf, Redeemed
      <3>3. QED
        BY <3>1, <3>2
    <2>2. QED
      BY <2>1 DEF HistoryLostIsRecent
  <1>2. QED
    BY <1>1, InvariantStays, PTL
=============================================================================
