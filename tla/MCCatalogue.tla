----------------------------- MODULE MCCatalogue -----------------------------
(* Small instances of Catalogue for TLC.                                    *)
EXTENDS Catalogue, TLC

\* Slots, restaurants and currencies are interchangeable.
MCSymmetry == Permutations(Reqs) \cup Permutations(Restaurants) \cup Permutations(Currencies)

Repriced == \E p \in Sold, x \in Prices : x < packages[p].price

Updating == \E h \in Reqs : At(h, "update")

Percents == \A i \in Issued : /\ promos[i].type = "percent" /\ promos[i].amount =< 100
                              /\ promos[i].max # None

\* Scope: updates of a code run against updates, before anyone checks out; a
\* package is repriced while one owner is checking out; and two owners check
\* out with limited percentages only.
MCScope == /\ Updating => /\ packages = <<>>
                          /\ \A h \in Reqs : reqs[h].pc \in {"idle", "update"}
           /\ Repriced => Len(sessions) = 1 /\ ~Updating
           /\ Len(sessions) > 1 => Percents
=============================================================================
