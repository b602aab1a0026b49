---------------------------- MODULE MCOwnerPages ----------------------------
(* Small instances of OwnerPages for TLC.                                  *)
EXTENDS OwnerPages, TLC

\* The pages have no state in common but for the two of billing.
MCTours == {{"login", "signup", "dashboard"}, {"restaurant"}, {"billing", "plans", "gateway"}}

\* A menu with one dish, which is ready for a model, or any subscription.
MCMenu(d) == [Blank.dish EXCEPT ![d] = [status |-> "pending", photos |-> 1]]

MCStarts == {[Blank EXCEPT !.dish = MCMenu(d), !.cuisine = TRUE, !.owned = 1,
                           !.account = TRUE] : d \in Dishes}
            \cup {[Blank EXCEPT !.sub = sub, !.account = sub # "none"] : sub \in SubStates}

MCSymmetry == Permutations(Dishes) \cup Permutations(Requests)
=============================================================================
