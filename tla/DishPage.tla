------------------------------ MODULE DishPage ------------------------------
(***************************************************************************)
(* What a diner who scans a dish's QR code is promised, without saying how *)
(* models are made: the page shows either no model ("coming soon") or one  *)
(* model, and a model is never swapped for another in front of a diner:    *)
(* the dish first leaves the page, and comes back by being published.      *)
(* A dish whose model is shown has had its QR code issued, and a code once *)
(* issued stays issued until the dish itself is removed.                   *)
(*                                                                         *)
(* ModelPipeline implements this specification (see DishPagePromise there).*)
(***************************************************************************)
CONSTANTS Dishes,   \* menu items
          Models,   \* model files a page can show
          NoModel   \* the page shows no model

VARIABLES page,     \* page[d]: the model the public page of d shows
          qr        \* qr[d]: the QR code of d has been issued

vars == <<page, qr>>

Init == /\ page = [d \in Dishes |-> NoModel]
        /\ qr = [d \in Dishes |-> FALSE]

Publish(d, m) == /\ page[d] = NoModel
                 /\ page' = [page EXCEPT ![d] = m]
                 /\ qr' = [qr EXCEPT ![d] = TRUE]

\* Approved, but a file is missing: the code exists, the page says "soon".
IssueQr(d) == /\ qr' = [qr EXCEPT ![d] = TRUE]
              /\ UNCHANGED page

Withdraw(d) == /\ page' = [page EXCEPT ![d] = NoModel]
               /\ UNCHANGED qr

Remove(d) == /\ page' = [page EXCEPT ![d] = NoModel]
             /\ qr' = [qr EXCEPT ![d] = FALSE]

Next == \E d \in Dishes : \/ \E m \in Models : Publish(d, m)
                          \/ IssueQr(d)
                          \/ Withdraw(d)
                          \/ Remove(d)

Spec == Init /\ [][Next]_vars
=============================================================================
