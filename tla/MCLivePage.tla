----------------------------- MODULE MCLivePage -----------------------------
(* Small instances of LivePage for TLC.                                    *)
EXTENDS LivePage, TLC

\* A model is being made in every other version of the dishes.
MCInProgress == {v \in Versions : v % 2 = 1}
=============================================================================
