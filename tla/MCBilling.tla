----------------------------- MODULE MCBilling -----------------------------
(* Small instances of Billing for TLC.                                     *)
EXTENDS Billing, TLC

CONSTANT stripe1

MCStripe == {stripe1}
MCNoStripe == {}

MCSymmetry == Permutations(Handlers)
=============================================================================
