--------------------------- MODULE MCOwnerSessions ---------------------------
(* Small instances of OwnerSessions for TLC.                                *)
EXTENDS OwnerSessions, TLC

\* Slots, tabs and links are interchangeable.
MCSymmetry == Permutations(Reqs) \cup Permutations(Tabs) \cup Permutations(Links)
=============================================================================
