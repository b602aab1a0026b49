------------------------------- MODULE MCMenu -------------------------------
(* Small instances of Menu for TLC.                                        *)
EXTENDS Menu, TLC

\* Slots, slugs and names are interchangeable.
MCSymmetry == Permutations(Reqs) \cup Permutations(Slugs) \cup Permutations(Names)

\* Photos come where one dish has been made, in one cuisine type, and no other
\* requests beside: what they share with the rest is that a dish is removed.
MCScope == photos # <<>> \/ (\E h \in Reqs : HandlesPhotos(h)) =>
               /\ owned = {} /\ Len(categories) = 1 /\ Len(dishes) = 1
               /\ \A h \in Reqs : At(h, "idle") \/ HandlesPhotos(h)
=============================================================================
