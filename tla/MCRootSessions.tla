--------------------------- MODULE MCRootSessions ---------------------------
(* Small instances of RootSessions for TLC.                                *)
EXTENDS RootSessions, TLC

\* Slots, secrets and backup codes are interchangeable; so are the jtis.
MCSymmetry == Permutations(Reqs) \cup Permutations(Secrets)
                 \cup Permutations(BackupCodes) \cup Permutations(Challenges)
=============================================================================
