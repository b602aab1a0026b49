--------------------------- MODULE SessionLedger ---------------------------
(***************************************************************************)
(* What a table of refresh tokens promises of the sessions in it, without  *)
(* saying how they are read and written: a session is opened by a sign-in, *)
(* or in exchange for one that has ended; an ended session is never live   *)
(* again, none is forgotten, and each is exchanged for at most Copies      *)
(* others, however many requests present it at once.                       *)
(*                                                                         *)
(* RootSessions implements this with one copy, OwnerSessions with as many  *)
(* as it has requests at a time (see LedgerPromise there).                 *)
(***************************************************************************)
EXTENDS Naturals, Sequences, FiniteSets

CONSTANT Copies

VARIABLE sessions  \* in order of creation; from: the one exchanged, or 0

Init == sessions = <<>>

With(i) == Append(sessions, [from |-> i, live |-> TRUE])

Successors(i) == {j \in DOMAIN sessions : sessions[j].from = i}

SignIn == sessions' = With(0)

Exchange(i) == /\ ~sessions[i].live
               /\ Cardinality(Successors(i)) < Copies
               /\ sessions' = With(i)

\* A refresh, a logout, a password reset or an alarm.
End(S) == sessions' = [i \in DOMAIN sessions |->
                         [sessions[i] EXCEPT !.live = @ /\ i \notin S]]

Next == \/ \E S \in SUBSET DOMAIN sessions : End(S)
        \/ \E i \in DOMAIN sessions : Exchange(i)
        \/ SignIn

Spec == Init /\ [][Next]_sessions
=============================================================================
