-------------------------- MODULE MCModelPipeline --------------------------
(* Small instances of ModelPipeline for TLC.                               *)
EXTENDS ModelPipeline, TLC

CONSTANTS owner, admin

MCCallers == {owner, admin}
MCAdmins == {admin}
MCOwnerOf == [i \in Items |-> owner]

MCOwner == {owner}
MCNobody == {}

\* One job a day, for both accounts or for the owner alone.
MCCapOne == [c \in MCCallers |-> 1]
MCCapOwner == [c \in MCOwner |-> 1]

Submitted == {t \in Tasks : job[t].state # "none"}
Uploaded == UNION ({photos[i] : i \in Items} \cup {job[t].input : t \in Tasks}
                   \cup {wk[r].input : r \in Reqs})

\* Scope: two requests do everything beside one job and no fault; beside more
\* jobs, or a fault, the owner's requests trigger generations and upload one
\* batch of photos, and what is made waits in QA.
MCScope ==
    \/ Cardinality(Submitted) <= 1 /\ faults = 0
    \/ /\ Cardinality(Uploaded) <= 1
       /\ \A r \in Reqs : wk[r].pc \in {"idle", "trigger", "addPhotos", "result"}
       /\ \A i \in Items : /\ ~item[i].qrIssued /\ item[i].previewLink = None
                           /\ item[i].modelGlbUrl # Manual
       /\ \A t \in Tasks : by[t] # admin

MCSymmetry == Permutations(Reqs) \cup Permutations(Tasks) \cup Permutations(Photos)
=============================================================================
