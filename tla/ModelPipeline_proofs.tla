------------------------ MODULE ModelPipeline_proofs ------------------------
(***************************************************************************)
(* Proofs about ModelPipeline, for every choice of its constants.          *)
(*                                                                         *)
(* IInv is inductive.  The lemmas take the actions by kind: a step that    *)
(* only moves a handler (HandlerStep), a final write of one row            *)
(* (QuietCommit), a submission and its record (SubmitStep, RecordStep), a  *)
(* Tripo job that advances (JobsGrow).  The second half shows that a step  *)
(* changes at most one row, in one of six ways, from which the preview     *)
(* link's and the public page's guarantees follow.                         *)
(***************************************************************************)
EXTENDS ModelPipeline, FiniteSetTheorems, TLAPS

-----------------------------------------------------------------------------
(* The invariant, seen row by row and handler by handler.                  *)

\* What PendingIsBlank, GeneratingIsTracked and FilesBelongTogether say of a
\* row that dish i has, or is about to be given by a write.
RowSound(i, row) ==
    /\ row.arStatus = "pending" =>
         /\ row.tripoTaskId = None
         /\ row.modelGlbUrl = None
         /\ row.modelUsdzUrl = None
         /\ row.previewImageUrl = None
         /\ row.qaNote # "system"
    /\ row.arStatus = "generating" => /\ row.tripoTaskId # None
                                      /\ by[row.tripoTaskId] # None
    /\ row.tripoTaskId # None => job[row.tripoTaskId].item = i
    /\ MadeFor(i, row.modelGlbUrl)
    /\ MadeFor(i, row.previewImageUrl)
    /\ row.modelUsdzUrl \in {None, row.modelGlbUrl}

RowsAreSound == \A i \in Items : RowSound(i, item[i])

\* What a handler x relies on, given Tripo's jobs j.
SoundFor(x, j) ==
    /\ x.pc = "idle" => x.task = None
    /\ x.pc # "idle" => x.item \in Items
    /\ x.pc \in {"trigger", "regenerate"} => x.by \in Callers
    /\ x.pc = "result" => /\ x.task \in Tasks
                          /\ j[x.task].state \in {"success", "empty", "failed"}
    /\ x.task \in Tasks => j[x.task].item = x.item

HandlerSound(x) == SoundFor(x, job)

\* IInv is the conjunction of what holds of every row and of every handler.
LEMMA InvariantParts ==
    IInv <=> /\ TypeOK
             /\ \A w \in Workers : HandlerSound(wk[w])
             /\ \A t \in Tasks : job[t].state = "none" => job[t].item = None
             /\ RowsAreSound
             /\ CapBudget
  BY DEF IInv, WorkIsSound, HandlerSound, SoundFor, Ended, RowsAreSound, RowSound,
         PendingIsBlank, GeneratingIsTracked, FilesBelongTogether

\* The same in the next state.
LEMMA InvariantPartsNext ==
    IInv' <=> /\ TypeOK'
              /\ \A w \in Workers : HandlerSound(wk[w])'
              /\ \A t \in Tasks : (job[t].state = "none" => job[t].item = None)'
              /\ RowsAreSound'
              /\ CapBudget'
  BY DEF IInv, WorkIsSound, HandlerSound, SoundFor, Ended, RowsAreSound, RowSound,
         PendingIsBlank, GeneratingIsTracked, FilesBelongTogether

\* A fault that the bound allows keeps the fault counter in its range.
LEMMA FaultCounted ==
    ASSUME TypeOK, faults < MaxFaults
    PROVE faults + 1 \in 0..MaxFaults
  BY FinitenessAssumption DEF TypeOK

\* The logged and the not yet logged jobs of an account (model_generations,
\* and submissions past assertUnderDailyCap) are finite sets, and the latter
\* are no more than the request slots.
LEMMA CallersOfJobs ==
    ASSUME TypeOK, NEW c \in Callers
    PROVE /\ IsFiniteSet(RecentJobs(c)) /\ Cardinality(RecentJobs(c)) \in Nat
          /\ IsFiniteSet(Unlogged(c)) /\ Cardinality(Unlogged(c)) \in Nat
          /\ Cardinality(Unlogged(c)) <= Cardinality(Reqs)
          /\ Cardinality(Reqs) \in Nat
  <1>1. RecentJobs(c) \in SUBSET Tasks /\ Unlogged(c) \in SUBSET Reqs
    BY DEF TypeOK, RecentJobs, Unlogged
  <1>2. QED
    BY <1>1, FinitenessAssumption, FS_Subset, FS_CardinalityType

\* An account whose logged and unlogged jobs both shrink stays in budget.
LEMMA CapBudgetShrinks ==
    ASSUME TypeOK, CapBudget, NEW c \in Callers,
           NEW R \in SUBSET RecentJobs(c), NEW U \in SUBSET Unlogged(c)
    PROVE Cardinality(R) + Cardinality(U) < DailyCap[c] + Cardinality(Reqs)
  <1>1. /\ Cardinality(R) <= Cardinality(RecentJobs(c))
        /\ Cardinality(U) <= Cardinality(Unlogged(c))
        /\ IsFiniteSet(R) /\ IsFiniteSet(U)
    BY CallersOfJobs, FS_Subset
  <1>2. Cardinality(R) \in Nat /\ Cardinality(U) \in Nat
    BY <1>1, FS_CardinalityType
  <1>3. DailyCap[c] \in Nat
    BY CallersAssumption
  <1>4. QED
    BY <1>1, <1>2, <1>3, CallersOfJobs DEF CapBudget

\* A step that logs nothing and lets no request pass the daily cap keeps
\* every account in budget.
LEMMA CapBudgetKept ==
    ASSUME TypeOK, CapBudget, recent' \subseteq recent, by' = by,
           \A r \in Reqs : \/ wk'[r] = wk[r]
                           \/ wk'[r].task = None
                           \/ wk'[r].pc \notin {"trigger", "regenerate"}
    PROVE CapBudget'
  <1> SUFFICES ASSUME NEW c \in Callers
               PROVE Cardinality(RecentJobs(c)') + Cardinality(Unlogged(c)')
                       < DailyCap[c] + Cardinality(Reqs)
    BY DEF CapBudget
  <1>1. RecentJobs(c)' \in SUBSET RecentJobs(c)
    BY DEF RecentJobs
  <1>2. Unlogged(c)' \in SUBSET Unlogged(c)
    BY DEF Unlogged
  <1>3. QED
    BY <1>1, <1>2, CapBudgetShrinks

\* The record of a handler at a step of its code is a Work record.
LEMMA HandlersAreTyped ==
    ASSUME NEW pc \in Steps, NEW i \in Items, NEW t \in Tasks \cup {None},
           NEW c \in Callers \cup {None}, NEW in \in SUBSET Photos
    PROVE  At(pc, i, t, c, in) \in Work
  BY DEF At, Work

\* A slot with no request in it is sound.
LEMMA IdleIsSound == Idle \in Work /\ HandlerSound(Idle) /\ Idle.task = None
  BY NamesAssumption DEF Idle, At, Work, Steps, HandlerSound, SoundFor

\* A step that only moves one handler (the reads of every request, an abort,
\* the poll taking up a result) preserves the invariant if the handler is
\* sound where it goes and holds no submission.
LEMMA HandlerStep ==
    ASSUME IInv, NEW w \in Workers, NEW x \in Work,
           HandlerSound(x),
           x.pc \in {"trigger", "regenerate"} => x.task = None,
           wk' = [wk EXCEPT ![w] = x],
           UNCHANGED <<item, job, by, recent>>,
           photos' \in [Items -> SUBSET Photos],
           pollQueue' \in SUBSET Tasks,
           faults' \in 0..MaxFaults
    PROVE IInv'
  <1> USE InvariantParts
  <1>1. TypeOK'
    BY DEF TypeOK
  <1>2. \A v \in Workers : HandlerSound(wk[v])'
    BY DEF HandlerSound, SoundFor, Ended, TypeOK
  <1>3. RowsAreSound'
    BY DEF RowsAreSound, RowSound, MadeFor
  <1>4. CapBudget'
    BY CapBudgetKept DEF TypeOK, Workers
  <1>5. QED
    BY <1>1, <1>2, <1>3, <1>4, InvariantPartsNext

\* A final write "where: { id }" that submits nothing preserves the invariant
\* if the row it writes is sound: the manual upload, approve, reject, preview
\* link, photo invalidation and result handlers.
LEMMA QuietCommit ==
    ASSUME IInv, NEW w \in Workers, wk[w].item \in Items, NEW row \in Rows,
           RowSound(wk[w].item, row), Update(w, row), Same
    PROVE IInv'
  <1> USE InvariantParts
  <1>0. Idle \in Work /\ HandlerSound(Idle) /\ Idle.task = None
    BY IdleIsSound
  <1>1. TypeOK'
    BY <1>0 DEF TypeOK, Update, Same
  <1>2. \A v \in Workers : HandlerSound(wk[v])'
    <2>2. \A v \in Workers : wk'[v] = wk[v] \/ wk'[v] = Idle
      BY DEF TypeOK, Update
    <2>3. \A v \in Workers : HandlerSound(wk'[v])
      BY <1>0, <2>2
    <2>4. QED
      BY <2>3 DEF HandlerSound, SoundFor, Ended, Same
  <1>3. RowsAreSound'
    <2>1. \A i \in Items : item'[i] = IF i = wk[w].item THEN row ELSE item[i]
      BY DEF TypeOK, Update
    <2>2. job' = job /\ by' = by
      BY DEF Same
    <2>3. \A i \in Items : RowSound(i, item'[i])
      BY <2>1 DEF RowsAreSound
    <2>4. QED
      BY <2>2, <2>3 DEF RowsAreSound, RowSound, MadeFor
  <1>4. CapBudget'
    <2>1. \A r \in Reqs : wk'[r] = wk[r] \/ wk'[r] = Idle
      BY DEF TypeOK, Workers, Update
    <2>2. QED
      BY <1>0, <2>1, CapBudgetKept DEF Same
  <1>5. QED
    BY <1>1, <1>2, <1>3, <1>4, InvariantPartsNext DEF Same

\* The reads and early returns of the owner's and the admins' requests
\* preserve the invariant.
LEMMA LoadStep ==
    ASSUME IInv, NEW r \in Reqs, NEW i \in Items, OwnerNext(r, i) \/ AdminNext(r, i)
    PROVE IInv'
  <1> USE InvariantParts
  <1>1. r \in Workers
    BY DEF Workers
  <1>2. ASSUME NEW pc \in {"manual", "approve", "reject", "preview"},
               Begin(r, pc, i), Same, UNCHANGED item
        PROVE IInv'
    <2> DEFINE x == At(pc, i, None, None, {})
    <2>1. wk' = [wk EXCEPT ![r] = x]
      BY <1>2 DEF Begin
    <2>2. x \in Work
      BY HandlersAreTyped DEF Steps
    <2>3. HandlerSound(x) /\ x.task = None
      BY NamesAssumption DEF HandlerSound, SoundFor, At
    <2> HIDE DEF x
    <2>4. QED
      BY <1>1, <1>2, <2>1, <2>2, <2>3, HandlerStep DEF Same, TypeOK
  <1>3. ASSUME NEW pc \in {"trigger", "regenerate"}, NEW c \in Callers,
               LoadForSubmission(r, i, pc, c)
        PROVE IInv'
    <2> DEFINE x == At(pc, i, None, c, photos[i])
    <2>1. wk' = [wk EXCEPT ![r] = x]
      BY <1>3 DEF LoadForSubmission
    <2>2. x \in Work
      BY HandlersAreTyped DEF TypeOK, Steps
    <2>3. HandlerSound(x) /\ x.task = None
      BY NamesAssumption DEF HandlerSound, SoundFor, At
    <2> HIDE DEF x
    <2>4. QED
      BY <1>1, <1>3, <2>1, <2>2, <2>3, HandlerStep DEF LoadForSubmission, TypeOK
  <1>4. ASSUME NEW p \in Photos, AddPhotosInsert(r, i, p) PROVE IInv'
    <2> DEFINE x == At("addPhotos", i, None, None, {})
    <2>1. wk' = [wk EXCEPT ![r] = x]
      BY <1>4 DEF AddPhotosInsert, Begin
    <2>2. x \in Work
      BY HandlersAreTyped DEF Steps
    <2>3. HandlerSound(x) /\ x.task = None
      BY NamesAssumption DEF HandlerSound, SoundFor, At
    <2>4. photos' \in [Items -> SUBSET Photos]
      BY <1>4 DEF AddPhotosInsert, TypeOK
    <2> HIDE DEF x
    <2>5. QED
      BY <1>1, <1>4, <2>1, <2>2, <2>3, <2>4, HandlerStep DEF AddPhotosInsert, TypeOK
  <1>5. OwnerOf[i] \in Callers /\ Admins \subseteq Callers
    BY CallersAssumption
  <1>6. QED
    BY <1>2, <1>3, <1>4, <1>5 DEF OwnerNext, AdminNext, TriggerGeneration, RegenerateAsAdmin,
       ManualLoad, ApproveLoad, RejectLoad, PreviewLoad

\* The final writes of uploadModels, approve, reject, createPreviewLink and
\* addPhotos preserve it.
LEMMA QuietCommits ==
    ASSUME IInv, NEW r \in Reqs,
           \/ ManualCommit(r) \/ ApproveCommit(r) \/ RejectCommit(r)
           \/ PreviewClaim(r) \/ AddPhotosInvalidate(r)
    PROVE IInv'
  <1> USE InvariantParts
  <1> DEFINE i == wk[r].item
  <1>1. r \in Workers
    BY DEF Workers
  <1>2. i \in Items
    BY <1>1 DEF HandlerSound, SoundFor, ManualCommit, ApproveCommit, RejectCommit,
                PreviewClaim, AddPhotosInvalidate, Writing
  <1>3. Row(r) \in Rows /\ RowSound(i, Row(r))
    BY <1>2 DEF TypeOK, RowsAreSound, Row
  <1> HIDE DEF i
  <1>4. ASSUME ManualCommit(r) PROVE IInv'
    <2>1. PICK usdz \in {Manual, None} :
            Update(r, [Row(r) EXCEPT !.arStatus = "qa", !.modelGlbUrl = Manual,
                                     !.modelUsdzUrl = usdz, !.tripoTaskId = None,
                                     !.qaNote = IF usdz = None THEN "system" ELSE None])
      BY <1>4 DEF ManualCommit
    <2> DEFINE row == [Row(r) EXCEPT !.arStatus = "qa", !.modelGlbUrl = Manual,
                                     !.modelUsdzUrl = usdz, !.tripoTaskId = None,
                                     !.qaNote = IF usdz = None THEN "system" ELSE None]
    <2>2. row \in Rows
      BY <1>3 DEF Rows, Files, ArStatus
    <2>3. RowSound(i, row)
      <3>1. /\ row.arStatus = "qa" /\ row.tripoTaskId = None
            /\ row.modelGlbUrl = Manual /\ row.modelUsdzUrl = usdz
            /\ row.previewImageUrl = Row(r).previewImageUrl
        BY <1>3 DEF Rows
      <3> HIDE DEF row
      <3>2. QED
        BY <1>3, <3>1, NamesAssumption DEF RowSound, MadeFor
    <2> HIDE DEF row
    <2>4. Update(r, row) /\ Same
      BY <1>4, <2>1 DEF ManualCommit, row
    <2>5. QED
      BY <1>1, <1>2, <2>2, <2>3, <2>4, QuietCommit DEF i
  <1>5. ASSUME ApproveCommit(r) PROVE IInv'
    <2> DEFINE row == [Row(r) EXCEPT !.arStatus = "live", !.qaNote = None,
                                     !.qrIssued = TRUE, !.previewLink = None]
    <2>1. row \in Rows
      BY <1>3 DEF Rows, ArStatus
    <2>2. RowSound(i, row)
      BY <1>3 DEF Rows, RowSound, MadeFor
    <2>3. Update(r, row) /\ Same
      BY <1>5 DEF ApproveCommit
    <2> HIDE DEF row
    <2>4. QED
      BY <1>1, <1>2, <2>1, <2>2, <2>3, QuietCommit DEF i
  <1>6. ASSUME RejectCommit(r) PROVE IInv'
    <2> DEFINE row == [WithoutModel(Row(r)) EXCEPT !.qaNote = "admin", !.previewLink = None]
    <2>1. row \in Rows
      BY <1>3 DEF Rows, ArStatus, Files, WithoutModel
    <2>2. RowSound(i, row)
      BY <1>3, NamesAssumption DEF Rows, RowSound, MadeFor, WithoutModel
    <2>3. Update(r, row) /\ Same
      BY <1>6 DEF RejectCommit
    <2> HIDE DEF row
    <2>4. QED
      BY <1>1, <1>2, <2>1, <2>2, <2>3, QuietCommit DEF i
  <1>7. ASSUME AddPhotosInvalidate(r) PROVE IInv'
    <2> DEFINE row == [WithoutModel(Row(r)) EXCEPT !.qaNote = None]
    <2>1. row \in Rows
      BY <1>3 DEF Rows, ArStatus, Files, WithoutModel
    <2>2. RowSound(i, row)
      BY <1>3, NamesAssumption DEF Rows, RowSound, MadeFor, WithoutModel
    <2>3. Update(r, row) /\ Same
      BY <1>7 DEF AddPhotosInvalidate
    <2> HIDE DEF row
    <2>4. QED
      BY <1>1, <1>2, <2>1, <2>2, <2>3, QuietCommit DEF i
  <1>8. ASSUME PreviewClaim(r) PROVE IInv'
    <2> DEFINE row == [Row(r) EXCEPT !.previewLink = r]
    <2>1. row \in Rows
      BY <1>3 DEF Rows
    <2>2. RowSound(i, row)
      BY <1>3 DEF Rows, RowSound, MadeFor
    <2>3. Update(r, row) /\ Same
      BY <1>8 DEF PreviewClaim
    <2> HIDE DEF row
    <2>4. QED
      BY <1>1, <1>2, <2>1, <2>2, <2>3, QuietCommit DEF i
  <1>9. QED
    BY <1>4, <1>5, <1>6, <1>7, <1>8

\* The final write of handleTaskResult preserves it: the job it handles is the
\* dish's own and ended, whatever else has been written since it was read.
LEMMA ResultStep == ASSUME IInv, NEW w \in Workers, ResultCommit(w) PROVE IInv'
  <1> USE InvariantParts
  <1> DEFINE i == wk[w].item
             t == wk[w].task
  <1>1. /\ i \in Items /\ t \in Tasks /\ job[t].item = i
    BY DEF HandlerSound, SoundFor, ResultCommit, Writing
  <1>2. Row(w) \in Rows /\ RowSound(i, Row(w))
    BY <1>1 DEF TypeOK, RowsAreSound, Row
  <1> HIDE DEF i, t
  <1>3. Same
    BY DEF ResultCommit, Same
  <1>4. ASSUME Update(w, FlagForQa(w)) PROVE IInv'
    <2>1. FlagForQa(w) \in Rows
      BY <1>2 DEF Rows, ArStatus, FlagForQa
    <2>2. RowSound(i, FlagForQa(w))
      BY <1>2 DEF Rows, RowSound, MadeFor, FlagForQa
    <2>3. QED
      BY <1>1, <1>3, <1>4, <2>1, <2>2, QuietCommit DEF i
  <1>5. ASSUME job[t].state = "success", NEW usdz \in {t, None}, NEW poster \in {t, None},
               Update(w, Finished(w, usdz, poster))
        PROVE IInv'
    <2> DEFINE row == [Row(w) EXCEPT !.arStatus = "qa",
                                     !.modelGlbUrl = t,
                                     !.modelUsdzUrl = usdz,
                                     !.previewImageUrl = poster,
                                     !.qaNote = IF usdz = None THEN "system" ELSE None]
    <2>1. row \in Rows
      BY <1>1, <1>2 DEF Rows, ArStatus, Files
    <2>2. RowSound(i, row)
      BY <1>1, <1>2, <1>5, NamesAssumption DEF Rows, RowSound, MadeFor
    <2>3. Update(w, row)
      BY <1>5 DEF Finished, t
    <2> HIDE DEF row
    <2>4. QED
      BY <1>1, <1>3, <2>1, <2>2, <2>3, QuietCommit DEF i
  <1>6. QED
    BY <1>4, <1>5 DEF ResultCommit, t

\* The $transaction of triggerGeneration and of regenerateAsAdmin preserves
\* it: the request leaves Unlogged as its task enters the log.
LEMMA RecordStep ==
    ASSUME IInv, NEW r \in Reqs, TriggerCommit(r) \/ RegenerateCommit(r)
    PROVE IInv'
  <1> USE InvariantParts
  <1>1. r \in Workers /\ wk[r] \in Work
    BY DEF Workers, TypeOK
  <1>2. PICK i \in Items, t \in Tasks, c \in Callers :
          /\ i = wk[r].item /\ t = wk[r].task /\ c = wk[r].by
          /\ job[t].item = i
          /\ wk[r].pc \in {"trigger", "regenerate"} /\ t # None
    BY <1>1 DEF HandlerSound, SoundFor, TriggerCommit, RegenerateCommit, RecordJob, Work
  <1>3. Row(r) \in Rows /\ RowSound(i, Row(r))
    BY <1>2 DEF TypeOK, RowsAreSound, Row
  <1>4. c # None
    BY <1>2, NamesAssumption
  <1> DEFINE Recorded(row) == /\ row \in Rows
                           /\ RecordJob(r, row)
                           /\ row.arStatus = "generating"
                           /\ row.tripoTaskId = t
                           /\ row.modelGlbUrl = Row(r).modelGlbUrl
                           /\ row.modelUsdzUrl = Row(r).modelUsdzUrl
                           /\ row.previewImageUrl = Row(r).previewImageUrl
  <1>5. \E row : Recorded(row)
    <2>1. ASSUME TriggerCommit(r) PROVE Recorded([Generating(r) EXCEPT !.qaNote = None])
      BY <1>2, <1>3, <2>1 DEF TriggerCommit, Generating, Rows, ArStatus
    <2>2. ASSUME RegenerateCommit(r)
          PROVE Recorded([Generating(r) EXCEPT !.qaNote = "admin", !.previewLink = None])
      BY <1>2, <1>3, <2>2 DEF RegenerateCommit, Generating, Rows, ArStatus
    <2>3. QED
      BY <2>1, <2>2
  <1>6. PICK row : Recorded(row)
    BY <1>5
  <1>7. /\ item' = [item EXCEPT ![i] = row]
        /\ wk' = [wk EXCEPT ![r] = Idle]
        /\ by' = [by EXCEPT ![t] = c]
        /\ recent' = recent \cup {t}
        /\ job' = job /\ photos' = photos /\ pollQueue' = pollQueue /\ faults' = faults
    BY <1>2, <1>6 DEF RecordJob, Update
  <1>8. TypeOK'
    BY <1>1, <1>2, <1>6, <1>7, IdleIsSound DEF TypeOK
  <1>9. \A v \in Workers : HandlerSound(wk[v])'
    <2>1. \A v \in Workers : wk'[v] = wk[v] \/ wk'[v] = Idle
      BY <1>7 DEF TypeOK
    <2>2. \A v \in Workers : HandlerSound(wk'[v])
      BY <2>1, IdleIsSound
    <2>3. QED
      BY <1>7, <2>2 DEF HandlerSound, SoundFor, Ended
  <1>10. RowsAreSound'
    <2>1. \A j \in Items : item'[j] = IF j = i THEN row ELSE item[j]
      BY <1>2, <1>7 DEF TypeOK
    <2>2. \A u \in Tasks : by[u] # None => by'[u] # None
      BY <1>4, <1>7 DEF TypeOK
    <2>3. by'[t] # None
      BY <1>2, <1>4, <1>7 DEF TypeOK
    <2>4. ASSUME NEW j \in Items, j # i PROVE RowSound(j, item[j])'
      <3>1. item'[j] = item[j] /\ item[j] \in Rows /\ RowSound(j, item[j])
        BY <2>1, <2>4 DEF RowsAreSound, TypeOK
      <3>2. item[j].tripoTaskId \in Tasks \cup {None}
        BY <3>1 DEF Rows
      <3>3. QED
        BY <1>7, <2>2, <3>1, <3>2 DEF RowSound, MadeFor
    <2>5. RowSound(i, item[i])'
      BY <1>2, <1>3, <1>6, <1>7, <2>1, <2>3 DEF RowSound, MadeFor
    <2>6. QED
      BY <2>4, <2>5 DEF RowsAreSound
  <1>11. CapBudget'
    <2> SUFFICES ASSUME NEW d \in Callers
                 PROVE Cardinality(RecentJobs(d)') + Cardinality(Unlogged(d)')
                         < DailyCap[d] + Cardinality(Reqs)
      BY DEF CapBudget
    <2>1. CASE d # c
      <3>1. RecentJobs(d)' \in SUBSET RecentJobs(d)
        BY <1>2, <1>7, <2>1 DEF RecentJobs, TypeOK
      <3>2. Unlogged(d)' \in SUBSET Unlogged(d)
        BY <1>7, IdleIsSound DEF Unlogged, TypeOK, Workers
      <3>3. QED
        BY <3>1, <3>2, CapBudgetShrinks
    <2>2. CASE d = c
      <3>1. RecentJobs(d)' \in SUBSET (RecentJobs(d) \cup {t})
        BY <1>2, <1>7 DEF RecentJobs, TypeOK
      <3>2. Unlogged(d)' \in SUBSET (Unlogged(d) \ {r})
        BY <1>7, IdleIsSound DEF Unlogged, TypeOK, Workers
      <3>3. r \in Unlogged(d)
        BY <1>2, <2>2 DEF Unlogged
      <3>4. /\ IsFiniteSet(RecentJobs(d)) /\ Cardinality(RecentJobs(d)) \in Nat
            /\ IsFiniteSet(Unlogged(d)) /\ Cardinality(Unlogged(d)) \in Nat
            /\ Cardinality(Reqs) \in Nat /\ DailyCap[d] \in Nat
        BY CallersOfJobs, CallersAssumption
      <3>5. /\ IsFiniteSet(RecentJobs(d) \cup {t})
            /\ Cardinality(RecentJobs(d) \cup {t}) <= Cardinality(RecentJobs(d)) + 1
        <4>1. Cardinality(RecentJobs(d) \cup {t}) = IF t \in RecentJobs(d)
                                                    THEN Cardinality(RecentJobs(d))
                                                    ELSE Cardinality(RecentJobs(d)) + 1
          BY <3>4, FS_AddElement
        <4>2. QED
          BY <3>4, <4>1, FS_AddElement
      <3>6. /\ IsFiniteSet(Unlogged(d) \ {r})
            /\ Cardinality(Unlogged(d) \ {r}) = Cardinality(Unlogged(d)) - 1
        BY <3>3, <3>4, FS_RemoveElement
      <3>7. /\ IsFiniteSet(RecentJobs(d)')
            /\ Cardinality(RecentJobs(d)') <= Cardinality(RecentJobs(d) \cup {t})
            /\ IsFiniteSet(Unlogged(d)')
            /\ Cardinality(Unlogged(d)') <= Cardinality(Unlogged(d) \ {r})
        BY <3>1, <3>2, <3>5, <3>6, FS_Subset
      <3>8. /\ Cardinality(RecentJobs(d)') \in Nat /\ Cardinality(Unlogged(d)') \in Nat
            /\ Cardinality(RecentJobs(d) \cup {t}) \in Nat
        BY <3>5, <3>7, FS_CardinalityType
      <3>9. QED
        BY <3>4, <3>5, <3>6, <3>7, <3>8 DEF CapBudget
    <2>3. QED
      BY <2>1, <2>2
  <1>12. QED
    <2>1. \A u \in Tasks : (job[u].state = "none" => job[u].item = None)'
      BY <1>7
    <2>2. QED
      BY <1>8, <1>9, <1>10, <1>11, <2>1, InvariantPartsNext

\* Tripo never changes the dish of a job it has accepted, nor an ended job.
JobsGrow == /\ job' \in [Tasks -> Jobs]
            /\ \A t \in Tasks : job[t].item # None =>
                 /\ job'[t].item = job[t].item
                 /\ Ended(t) => job'[t].state = job[t].state
            /\ \A t \in Tasks : job'[t].state = "none" => job'[t].item = None

\* Rows stay sound when Tripo's jobs only grow.
LEMMA JobsGrowKeepsRows ==
    ASSUME IInv, JobsGrow, UNCHANGED <<item, by>>
    PROVE RowsAreSound'
  <1> USE InvariantParts
  <1> SUFFICES ASSUME NEW i \in Items PROVE RowSound(i, item[i])'
    BY DEF RowsAreSound
  <1>1. RowSound(i, item[i]) /\ item[i] \in Rows
    BY DEF RowsAreSound, TypeOK
  <1>2. \A t \in Tasks : job[t].item = i => /\ job'[t].item = i
                                            /\ job[t].state = "success" => job'[t].state = "success"
    BY NamesAssumption DEF JobsGrow, Ended
  <1>3. /\ item[i].tripoTaskId \in Tasks \cup {None}
        /\ item[i].modelGlbUrl \in Files /\ item[i].previewImageUrl \in Files
    BY <1>1 DEF Rows
  <1>4. QED
    <2>1. item' = item /\ by' = by
      OBVIOUS
    <2>2. MadeFor(i, item[i].modelGlbUrl)' /\ MadeFor(i, item[i].previewImageUrl)'
      BY <1>1, <1>2, <1>3, <2>1 DEF RowSound, MadeFor
    <2>3. item[i].tripoTaskId # None => job'[item[i].tripoTaskId].item = i
      BY <1>1, <1>2, <1>3 DEF RowSound
    <2>4. QED
      BY <1>1, <2>1, <2>2, <2>3 DEF RowSound

\* Handlers stay sound when Tripo's jobs only grow.
LEMMA JobsGrowKeepsHandlers ==
    ASSUME IInv, JobsGrow, NEW x \in Work, HandlerSound(x)
    PROVE SoundFor(x, job')
  <1>1. x.task \in Tasks => x.item \in Items /\ job[x.task].item # None
    BY NamesAssumption DEF HandlerSound, SoundFor
  <1>2. x.task \in Tasks => job'[x.task].item = x.item
    BY <1>1 DEF HandlerSound, SoundFor, JobsGrow
  <1>3. x.pc = "result" => job'[x.task].state = job[x.task].state
    BY <1>1 DEF HandlerSound, SoundFor, JobsGrow, Ended
  <1>4. QED
    BY <1>1, <1>2, <1>3 DEF HandlerSound, SoundFor

\* A submission that Tripo accepts makes its jobs grow.
LEMMA AcceptGrowsJobs ==
    ASSUME IInv, NEW t \in Tasks, NEW i \in Items, NEW in \in SUBSET Photos,
           Accept(t, i, in)
    PROVE JobsGrow /\ job'[t].item = i
  <1> USE InvariantParts
  <1>1. [state |-> "running", item |-> i, input |-> in] \in Jobs
    BY DEF Jobs
  <1>2. job' = [job EXCEPT ![t] = [state |-> "running", item |-> i, input |-> in]]
    BY DEF Accept
  <1>3. job[t].state = "none" /\ job[t].item = None
    BY DEF Accept
  <1>4. job'[t].state = "running" /\ job'[t].item = i
    BY <1>2 DEF TypeOK
  <1>5. \A u \in Tasks : u # t => job'[u] = job[u]
    BY <1>2 DEF TypeOK
  <1>6. job' \in [Tasks -> Jobs]
    BY <1>1, <1>2 DEF TypeOK
  <1>7. QED
    BY <1>3, <1>4, <1>5, <1>6 DEF JobsGrow

\* submitJob preserves the invariant, whether or not the reply arrives: the
\* cap test leaves room for every other request in flight.
LEMMA SubmitStep ==
    ASSUME IInv, NEW r \in Reqs, NEW t \in Tasks,
           SubmitJob(r, t) \/ SubmitReplyLost(r, t)
    PROVE IInv'
  <1> USE InvariantParts
  <1>1. r \in Workers /\ wk[r] \in Work
    BY DEF Workers, TypeOK
  <1>2. PICK i \in Items, c \in Callers : /\ i = wk[r].item /\ c = wk[r].by
                                          /\ wk[r].pc \in {"trigger", "regenerate"}
                                          /\ AssertUnderDailyCap(c)
                                          /\ wk[r].input \in SUBSET Photos
                                          /\ wk[r].task = None
    BY <1>1 DEF HandlerSound, SoundFor, SubmitJob, SubmitReplyLost, Submitting, Work
  <1>3. Accept(t, i, wk[r].input)
    BY <1>2 DEF SubmitJob, SubmitReplyLost
  <1>4. JobsGrow /\ job'[t].item = i
    BY <1>2, <1>3, AcceptGrowsJobs
  <1>5. RowsAreSound'
    BY <1>4, JobsGrowKeepsRows DEF SubmitJob, SubmitReplyLost
  <1>6. CASE SubmitReplyLost(r, t)
    <2>1. TypeOK'
      <3>1. faults' \in 0..MaxFaults
        BY <1>6, FaultCounted DEF SubmitReplyLost
      <3>2. wk' \in [Workers -> Work]
        BY <1>6, IdleIsSound DEF TypeOK, SubmitReplyLost
      <3>3. QED
        BY <1>4, <1>6, <3>1, <3>2 DEF TypeOK, SubmitReplyLost, JobsGrow
    <2>2. ASSUME NEW v \in Workers PROVE HandlerSound(wk[v])'
      <3>1. wk'[v] \in Work /\ HandlerSound(wk'[v])
        BY <1>6, IdleIsSound DEF SubmitReplyLost, TypeOK
      <3>2. QED
        BY <1>4, <3>1, JobsGrowKeepsHandlers DEF HandlerSound
    <2>3. CapBudget'
      <3>1. \A v \in Reqs : wk'[v] = wk[v] \/ wk'[v].task = None
        BY <1>6, IdleIsSound DEF SubmitReplyLost, TypeOK, Workers
      <3>2. QED
        BY <1>6, <3>1, CapBudgetKept DEF SubmitReplyLost
    <2>4. QED
      BY <1>4, <1>5, <2>1, <2>2, <2>3, InvariantPartsNext DEF JobsGrow
  <1>7. CASE SubmitJob(r, t)
    <2>1. wk' = [wk EXCEPT ![r].task = t] /\ UNCHANGED <<item, photos, by, recent, pollQueue, faults>>
      BY <1>7 DEF SubmitJob
    <2>2. /\ wk'[r] \in Work
          /\ wk'[r].pc = wk[r].pc /\ wk'[r].item = wk[r].item
          /\ wk'[r].by = wk[r].by /\ wk'[r].task = t
      BY <1>1, <2>1 DEF Work, TypeOK
    <2>3. \A v \in Workers : v # r => wk'[v] = wk[v]
      BY <2>1 DEF TypeOK
    <2>4. wk' \in [Workers -> Work]
      BY <1>1, <2>1, <2>2, <2>3 DEF TypeOK
    <2>5. TypeOK'
      BY <1>4, <2>1, <2>4 DEF TypeOK, JobsGrow
    <2>6. ASSUME NEW v \in Workers PROVE HandlerSound(wk[v])'
      <3>1. CASE v = r
        BY <1>2, <1>4, <2>2, <3>1 DEF HandlerSound, SoundFor
      <3>2. CASE v # r
        <4>1. wk'[v] \in Work /\ HandlerSound(wk'[v])
          BY <2>3, <3>2 DEF TypeOK
        <4>2. QED
          BY <1>4, <4>1, JobsGrowKeepsHandlers DEF HandlerSound
      <3>3. QED
        BY <3>1, <3>2
    <2>7. CapBudget'
      <3> SUFFICES ASSUME NEW d \in Callers
                   PROVE Cardinality(RecentJobs(d)') + Cardinality(Unlogged(d)')
                           < DailyCap[d] + Cardinality(Reqs)
        BY DEF CapBudget
      <3>1. RecentJobs(d)' = RecentJobs(d)
        BY <2>1 DEF RecentJobs
      <3>2. CASE d # c
        <4>1. Unlogged(d)' \in SUBSET Unlogged(d)
          BY <1>1, <1>2, <2>2, <2>3, <3>2 DEF Unlogged, Workers
        <4>2. QED
          BY <3>1, <4>1, CapBudgetShrinks
      <3>3. CASE d = c
        <4>1. Cardinality(RecentJobs(d)) < DailyCap[d]
          BY <1>2, <3>3 DEF AssertUnderDailyCap
        <4>2. Unlogged(d)' \in SUBSET Reqs
          BY DEF Unlogged
        <4>3. Cardinality(Unlogged(d)') <= Cardinality(Reqs) /\ IsFiniteSet(Unlogged(d)')
          BY <4>2, FinitenessAssumption, FS_Subset
        <4>4. /\ Cardinality(Unlogged(d)') \in Nat /\ Cardinality(Reqs) \in Nat
              /\ Cardinality(RecentJobs(d)) \in Nat /\ DailyCap[d] \in Nat
          BY <4>3, CallersOfJobs, FS_CardinalityType, CallersAssumption
        <4>5. QED
          BY <3>1, <4>1, <4>3, <4>4
      <3>4. QED
        BY <3>2, <3>3
    <2>8. QED
      BY <1>4, <1>5, <2>5, <2>6, <2>7, InvariantPartsNext DEF JobsGrow
  <1>8. QED
    BY <1>6, <1>7

\* Finding the dish of an ended task preserves it, from webhook or poll.
LEMMA HandleTaskResultStep ==
    ASSUME IInv, NEW w \in Workers, NEW t \in Tasks, HandleTaskResult(w, t),
           UNCHANGED <<item, photos, job, by, recent, faults>>,
           pollQueue' \in SUBSET Tasks
    PROVE IInv'
  <1> USE InvariantParts
  <1>1. PICK i \in Items : /\ item[i].tripoTaskId = t
                           /\ wk' = [wk EXCEPT ![w] = At("result", i, t, None, {})]
    BY DEF HandleTaskResult
  <1> DEFINE x == At("result", i, t, None, {})
  <1>2. x \in Work
    BY HandlersAreTyped DEF Steps
  <1>3. job[t].item = i
    BY <1>1, NamesAssumption DEF RowsAreSound, RowSound
  <1>4. HandlerSound(x) /\ x.pc = "result"
    BY <1>3 DEF HandlerSound, SoundFor, At, HandleTaskResult, Ended
  <1> HIDE DEF x
  <1>5. wk' = [wk EXCEPT ![w] = x]
    BY <1>1 DEF x
  <1>6. QED
    BY <1>2, <1>4, <1>5, HandlerStep DEF TypeOK

\* Every step of pollPendingTasks preserves it.
LEMMA PollStep == ASSUME IInv, PollNext PROVE IInv'
  <1> USE InvariantParts
  <1>1. Cron \in Workers
    BY DEF Workers
  <1>2. ASSUME pollQueue' \in SUBSET Tasks, faults' \in 0..MaxFaults,
               UNCHANGED <<item, photos, job, by, recent, wk>>
        PROVE IInv'
    <2>1. TypeOK'
      BY <1>2 DEF TypeOK
    <2>2. \A w \in Workers : HandlerSound(wk[w])'
      BY <1>2 DEF HandlerSound, SoundFor
    <2>3. RowsAreSound'
      BY <1>2 DEF RowsAreSound, RowSound, MadeFor
    <2>4. CapBudget'
      BY <1>2, CapBudgetKept
    <2>5. QED
      BY <1>2, <2>1, <2>2, <2>3, <2>4, InvariantPartsNext
  <1>3. CASE PollPendingTasks
    <2>1. InFlight \in SUBSET Tasks
      BY DEF InFlight, TypeOK, Rows
    <2>2. QED
      BY <1>2, <1>3, <2>1 DEF PollPendingTasks, TypeOK
  <1>4. CASE PollCaught
    <2>1. faults' \in 0..MaxFaults
      BY <1>4, FaultCounted DEF PollCaught, TypeOK
    <2>2. Idle.pc \notin {"trigger", "regenerate"}
      BY DEF Idle, At
    <2>3. QED
      BY <1>1, <1>4, <2>1, <2>2, IdleIsSound, HandlerStep DEF PollCaught, TypeOK
  <1>5. ASSUME NEW t \in Tasks, PollResult(t) PROVE IInv'
    BY <1>1, <1>5, HandleTaskResultStep DEF PollResult, Dequeue, TypeOK
  <1>6. ASSUME NEW t \in Tasks, PollNothing(t) PROVE IInv'
    BY <1>2, <1>6 DEF PollNothing, Dequeue, TypeOK
  <1>7. ASSUME NEW t \in Tasks, PollSkip(t) PROVE IInv'
    BY <1>2, <1>7, FaultCounted DEF PollSkip, Dequeue, TypeOK
  <1>8. QED
    BY <1>3, <1>4, <1>5, <1>6, <1>7 DEF PollNext

\* A preview link that expires and a dish that is removed preserve it.
LEMMA RowStep ==
    ASSUME IInv, NEW i \in Items, LinkExpires(i) \/ Remove(i)
    PROVE IInv'
  <1> USE InvariantParts
  <1>1. item[i] \in Rows /\ RowSound(i, item[i])
    BY DEF TypeOK, RowsAreSound
  <1>2. PICK row \in Rows : RowSound(i, row) /\ item' = [item EXCEPT ![i] = row]
    <2>1. CASE LinkExpires(i)
      <3> DEFINE row == [item[i] EXCEPT !.previewLink = None]
      <3>1. row \in Rows
        BY <1>1 DEF Rows
      <3>2. RowSound(i, row)
        BY <1>1 DEF RowSound, Rows, MadeFor
      <3>3. item' = [item EXCEPT ![i] = row]
        BY <2>1 DEF LinkExpires
      <3> HIDE DEF row
      <3>4. QED
        BY <3>1, <3>2, <3>3
    <2>2. CASE Remove(i)
      <3> DEFINE row == [Blank EXCEPT !.arStatus = "deleted"]
      <3>1. row \in Rows
        BY DEF Blank, Rows, Files
      <3>2. RowSound(i, row)
        BY NamesAssumption DEF Blank, RowSound, MadeFor
      <3>3. item' = [item EXCEPT ![i] = row]
        BY <2>2 DEF Remove
      <3> HIDE DEF row
      <3>4. QED
        BY <3>1, <3>2, <3>3
    <2>3. QED
      BY <2>1, <2>2
  <1>3. UNCHANGED <<job, by, recent, wk, pollQueue, faults>>
    BY DEF LinkExpires, Remove, Same
  <1>4. TypeOK'
    BY <1>2, <1>3 DEF TypeOK, LinkExpires, Remove, Same
  <1>5. RowsAreSound'
    <2>1. \A j \in Items : item'[j] = IF j = i THEN row ELSE item[j]
      BY <1>2 DEF TypeOK
    <2>2. \A j \in Items : RowSound(j, item'[j])
      BY <1>2, <2>1 DEF RowsAreSound
    <2>3. QED
      BY <1>3, <2>2 DEF RowsAreSound, RowSound, MadeFor
  <1>6. \A w \in Workers : HandlerSound(wk[w])'
    BY <1>3 DEF HandlerSound, SoundFor
  <1>7. CapBudget'
    BY <1>3, CapBudgetKept
  <1>8. QED
    BY <1>3, <1>4, <1>5, <1>6, <1>7, InvariantPartsNext

\* Tripo finishing, time passing, photos removed, requests that throw and a
\* crash of the process preserve it.
LEMMA EnvironmentStep ==
    ASSUME IInv,
           \/ \E t \in Tasks : TripoFinishes(t) \/ DayPasses(t)
           \/ \E i \in Items, p \in Photos : RemovePhoto(i, p)
           \/ \E r \in Reqs : Abort(r)
           \/ Crash
    PROVE IInv'
  <1> USE InvariantParts
  <1>1. ASSUME NEW t \in Tasks, TripoFinishes(t) PROVE IInv'
    <2>1. PICK s \in {"success", "empty", "failed"} : job' = [job EXCEPT ![t].state = s]
      BY <1>1 DEF TripoFinishes
    <2>2. UNCHANGED <<item, photos, by, recent, wk, pollQueue, faults>> /\ job[t].state = "running"
      BY <1>1 DEF TripoFinishes
    <2>3. /\ job'[t] \in Jobs /\ job'[t].state = s
          /\ job'[t].item = job[t].item
      BY <2>1 DEF TypeOK, Jobs
    <2>4. \A u \in Tasks : u # t => job'[u] = job[u]
      BY <2>1 DEF TypeOK
    <2>5. job' \in [Tasks -> Jobs]
      BY <2>1, <2>3, <2>4 DEF TypeOK
    <2>6. JobsGrow
      BY <2>2, <2>3, <2>4, <2>5 DEF JobsGrow, Ended
    <2>7. TypeOK'
      BY <2>2, <2>5 DEF TypeOK
    <2>8. \A w \in Workers : HandlerSound(wk[w])'
      BY <2>2, <2>6, JobsGrowKeepsHandlers DEF TypeOK, HandlerSound
    <2>9. RowsAreSound' /\ CapBudget'
      BY <2>2, <2>6, JobsGrowKeepsRows, CapBudgetKept
    <2>10. QED
      BY <2>6, <2>7, <2>8, <2>9, InvariantPartsNext DEF JobsGrow
  <1>2. ASSUME NEW t \in Tasks, DayPasses(t) PROVE IInv'
    <2>1. CapBudget'
      BY <1>2, CapBudgetKept DEF DayPasses
    <2>2. QED
      BY <1>2, <2>1 DEF DayPasses, IInv, TypeOK, WorkIsSound, PendingIsBlank,
         GeneratingIsTracked, FilesBelongTogether, MadeFor, Ended
  <1>3. ASSUME NEW i \in Items, NEW p \in Photos, RemovePhoto(i, p) PROVE IInv'
    <2>1. CapBudget'
      BY <1>3, CapBudgetKept DEF RemovePhoto
    <2>2. photos' \in [Items -> SUBSET Photos]
      BY <1>3 DEF RemovePhoto, TypeOK
    <2>3. QED
      BY <1>3, <2>1, <2>2 DEF RemovePhoto, IInv, TypeOK, WorkIsSound, PendingIsBlank,
         GeneratingIsTracked, FilesBelongTogether, MadeFor, Ended
  <1>4. ASSUME NEW r \in Reqs, Abort(r) PROVE IInv'
    <2>1. r \in Workers
      BY DEF Workers
    <2>2. QED
      BY <1>4, <2>1, IdleIsSound, HandlerStep DEF Abort, TypeOK
  <1>5. CASE Crash
    <2>1. \A w \in Workers : wk'[w] = Idle
      BY <1>5 DEF Crash
    <2>2. TypeOK'
      <3>1. faults' \in 0..MaxFaults
        BY <1>5, FaultCounted DEF Crash
      <3>2. wk' \in [Workers -> Work]
        BY <1>5, IdleIsSound DEF Crash
      <3>3. QED
        BY <1>5, <3>1, <3>2 DEF Crash, TypeOK
    <2>3. \A w \in Workers : HandlerSound(wk[w])'
      BY <1>5, <2>1, IdleIsSound DEF Crash, HandlerSound
    <2>4. RowsAreSound'
      BY <1>5 DEF Crash, RowsAreSound, RowSound, MadeFor
    <2>5. CapBudget'
      BY <1>5, <2>1, IdleIsSound, CapBudgetKept DEF Crash, Workers
    <2>6. QED
      BY <1>5, <2>2, <2>3, <2>4, <2>5, InvariantPartsNext DEF Crash
  <1>6. QED
    BY <1>1, <1>2, <1>3, <1>4, <1>5

\* The invariant holds of freshly created dishes.
LEMMA InvariantInit == Init => IInv
  <1> SUFFICES ASSUME Init PROVE IInv
    OBVIOUS
  <1>1. Blank \in Rows
    BY DEF Blank, Rows, Files, ArStatus
  <1>2. TypeOK
    BY <1>1, IdleIsSound, FinitenessAssumption DEF Init, TypeOK, Jobs
  <1>3. RowsAreSound
    BY NamesAssumption DEF Init, RowsAreSound, RowSound, Blank, MadeFor
  <1>4. \A w \in Workers : HandlerSound(wk[w])
    BY IdleIsSound DEF Init
  <1>5. \A t \in Tasks : job[t].state = "none" => job[t].item = None
    BY DEF Init
  <1>6. CapBudget
    <2> SUFFICES ASSUME NEW c \in Callers
                 PROVE Cardinality(RecentJobs(c)) + Cardinality(Unlogged(c))
                         < DailyCap[c] + Cardinality(Reqs)
      BY DEF CapBudget
    <2>1. RecentJobs(c) = {}
      BY DEF Init, RecentJobs
    <2>2. Unlogged(c) = {}
      BY IdleIsSound DEF Init, Unlogged, Workers
    <2>3. Cardinality(Reqs) \in Nat /\ Cardinality(Reqs) # 0 /\ DailyCap[c] \in Nat
      BY FinitenessAssumption, FS_EmptySet, FS_CardinalityType, CallersAssumption
    <2>4. QED
      BY <2>1, <2>2, <2>3, FS_EmptySet
  <1>7. QED
    BY <1>2, <1>3, <1>4, <1>5, <1>6, InvariantParts

\* Every step preserves the invariant.
LEMMA InvariantStep == IInv /\ [Next]_vars => IInv'
  <1> SUFFICES ASSUME IInv, [Next]_vars PROVE IInv'
    OBVIOUS
  <1>1. CASE UNCHANGED vars
    BY <1>1 DEF vars, IInv, TypeOK, WorkIsSound, PendingIsBlank, GeneratingIsTracked,
       FilesBelongTogether, MadeFor, CapBudget, RecentJobs, Unlogged, Ended
  <1>2. ASSUME NEW r \in Reqs, NEW t \in Tasks, Webhook(r, t) PROVE IInv'
    BY <1>2, HandleTaskResultStep, InvariantParts DEF Webhook, Workers, TypeOK
  <1>3. CASE Next
    BY <1>2, <1>3, LoadStep, QuietCommits, RecordStep, SubmitStep, ResultStep,
       PollStep, RowStep, EnvironmentStep DEF Next, CommitNext, TripoNext
  <1>4. QED
    BY <1>1, <1>3

\* IInv is an invariant of the pipeline: however the requests, webhooks, polls
\* and crashes interleave.
THEOREM Invariance == Spec => []IInv
  BY InvariantInit, InvariantStep, PTL DEF Spec

-----------------------------------------------------------------------------
(* What follows for each property.                                         *)

\* Every column, job and handler keeps its type.
THEOREM TypeCorrect == Spec => []TypeOK
  <1>1. IInv => TypeOK
    BY DEF IInv
  <1>2. QED
    BY <1>1, Invariance, PTL

\* A dish that reject, addPhotos or the schema default left pending carries no
\* job, no file and no system note for the next submission to take over.
THEOREM PendingStaysBlank == Spec => []PendingIsBlank
  <1>1. IInv => PendingIsBlank
    BY DEF IInv
  <1>2. QED
    BY <1>1, Invariance, PTL

\* A generating dish always names a logged job, so pollPendingTasks can find
\* its result.
THEOREM GeneratingStaysTracked == Spec => []GeneratingIsTracked
  <1>1. IInv => GeneratingIsTracked
    BY DEF IInv
  <1>2. QED
    BY <1>1, Invariance, PTL

\* handleTaskResult never gives a dish another dish's model, nor a USDZ that
\* was not converted from the GLB stored with it.
THEOREM FilesStayTogether == Spec => []FilesBelongTogether
  <1>1. IInv => FilesBelongTogether
    BY DEF IInv
  <1>2. QED
    BY <1>1, Invariance, PTL

\* An account passes its daily cap by less than the number of requests the
\* backend serves at once, because assertUnderDailyCap counts before the
\* submission and the log row is written after it.
THEOREM CapOvershoot == Spec => []CapOvershootIsBounded
  <1>1. ASSUME IInv PROVE CapOvershootIsBounded
    <2> SUFFICES ASSUME NEW c \in Callers
                 PROVE Cardinality(RecentJobs(c)) < DailyCap[c] + Cardinality(Reqs)
      BY DEF CapOvershootIsBounded
    <2>1. Cardinality(RecentJobs(c)) + Cardinality(Unlogged(c))
            < DailyCap[c] + Cardinality(Reqs)
      BY <1>1 DEF IInv, CapBudget
    <2>2. DailyCap[c] \in Nat
      BY CallersAssumption
    <2>3. QED
      BY <1>1, <2>1, <2>2, CallersOfJobs DEF IInv
  <1>2. QED
    BY <1>1, Invariance, PTL

-----------------------------------------------------------------------------
(* Steps, as the diner and the holder of a preview link see them.          *)

\* How one step can change the row of dish i, as far as the diner and the
\* holder of a preview link can see it.
\* approve: the files stay, the code is issued, the link is gone.
Approved(i, row) == /\ row.arStatus = "live" /\ row.qrIssued
                    /\ row.previewLink = None
                    /\ row.modelGlbUrl = item[i].modelGlbUrl
                    /\ row.modelUsdzUrl = item[i].modelUsdzUrl
\* createPreviewLink, on a dish without a live link.
Linked(i, row) == /\ item[i].previewLink = None
                  /\ row.arStatus # "live"
                  /\ row.qrIssued = item[i].qrIssued
\* Every write that takes the dish off the page: the link is kept or cleared.
HiddenAgain(i, row) == /\ row.arStatus # "live"
                       /\ row.previewLink \in {None, item[i].previewLink}
                       /\ row.qrIssued = item[i].qrIssued
\* The link's time is over.
Unlinked(i, row) == row = [item[i] EXCEPT !.previewLink = None]
Deleted(row) == row = [Blank EXCEPT !.arStatus = "deleted"]

RowChange(i, row) == \/ row = item[i]
                     \/ Approved(i, row)
                     \/ Linked(i, row)
                     \/ HiddenAgain(i, row)
                     \/ Unlinked(i, row)
                     \/ Deleted(row)

OneRowChanges == \/ item' = item
                 \/ \E i \in Items, row \in Rows : /\ RowChange(i, row)
                                                 /\ item' = [item EXCEPT ![i] = row]

\* The final write of a request changes its dish in one of the six ways.
LEMMA RequestRowChange ==
    ASSUME IInv, NEW r \in Reqs, CommitNext(r)
    PROVE OneRowChanges
  <1> USE InvariantParts
  <1>1. r \in Workers /\ wk[r] \in Work
    BY DEF Workers, TypeOK
  <1>2. CASE Abort(r)
    BY <1>2 DEF Abort, OneRowChanges
  <1>3. ASSUME ~Abort(r) PROVE wk[r].item \in Items /\ Row(r) \in Rows
    BY <1>1, <1>3 DEF HandlerSound, SoundFor, TypeOK, CommitNext, TriggerCommit, RegenerateCommit,
       ManualCommit, ApproveCommit, RejectCommit, PreviewClaim, AddPhotosInvalidate, Writing, Row
  <1> DEFINE i == wk[r].item
  <1>4. ASSUME NEW row \in Rows, RowChange(i, row), Update(r, row), ~Abort(r)
        PROVE OneRowChanges
    BY <1>3, <1>4 DEF OneRowChanges, Update
  <1>5. ASSUME ~Abort(r), TriggerCommit(r) PROVE OneRowChanges
    <2> DEFINE row == [Generating(r) EXCEPT !.qaNote = None]
    <2>1. wk[r].task \in Tasks
      BY <1>1, <1>5 DEF TriggerCommit, RecordJob, Work
    <2>2. row \in Rows
      BY <1>3, <1>5, <2>1 DEF Generating, Rows, ArStatus
    <2>3. HiddenAgain(i, row)
      BY <1>3, <1>5 DEF HiddenAgain, Generating, Rows, Row
    <2>4. QED
      BY <1>4, <1>5, <2>2, <2>3 DEF TriggerCommit, RecordJob, RowChange
  <1>6. ASSUME ~Abort(r), RegenerateCommit(r) PROVE OneRowChanges
    <2> DEFINE row == [Generating(r) EXCEPT !.qaNote = "admin", !.previewLink = None]
    <2>1. wk[r].task \in Tasks
      BY <1>1, <1>6 DEF RegenerateCommit, RecordJob, Work
    <2>2. row \in Rows
      BY <1>3, <1>6, <2>1 DEF Generating, Rows, ArStatus
    <2>3. HiddenAgain(i, row)
      BY <1>3, <1>6 DEF HiddenAgain, Generating, Rows, Row
    <2>4. QED
      BY <1>4, <1>6, <2>2, <2>3 DEF RegenerateCommit, RecordJob, RowChange
  <1>7. ASSUME ~Abort(r), ManualCommit(r) PROVE OneRowChanges
    <2>1. PICK usdz \in {Manual, None} :
            Update(r, [Row(r) EXCEPT !.arStatus = "qa", !.modelGlbUrl = Manual,
                                     !.modelUsdzUrl = usdz, !.tripoTaskId = None,
                                     !.qaNote = IF usdz = None THEN "system" ELSE None])
      BY <1>7 DEF ManualCommit
    <2> DEFINE row == [Row(r) EXCEPT !.arStatus = "qa", !.modelGlbUrl = Manual,
                                     !.modelUsdzUrl = usdz, !.tripoTaskId = None,
                                     !.qaNote = IF usdz = None THEN "system" ELSE None]
    <2>2. row \in Rows
      BY <1>3, <1>7 DEF Rows, Files, ArStatus
    <2>3. HiddenAgain(i, row)
      BY <1>3, <1>7 DEF HiddenAgain, Rows, Row
    <2>4. QED
      BY <1>4, <1>7, <2>1, <2>2, <2>3 DEF RowChange
  <1>8. ASSUME ~Abort(r), ApproveCommit(r) PROVE OneRowChanges
    <2> DEFINE row == [Row(r) EXCEPT !.arStatus = "live", !.qaNote = None,
                                     !.qrIssued = TRUE, !.previewLink = None]
    <2>1. row \in Rows
      BY <1>3, <1>8 DEF Rows, ArStatus
    <2>2. Approved(i, row)
      BY <1>3, <1>8 DEF Approved, Rows, Row
    <2>3. QED
      BY <1>4, <1>8, <2>1, <2>2 DEF RowChange, ApproveCommit
  <1>9. ASSUME ~Abort(r), RejectCommit(r) PROVE OneRowChanges
    <2> DEFINE row == [WithoutModel(Row(r)) EXCEPT !.qaNote = "admin", !.previewLink = None]
    <2>1. row \in Rows
      BY <1>3, <1>9 DEF Rows, ArStatus, Files, WithoutModel
    <2>2. HiddenAgain(i, row)
      BY <1>3, <1>9 DEF HiddenAgain, Rows, Row, WithoutModel
    <2>3. QED
      BY <1>4, <1>9, <2>1, <2>2 DEF RowChange, RejectCommit
  <1>10. ASSUME ~Abort(r), AddPhotosInvalidate(r) PROVE OneRowChanges
    <2> DEFINE row == [WithoutModel(Row(r)) EXCEPT !.qaNote = None]
    <2>1. row \in Rows
      BY <1>3, <1>10 DEF Rows, ArStatus, Files, WithoutModel
    <2>2. HiddenAgain(i, row)
      BY <1>3, <1>10 DEF HiddenAgain, Rows, Row, WithoutModel
    <2>3. QED
      BY <1>4, <1>10, <2>1, <2>2 DEF RowChange, AddPhotosInvalidate
  <1>11. ASSUME ~Abort(r), PreviewClaim(r) PROVE OneRowChanges
    <2> DEFINE row == [Row(r) EXCEPT !.previewLink = r]
    <2>1. row \in Rows
      BY <1>3, <1>11 DEF Rows
    <2>2. Linked(i, row)
      BY <1>3, <1>11 DEF Linked, Rows, Row, PreviewClaim, LinkLive
    <2>3. QED
      BY <1>4, <1>11, <2>1, <2>2 DEF RowChange, PreviewClaim
  <1>12. QED
    BY <1>2, <1>5, <1>6, <1>7, <1>8, <1>9, <1>10, <1>11 DEF CommitNext

\* The final write of handleTaskResult takes the dish off the page.
LEMMA ResultRowChange ==
    ASSUME IInv, NEW w \in Workers, ResultCommit(w)
    PROVE OneRowChanges
  <1> USE InvariantParts
  <1> DEFINE i == wk[w].item
  <1>1. /\ i \in Items /\ wk[w].task \in Tasks /\ Row(w) \in Rows
    BY DEF HandlerSound, SoundFor, ResultCommit, Writing, TypeOK, Row
  <1>2. ASSUME NEW row \in Rows, HiddenAgain(i, row), Update(w, row) PROVE OneRowChanges
    BY <1>1, <1>2 DEF OneRowChanges, Update, RowChange
  <1>3. FlagForQa(w) \in Rows /\ HiddenAgain(i, FlagForQa(w))
    BY <1>1 DEF FlagForQa, Rows, ArStatus, HiddenAgain, Row
  <1>4. ASSUME NEW usdz \in {wk[w].task, None}, NEW poster \in {wk[w].task, None}
        PROVE /\ Finished(w, usdz, poster) \in Rows
              /\ HiddenAgain(i, Finished(w, usdz, poster))
    BY <1>1, <1>4 DEF Finished, Rows, ArStatus, Files, HiddenAgain, Row
  <1>5. QED
    BY <1>2, <1>3, <1>4 DEF ResultCommit

\* Every step of the pipeline changes at most one row, in one of these ways.
LEMMA StepRowChange == ASSUME IInv, [Next]_vars PROVE OneRowChanges
  <1> USE InvariantParts
  <1>1. ASSUME NEW i \in Items, LinkExpires(i) PROVE OneRowChanges
    <2>1. [item[i] EXCEPT !.previewLink = None] \in Rows
      BY DEF TypeOK, Rows
    <2>2. QED
      BY <1>1, <2>1 DEF LinkExpires, OneRowChanges, RowChange, Unlinked
  <1>2. ASSUME NEW i \in Items, Remove(i) PROVE OneRowChanges
    <2>1. [Blank EXCEPT !.arStatus = "deleted"] \in Rows
      BY DEF Blank, Rows, Files
    <2>2. QED
      BY <1>2, <2>1 DEF Remove, OneRowChanges, RowChange, Deleted
  <1>3. ASSUME NEW r \in Reqs, NEW i \in Items, OwnerNext(r, i) \/ AdminNext(r, i)
        PROVE item' = item
    BY <1>3 DEF OwnerNext, AdminNext, TriggerGeneration, RegenerateAsAdmin, LoadForSubmission,
       ManualLoad, ApproveLoad, RejectLoad, PreviewLoad, AddPhotosInsert
  <1>4. ASSUME NEW r \in Reqs, NEW t \in Tasks, TripoNext(r, t) PROVE item' = item
    BY <1>4 DEF TripoNext, SubmitJob, SubmitReplyLost, Webhook
  <1>5. PollNext => item' = item
    BY DEF PollNext, PollPendingTasks, PollCaught, PollResult, PollNothing, PollSkip
  <1>6. /\ \A t \in Tasks : TripoFinishes(t) \/ DayPasses(t) => item' = item
        /\ \A i \in Items, p \in Photos : RemovePhoto(i, p) => item' = item
        /\ Crash => item' = item
    BY DEF TripoFinishes, DayPasses, RemovePhoto, Crash
  <1>7. CASE Next
    BY <1>1, <1>2, <1>3, <1>4, <1>5, <1>6, <1>7, RequestRowChange, ResultRowChange
       DEF Next, OneRowChanges
  <1>8. QED
    BY <1>7 DEF vars, OneRowChanges

LinkKept == \A i \in Items : LinkLive(i) /\ LinkLive(i)' =>
                               item'[i].previewLink = item[i].previewLink

\* createPreviewLink never replaces a live link by another one, however two
\* admins interleave: its updateMany tests again what it read.
THEOREM LinkIsKept == Spec => OneLiveLink
  <1>1. ASSUME IInv, [Next]_vars PROVE [LinkKept]_vars
    <2>1. TypeOK /\ OneRowChanges
      BY <1>1, StepRowChange DEF IInv
    <2>2. ASSUME NEW i \in Items, NEW row \in Rows, RowChange(i, row),
                 item' = [item EXCEPT ![i] = row]
          PROVE LinkKept
      <3>1. \A j \in Items : item'[j] = IF j = i THEN row ELSE item[j]
        BY <2>1, <2>2 DEF TypeOK
      <3>2. \/ row.previewLink \in {None, item[i].previewLink}
            \/ item[i].previewLink = None
        BY <2>1, <2>2 DEF RowChange, Approved, Linked, HiddenAgain, Unlinked, Deleted,
           Blank, TypeOK, Rows
      <3>3. QED
        BY <3>1, <3>2 DEF LinkKept, LinkLive
    <2>3. item' = item => LinkKept
      BY DEF LinkKept, LinkLive
    <2>4. QED
      BY <2>1, <2>2, <2>3 DEF OneRowChanges
  <1>2. Spec => [][LinkKept]_vars
    BY <1>1, Invariance, PTL DEF Spec
  <1>3. QED
    BY <1>2 DEF OneLiveLink, LinkKept

\* The model the public page shows of a dish with this row.
Shown(row) == IF /\ row.arStatus = "live"
                 /\ row.modelGlbUrl # None
                 /\ row.modelUsdzUrl # None
              THEN row.modelGlbUrl ELSE None

PageOf == [i \in Items |-> Shown(item[i])]
QrOf == [i \in Items |-> item[i].qrIssued]

\* Each way a row can change is a step of the page's promise: nothing, a
\* model published where none was shown, a QR code issued, a model withdrawn,
\* or the dish removed.
LEMMA PageStep ==
    ASSUME TypeOK, NEW i \in Items, NEW row \in Rows, RowChange(i, row),
           item' = [item EXCEPT ![i] = row]
    PROVE \/ PageOf' = PageOf /\ QrOf' = QrOf
          \/ /\ PageOf[i] = None
             /\ \E m \in Files \ {None} : PageOf' = [PageOf EXCEPT ![i] = m]
             /\ QrOf' = [QrOf EXCEPT ![i] = TRUE]
          \/ QrOf' = [QrOf EXCEPT ![i] = TRUE] /\ PageOf' = PageOf
          \/ PageOf' = [PageOf EXCEPT ![i] = None] /\ QrOf' = QrOf
          \/ PageOf' = [PageOf EXCEPT ![i] = None] /\ QrOf' = [QrOf EXCEPT ![i] = FALSE]
  <1>1. PageOf' = [PageOf EXCEPT ![i] = Shown(row)] /\ QrOf' = [QrOf EXCEPT ![i] = row.qrIssued]
    BY DEF PageOf, QrOf, TypeOK
  <1>2. PageOf[i] = Shown(item[i]) /\ QrOf[i] = item[i].qrIssued /\ item[i] \in Rows
    BY DEF PageOf, QrOf, TypeOK
  <1>3. [PageOf EXCEPT ![i] = PageOf[i]] = PageOf /\ [QrOf EXCEPT ![i] = QrOf[i]] = QrOf
    BY DEF PageOf, QrOf
  <1>4. CASE row = item[i]
    BY <1>1, <1>2, <1>3, <1>4
  <1>5. CASE Approved(i, row)
    <2>1. row.qrIssued = TRUE
      BY <1>5 DEF Approved, Rows
    <2>2. CASE Shown(row) = None
      <3>1. Shown(item[i]) = None
        BY <1>5, <2>2, NamesAssumption DEF Approved, Shown
      <3>2. QED
        BY <1>1, <1>2, <1>3, <2>1, <2>2, <3>1
    <2>3. CASE Shown(row) # None
      <3>1. Shown(row) \in Files \ {None}
        BY <2>3 DEF Shown, Rows
      <3>2. Shown(item[i]) \in {None, Shown(row)}
        BY <1>5, <2>3 DEF Approved, Shown
      <3>3. QED
        BY <1>1, <1>2, <1>3, <2>1, <3>1, <3>2
    <2>4. QED
      BY <2>2, <2>3
  <1>6. CASE Linked(i, row) \/ HiddenAgain(i, row)
    <2>1. Shown(row) = None /\ row.qrIssued = item[i].qrIssued
      BY <1>6 DEF Linked, HiddenAgain, Shown
    <2>2. QED
      BY <1>1, <1>2, <1>3, <2>1
  <1>7. CASE Unlinked(i, row)
    <2>1. Shown(row) = Shown(item[i]) /\ row.qrIssued = item[i].qrIssued
      BY <1>2, <1>7 DEF Unlinked, Shown, Rows
    <2>2. QED
      BY <1>1, <1>2, <1>3, <2>1
  <1>8. CASE Deleted(row)
    <2>1. Shown(row) = None /\ row.qrIssued = FALSE
      BY <1>8 DEF Deleted, Shown, Blank
    <2>2. QED
      BY <1>1, <2>1
  <1>9. QED
    BY <1>4, <1>5, <1>6, <1>7, <1>8 DEF RowChange

\* The pipeline implements DishPage: the public AR page never swaps one model
\* for another under a diner, and a shown dish has its QR code.
THEOREM PageImplements == Spec => DishPagePromise
  <1>1. /\ PageOf = [i \in Items |-> IF ArReady(i) THEN item[i].modelGlbUrl ELSE None]
        /\ QrOf = [i \in Items |-> item[i].qrIssued]
        /\ PageOf' = [i \in Items |-> IF ArReady(i) THEN item[i].modelGlbUrl ELSE None]'
        /\ QrOf' = [i \in Items |-> item[i].qrIssued]'
    BY DEF PageOf, QrOf, Shown, ArReady
  <1>2. Init => Page!Init
    BY <1>1 DEF Init, Page!Init, PageOf, QrOf, Shown, Blank
  <1>3. ASSUME IInv, [Next]_vars PROVE [Page!Next]_(Page!vars)
    <2>1. OneRowChanges /\ TypeOK
      BY <1>3, StepRowChange DEF IInv
    <2>2. CASE item' = item
      BY <2>2 DEF Page!vars, ArReady
    <2>3. ASSUME NEW i \in Items, NEW row \in Rows, RowChange(i, row),
                 item' = [item EXCEPT ![i] = row]
          PROVE [Page!Next]_(Page!vars)
      <3>1. CASE PageOf' = PageOf /\ QrOf' = QrOf
        BY <1>1, <3>1 DEF Page!vars
      <3>2. CASE /\ PageOf[i] = None
                 /\ \E m \in Files \ {None} : PageOf' = [PageOf EXCEPT ![i] = m]
                 /\ QrOf' = [QrOf EXCEPT ![i] = TRUE]
        BY <1>1, <3>2 DEF Page!Next, Page!Publish
      <3>3. CASE QrOf' = [QrOf EXCEPT ![i] = TRUE] /\ PageOf' = PageOf
        BY <1>1, <3>3 DEF Page!Next, Page!IssueQr
      <3>4. CASE PageOf' = [PageOf EXCEPT ![i] = None] /\ QrOf' = QrOf
        BY <1>1, <3>4 DEF Page!Next, Page!Withdraw
      <3>5. CASE PageOf' = [PageOf EXCEPT ![i] = None] /\ QrOf' = [QrOf EXCEPT ![i] = FALSE]
        BY <1>1, <3>5 DEF Page!Next, Page!Remove
      <3>6. QED
        BY <2>1, <2>3, <3>1, <3>2, <3>3, <3>4, <3>5, PageStep
    <2>4. QED
      BY <2>1, <2>2, <2>3 DEF OneRowChanges
  <1>4. QED
    BY <1>2, <1>3, Invariance, PTL DEF Spec, DishPagePromise, Page!Spec
=============================================================================
