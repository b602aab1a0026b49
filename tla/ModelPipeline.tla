---------------------------- MODULE ModelPipeline ----------------------------
(***************************************************************************)
(* The life of a dish's 3D model: generation by Tripo, manual upload, QA,  *)
(* publication and photo changes, as the NestJS backend runs them.         *)
(*                                                                         *)
(* Every request handler is an async function over a shared database, so   *)
(* each is split at its awaits: a "Load" step reads the row and applies    *)
(* the early returns, a "Commit" step is the final write, which the code   *)
(* issues with "where: { id }" only and so does not test again what the    *)
(* Load step saw.  A request is one of the slots Reqs; the 15-second poll  *)
(* is the slot Cron.  The columns of a menu_items row keep their names;    *)
(* a stored file is named by the Tripo task it came from, or Manual.       *)
(***************************************************************************)
EXTENDS Integers, FiniteSets

CONSTANTS Items,      \* menu items
          Photos,     \* uploaded photo batches
          Tasks,      \* Tripo task ids, fresh at each accepted submission
          Reqs,       \* concurrent HTTP request slots
          Cron,       \* the poll fallback
          Callers,    \* accounts that can start a paid job
          Admins,     \* those of them that are root admins
          OwnerOf,    \* the owner account of each item
          DailyCap,   \* jobs an account may submit per rolling 24 hours
          Manual,     \* names a hand-uploaded model file
          None,       \* SQL NULL
          MaxFaults   \* bound: crashes, lost replies and failed polls

ASSUME CallersAssumption == /\ Admins \subseteq Callers
                            /\ OwnerOf \in [Items -> Callers \ Admins]
                            /\ DailyCap \in [Callers -> Nat]
ASSUME FinitenessAssumption == /\ IsFiniteSet(Reqs) /\ Reqs # {}
                               /\ IsFiniteSet(Tasks)
                               /\ MaxFaults \in Nat
ASSUME NamesAssumption == /\ Cron \notin Reqs
                          /\ None \notin Items \cup Reqs \cup Tasks \cup Callers \cup {Manual}
                          /\ None \notin {"admin", "system"}
                          /\ Manual \notin Tasks

VARIABLES item,       \* the menu_items rows
          photos,     \* the menu_item_photos rows of each item
          job,        \* Tripo's side of every task
          by,         \* model_generations: the account a task is logged to
          recent,     \* the logged tasks that are younger than 24 hours
          wk,         \* what each request slot and the cron is doing
          pollQueue,  \* tasks of the running poll not yet looked at
          faults

vars == <<item, photos, job, by, recent, wk, pollQueue, faults>>

Workers == Reqs \cup {Cron}
Files == Tasks \cup {Manual, None}
ArStatus == {"pending", "generating", "qa", "live"}

\* A deleted row keeps its place with the status "deleted".  previewLink is
\* the nonce of a live link, the request that made it; every reader takes an
\* expired link for none.
Rows == [arStatus : ArStatus \cup {"deleted"},
         tripoTaskId : Tasks \cup {None},
         modelGlbUrl : Files, modelUsdzUrl : Files, previewImageUrl : Files,
         qaNote : {None, "admin", "system"},
         qrIssued : BOOLEAN,
         previewLink : Reqs \cup {None}]

Jobs == [state : {"none", "running", "success", "empty", "failed"},
         item : Items \cup {None},
         input : SUBSET Photos]

Steps == {"idle", "trigger", "regenerate", "manual", "approve", "reject",
          "addPhotos", "preview", "result"}

\* input: the photo set a submission will send; task: the job a request has
\* submitted or is handling the result of.
Work == [pc : Steps, item : Items \cup {None}, task : Tasks \cup {None},
         by : Callers \cup {None}, input : SUBSET Photos]

At(pc, i, t, caller, input) ==
    [pc |-> pc, item |-> i, task |-> t, by |-> caller, input |-> input]

Idle == At("idle", None, None, None, {})

Blank == [arStatus |-> "pending", tripoTaskId |-> None,
          modelGlbUrl |-> None, modelUsdzUrl |-> None, previewImageUrl |-> None,
          qaNote |-> None, qrIssued |-> FALSE, previewLink |-> None]

TypeOK == /\ item \in [Items -> Rows]
          /\ photos \in [Items -> SUBSET Photos]
          /\ job \in [Tasks -> Jobs]
          /\ by \in [Tasks -> Callers \cup {None}]
          /\ recent \in SUBSET Tasks
          /\ wk \in [Workers -> Work]
          /\ pollQueue \in SUBSET Tasks
          /\ faults \in 0..MaxFaults

Init == /\ item = [i \in Items |-> Blank]
        /\ photos = [i \in Items |-> {}]
        /\ job = [t \in Tasks |-> [state |-> "none", item |-> None, input |-> {}]]
        /\ by = [t \in Tasks |-> None]
        /\ recent = {}
        /\ wk = [w \in Workers |-> Idle]
        /\ pollQueue = {}
        /\ faults = 0

-----------------------------------------------------------------------------
(* How a request slot moves.                                               *)

Exists(i) == item[i].arStatus # "deleted"

\* A request that has passed its reads on item i, about to do more at step pc.
Begin(w, pc, i) == /\ wk[w] = Idle
                   /\ wk' = [wk EXCEPT ![w] = At(pc, i, None, None, {})]

\* The final write of the request in slot w: Prisma's update throws on a
\* deleted row, so it happens only while the row exists.
Writing(w, pc) == wk[w].pc = pc /\ Exists(wk[w].item)

Update(w, row) == /\ item' = [item EXCEPT ![wk[w].item] = row]
                  /\ wk' = [wk EXCEPT ![w] = Idle]

Row(w) == item[wk[w].item]

\* A request may throw at any await: validation, storage, Tripo or database.
Abort(r) == /\ r \in Reqs /\ wk[r] # Idle
            /\ wk' = [wk EXCEPT ![r] = Idle]
            /\ UNCHANGED <<item, photos, job, by, recent, pollQueue, faults>>

-----------------------------------------------------------------------------
(* Starting a paid job.                                                    *)

LoadForSubmission(r, i, pc, caller) ==
    /\ wk[r] = Idle
    /\ photos[i] # {}
    /\ wk' = [wk EXCEPT ![r] = At(pc, i, None, caller, photos[i])]
    /\ UNCHANGED <<item, photos, job, by, recent, pollQueue, faults>>

TriggerGeneration(r, i) == /\ item[i].arStatus = "pending"
                           /\ LoadForSubmission(r, i, "trigger", OwnerOf[i])

RegenerateAsAdmin(r, i, a) == /\ item[i].arStatus \in {"qa", "live"}
                              /\ LoadForSubmission(r, i, "regenerate", a)

RecentJobs(c) == {t \in recent : by[t] = c}

\* Mutant: the cap is compared with <=.
AssertUnderDailyCapOffByOne(c) == Cardinality(RecentJobs(c)) <= DailyCap[c]

AssertUnderDailyCap(c) == Cardinality(RecentJobs(c)) < DailyCap[c]

Submitting(r) == /\ wk[r].pc \in {"trigger", "regenerate"}
                 /\ wk[r].task = None
                 /\ AssertUnderDailyCap(wk[r].by)

Accept(t, i, input) ==
    /\ job[t].state = "none"
    /\ job' = [job EXCEPT ![t] = [state |-> "running", item |-> i, input |-> input]]

\* The cap is counted, then Tripo accepts the job and the reply names it.
SubmitJob(r, t) == /\ Submitting(r)
                   /\ Accept(t, wk[r].item, wk[r].input)
                   /\ wk' = [wk EXCEPT ![r].task = t]
                   /\ UNCHANGED <<item, photos, by, recent, pollQueue, faults>>

\* Tripo accepts the job and the reply is lost: a POST is not retried after
\* the connection was made, so the request fails and nobody knows the task.
SubmitReplyLost(r, t) == /\ Submitting(r)
                         /\ Accept(t, wk[r].item, wk[r].input)
                         /\ faults < MaxFaults
                         /\ faults' = faults + 1
                         /\ wk' = [wk EXCEPT ![r] = Idle]
                         /\ UNCHANGED <<item, photos, by, recent, pollQueue>>

\* Mutant: the row is updated and the model_generations row forgotten.
RecordJobUnlogged(r, row) == /\ wk[r].task # None
                             /\ Exists(wk[r].item)
                             /\ Update(r, row)
                             /\ UNCHANGED <<photos, job, by, recent, pollQueue, faults>>

\* The $transaction of both callers: the row names the new job, the log
\* gets its model_generations row.
RecordJob(r, row) == /\ wk[r].task # None
                     /\ Exists(wk[r].item)
                     /\ Update(r, row)
                     /\ by' = [by EXCEPT ![wk[r].task] = wk[r].by]
                     /\ recent' = recent \cup {wk[r].task}
                     /\ UNCHANGED <<photos, job, pollQueue, faults>>

Generating(r) == [Row(r) EXCEPT !.arStatus = "generating",
                                !.tripoTaskId = wk[r].task]

TriggerCommit(r) ==
    /\ wk[r].pc = "trigger"
    /\ RecordJob(r, [Generating(r) EXCEPT !.qaNote = None])

RegenerateCommit(r) ==
    /\ wk[r].pc = "regenerate"
    /\ RecordJob(r, [Generating(r) EXCEPT !.qaNote = "admin", !.previewLink = None])

-----------------------------------------------------------------------------
(* A task's result, from the webhook or from the poll.                     *)

Ended(t) == job[t].state \in {"success", "empty", "failed"}

\* findFirst({ where: { tripoTaskId } }); no row means return.
HandleTaskResult(w, t) ==
    /\ Ended(t)
    /\ wk[w] = Idle
    /\ \E i \in Items :
         /\ item[i].tripoTaskId = t
         /\ wk' = [wk EXCEPT ![w] = At("result", i, t, None, {})]

\* Tripo calls back any number of times once a job has ended, or never.
Webhook(r, t) == /\ HandleTaskResult(r, t)
                 /\ UNCHANGED <<item, photos, job, by, recent, pollQueue, faults>>

\* Failed on Tripo's side, no model URL, or real-world scaling failed: only
\* the status and the note are written.
FlagForQa(w) == [Row(w) EXCEPT !.arStatus = "qa", !.qaNote = "system"]

\* Mutant: a failed conversion leaves the USDZ of the earlier model in place.
FinishedKeepingUsdz(w, usdz, poster) ==
    [Row(w) EXCEPT !.arStatus = "qa",
                   !.modelGlbUrl = wk[w].task,
                   !.modelUsdzUrl = IF usdz = None THEN @ ELSE usdz,
                   !.previewImageUrl = poster,
                   !.qaNote = IF usdz = None THEN "system" ELSE None]

\* Mutant: a dish that is live stays live through a new result.
FinishedStayingLive(w, usdz, poster) ==
    [Row(w) EXCEPT !.arStatus = IF @ = "live" THEN "live" ELSE "qa",
                   !.modelGlbUrl = wk[w].task,
                   !.modelUsdzUrl = usdz,
                   !.previewImageUrl = poster,
                   !.qaNote = IF usdz = None THEN "system" ELSE None]

Finished(w, usdz, poster) ==
    [Row(w) EXCEPT !.arStatus = "qa",
                   !.modelGlbUrl = wk[w].task,
                   !.modelUsdzUrl = usdz,
                   !.previewImageUrl = poster,
                   !.qaNote = IF usdz = None THEN "system" ELSE None]

ResultCommit(w) ==
    /\ Writing(w, "result")
    /\ \/ Update(w, FlagForQa(w))
       \/ /\ job[wk[w].task].state = "success"
          /\ \E usdz, poster \in {wk[w].task, None} :
               Update(w, Finished(w, usdz, poster))
    /\ UNCHANGED <<photos, job, by, recent, pollQueue, faults>>

-----------------------------------------------------------------------------
(* The poll fallback.  The 30-second age test is not modelled: a row it    *)
(* leaves out is one whose status query fails (PollSkip).                  *)

\* Mutant: the poll looks for dishes in QA.
InFlightInQa == {item[i].tripoTaskId : i \in {j \in Items : item[j].arStatus = "qa"}}
                    \ {None}

InFlight == {item[i].tripoTaskId : i \in {j \in Items : item[j].arStatus = "generating"}}
                \ {None}

PollRunning == pollQueue # {} \/ wk[Cron] # Idle

PollPendingTasks == /\ ~PollRunning
                    /\ InFlight # {}
                    /\ pollQueue' = InFlight
                    /\ UNCHANGED <<item, photos, job, by, recent, wk, faults>>

Dequeue(t) == /\ t \in pollQueue
              /\ wk[Cron] = Idle
              /\ pollQueue' = pollQueue \ {t}

PollResult(t) == /\ Dequeue(t)
                 /\ HandleTaskResult(Cron, t)
                 /\ UNCHANGED <<item, photos, job, by, recent, faults>>

\* The job still runs, or no row names it any more.
PollNothing(t) == /\ Dequeue(t)
                  /\ ~Ended(t) \/ \A i \in Items : item[i].tripoTaskId # t
                  /\ UNCHANGED <<item, photos, job, by, recent, wk, faults>>

\* getTaskStatus throws; the error is caught and the loop goes on.
PollSkip(t) == /\ Dequeue(t)
               /\ faults < MaxFaults /\ faults' = faults + 1
               /\ UNCHANGED <<item, photos, job, by, recent, wk>>

\* The handler throws inside the poll loop: always when the row is gone,
\* else as a fault (download, storage, database).
PollCaught == /\ wk[Cron] # Idle
              /\ IF Exists(wk[Cron].item)
                 THEN faults < MaxFaults /\ faults' = faults + 1
                 ELSE UNCHANGED faults
              /\ wk' = [wk EXCEPT ![Cron] = Idle]
              /\ UNCHANGED <<item, photos, job, by, recent, pollQueue>>

-----------------------------------------------------------------------------
(* Hand-made models and the QA decisions.                                  *)

Same == UNCHANGED <<photos, job, by, recent, pollQueue, faults>>

ManualLoad(r, i) == /\ item[i].arStatus = "pending"
                    /\ Begin(r, "manual", i)
                    /\ Same /\ UNCHANGED item

ManualCommit(r) ==
    /\ Writing(r, "manual")
    /\ \E usdz \in {Manual, None} :
         Update(r, [Row(r) EXCEPT !.arStatus = "qa",
                                  !.modelGlbUrl = Manual,
                                  !.modelUsdzUrl = usdz,
                                  !.tripoTaskId = None,
                                  !.qaNote = IF usdz = None THEN "system" ELSE None])
    /\ Same

ApproveLoad(r, i) == /\ item[i].arStatus = "qa"
                     /\ item[i].modelGlbUrl # None
                     /\ item[i].modelUsdzUrl # None
                     /\ Begin(r, "approve", i)
                     /\ Same /\ UNCHANGED item

ApproveCommit(r) ==
    /\ Writing(r, "approve")
    /\ Update(r, [Row(r) EXCEPT !.arStatus = "live", !.qaNote = None,
                                !.qrIssued = TRUE, !.previewLink = None])
    /\ Same

RejectLoad(r, i) == /\ item[i].arStatus = "qa"
                    /\ Begin(r, "reject", i)
                    /\ Same /\ UNCHANGED item

\* Mutant: the task id survives the reset.
WithoutModelKeepingTask(row) ==
    [row EXCEPT !.arStatus = "pending", !.modelGlbUrl = None,
                !.modelUsdzUrl = None, !.previewImageUrl = None]

WithoutModel(row) == [row EXCEPT !.arStatus = "pending", !.tripoTaskId = None,
                                 !.modelGlbUrl = None, !.modelUsdzUrl = None,
                                 !.previewImageUrl = None]

RejectCommit(r) ==
    /\ Writing(r, "reject")
    /\ Update(r, [WithoutModel(Row(r)) EXCEPT !.qaNote = "admin", !.previewLink = None])
    /\ Same

-----------------------------------------------------------------------------
(* Preview links.                                                          *)

LinkLive(i) == item[i].previewLink # None

PreviewLoad(r, i) == /\ item[i].arStatus = "qa"
                     /\ Begin(r, "preview", i)
                     /\ Same /\ UNCHANGED item

\* Mutant: the claim does not test again that no link is live.
PreviewClaimUnguarded(r) ==
    /\ Writing(r, "preview")
    /\ Row(r).arStatus = "qa"
    /\ Update(r, [Row(r) EXCEPT !.previewLink = r])
    /\ Same

\* updateMany whose where-clause repeats the status and the "none live" test.
PreviewClaim(r) ==
    /\ Writing(r, "preview")
    /\ Row(r).arStatus = "qa"
    /\ ~LinkLive(wk[r].item)
    /\ Update(r, [Row(r) EXCEPT !.previewLink = r])
    /\ Same

LinkExpires(i) == /\ LinkLive(i)
                  /\ item' = [item EXCEPT ![i].previewLink = None]
                  /\ Same /\ UNCHANGED wk

-----------------------------------------------------------------------------
(* The owner's photos, and deletion of the dish.                           *)

FreshPhoto(p) == /\ \A i \in Items : p \notin photos[i]
                 /\ \A t \in Tasks : p \notin job[t].input
                 /\ \A w \in Workers : p \notin wk[w].input

\* createMany of the photo rows; the menu item itself is updated afterwards,
\* in a statement of its own.
AddPhotosInsert(r, i, p) == /\ Exists(i)
                            /\ FreshPhoto(p)
                            /\ Begin(r, "addPhotos", i)
                            /\ photos' = [photos EXCEPT ![i] = @ \cup {p}]
                            /\ UNCHANGED <<item, job, by, recent, pollQueue, faults>>

\* MODEL_INVALIDATION_FIELDS: neither qaIssues nor the preview link is in it.
AddPhotosInvalidate(r) ==
    /\ Writing(r, "addPhotos")
    /\ Update(r, [WithoutModel(Row(r)) EXCEPT !.qaNote = None])
    /\ Same

RemovePhoto(i, p) == /\ p \in photos[i]
                     /\ photos' = [photos EXCEPT ![i] = @ \ {p}]
                     /\ UNCHANGED <<item, job, by, recent, wk, pollQueue, faults>>

\* The row and its photos go; model_generations rows stay (SetNull).
Remove(i) == /\ Exists(i)
             /\ item' = [item EXCEPT ![i] = [Blank EXCEPT !.arStatus = "deleted"]]
             /\ photos' = [photos EXCEPT ![i] = {}]
             /\ UNCHANGED <<job, by, recent, wk, pollQueue, faults>>

-----------------------------------------------------------------------------
(* The environment.                                                        *)

TripoFinishes(t) ==
    /\ job[t].state = "running"
    /\ \E s \in {"success", "empty", "failed"} : job' = [job EXCEPT ![t].state = s]
    /\ UNCHANGED <<item, photos, by, recent, wk, pollQueue, faults>>

DayPasses(t) == /\ t \in recent
                /\ recent' = recent \ {t}
                /\ UNCHANGED <<item, photos, job, by, wk, pollQueue, faults>>

\* The process dies: requests, the poll loop and its "running" flag go.
Crash == /\ faults < MaxFaults /\ faults' = faults + 1
         /\ wk' = [w \in Workers |-> Idle]
         /\ pollQueue' = {}
         /\ UNCHANGED <<item, photos, job, by, recent>>

-----------------------------------------------------------------------------
OwnerNext(r, i) == \/ TriggerGeneration(r, i)
                   \/ ManualLoad(r, i)
                   \/ \E p \in Photos : AddPhotosInsert(r, i, p)

AdminNext(r, i) == \/ \E a \in Admins : RegenerateAsAdmin(r, i, a)
                   \/ ApproveLoad(r, i)
                   \/ RejectLoad(r, i)
                   \/ PreviewLoad(r, i)

CommitNext(r) == \/ TriggerCommit(r)
                 \/ RegenerateCommit(r)
                 \/ ManualCommit(r)
                 \/ ApproveCommit(r)
                 \/ RejectCommit(r)
                 \/ PreviewClaim(r)
                 \/ AddPhotosInvalidate(r)
                 \/ Abort(r)

TripoNext(r, t) == SubmitJob(r, t) \/ SubmitReplyLost(r, t) \/ Webhook(r, t)

PollNext == \/ PollPendingTasks
            \/ PollCaught
            \/ \E t \in Tasks : PollResult(t) \/ PollNothing(t) \/ PollSkip(t)

Next == \/ \E r \in Reqs, i \in Items : OwnerNext(r, i) \/ AdminNext(r, i)
        \/ \E r \in Reqs : CommitNext(r)
        \/ \E r \in Reqs, t \in Tasks : TripoNext(r, t)
        \/ \E w \in Workers : ResultCommit(w)
        \/ PollNext
        \/ \E i \in Items : LinkExpires(i) \/ Remove(i)
        \/ \E i \in Items, p \in Photos : RemovePhoto(i, p)
        \/ \E t \in Tasks : TripoFinishes(t) \/ DayPasses(t)
        \/ Crash

Spec == Init /\ [][Next]_vars

\* The scheduler keeps firing the poll, the poll loop keeps going, and Tripo
\* ends every job.  Nothing is assumed of requests, nor of the webhook.
Fairness == /\ \A t \in Tasks : WF_vars(TripoFinishes(t))
            /\ WF_vars(PollPendingTasks)
            /\ WF_vars(\E t \in Tasks : PollResult(t) \/ PollNothing(t))
            /\ WF_vars(ResultCommit(Cron))
            /\ WF_vars(PollCaught /\ ~Exists(wk[Cron].item))

FairSpec == Spec /\ Fairness

-----------------------------------------------------------------------------
(* Safety.                                                                 *)

\* A pending dish carries nothing of an earlier attempt: no job, no file, no
\* system message that the next submission could take for an admin's
\* guidance (triggerGeneration steers the job by qaNote).  True whatever
\* overlapping handler writes last.
PendingIsBlank ==
    \A i \in Items : item[i].arStatus = "pending" =>
        /\ item[i].tripoTaskId = None
        /\ item[i].modelGlbUrl = None
        /\ item[i].modelUsdzUrl = None
        /\ item[i].previewImageUrl = None
        /\ item[i].qaNote # "system"

\* The poll finds every dish that is generating: the row names a job that
\* was submitted for this very dish and is in the paid-jobs log.
GeneratingIsTracked ==
    \A i \in Items : item[i].arStatus = "generating" =>
        /\ item[i].tripoTaskId # None
        /\ by[item[i].tripoTaskId] # None

\* A file of dish i: made by hand, or by a successful job submitted for i.
MadeFor(i, f) == f \in Tasks => /\ job[f].item = i
                                /\ job[f].state = "success"

\* Results are never mixed up: the job a row names, and its three files, are
\* the dish's own, and the USDZ (iOS) was converted from the GLB (Android)
\* that is stored with it, whichever of two handlers of the same or of
\* different jobs wrote last.
FilesBelongTogether ==
    \A i \in Items :
        /\ item[i].tripoTaskId # None => job[item[i].tripoTaskId].item = i
        /\ MadeFor(i, item[i].modelGlbUrl)
        /\ MadeFor(i, item[i].previewImageUrl)
        /\ item[i].modelUsdzUrl \in {None, item[i].modelGlbUrl}

\* What the handlers between their awaits rely on: the dish is known; a task
\* they hold was accepted for it; a submission knows its account; a result
\* is handled after the job ended.  Tasks not yet accepted belong to no dish.
WorkIsSound ==
    /\ \A w \in Workers :
         /\ wk[w].pc = "idle" => wk[w].task = None
         /\ wk[w].pc # "idle" => wk[w].item \in Items
         /\ wk[w].pc \in {"trigger", "regenerate"} => wk[w].by \in Callers
         /\ wk[w].pc = "result" => wk[w].task \in Tasks /\ Ended(wk[w].task)
         /\ wk[w].task \in Tasks => job[wk[w].task].item = wk[w].item
    /\ \A t \in Tasks : job[t].state = "none" => job[t].item = None

\* The daily cap is counted before the submission and logged after it, so it
\* can be overshot, but by no more than the requests in flight together.
CapOvershootIsBounded ==
    \A c \in Callers :
        Cardinality(RecentJobs(c)) < DailyCap[c] + Cardinality(Reqs)

\* The requests that have passed the cap with a job not yet in the log.
Unlogged(c) == {r \in Reqs : /\ wk[r].pc \in {"trigger", "regenerate"}
                             /\ wk[r].task # None
                             /\ wk[r].by = c}

CapBudget ==
    \A c \in Callers : Cardinality(RecentJobs(c)) + Cardinality(Unlogged(c))
                         < DailyCap[c] + Cardinality(Reqs)

\* The inductive invariant of the proofs.
IInv == /\ TypeOK
        /\ WorkIsSound
        /\ PendingIsBlank
        /\ GeneratingIsTracked
        /\ FilesBelongTogether
        /\ CapBudget

\* A live preview link is never replaced by another one: a second admin's
\* create finds the first one's link, however the two interleave.
OneLiveLink ==
    [][\A i \in Items : LinkLive(i) /\ LinkLive(i)' =>
                           item'[i].previewLink = item[i].previewLink]_vars

\* renderItemPage: the diner gets the model only when live with both files.
ArReady(i) == /\ item[i].arStatus = "live"
              /\ item[i].modelGlbUrl # None
              /\ item[i].modelUsdzUrl # None

Page == INSTANCE DishPage WITH
            Dishes <- Items,
            Models <- Files \ {None},
            NoModel <- None,
            page <- [i \in Items |-> IF ArReady(i) THEN item[i].modelGlbUrl ELSE None],
            qr <- [i \in Items |-> item[i].qrIssued]

\* The pipeline keeps what DishPage promises a diner: no model is swapped
\* under an open page, a shown dish has its QR code, codes are never undone.
DishPagePromise == Page!Spec

(* Liveness.                                                               *)

\* No dish is stuck generating: a lost webhook, a crash in the handler or a
\* failed poll is made up for by a later poll.
GenerationEnds ==
    \A i \in Items : item[i].arStatus = "generating" ~> item[i].arStatus # "generating"

-----------------------------------------------------------------------------
(* What comments of the code say and its interleavings do not keep.        *)

\* triggerGeneration: only a freshly photographed item can trigger a job, so
\* a user "can't fire this repeatedly while one is already in flight": no two
\* of the owner's running jobs were submitted for the same photos of a dish.
OneJobInFlight ==
    \A t, u \in Tasks :
        /\ job[t].state = "running" /\ job[u].state = "running"
        /\ by[t] \in Callers \ Admins /\ by[u] \in Callers \ Admins
        /\ job[t].item = job[u].item /\ job[t].input = job[u].input
        => t = u

\* MODEL_INVALIDATION_FIELDS: the photo set changed, "so a stale model must
\* never be left looking current".  Stated for dishes no request is adding
\* photos to.
AddingPhotos(i) == \E r \in Reqs : wk[r].pc = "addPhotos" /\ wk[r].item = i
NoStaleModel ==
    \A i \in Items : item[i].modelGlbUrl \in Tasks /\ ~AddingPhotos(i) =>
        photos[i] \subseteq job[item[i].modelGlbUrl].input

=============================================================================
