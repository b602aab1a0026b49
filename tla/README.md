# SeeItReal: specifications and proofs

SeeItReal turns photos of restaurant dishes into 3D models that a diner opens by
scanning a QR code. The program is a NestJS backend (`src/backend`) over MySQL
through Prisma, with a React frontend (`src/frontend`) and a few shared types
(`src/shared`). The backend is one Node.js process: no two statements of it run
at once, but every `await` of a request, webhook or cron is a place where any
other may run, and almost no handler holds a transaction from what it reads to
what it writes. The browser is the same the other way round: answers come late,
in any order or not at all, and the page goes on meanwhile. That is where this
code can go wrong and what these modules model: **a handler is one action per
stretch between two awaits that touch shared state.**

- [Components](#components)
- [Modules and runs](#modules-and-runs)
- [ModelPipeline](#modelpipeline), [Billing](#billing), [RootSessions](#rootsessions),
  [OwnerSessions](#ownersessions), [Menu](#menu), [Catalogue](#catalogue),
  [Viewer](#viewer), [LivePage](#livepage), [OwnerPages](#ownerpages)
- [What is proved](#what-is-proved)
- [Where code and comments disagree](#where-code-and-comments-disagree)
- [What is not modelled](#what-is-not-modelled)
- [Plan](#plan)

Paths below are relative to `src/backend/src` unless they begin with `src/`.

## Components

| component | state | operations | interacts with | what makes it correct |
|---|---|---|---|---|
| Model pipeline: `tripo/`, `root/qa`, `preview-link`, `menu-items` (photos) | the AR columns of `menu_items`, `model_generations`, files in storage | submit, webhook, poll, manual upload, approve, reject, preview link, photo changes | Tripo (HTTP, webhook), the diner page | a dish does not hang; files of one job; one live link; daily cap |
| Billing: `payments/` | `subscriptions`, `charges`, `promo_codes` | checkout, webhooks, change, cancel, renewal cron, grace cron | Stripe, Safepay, the diner page | a restaurant is served, billed and gated on its own payments; grace period; promo limits |
| Root sign-in: `root/auth` | `root_admin_users`, `root_refresh_tokens` | password, TOTP, backup codes, refresh, logout, reset script | the root browser's cookie | single use of challenges, codes and tokens; lockout |
| Owner sign-in: `auth/`, frontend `api/client.ts`, `AuthContext` | `users`, `refresh_tokens`, mail tokens, what each tab holds | sign-up, sign-in, refresh, reset, verify | browser tabs that share a cookie | rotation; a reset ends sessions; lockout; a signed-in tab stays so |
| Menu: `menu/` | items, photos, categories | create, edit, photos, delete | plan limits from billing | contiguous photo order, display photo exists, plan and name limits |
| Restaurants: `restaurants/` | `restaurants` | create, edit, delete | all of the above by ownership | cap per owner, unique slug |
| Back office: `root/{restaurants,packages,promo-codes,dashboard}` | packages, promo codes, suspension, hidden items | edit, retire, delete, suspend | billing, the diner page | nothing in use is deleted; no discount of an impossible shape |
| Diner page: `ar-viewer/` | none | show a dish, count a scan | pipeline, billing, suspension, analytics | shows a dish only with both files and a live subscription |
| Scan analytics: `analytics/` | event rows | insert | read back by the next scan and by reports | one scan per visitor and half hour |
| Web frontend: pages, `useLiveRefresh`, `useConfirm`, `useFeedback` | what each page shows, its marks, dialogs and timers | poll, click, confirm, type, leave | the API, over answers in any order | polling neither stops nor goes backwards; no button that the server refuses; no page stuck busy |
| Storage, uploads, mail, contact, model post-processing, configuration, shared types | files, rows, environment | pure I/O and conversion | | |

Hard behaviours: webhooks delivered twice, late, reordered or never; crons that
overlap requests; restarts between two writes; paid calls whose reply is lost;
tests made on a row read minutes before it is written; counters compared in one
statement and incremented in another; tabs that share one cookie; answers that
overtake each other. `PROJECT.json` lists each at its line with the property that
covers it, and with a note where the property covers only part of it; what no property
covers is [below](#where-code-and-comments-disagree).

## Modules and runs

| module | role |
|---|---|
| `DishPage` | abstract: what a diner's page of a dish may do |
| `SessionLedger` | abstract: what a table of refresh tokens promises of its sessions |
| `ModelPipeline` | the pipeline, refines `DishPage` |
| `Billing` | subscriptions, charges, promo redemptions, both gateways |
| `RootSessions` | root sign-in and sessions, refines `SessionLedger` |
| `OwnerSessions` | owner sign-in and sessions, composed with the tabs of a browser, refines `SessionLedger` |
| `Menu` | restaurants, cuisine types, dishes and photos as their owner edits them |
| `Catalogue` | packages and promo codes edited while they are being bought |
| `Viewer` | the diner's page, composed with suspension, billing, QA and scans |
| `LivePage` | one page of the web app that polls the API |
| `OwnerPages` | all pages of the web app and what their buttons do |
| `*_proofs` | theorems of all of the above; `WebPages_proofs` has those of `LivePage` and `OwnerPages`, and the refinements are with the module that refines |
| `MC*` | the symmetry sets, scopes and values that the `.cfg` files use |

The modules meet where one component's outcome is another's input: Viewer takes
the dish states that ModelPipeline produces and the expiry that Billing decides;
Catalogue lets packages and codes change that Billing takes as fixed; OwnerPages
shows a state whose lateness and order are LivePage's subject, and sends the
requests that Menu, ModelPipeline and Billing split into steps.

| run | bounds | shows |
|---|---|---|
| `requests` | 2 requests; 2 photo batches, 1 job; or 1 batch, up to 3 jobs, a daily cap of 1, 1 fault | `PendingIsBlank`, `OneLiveLink`, `GeneratingIsTracked`, `CapOvershootIsBounded` under every overlap of two requests with webhook and poll, and of two submissions, one of them with its reply lost |
| `jobs` | 1 batch, 2 tasks, 1 request, 1 fault | `FilesBelongTogether`, `DishPagePromise` (refinement) with two jobs of a dish; `GenerationEnds` under fairness |
| `bill_orders` | 2 restaurants, 2 Safepay orders, 2 handlers, a promo for one, events redelivered for ever | `BackedByOwnPayment`, `RowsAreBounded`, `PromoOvershootIsBounded` |
| `bill_progress` | 1 Stripe reference, 1 handler, 1 fault, grace 1, time 2, redelivery until 200 | `GateNeedsGrace`; `GraceEnds`, `PaymentActivates` under fairness |
| `root_requests` | 2 requests, 2 challenges, 2 token rows, 1 backup code, lock at 2, time 1 (two TOTP steps, a lock that ends), 1 fault | `OriginsAreUnique`, `StepsAreUnique`, `LimitLocks`; `LedgerPromise` (refinement) |
| `owner_sessions` | 2 requests, 1 tab (others are other devices), 1 reset link, lock at 2, 2 token rows, 1 fault | `RevokedFirst`, `SurvivorsAreBounded`, `GuessesAreBounded`, `NobodyIsTurnedOut`; `LedgerPromise` (refinement) |
| `menu_edits` | 2 requests, 3 slugs, 2 names, 1 restaurant allowed, plan of 2 dishes, 3 photos a dish, 1 fault | `LimitsAreNearlyKept`, `NamesakesAreBounded`, `CategoriesAreSound`, `PhotosFit`, `AloneInOrder` |
| `catalogue_edits` | 2 requests, 2 restaurants, 1 code, 2 currencies, prices 100 and 101, amounts 1 and 101, 2 rows of each, 2 checkouts | `SubscribersKeepTheirPackage`, `PaymentsAreHonoured`, `PricesAreSane`, `HistoryLostIsRecent` |
| `viewer_pages` | 2 page requests, 1 dish, 1 visitor, window 1, link time 1, time 2, 1 link, 1 fault | `WithheldIsNotShown`, `ScansAreBounded` |
| `live_refresh` | 3 loads in flight, 1 own change, 1 change of each part, 1 fault | `HiddenIsQuiet`, `NeverIdle`, `NeverBackwards`; `ItemsKeepUp` under fairness |
| `owner_pages` | 2 dishes, 2 codes, 2 requests in flight, 2 photos a dish, up to 2 chosen at once, 2 restaurants, 3 clicks, 1 change by others or fault | `OneRequestPerDish`, `RefusedMeansStale`, `MarkedForARequest` |
| `bill_paidexpires` | 1 restaurant, 2 orders, 1 handler | one disagreement, [below](#where-code-and-comments-disagree) |

Why these bounds are enough to be interesting: every hazard listed is between
two actors, so two request slots reach it; two tasks, orders, codes or challenges
give the "old one" and the "new one" that can be confused; one fault falls between
any two steps; time 2 with a grace or window of 1 has a moment before, at and
after the deadline; an amount of 101 against a price of 100 is the discount that
is too large. That nothing goes wrong with more of them is the business of the
proofs. Every property has a mutant: a plausible bug in the definition it
guards, with which the same run fails. The type invariant of every
component is proved, and left out of the `.cfg` files for time; put it there first when a
module is changed.

Three runs have a scope (`MCScope`). `requests` does everything beside one job and no
fault; beside more jobs, or a fault, its requests submit and upload photos only, which
is where jobs, the cap and the log meet; `jobs` has the rest of what happens with two
jobs. In the other two what is cut away commutes with what is kept. In `MCMenu` photos are handled in a menu of one type and one dish with
only photo requests beside: photos and the rest share nothing but that a dish
may be removed, which the scope allows. In `MCCatalogue` updates of a code run
against updates, before any checkout (only the row they leave matters later),
repricing runs against one checkout, and two checkouts run with limited
percentages.

## ModelPipeline

State. `item` are the dishes' rows (status, task, the files by the task that
made them, QA note, QR flag, preview link), `photos` their photo batches, `job`
Tripo's side of every task with the dish and photos it was given, `by` and
`recent` the log of paid jobs and its last 24 hours, `wk` what each request slot
and the cron holds between its awaits, `pollQueue` the tasks a poll still has to
look at. A file is named by its task: this is what "mixed up" and "stale" are
measured by.

Actions. `TriggerGeneration` (the row's tests), `SubmitJob` with the test of the
daily cap or `SubmitReplyLost`, and `TriggerCommit` are the stretches of `triggerGeneration` (`tripo/tripo-generation.service.ts:65`);
`RegenerateAsAdmin` and `RegenerateCommit` the admin's. A webhook (`Webhook`) or
the poll (`PollResult`) reads the dish (`HandleTaskResult`), works on files for
minutes and writes (`ResultCommit`). `Approve*`, `Reject*`, `Manual*`,
`Preview*` and `AddPhotos*` are a read and a write each. `PollPendingTasks`
starts the cron unless `PollRunning`; `PollCaught` is its catch, after which it
goes on with the next task. `Crash` drops all that is in memory; `Abort` ends a
request at any of its awaits.

Abstractions. One batch of photos is one token. The count against the daily cap
is one step with the submission's start. The poll's age limit is a choice
(`PollSkip`). An expired link is no link. Dishes are not created: Init has them
fresh, and a deleted row stays as status "deleted". `qaIssues`, the legacy
`photoUrl` fallback and the renumbering of photos are left out. A webhook of a
job still running, or of an unknown task, changes nothing and has no action.
Deadlock is not checked: all dishes may be deleted.

Fairness of `GenerationEnds`: the 15-second poll fires, its loop goes on, its
result handler returns, and Tripo ends each job (its own timeout). Requests and
webhooks get none: a webhook may be lost, and the poll alone must do.

Measured sizes: `requests` 1.6 million states, `jobs` 193 thousand.

## Billing

State. `sub` are the subscription rows in order of creation, `charges` and the
redemption counters the other tables, `gw` what each Stripe subscription or
Safepay order is for and how it stands, `net` the events a gateway has out,
`handlers` the requests and webhooks in progress, `sweep` the rows the grace
cron has read. `firstFailure` is history: when a payment of a restaurant first
failed.

Actions. A webhook is loaded by event (`ActivateLoad`, `PaidLoad`,
`RecordFailed`, `PastDueEvent`, `CanceledEvent`, `Ignore`) and goes on through
`ActivateCreate`/`ActivateUpdate`, `RedeemLoad`/`RedeemSkip`/`RedeemCommit`,
`RecordPaid` and so on, one action per write of
`payments/payments.service.ts` and `subscription-lifecycle.service.ts`.
Every Stripe status that is not active or past due, such as `incomplete`, arrives as
"canceled" (`payments/gateways/stripe-gateway.service.ts:200`): `StripeEnds` may report
one of a subscription whose first payment is still to come, and the report may
arrive after that payment. `OwnerCancel` and `OwnerChange` call Stripe first and write the row later.
`SweepFind` and `SweepOne` are the grace cron; `RenewOrder` the renewal cron.
`Pay`, `Decline` and `StripeEnds` are the gateways.

Abstractions. Amounts, currencies, discounts, mails and signatures are left out.
`currentPeriodEnd` is a BOOLEAN: near its end or not. There is one promo code;
its window and active flag are the choice `RedeemSkip`. Reads of a handler with
no write in between are one step. Two charges rows of one event are counted
once. Events stay out for ever with `Redelivery`, else until answered 200. A
Safepay order is final once paid or failed. `Checkout` and `RenewOrder` are one
step: what they read and write commutes with other handlers. Rows deleted with
their restaurant are not modelled.

Fairness: handler steps and the cron get weak fairness; delivery of an event
strong fairness, because gateways repeat it until answered 200 and the handler
slots that may be taken are a bound of the model, not of the server.

`bill_progress` has 76 thousand states, `bill_orders` 1.5 million. Deadlock is checked:
the hourly sweep can always start.

## RootSessions

State. `admin` is the account's row, `tokens` the refresh tokens in order of
creation, `challenges` the challenge tokens handed out, `reqs` the requests.
`tokens[i].from` and `.by` are history: which challenge or row a session came
from and by which TOTP step or backup code. `cookie` is what the browser was
last given; `stray` is set when something other than one browser that presents
its cookie, one request at a time, has happened.

Actions. `Login*` are the stretches of `login` (`root/auth/root-auth.service.ts:56`),
`VerifyLoad`, `Claim`, `SpendBackup`, `Consume`, `Enable`, `VerifyClear` those of
`verifyTotpSetup` and `verifyTotp`, `RegisterFailed` and `Lock` the two writes of
a wrong answer, `RefreshLoad`, `Rotate`, `IssueSession`, `RevokeAll` those of
`refresh`. `ResetTotp` is the operator's script.

Abstractions. One account: every query names it. Hashes, codes and secrets are
model values, and which secret a code belongs to is not told apart. A refresh
token is the JWT of fixed claims and the second of signing, so its string *is*
that second. Signing and inserting a token is one step, as is its delivery.
Expiry of tokens and challenges only refuses more and is left out, as are the
audit log, the IP allowlist and throttling. `findFirst` without an order may
return any matching row.

Refinement. `SessionLedger` knows sessions only: signed in, exchanged for another
that has ended, ended. A row is a session (`SessionOf`), live until it is revoked,
and `LedgerPromise` is the ledger with one copy: `Rotate` and `RevokeAll` end
sessions, `IssueSession` is a sign-in or an exchange, all else is a stutter.

`root_requests` has 2.5 million states. Nothing here must eventually happen, so
there is no fairness.

## OwnerSessions

State. `user` is the account's row, `tokens` the refresh tokens, `links` the
reset links, `cookie` what the browser was last given, `tabs` what each tab
holds in memory (`AuthContext`, `api/client.ts`), `reqs` the requests.
`tokens[i].from`, the `epoch`s, `guesses` and `disturbed` are history.

Actions. `SignupCheck/Create/Mail`, `LoginWrong`/`LoginFail`, `LoginRight`/
`LoginClear`, `Boot` and `Refresh`/`Rotate`/`Issue`, `Logout`, `ResetLoad`/
`ResetPassword` are the stretches of `auth/auth.service.ts`; `Granted`, `Denied`
and `Left` what the tab does with the answer; `AccessExpires` and `Reload` the
tab's own. Unlike the root code, rotation and the counter of failures read first
and write by id later. What still holds: an exchanged token is revoked; a reset
leaves at most one session fewer than there are requests at a time;
a lock comes after at most C(MaxFailed + r - 1, r) wrong passwords with r
requests; a browser whose requests do not overlap, but for those the single
flight of a tab holds together, is never turned out.

Abstractions. One account. Hashes are epochs of the password; a refresh token is
its second of signing, as in RootSessions. Reset links are made in one step, and
mail never arrives late. `Fail` is a crash, a failed call or a lost answer.

Refinement. `LedgerPromise` is the same `SessionLedger`, with as many copies as there
are requests at a time: a row is revoked by its id whether or not another request
has done so, so each request that had found it valid may exchange it. The
difference between the two sign-ins is this one number.

## Menu

State. `owned`, `categories`, `dishes`, `photos` are the tables, `reqs` the
requests, `overlapped` history.

Actions. `Restaurant*` are `restaurants/restaurants.service.ts`, `Category*`
`menu/menu-categories.service.ts`, `Dish*` and `AddCheck/Rows/Update`,
`RemoveLoad/Delete/Renumber/Update` `menu/menu-items.service.ts`, one action per
write: a removed photo is deleted, each photo behind it renumbered by a
statement of its own, and the display photo set last. Unique indexes and foreign keys of
`schema.prisma` hold at each write (`UniqueName`, `UniqueOrder`, `Restricts`).

Abstractions. A slug, a name and a photo are tokens; texts, dimensions, a
restaurant's name, address and logo are left out. A change of slug is one step:
the unique index decides, whatever the check has read. `MaxItems` is the plan's;
that it changes with the package is in Catalogue and Billing. Deadlock is not
checked: the bounds on rows end every behaviour.

## Catalogue

State. `packages`, `promos`, `redemptions`, `subs` are the tables, by id; a deleted
row is `Gone`, and a code's redemptions go with it. `sessions` are the checkouts
with the price the gateway was told and the package's own.

Actions. `Package*` and `Promo*` are `root/packages` and `root/promo-codes`;
`Checkout` prices with `Discounted` (the rounding and clamping of
`payments.service.ts`), `Pay` is the gateway, `ActivateLoad`/`Activate`,
`RedeemLoad`/`RedeemCommit` the webhook, `ChangeLoad`/`Change` and `Cancel` the
owner. A partial update of a code is checked against the row it read
(`MergedHasShape`) and merged by the database with what is there by then.
Two updates can so
make a percentage above 100 of a fixed amount; `PricesAreSane` holds nonetheless, because
`Discounted` clamps what it returns.

`HistoryLostIsRecent` is what is left of the rule that a code with redemptions is
not deleted: the deletion has looked, and only redemptions made since its look go
with the code (`RedemptionsAreCounted`, in the proofs, is why the look is
right). That some do refutes `HistoryIsKept`, [below](#where-code-and-comments-disagree).

Abstractions. A package has one price. A code has no window and applies to every
package; its name and its limit are not edited (`root/promo-codes/root-promo-codes.service.ts:110`
can edit all of them). Deadlock
is not checked: the bounds on rows end every behaviour.

## Viewer

State. `restaurant` and `dishes` are what the page reads, `scans` the analytics
rows, `views` the page requests, `exposed` history: the views during which their
dish was open to diners at some moment.

Actions. `PreviewOnce`/`Preview`, `FindItem`, `FindRecent`, `Record` are the reads
and writes of `ar-viewer/ar-viewer.controller.ts`, `ar-viewer.service.ts` and
`analytics.service.ts:recordScan`, in their order; `Suspend`, `Hide`, `CreateLink`,
`RemoveDish`, `RemoveRestaurant` the operator and the owner; `Bill` and `Produce`
let the subscription and the dish move as they please, which covers every
behaviour of Billing and ModelPipeline. A preview token is checked by one read
and the public gate by another, and the row may change in between.

## LivePage

State. The data are versions: `db` what the server has, `shown` what the page
shows, `loads` the loads in flight, `ops` the owner's changes, `visible` and
`timer` the tab and the hook's timeout.

Actions. `Timeout`, `Hide`, `Show`, `Focus` are `useLiveRefresh`; `Answer`, `Land`
and `LoadFails` the server's reply and the page's use of it (`loadSeq`);
`Submit`, `Commit`, `Done`, `OpFails`, `InUse` the owner's own changes, after which
the page loads again. An effect that is replaced leaves its request behind
(`orphan`). Fairness: timeouts fire and a request in flight is answered and
handled; nothing else is promised, in particular no owner's click. Deadlock is
checked.

## OwnerPages

State. `srv` is the server's state as far as buttons ask for it, `page` and `view`
the page and what it shows, `requests` the calls in flight, `busy` the page's
mark, `asking` and `feedback` the dialogs, `promo` the form for a code, `late` the
dashboard's unordered loads.

Actions. `Press`, `Ask`, `Confirm`, `Dismiss`, `CloseFeedback`, `WarnInUse` are
clicks; what is offered (`Offered`, with one operator per page section) is
translated from the `disabled` attributes and conditions of
`src/frontend/src/pages`, what is accepted (`Accepts`) from the services. `Serve`
and `Fail` answer; `Return` and `Leave` are the handlers' ends; `TypeCode`,
`ApplyCode`, `CodeAnswered` the promo form; `PayOrder` the gateway;
`Others` is everything that changes the server without this tab. The two sides
state their rules twice, in two languages: `RefusedMeansStale` says that they
agree, for every page and dish state, but for what no page looks at
(`RefusedByInput`): a dish name that is taken
(`src/frontend/src/pages/RestaurantDetailPage.tsx:197` handles the answer), the form
of a cuisine type, signing in and up, and the number of photos chosen. The file
input takes several photos and is enabled as long as one fits; it is the server
that counts them (`TooMany`, `menu/menu-items.service.ts:94`).

A mark is taken off by the answer (`Unmarked`), except that a checkout that succeeds
leaves the plans page marked ("leaving") and sends the browser to the gateway
(`Redirected`, `src/frontend/src/pages/BillingPlansPage.tsx:76`).
`MarkedForARequest` allows this one mark. If the navigation is cancelled the page
stays as it is, with nothing to wait for, until the owner leaves it; that is in the
model and not excluded by the property. That the browser's cache may bring such a
page back is not modelled.

Abstractions. One tab, one cuisine type; a behaviour visits the pages of one tour
(the pages share no state but the subscription, whose pages are one tour). A
refresh is one step, which the sequence numbers of LivePage justify; the
dashboard's loads have none and are two steps. Photos are counted: which one is
removed is not told apart. That a cuisine type still chosen in the form may be gone
(`RestaurantDetailPage.tsx:73`) is one of the ways to `Fail`. Deadlock is checked. 0.8
million states.

## What is proved

All theorems hold for every value of the constants that satisfies the named
assumptions of the modules (sets of any size, `Grace` and the bounds any
natural numbers, NULL not among the values it stands beside).

`ModelPipeline_proofs`

| theorem | of |
|---|---|
| `Invariance` | `Spec => []IInv` |
| `TypeCorrect` (the type invariant), `PendingStaysBlank`, `GeneratingStaysTracked`, `FilesStayTogether`, `CapOvershoot` | the invariants of the runs |
| `LinkIsKept` | the action property `OneLiveLink` |
| `PageImplements` | `Spec => DishPagePromise`, the refinement |

None of the safety properties is inductive alone: a write is as good as what its
handler read before. `IInv` adds what each half-done request, webhook and poll
holds: its task was accepted for its dish and, where it has a result, has ended
(`WorkIsSound`). For the daily cap it counts the jobs submitted but not yet
logged with the logged ones (`CapBudget`). The step theorem has one lemma per kind of
step; refinement follows from the same invariant, action by action. The runs
have one dish; that dishes are independent rests on these proofs, whose `Items`
is any set.

`Billing_proofs`

| theorem | of |
|---|---|
| `InvariantHolds` | `Spec => []IInv` |
| `TypesHold` | `TypeOK` |
| `PaymentsAreOwn` | `BackedByOwnPayment` |
| `GateAfterGrace` | `GateNeedsGrace` |
| `RowsStayBounded` | `RowsAreBounded` |
| `OvershootStaysBounded` | `PromoOvershootIsBounded` |
| `RedeemedOncePerRow` | `RedeemedOnlyOnCreation` (in no run) |

`GateNeedsGrace` speaks of a row, but the date of expiry was computed by a
handler that read the row earlier, from an event emitted earlier still. `IInv`
follows the evidence back: an event out says something about its session
(`EventSound`), a failed session about its restaurant (`SessionSound`), a
half-done handler holds an event, a row of that event's restaurant and a
deadline no earlier than it should be (`HandlerSound`), rows and the sweep's list
keep that (`RowSound`). Most steps only add evidence: `Grows` says that rows,
sessions, first failures and the clock only grow, and one lemma shows that
everything sound stays so (`KeptByGrowth`). What is left per action is what
the action itself writes.

The three bounds are counting arguments on top of `IInv`. A handler that has found
no row counts as the row it will create, one that is about to redeem as the
redemption: the sums of both (`Counted`) are inductive, the tables alone are not.
Every action but four is shown to be `Quiet`, which keeps each sum; the
four move one handler from one count to the next. The one argument that is not
counting is `CurrentExists`: a restaurant with rows has a newest one, so a handler
that found no current row found no row at all.

`RootSessions_proofs`

| theorem | of |
|---|---|
| `InvariantAlways` | `Spec => []IInv` |
| `TypesAlways` | `TypeOK` |
| `OriginsOnce` | `OriginsAreUnique` |
| `StepsOnce` | `StepsAreUnique` |
| `LimitAlwaysLocks` | `LimitLocks` |
| `LedgerImplemented` | `Spec => LedgerPromise`, the refinement with one copy |

`OriginsAreUnique` speaks of rows, but a session is inserted several awaits
after its challenge was consumed or its predecessor revoked. `IInv` says what
holds in between: a request that may still open a session (`Entitled`) has
already used up what it opens it for (`Used`: the challenge is no longer the
account's, the row is revoked), no row has come of that yet and no other
request may open one for it (`OriginsSound`). `StepsSound` says the same of
TOTP steps, which are `Spent` once `lastStep` has passed them. Most steps use
nothing up and entitle to nothing new (`PlainMove`, by `OriginsFrame` and
`StepsFrame`); the four that do, `Consume`, `Rotate`, `Claim` and
`IssueSession`, are proved one by one. `ResetTotp` must leave `lastStep` alone
for this, and it does. For the refinement nothing more is needed: what a request is
`Entitled` to is `Used` and has no row, so the session it opens is the only one.

`OwnerSessions_proofs`

| theorem | of |
|---|---|
| `InvariantStays` | `Spec => []IInv` |
| `TypeStays` | `TypeOK` |
| `ExchangedStaysRevoked` | `RevokedFirst` |
| `SurvivorsStayBounded` | `SurvivorsAreBounded` |
| `NobodyIsEverTurnedOut` | `NobodyIsTurnedOut` |
| `GuessesStayBounded` | `GuessesAreBounded` |
| `LedgerImplemented` | `Spec => LedgerPromise`, the refinement with a copy for each slot |

Three parts, each on top of the one before. `Sound`: types, and that a request
about to issue a token in exchange for another has revoked that one.
`ResetsSound`: the sessions that outlived a reset and the requests let in before
it, which may still store one, are together at most the slots less one, because
the reset itself holds a slot. `OneAtATime` and `CookieIsGood`: while nothing
disturbs the browser, its one request in progress is what the single flight let
through, and the cookie is a row's that can be presented or is being replaced.

Two more stand on `Sound`. `DelaysBounded` counts wrong passwords. A failure in
progress wrote nothing yet and will write the count it read plus one, so it can
take the account's count back. For each distance `c` from the limit, `ReachedBy`
is the number `k` of slots that cannot take the account further from it again: it is
that near, and their failure, if they have one, read it so. These allow `Ways(c, k)` wrong passwords, a binomial coefficient, and
the invariant is that there were no more than the sum over all distances, which
`BoundsAddUp` shows to be the bound. Pascal's rule for `choose` is proved
from the library's definition of factorials (`WaysAddUp`), the induction being over
a set of numbers (`AllNumbers`). The bound is tight: TLC finds it reached with
`MaxFailed` 2 and 3 and two slots. `ExchangesSound`
counts, for each row, its successors and the requests that still hold it: a request
is let in only with a row that is valid, which by `RevokedFirst` has no successor
yet, and from then on each successor uses up one of these requests.

`Menu_proofs`

| theorem | of |
|---|---|
| `InvariantStays` | `Spec => []IInv` |
| `TypeStays` | `TypeOK` |
| `LimitsStayNearlyKept` | `LimitsAreNearlyKept` |
| `NamesakesStayBounded` | `NamesakesAreBounded` |
| `CategoriesStaySound` | `CategoriesAreSound` |
| `PhotosAlwaysFit` | `PhotosFit` |
| `AloneStaysInOrder` | `AloneInOrder` |

`LimitsSound` counts the rows and the requests that have passed the check, and is
re-established by every check. `NamesSound` counts the dishes that have a name or
are being given it and the requests that are making one: a check that finds the
name free leaves no more of them than slots. `PhotosFit` follows from the unique order and its bound (`RowsSound`),
not from the count that an upload reads. `PhotosSettled` describes a removal
half-way: which photos are renumbered already, which are one too far, and that
each pending statement moves one photo into the one free place (`LeftOf`,
`Underway`).

`Catalogue_proofs`

| theorem | of |
|---|---|
| `InvariantStays` | `Spec => []IInv` |
| `TypeStays` | `TypeOK` |
| `SubscribersKeepIt` | `SubscribersKeepTheirPackage` |
| `PaymentsAreAlwaysHonoured` | `PaymentsAreHonoured` |
| `PricesStaySane` | `PricesAreSane` |
| `HistoryLostStaysRecent` | `HistoryLostIsRecent` |

What each action does to the five tables is shown once per action
(`PackagesKept`, `SubsKept`, `PromosKept`, `SessionsKept`, `RequestsKept`); the
invariant follows from these alone. A removal remembers how many redemptions there
were when it looked; as its code had none (the count is that of the rows,
`RedemptionsAreCounted`) and rows are only added behind, those of its code are
later ones. `IInv` adds that a request between two of its
statements names rows that are there or are `Gone` (`WorkSound`), for any
prices and amounts: `Discounted` clamps, whatever shape the merged updates gave
the code.

`Viewer_proofs`

| theorem | of |
|---|---|
| `InvariantStays`, `TypeStays` | `Spec => []IInv`, `TypeOK` |
| `WithheldStaysHidden` | `WithheldIsNotShown` |
| `ScansStayBounded` | `ScansAreBounded` |

`ViewsSound`: a view that has found its dish live knows that the dish was open
(`exposed`) although the row may be different by now. `ScansSound`: once a window
holds a scan, only the views that had looked before it can add to it, so the scans
in a window and the views about to record one are together at most the views.

`WebPages_proofs`

| theorem | of |
|---|---|
| `LiveInvariantStays`, `LiveTypeStays` | `LiveSpec => []LiveInv`, `LiveTypeOK` |
| `NothingShownGoesBack` | the action property `NeverBackwards` |
| `HiddenStaysQuiet` | `HiddenIsQuiet` |
| `HookNeverStops` | `NeverIdle` |
| `ButtonsInvariantStays`, `ButtonsStayTyped` | `Spec => []IInv`, `TypeOK` of OwnerPages |
| `RefusalsStayStale` | `RefusedMeansStale` |
| `MarksStayAnswered` | `MarkedForARequest` |
| `DishesStayMarked` | `OneRequestPerDish` |

`NeverBackwards` compares two states, and is true because nothing shown or
answered is ahead of the server (`NothingIsAhead`) and the one load that may still
be shown was started after what is shown was answered (`LatestIsNewer`). The
sequence number keeps at most one such load.

`RefusedMeansStale` relates a refusal to what the page showed when the button was
offered, which may be several steps and a dialog earlier. `Grounded` carries that
through: of what a dialog or a request went by (`Subject`) the server cannot refuse
it but by the input (`Sure`, over *all* states of the server that look so), which is shown
from the condition of each button and the test of its service (`OffersAreSure`).
`OneDishAtATime` is what the one `busy` mark is worth: as long as the owner works on one
dish at a time, the requests of the page that mark a dish are one. `OfThePage` ties requests,
dialogs and answers to the page that is open.

The module extends both LivePage and OwnerPages, so the names of LivePage that
OwnerPages has too begin with `Live`.

Only model-checked:

- the liveness properties `GenerationEnds`, `GraceEnds`, `PaymentActivates` and
  `ItemsKeepUp`: fairness and ENABLED are out of the prover's reach;
- what the [table below](#where-code-and-comments-disagree) lists is false, and
  no theorem.

## Where code and comments disagree

One run ends in a violation, with a finding in `PROJECT.json`:

- `bill_paidexpires`: a restaurant that has paid expires because another open
  order of it lapsed (`ExpiredIsUnpaid`).

The following are stated in the modules as properties that TLC refutes; to see a
counterexample put the property into the named `.cfg`.

| property | `.cfg` | what is said, and what happens |
|---|---|---|
| `OneJobInFlight` | `MCModelPipeline_requests.cfg` | the status is said to stop a second paid job; two trigger requests both submit one |
| `NoStaleModel` | `MCModelPipeline_requests.cfg` | photos are said to invalidate the model; a model of the old photos ends up on a dish with new ones |
| `PackageIsBilled` | `MCBilling_progress.cfg` with two packages | Stripe's own report of a package change writes the old package back |
| `ReuseIsReal` | `MCRootSessions_requests.cfg` | two refreshes in one second give the same string twice, and the honest browser raises the stolen-token alarm |
| `SingleUse` | `MCOwnerSessions_sessions.cfg` | "the presented token is single-use"; two refreshes that overlap both get a session |
| `PhotosInOrder` | `MCMenu_edits.cfg` with `MaxFaults = 0` | "sortOrder is contiguous 0..n-1", "photoUrl above always mirrors photos[0].url" (`src/frontend/src/api/types.ts:49`); an upload during a removal leaves a gap or a display photo that is gone |
| `CodesServeOnce` | `MCCatalogue_edits.cfg` | "already been used on this restaurant"; two checkouts open at once both get the discount (`payments/payments.service.ts:153`) |
| `HistoryIsKept` | `MCCatalogue_edits.cfg` | "This code has redemption history and cannot be deleted" (`root/promo-codes/root-promo-codes.service.ts:202`); a webhook redeems it between the check and the deletion, which takes the redemption with it |
| `RequestsNeverOverlap` | `MCLivePage_refresh.cfg` | "Requests never overlap"; the effect's replacement starts a request beside the old one (`src/frontend/src/hooks/useLiveRefresh.ts:84`) |
| `ReactivationIsOffered` | `MCOwnerPages_buttons.cfg` | "Reactivate to bring your dish links back online" (`src/frontend/src/pages/BillingPage.tsx:131`); the plans page takes an expired plan for a current one and offers only to switch, which changes the package and leaves the row expired |
| `PromoIsAsShown` | `MCOwnerPages_buttons.cfg` | the answer for the code before is shown as applied over the one typed since |

Others came up while modelling and are recorded here:

- `root/qa/root-qa.service.ts:75`: an approval that overlaps an upload or a
  reject publishes a dish without files.
- `tripo/tripo-generation.service.ts:277`: submissions that overlap pass the
  daily cap (bounded by `CapOvershootIsBounded`).
- `tripo/tripo-generation.service.ts:403`: a slow result handler writes over a
  newer attempt.
- `payments/subscription-lifecycle.service.ts:98`: two first activations make
  two rows (bounded by `RowsAreBounded`).
- `payments/payments.service.ts:402`, `:407`: a promo code redeemed past its
  maximum, or twice by one restaurant (bounded by `PromoOvershootIsBounded`).
- `payments/subscription-lifecycle.service.ts:181`, `:132`: the sweep expires a
  row paid in between; a failure handled across a sweep revives an expired row.
- `payments/subscription-lifecycle.service.ts:142`: two overlapping failures
  give two deadlines, the later write wins.
- `payments/subscription-lifecycle.service.ts:182`: the deadline stays on the
  expired row, which `schema.prisma:451` does not say.
- `payments/payments.service.ts:131`: two open Stripe checkouts can both be
  paid; the row follows one.
- `root/auth/root-auth.service.ts:115`: two first sign-ins that overlap store
  two secrets; the one shown first no longer matches.
- `src/frontend/src/pages/BillingPage.tsx:77`: the cancel dialog says when links
  go offline; the server cancels at once, and `canceled` never gates.
- `src/frontend/src/pages/RestaurantDetailPage.tsx`: adding a dish or a cuisine
  type sets no mark, so a second click sends it again; the name rules of the
  server are what stops it.

### Hazards without a property

Real ones that no checked property covers, each because the code does not
promise otherwise or the promise is refuted above:

- `menu/menu-items.service.ts:25`: a preview link outlives the model it was made
  for, and opens the next one.
- `payments/payments.service.ts:307`: a package change is undone by an event
  already on its way.
- `payments/payments.service.ts:336`: a Stripe invoice that overtakes the first
  subscription event is answered 200 and its charge never recorded.
- `payments/payments.service.ts:215`: an expired restaurant cancels and is
  served again: only "expired" gates.
- `payments/payments.service.ts:316`: a code is tested at checkout and redeemed
  at payment; a second redemption is dropped and its discount stays.
- `payments/subscription-lifecycle.service.ts:162`: a late `past_due` or `active`
  event revives a canceled row; the code has no order on events to compare.
- `payments/subscription-renewal.cron.ts:53`: a Safepay row whose renewal order
  is never paid nor reported stays active past its period.
- `root/auth/root-auth.service.ts:208`: two requests with different backup codes
  each write their own remainder, and a spent code is good again.
- `root/auth/root-auth.service.ts:310`: a session inserted after a concurrent
  alarm has revoked all others survives it.
- `src/frontend/src/pages/RestaurantDetailPage.tsx:102`: cuisine types are read
  by full loads only; a tab shows old ones until it changes something.
- `src/frontend/src/pages/BillingPlansPage.tsx:48`, `:69` and
  `src/frontend/src/hooks/useLiveRefresh.ts:84`: see the table above.

## What is not modelled

- Model post-processing (geometry, textures, conversion), storage and uploads:
  pure functions on binary data or pure I/O under fresh keys. That each may fail
  is part of ModelPipeline and Menu.
- Mail and the contact form: one insert and one mail, no state read again.
- Validation of the environment and of requests, guards, pipes, configuration:
  stateless checks. Authentication and ownership checks are taken to pass: a
  request in a model is one that got through.
- The retry loop of the Tripo client: it repeats idempotent calls, and what it
  ends in (accepted, reply lost, failed, still running) is in ModelPipeline.
- Reports, dashboards, lists and filters: they read only. The audit log is only
  written.
- Edits of a restaurant's name, address and logo and of a dish's texts: single updates that no other part reads.
- HTML, the landing page, the theme and drawing; the throttle.

## Plan

Done: the core (`DishPage`, `ModelPipeline`, `Billing`, `RootSessions`), the rest of
the backend that keeps state (`OwnerSessions`, `Menu`, `Catalogue`, `Viewer`), the
web app (`LivePage`, `OwnerPages`); proofs of every safety property that a run
checks, and of the refinements of `DishPage` and of `SessionLedger`, by the root
and the owner's sessions.

Next: the gate of Viewer from the other side. That Viewer's `Bill` and `Produce`
cover the steps of Billing and ModelPipeline is argued above and could be a
refinement.
