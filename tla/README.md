# Verification of SLOMP

SLOMP issues, for Colombian municipalities, the *liquidations* (resolutions) and *payment orders*
(mandamientos de pago) of unpaid property tax. Each municipality numbers its documents
consecutively, can generate thousands of them in one bulk job rendered by a separate PDF service,
and tracks the status of every settlement (one property and period) until it is paid, prescribed
or replaced by a newer tax roll. An Administrator works in a web panel, which has an assistant
(Slompsim); a taxpayer has a public form.

This directory holds TLA+ modules of the parts of the program whose correctness depends on the
order of things, TLC configurations that check them on small instances, and TLAPS proofs of the
results that matter most. Source paths below are relative to `src/`; `backend/` and `frontend/`
stand for `apps/backend/src/` and `apps/frontend/src/`.

1. Inventory - 2. Modules and the code they model - 3. Runs - 4. Fairness - 5. Proofs -
6. Only model-checked, and why - 7. Findings - 8. Read while modelling - 9. Not modelled - 10. Plan

## 1. Inventory

| Part | State | Operations | What is hard |
|---|---|---|---|
| **Consecutive numbers, individual generation** (`backend/resolutions/`, `payment-orders/`, `pdf-jobs/counter-lock.ts`) | counter rows per year and kind, resolutions, payment orders, the settlements' links | `prepareLiquidationData`, `generate`, `issuePaymentOrders` | reads before the transaction, READ COMMITTED, row locks shared with bulk jobs |
| **Bulk PDF jobs** (`backend/pdf-jobs/`) | `pdf_jobs`, `pdf_job_batches`, blobs, two Azure queues, timers | `create`/`reserve`/`dispatch`, `applyResult`, `revert`, `recoverInterrupted`, `sweep`, `download` | at-least-once queues, crashes between steps, watchdog, late results |
| **PDF service** (`apps/pdf-function/src/`) | slots, messages being worked on, blobs | `startWorker`, `handleMessage`, `renderBatch`, `assembleZip` | visibility timeouts, retries, stops |
| **Settlement status** (`backend/settlements/`, `assistant/assistant-changes.service.ts`) | `settlements.status`, `settlement_events` | `changeStatus`, `markEnFirme`, `confirm`, `search` | rules checked on data read before the transaction |
| **Tax roll import** (`backend/tax-roll/`) | current settlements per property and period, `replacedAt`, `missingSince` | `persist`, `persistTaxRoll` | replaces rows other transactions are about to link |
| **Sessions** (`backend/auth/`, `frontend/api/httpClient.ts`, `frontend/auth/`) | refresh tokens in families; the cookie, the tabs' access tokens and activity mark | `login`, `rotate`, `revoke`, `changePassword`; `renewSession`, keep-alive, sign-out | rotation races with logout and password change; tabs that share a cookie |
| **Login attempts** (`backend/auth/login-attempt-tracker.ts`) | in-memory counters per email and address | `isLocked`, `registerFailure`, `registerSuccess`, `prune` | check and registration are apart |
| **Templates** (`backend/templates/`, `frontend/pages/Templates/`) | versions, drafts, blobs; the draft this browser remembers, the marking | `upload`, `activate`, drafts, `sweepDrafts`; the guided marking | database and Storage can disagree; answers that cross |
| **Assistant** (`backend/assistant/`, `frontend/pages/Slompsim/`) | the conversation of the panel, the requests counted per Administrator | `reply`, the tools, `confirm`, the rate limit | a language model's rounds under a deadline, late answers, retries |
| **Municipalities, health** (`backend/municipalities/`, `frontend/pages/Admin*`, `routes.ts`) | slugs, DANE codes; the panel's address and list | `create`, `update`, the guard of every route | look first, write later; the address is shared state |
| **Public consultation** (`backend/public-settlement-query/`, `frontend/pages/PublicConsultation/`) | requests per minute; the form and its list | `info`, `query`, PDF | numbers are issued by an anonymous request |
| **Screens of the panel** (`frontend/`) | what each screen knows and what it waits for | jobs, tax roll, payment orders, settlements | answers out of order, after the screen was left |
| Formats of cells, XML and amounts, LibreOffice itself, infrastructure | | | section 9 |

How they interact:

* Everything that takes a consecutive number locks the same counter row (`lockCounter`). A bulk job
  reserves a whole range when it is created and gives it back if it fails, so while it is active
  nobody else may take a number of that counter.
* Backend and PDF service share no memory: `pdf-work` and `pdf-results` queues (each message
  delivered at least once, in any order) and blobs.
* The job row is the meeting point of the request that dispatches, the results loop, the watchdog,
  the recovery after a restart and the expiry timer; each re-reads the status before it acts.
* Settlements are linked by resolutions and payment orders, replaced by imports, and change status
  by hand, by the assistant's confirmed proposals and by the hourly EN_FIRME sweep.
* The tabs of a browser share one refresh cookie; they take turns to renew it (`navigator.locks`),
  because the backend takes a token presented twice for a stolen one.
* A screen learns what the backend did from answers that arrive later, in any order or never;
  several screens ask the same things again on a timer, after a job or after the assistant acted.

What makes each part correct, and the hazards at their lines, are in `PROJECT.json` ("hazards").

## 2. Modules and the code they model

The definition-by-definition correspondence, with lines, is `map` in `PROJECT.json`. Variables and
actions keep the code's names where TLA+ allows it.

| Module | What it is | Abstract specification |
|---|---|---|
| `CounterLock` | the transactions that take numbers or hand them back, one step per statement other transactions can tell apart | `NumberBook`: one book per counter that grows on top and is cut only from the top |
| `BulkJob` | a bulk job from its creation to its ZIP: backend, PDF service, queues, blobs, crashes | `JobLifecycle`: what a job promises those who wait for it |
| `Settlements` | the rows of `settlements`: status changes, generations, bulk jobs and imports, each as a read and a commit | |
| `Sessions` | token families: login, rotation, logout, reuse, password change | `SessionBook`: a session is opened by a login and closed once |
| `PanelSession` (extends `Sessions`) | the tabs of one browser, their turns, the cookie and the activity mark | `Sessions` itself |
| `LoginAttempts` | the tracker's map, windows, lockouts and pruning | |
| `Templates` | versions, drafts and their blobs | |
| `TemplatesScreen`, `GuidedMarking` | the templates page and its protocol; what may be marked and what the backend makes of it | |
| `Conversation` | the panel's conversation, with the review and the confirmation it calls | |
| `AssistantLoop`, `AssistantLimit` | one message answered over rounds of the language model; the sliding window of messages | |
| `Municipalities`, `AdminPanel` | creations, edits and loads at the unique indexes; the panel's address and list | |
| `JobScreen`, `TaxRollScreen`, `PaymentOrdersScreen`, `SettlementsScreen` | a screen of the panel each, against what it sees of the backend | |
| `PublicConsultation` | the public route, its form, list and PDFs, and the limits per minute | |
| `TaxRollFile` | what an import makes of the rows of a spreadsheet, file after file | |
| `RenderService` | one document at a time: the backend's client, the slots of the service and its cache of templates | |
| `BatchConversion` | one batch of the queue: merged and split, or document by document, by deliveries that overlap | |
| `SettlementGroups` | the grouping of a search's rows, used by the two modules that list settlements | |
| `CounterLockProofs` | the theorems of `CounterLock` | |
| `SettlementsProofs` | of `Settlements` and `SettlementsScreen` | |
| `PanelSessionProofs` | of `Sessions`, `PanelSession` and `LoginAttempts` | |
| `BulkJobProofs` | of `BulkJob`, `RenderService` and `BatchConversion` | |
| `TemplatesProofs` | of `Templates` and `TemplatesScreen` | |
| `MunicipalitiesProofs` | of `Municipalities` and `AdminPanel` | |
| `ConversationProofs` | of `Conversation`, `AssistantLimit` and `AssistantLoop` | |
| `ScreensProofs` | of `JobScreen`, `PaymentOrdersScreen`, `TaxRollScreen` and `PublicConsultation` | |
| `MC*` | instances for TLC | |

### CounterLock

State: the committed counter rows, documents, links and job rows; who holds each row lock; and for
each request in flight what it is doing (`tx`). Postgres runs at READ COMMITTED, so a step is one
statement, or a run of statements no other transaction can tell apart (nothing of a transaction is
visible before its commit, so its last reads and writes and its commit are one step).

| Action | Code |
|---|---|
| `PlanIssue` | the reads before the transaction of `prepareLiquidationData` (one group) and of the payment orders' `generate` (the groups of a request) |
| `LockCounter` | `lockCounter`: upsert and `FOR UPDATE`, waiting for the holder |
| `IssueCheck`, `IssueCommit` | count of active jobs under the lock; numbers, documents, links and commit |
| `PlanReserve`, `ReserveCommit` | `create`: active job check and plan before the transaction; `reserve`: the job row (partial unique index), its range, documents and links |
| `LockJob`, `RevertCommit` | `revert`: lock and status of the job row, then (after `LockCounter`) counter, links, documents, status |
| `FinishJob` | the DONE update of `applyResult` |
| `Refuse` | the 409 answers under the lock |
| `Abort` | a failed statement or a stop of the backend at any point: rollback |

A *group* is what one document covers (the pending periods of a property and kind). Which periods
those are, eligibility and dates are data the numbers do not depend on; a payment-order group is
pending independently of the group's resolution, which allows more interleavings than the code.

### BulkJob

State: the job rows and batch rows, `stale` (an old `updatedAt`), blobs, both queues, the PDF
service's slots, and the backend's memory: the request that dispatches each job, the results loop,
blobs about to be deleted, the recovery's list and the watchdog's list.

| Action | Code |
|---|---|
| `Create`, `CreateRows`, `SendBatch`, `MarkRunning`, `DispatchFails`, `DispatchReverts` | `create`, `reserve`, `dispatch` and the catch of the request; the uploads of a chunk are concurrent |
| `Receive`, `Load`, `Render`, `Assemble`, `TaskFails`, `TaskRefused`, `Report`, `ReportFails`, `WorkerStops`, `WorkerStarts` | `startWorker` and `handleMessage` of the PDF service: attempt limit, missing inputs, transient and permanent errors, result then delete |
| `ApplyBatch`, `ApplyBatchRollsBack`, `ApplyFailure`, `ApplyZip`, `CleanRows`, `CleanRowsFails`, `CleanInputs`, `CleanPdfs` | `applyResult` and the results loop; `Settle` is the delete of the result message |
| `Purge` | `deleteBlobs` of a job that was reverted or expired |
| `RecoverRead`, `RecoverRevert`, `RecoverFails` | `recoverInterrupted` |
| `Stall`, `SweepRead`, `SweepRevert`, `SweepFails`, `Expire` | the clock and `sweep` |
| `Restart` | the backend stops and starts with nothing in memory |

`Fault` counts every step that needs something to go wrong (failures, crashes, timeouts that fire
early, lost deletes); `MaxFaults` bounds them. One batch stands for its documents. A revert's
numbers are `CounterLock`'s subject. A ZIP upload is all or nothing: an interrupted upload leaves
the blob as it was (Azure commits a block blob at the end).

### Settlements

State: the rows of `settlements` (period, status, `replacedAt` and `missingSince` as set or not, the
age of its resolution and of its payment order), `audited` (the `toStatus` of each row's last event),
the active bulk job with the rows it linked, and for each request in flight what it has read
(`tx`). A request reads first and writes later, in a transaction whose guards repeat only a part of
what was read; the actions come in such pairs.

| Action | Code |
|---|---|
| `ChangeRead`, `ChangeCommit` | `changeStatus`: the row and `allowedStatuses`, then the guarded UPDATE and its event |
| `Confirm` | the assistant's `confirm`: rows locked before they are read, all changes or none |
| `MarkEnFirme` | the hourly sweep, one UPDATE |
| `PlanResolution`, `PlanResolutions`, `CommitResolution` | the group of an individual generation and the plan of a bulk job; their link UPDATEs, which differ in `replacedAt` |
| `PlanOrder`, `CommitOrder` | `evaluatePaymentOrderEligibility` for the panel and for bulk jobs; `issuePaymentOrders` |
| `FinishJob`, `RevertJob` | the end of a bulk job: its documents stay or are taken back |
| `ImportStart`, `ImportRead`, `ImportCommit` | `persist` (advisory lock, no active job) and `persistTaxRoll` (the current rows; then what is replaced, missing and created) |
| `SixtyDays`, `FiveYears` | the clock |
| `Abort` | a guard that does not hold, a failure, a stop: rollback |

Dates only matter through two thresholds. The documents of each row age on their own, although those
of one resolution age together: more behaviours than the code's. A document does not age while its
job is active, since the watchdog ends a job long before 60 days. `Settled` holds PAGADA and
ACUERDO_DE_PAGO, which no rule tells apart. `FOR UPDATE` in `confirm`, and one statement in the
sweep, leave nothing between their reads and writes, so each is one step; a request that waits for a
row lock re-evaluates its guard on the committed row, which is what a commit after another commit
does here. The counter lock is `CounterLock`'s; here a commit only asks that no job is active.

### Sessions, PanelSession, LoginAttempts

`Sessions` keeps the rows of `refresh_tokens` and the clock. An UPDATE that may have to wait for a
row lock is two steps (`CloseStart`/`CloseEnd`, `RotateClaim`): it chooses its rows from what is
committed when it starts, and a row inserted meanwhile is not among them. `LoginVerify` and
`LoginOpen` are apart (the hash is compared in between), and so are `ChangeVerify`, `ChangeStart`
and `ChangeCommit` of the password change. An access token is not kept: it is good while its family
has a live refresh token, which is what `findActiveOwner` asks.

`PanelSession` extends it with the tabs: what each one is doing, whether it has an access token and
what is on its way to the backend (`Exchange`). A cookie is attached when a request is *sent* and
changes when its answer *arrives* (`CookieAfter`); the turn (`FreeTurn`) is `navigator.locks` in
`renewSession`. `StartRenewal`, `RenewalArrives`, `RenewalRuns` (steps of `Sessions`),
`RenewalAnswered`, `AnswerLost`; `SignOut`, `LeaveRuns`, `LeaveAnswered`; `SignInRuns`,
`SignInAnswered`; `KeepAlive` (the timer, and the activity mark), `CallRefused`, `Resume`; `OpenPage`, `ClosePage` (a reload is both).
Each tab's three requests have ids of their own among those of the backend.

`LoginAttempts`: an attempt looks at the lock (`Check`), waits for the hash, and counts
(`AnswerLocked`, `AnswerWrong`, `AnswerRight`); `RegisterFailure` with the window, `LockoutDuration`
that doubles up to a cap, and `prune` when the map is full.

### Templates, TemplatesScreen, GuidedMarking

`Templates`: a request is one step per await. The transaction of a version holds the municipality's
row (`Lock` ... `Commit`), its upload inside (`Send`, `SendFails`, `TimesOut`, `SendLate`), and the
catch deletes by path after the lock is gone (`Clean`). A draft is a row and a folder of blobs:
`Create`/`CreateRow`, `PreviewOpens`/`PreviewReads`/`PreviewSends`, `SaveOpens`/`SaveMarks`, `Cancel`,
`RemoveBlobs`/`RemoveRow`, and the hourly `SweepStarts`, `SweepBlobs`, `SweepRow` with their failures;
`Stop` is the process. File contents are model values; `Marked[d]` is what the marking of draft `d`
produces.

`TemplatesScreen`: the page with the upload and history of one document type, the guided marking's
steps and dialogs, and the draft the browser remembers (`templateDraftStorage`). Every request has
its own moment at the backend (`Serve...`) and its own answer (`Deliver...`), in any order; what the
screen aborts is dropped (`Heard`), the rest is delivered to handlers of a screen that may be gone: a save whose
versions land after the screen was left goes on (`DeliverListToSave`). `made` is what the active version was made of,
for the same file is not a new version (`SameFile`), and `saved` are the drafts a save was answered for, whose rows may
stay all the same (`Saved`).

`GuidedMarking`: a document is blocks of runs of characters (a word, a space or a tag). `SelectText`,
`Pick`, `Unmark`, `ToggleRow`, `RemoveSurplus` are the screen's; `MarkedCopy`, `Accepted` and `SaveRefusals`
are functions of the marking, what `applySelections`, `rowsToRemove`, `extractTemplateFields` and
`validateTemplateFields` make of it, so that what the screen shows can be compared with what the backend
would write. Word may cut a tag over several runs: `split` says in which blocks of a file, and `Wrapped` looks for the
tag of the row in each run on its own, as `wrapRow` does.

### Assistant: Conversation, AssistantLoop, AssistantLimit

`Conversation` is `conversationReducer` with `useSlompsimConversation` and the cards: `Ask`, `Preview`,
`Apply`, `Retry`, `Discard`, `StartOver`, `SwitchTown`, and for each request the backend's step
(`ServeCall`, `ServeConfirm`, which are `proposeStatusChange` and `confirm`) and the delivery of its
answer. A reply or a preview is aborted when the conversation ends, a confirmation is not: one of an
earlier conversation may still be in flight. `Elsewhere` is everybody else who changes the rows. The entries
are kept by their id, as a function: no two of a conversation share one, and the order of the list is that of
the ids.

`AssistantLoop` is `reply`, its rounds and `runTool`; the deadline's timer (`Expire`) runs on its own
and the abort it causes (`Abort`) is a later step. What the model says is any list of tool calls up to
`MaxCalls`; what counts is whose documents the texts name. `AssistantLimit` is `consume` with its
window and the rounding of Retry-After to whole seconds.

### Municipalities and AdminPanel

`Municipalities`: a request finds its municipality once (`Addressed`, the guard) and looks for
conflicts (`LookIfTaken`, `LookForData`) before it writes under the unique indexes (`Insert`,
`Update`). A load of the tax roll checks the codes of the file against the DANE code it read
(`AskToLoad`), looks for properties of others (`LookForForeign`) and upserts them by code (`Store`).

`AdminPanel`: the hash (`Go`, `FollowLink`, `Switch`) and what the panel shows of it, which changes
with the browser's event (`HashChange`); the reads of the list (`Read`, `Answer`, `Land`), which may
land out of order; the one extra look for a municipality that is not listed, redirects and aliases
(`Effects`), and the dialog that creates one (`Submit`, `Create`, `Created`).

### Screens and the public form

`JobScreen` (`usePdfJob`, `ZipJobPanel`), `TaxRollScreen` (`TaxRollUploadPage` against `import`),
`PaymentOrdersScreen` (`PaymentOrdersPage`), `SettlementsScreen` (`SettlementsPage` and its sheet,
against `search`, `changeStatus` and the individual PDF, with the assistant beside it) and
`PublicConsultation` (`PublicConsultationRoute`, its page, controller and service with the throttler).
A request is the click that sends it, the backend that handles it and the answer that lands; `Fails`
or `Lose` loses a request or its answer, and *which* it was matters: the backend may have done it.
Each has the part of the backend it sees: a job that starts and ends, the table of settlements with
what imports, jobs and sweeps do to it. `SettlementGroups` is `groupSettlementsByResolution` with the
pure helpers of both lists.

### TaxRollFile, RenderService, BatchConversion

`TaxRollFile`: a file is a sequence of rows whose cells already are what they state. `Parse` is
`parseTaxRollExcel` (the first check a row fails, the keys of the sound rows only, the warnings), `Property`,
`Owner` and `Import` are `persistTaxRoll` with `recordImport`, as one step: imports of a municipality wait for each
other. An upsert keeps what a later row leaves out, but for the amount and the address, which are those of the last row
(`Property`). `RefuseFile` is everything an upload is refused for. The interleavings of an import are those of
`Settlements` and `Municipalities`.

`RenderService`: `Ask`, `Receive`, `AskAgain`, `GiveUp` are `PdfServiceClient.render`; `Take`, `LoadTemplate`,
`KeepTemplate`, `Convert` and their failures are `handleRender` with `createTemplateCache`, a step per await, and
`LoadForBatch` is the queue's use of the same cache. `Change` is the backend, that may write a blob again at any time.

`BatchConversion`: every delivery of the message has a state of its own (`Receive` to `Delete`), and all write the
same blobs. A delivery past the limit answers "attempts exhausted" whatever the others do (`Exhaust`); the backend may be
over with the job at any time (`JobDone`, `JobReverted`) and deletes the input and the PDFs (`CleanInput`, `CleanPdfs`), after
which a delivery finds no input. `ConvertMerged` is `convertMerged`, with `Mergeable` and `CanSplit` from `merge.ts`; `ConvertEach`,
`ConvertAgain` are `convertEach`; `Upload` goes on after its delivery has failed. What LibreOffice makes of a file
is assumed, and external in the map: `Alone` (each document starts at its own page 1), `Merged` (a section break starts a
page and a count, and what stands outside the loop is filled once).

## 3. Runs

| Run | Instance | What it shows |
|---|---|---|
| `numbers` | 3 requests, 2 jobs, 2 groups, a resolution and a payment-order counter | numbers consecutive and unique with a job's range on top (`Contiguous`), a revert undoes its own job only, issued documents stay |
| `ends` | 2 requests, 1 job, two years of one kind; the sweep with 2 rows and 1 request; the assistant; the drafts with 1 request and 2 failures | `CounterLock` implements `NumberBook` on a link column two counters share; links and documents agree, the assistant's answers and limits hold (`BackendIsTrue`); transactions and messages end; the sweeps reach what is due |
| `bulk_job` | 1 job, 2 batches, 2 slots, 2 attempts, 3 faults | progress, no work forgotten, no blob missing where needed, refinement of `JobLifecycle` |
| `jobs_end` | the same with 2 faults, reverts succeed | every job ends, and delivers if nothing fails |
| `stuck_preparing` | 1 batch, reverts may fail | **violated**: finding 1 |
| `settlements` | 2 rows, 2 periods of one property and different kinds, 2 requests; the screen Liquidaciones (3 parts) and the public form (2 parts) | one current settlement per period, nothing final or ordered without a final resolution, no hole in the audit trail, what was decided stands; the pages show what is stored or know they may not |
| `final_replaced` | 2 rows, 1 period | **violated**: finding 2 |
| `sessions` | 2 families, 4 tokens, 2 requests, idle 2, maximum 3, horizon 3, 1 password change | one live token, a closed session stays closed, a closing misses only what crossed it; refinement of `SessionBook` |
| `browser` | 2 tabs on one session; logins with 2 keys and one address; 2 jobs; 2 municipalities and 2 DANE codes; the panel twice | `PanelInv` (the proofs' invariant), no false reuse, lockouts, the municipality of the address, codes and slugs, the followed job |
| `templates` | 2 requests, 2 contents, 1 draft, 2 versions, 1 fault; the screen twice; a document of 2 runs and a table; the PDF service; batches three times | one active version with its own file, no draft lost, the marking kept, shown and saved; every PDF of its own template and document |
| `conversation` | 2 rows, 2 municipalities, batches of 1, 2 proposals, 1 switch, 1 fault | only allowed changes of what was shown are applied, nothing asked is dropped, the panel never locks |
| `screens` | a job of each type, 1 visit, 1 fault; 3 files; 3 Excel files; the rows of a tax roll | nothing locks the screens for good, what is marked as done is done, a followed job is remembered until it is over; no row is lost without a word, and a row that states less erases no place, land use, name or type |

Runs of parts side by side. `MCEnds`, `MCBrowser`, `MCScreens`, `MCSettlements` and `MCTemplates` check
several modules in one run. Their parts share nothing, so the state graphs are put side by side and not
multiplied: the initial state chooses a part, and the variables of the others stay in one of their
initial states. This checks each part as a run of its own would. The fairness of a part that does not
run asks for nothing, because none of its fair actions is enabled in its initial state. A property named
`...IsTrue`, `...AreTrue` or `...Kept` in such a module is the conjunction, by part, of the modules' own
properties; the modules comment each of them.

Bounds. Every bound is a CONSTANT of its module, given in the `.cfg` or in the `WITH` of the MC module.

* Requests: three in `numbers`, so that one holds a counter lock while another waits and a third
  reverts; two elsewhere, which let any two operations interleave between a read and its write.
* `numbers`: two jobs (a revert of one beside the creation of the next), two groups (a plan that partly
  overlaps another).
* `BulkJob`: two batches are the least with a last and a not-last one, two slots let a message be worked
  on twice at a time, two attempts let the last differ from the first, three faults combine e.g. a crash,
  a duplicate and an early watchdog. Two jobs were checked with one batch, one slot and two faults while
  the proofs were written; the proof needs no bound.
* `Settlements`: `Rows` bounds the rows ever created: two let an import replace what an earlier one
  brought, or bring a second period and miss the first. `Settled` is empty: the settled statuses take part
  in run `ends`.
* `Sessions`: four tokens are two sessions renewed once each, or one renewed three times; the times let a
  session reach its idle limit before, at and after its maximum.
* `PanelSession`: one session and two tokens keep the whole state graph within reach, a lost answer
  included. With two sessions `PanelInv` held in the 5 million states that were explored before the run
  was cut; the proof covers any number.
* `Templates`: two requests and one draft are the smallest instance in which two uploads, or an upload and
  the save of a draft, take the same number.
* `Conversation`: batches of one make every second change "left out"; two ids are a proposal and the one
  that replaces it; two confirmations in flight are one of an earlier conversation and one of this.
* Screens and forms: two or three calls in flight cross in every order; one fault is a request lost before
  or after the backend did it. Where a part is there twice, one instance has more calls and the other a
  fault or more of the data, which together would not fit.
* `TaxRollFile`, twice: every two rows out of one per check, sound ones and empty ones, alone or before a sound row,
  and one import ("reading"); three imports, by two Administrators into two municipalities, of files that state more
  and less of the same properties and owners ("importing"): what an upsert erases shows from the second on.
* `RenderService`: two requests, one slot, one batch, a cache for one of the two contents of a blob, which changes once. `BatchConversion`,
  three times, each with two faults: every input of one or two documents and every reason `mergeDocuments` has for not merging,
  with one attempt and a delivery too many ("batch"); three documents, so that one has neighbours on both sides, delivered
  once ("long"); two batches, one with data that does not fit, with two attempts ("retried"). `GuidedMarking` has a file with its fields marked by hand, whole and with the example row's tag cut.
* `AssistantLoop`: two tools and two calls reach the budget in the middle of a round. `AssistantLimit`: two
  messages per window of four instants, eight instants, one restart: two full windows and one in between.

Symmetry is used only in runs without liveness properties, over sets no definition distinguishes.
`CHECK_DEADLOCK FALSE` everywhere: jobs, drafts, tokens and calls are finitely many (each id once) and
nothing has to go on when all are over, so the system really may stop; where someone must not wait for ever
a property says so (`RequestsEnd`, `NothingForgotten`, `NeverLocked`, `NeverStuck`, the `...WaitingHas...` ones).

## 4. Fairness

* `CounterLock`: a transaction that holds its locks runs on (weak), and Postgres grants a row lock in turn to
  those waiting (strong on `LockCounter`); nothing makes a request start.
* `BulkJob`: the backend's loops and requests go on while it runs, the PDF service serves its queue while it is
  up, and the clock advances; nothing makes a user create a job, a stopped service start again, a fault happen
  or not happen. `JobsEnd` therefore holds even if the service never comes back (the watchdog ends the job).
* `Settlements`, `Templates`: only the hourly sweeps are fair (a timer, retried on the next tick when it
  fails); no request, import or job has to go on. Failures are as many as `MaxFaults` allows.
* `Conversation`, `JobScreen`: the backend handles and answers what it was sent, timers fire and jobs end;
  nobody has to click. A lost answer is a `Fails` step, which the client sees as an error.
* `AssistantLoop`: the deadline's timer fires, its abort is seen and a tool ends; the model need not answer.
* `LoginAttempts`, `Sessions`, `PanelSession`, `Municipalities` and the other screens: none; their properties
  are safety properties.

## 5. Proofs

TLC checks small instances; the theorems hold for every value of the constants that their assumption
admits. Each invariant below was first checked by TLC (as an invariant of an instance), then proved: `Init`
implies it, every action keeps it, it implies the property. The proof that it is inductive has one lemma or
step per action. What each module's theorems assume is a named `ASSUME` of the module (or a hypothesis of the
theorem) that TLC evaluates in a run; all say only what a constant *is*: that `Null` is no request, job or
token, that a function has its domain, that a limit is a natural number. A module of proofs may hold those of
several modules: the others are instances (`Screen`, `Service`, `Limit`...) with variables of their own.

**`CounterLockProofs`** - `NumbersContiguous` (`Contiguous`), `IssuedStays`, `RevertIsExact`
(`RevertUndoesOnlyItsJob`), `LinksAlwaysMatch` and `ImplementsBook` (`CounterLock` implements `NumberBook`).
The absence of gaps is not inductive: a revert keeps it only if the job's range is the top of its counter,
which holds only if nobody took a number after the job, which holds because an individual generation counts
the active jobs *after* it locked the counter and keeps the lock until its commit. `IInv` says each of these:
`TransactionShape`, `LocksHeld`, `CheckStillTrue`, `DocumentsOfJobs`, `OneActiveJob`, `NoGaps`, `RangeOnTop`.
For `LinksMatchDocuments` a group that is linked has a document of its kind, and reverts and issues move both in
one commit. The refinement reads the owner of a number off the documents, which needs each number to be of
one document (`NoGaps`); `LockCounter`, plans, checks and aborts are stutters.

**`SettlementsProofs`** - `FirmAlwaysStands` (`FirmStands`), `AlwaysOneCurrentEach`, `DecidedStays`
(`DecidedStands`), `AuditTrailHasNoHoles`, `FirmIsNeverBack`, `HistoryStays`. `FirmStands` is not inductive: a
commit writes what was decided on an earlier read. It stands because a final resolution is never taken away
again, so what was read stays true (`PlansStand`), and because the only step that unlinks resolutions, the
revert, meets none that is final (`JobIsRecent`). `OneCurrentEach` holds because one import runs at a time and
only imports change which settlements are current, so that when one commits it replaces exactly the current
settlements of the periods it creates (`ImportStands`); that needs the current settlement of a period to be
unique, or a final row could hide another one of its period (`CurrentUnique`).

In the screen Liquidaciones (`SettlementsScreenIsTrue`) the list is computed three times by different code: by the
backend's search, by the answer of a change, and by the page that patches its rows with that answer. `ListExplained`
says when they agree: the list is what the search finds now, but for the changes the backend made and whose answers
are still to come (`Unshown`), one of which may hide another only if it renews the list when it lands (`Renews`).
`AnswerAgrees` and the lemmas about groups (`MembersAre`, `WithIs`, `MovedIs`) say that each of the three leaves a row
the same. The proof found what TLC's bounds had not: a PDF asked when its row had a number, and whose number a job's
revert takes back before it is generated, issues a new one and does not read the list again; the model knows since then
(`behind` in `LandPdf`), see section 8.

**`PanelSessionProofs`, sessions** - `AlwaysOneLiveToken`, `SessionsEndOnTime` (`Inv`: one successor per token, no session past
its maximum), `MissedOnlyWhatCrossed` (`MissOnlyCrossings`) and `ImplementsBook` (`Sessions` implements
`SessionBook`). That a session has one live token needs that two renewals never hold the same one
(`OneClaim`), which is Postgres' row lock in the conditional UPDATE of `rotate`, and that what was exchanged is
dead (`ParentSpent`). A closing is two steps, so `ClosingOK` says what may have happened in between: the rows it
waits for are all the live ones of its session, or a renewal was given a successor of one of them. The same for
the password change (`ChangingOK`). From it follows exactly which requests a closing can miss.

**`PanelSessionProofs`, the browser** - `PanelInvariant`, `TabsNeverCollide` (`NoFalseReuse`) and `TabsUseSessions` (each step of
the tabs is a step of `Sessions` or none, so all of the above holds behind a browser). Here the danger is
between two programs: the backend closes a session whose token is presented twice, and tabs present the token of
a shared cookie that a late answer may replace or put back. `PanelInv` follows the token: the renewal in flight has
the turn (`InTurn`); what it brings, works with or is given was exchanged by nobody, unless its session is over
(`RenewalIsClean`); the cookie likewise, until its successor arrives (`CookieIsClean`); and the first token of a
login is with nobody else before its answer arrives (`SignInIsNew`). All of it holds as long as no answer of a
renewal was lost (`lost`): after that the cookie is an exchanged token, and the next renewal closes the session,
by design of the code. Assumed: the browser has `navigator.locks` (`HasLocks`).

`LoginsHoldTheWindow` and `LocksOnlyGrow` are about the lockout, for any limits and any number of attempts in flight.
`LoginInv` (`KeyOK`) relates, per email and address, the record of the tracker to the instants of all wrong passwords
so far: what a record counts is what is in its window, and a record that `prune` dropped or that started over could not
have locked. That the next lockout is at least twice as long needs that the record remembers the last one until the key
has been unlocked, and quiet, for the longest lockout (`LockOK`).

**`BulkJobProofs`** - `ProgressIsTrue` (`Inv`), `NothingIsForgotten`, `BlobsAreThere` (`NeededBlobsExist`) and
`ImplementsLifecycle` (`BulkJob` implements `JobLifecycle`). `IInv` has, per job: `Untouched` (before its
creation nothing knows it), `RowsTogether` (its batch rows are there while they are read), `Progress` (what was
counted, and that the counter is the number of rows counted), `Waits` (whatever a job waits for is in somebody's
hands: a message, a slot, a result, the dispatch, or is stale enough for the watchdog), `NothingMissing` (a task
still to be done finds its blobs), `ZipThere`, `CleanedWhenOver` (blobs are only deleted when no task will need
them) and `CopiesCounted` (each duplicate of a message or a result cost a fault). `Waits` is where the at-least-once
queues come in: a message is deleted only after its result was sent, and a result only after it was applied.

`RenderServiceIsTrue`: every PDF is of the template and the content it was asked with. `ServiceInv` ties three things:
what a task loaded is of the hash it was asked with, whatever was written to the blob meanwhile (`TaskOK`); the cache has
no template twice and at most its size (`CacheOK`); and free slots and the tasks that hold one add up (`SlotsOK`).

`BatchPromisesHold`, about what `BulkJob` assumes of a batch: several deliveries of its message may be at work on the
same blobs, one of them given up with its uploads still going on. `BatchInv` says what each delivery knows by where it is
(`RunOK`): who uploads works on a batch that is sound and fits, and the documents it no longer has to upload are there; who
answered left a result or a copy (`Kept`). Since results and copies only grow, and PDFs too while the job goes on, one
delivery's step keeps what the others know (`BatchMoves`), and a result, once it was true, stays so (`ResultOK`). That its
input and its PDFs are there is said only of a job that is going: once it is over they are deleted (`BatchJobKeeps`). Two
answers are excepted by name, because they are no fault of the batch: "attempts exhausted", which
`IsExhausted` ties to a delivery past the limit, and "input not found", to a job that is over. That pages are each document's own
(`OwnPages`) is a computation over sequences and stays with TLC.

**`TemplatesProofs`** - `AlwaysOneActive` (`OneActive`), `FilesAreKept` (`FileKept`), `DraftsStay`
(`DraftKeptUntilSaved`) and `NothingLeftBehind` (`Inv`). `LockHeld` makes the list of versions that a transaction
turns off, read statements earlier, still the active ones at its commit; `UploadsLand` says what each request put
where, so that only a rolled back transaction of the same number can have touched a version's file;
`DraftsInUse` and `SweptAreOver` say that blobs go before rows and only of drafts that are cancelled, saved or
expired.

The screen (`TemplatesScreenIsTrue`, `MarkingIsKept`) has requests of an upload, a preview, a save, a discard and the list
in flight at once, some of a screen that was left. `ScreenInv` says of each which draft and which visit it is about
(`CallsOK`, `UploadsOK`), what its answer can be (`AnswersOK`), that no call is about a draft the
browser remembers and the screen never opened (`StraysOK`), and that the preview shown is of the marking on the screen or is known not to be.
`MarkingIsKept` speaks of a draft while no save of it was answered: then the browser forgets the marking, though the draft may
stay until the sweep. A save may come from a screen that was left, so its answer is known by its draft and visit, like a discard's.

**`MunicipalitiesProofs`** - `AddressesAreDistinct`, `PropertiesOfTheirTown`, `LoadsWriteTheirOwn`,
`FrozenOnceLoaded`. A request writes on what it read: `CallsFound` and `LoadsFound` say what of it is still true
then. A DANE code may pass from one municipality to another while loads are on their way, so what holds is
stated with `had`, the municipalities that have had a code; and the freeze of slug and code holds but for an edit
that looked for data before the first load was committed (`crossing`).

`PanelIsTrue` is about the panel that works in one of them. `PanelInv` has a clause per thing the panel may wait for: the
list (`LoadComes`), the one extra look for a municipality that is not in it (`LookComes`), redirects and aliases
(`Redirects`), the rows of a section (`RowsOK`) and the form (`FormOK`); what was asked before the address changed is
known by the address it was asked at (`AsksOK`).

**`ConversationProofs`** - `ConversationInvariant` (`Inv`), `ChangesAreAllowed` (`EveryChangeAllowed`) and
`NothingIsLeftOut` (`LeftOutAskedAgain`). `Inv` lacks what was answered to the request in flight
(`AnswerIsThere`) and that "Reintentar" has a request to repeat (`RetryIsKnown`); `IInv` has both. The argument
is about two lists of entries: every operation of the reducer leaves the questions about an Excel as they are
(`SameQuestions`) and puts no proposal in "applying" (`NoneApplied`), but `Apply`, which sends the confirmation
in the same step, `OpenUnlisted`, which asks only about what is not settled, and `SettleUnlisted`, after which
exactly what was asked and is not settled is asked (`SettleIs`). A confirmation of an earlier conversation may
settle a proposal of this one that has the same id, and the theorems hold all the same. `ChangesAreAllowed`
rests on nothing the panel keeps: `confirm` checks every row again when it applies.

`LimitIsTrue`: no window of time, wherever it starts, lets through more than its allowance and what restarts give back,
though the limiter only looks at the window that ends now. `LimitInv` (`WindowsOK`) counts every window that is still
open with the instants the limiter keeps; those are the places of a sequence, counted with the library's facts on cardinality.

`RoundsAreTrue`: `LoopInv` has that the turn being worked on asked for what ran and what is left of its calls (`RoundOK`),
that what is left still fits the budget (`BudgetOK`), and that every results turn answers, one to one, the calls of the
turn before it (`RoundsAnswered`); no turn has a document number in it.

**`ScreensProofs`** - `JobScreenTyped` and `JobsAreRemembered` (`RememberedUntilOver`), `OrdersScreenIsTrue`,
`RollScreenIsTrue`, `ConsultationIsTrue`. The danger is always an answer that lands after the screen has moved on.
`JobInv` makes every answer on its way true of its job, at the time it was given and since (jobs only go forward,
`JobsGoOn`); so whatever lands, in any order, the browser forgets a job only when it is over. `OrdersInv` keeps the sets
of properties that have or had an order, because a revert may take back what an answer on its way says. `RollInv` has
that one import is in flight and nothing else can be sent while its dialog is open. `PublicInv` counts: each visit and
each click has a number (`VisitsOK`, `QueriesOK`), and the list shown is what its criteria found when it was read, and is
still if nothing of it changed since (`FoundOK`).

## 6. Only model-checked, and why

* Liveness, which the prover does not do: `RequestsEnd`, `FirmEventually`, `ExpiredAreSwept`, `JobsEnd`,
  `FaultlessJobsDeliver`, `NeverStuck`, and `NeverLocked` of the conversation.
* What folds compute over a document, a file or a batch, which is an induction over data: `GuidedMarking`, `TaxRollFile`
  (`FileIsTrue`), `OwnPages` of `BatchConversion`, and of `AssistantLoop` what a reply carries (`AnswerIsTrue`, of which
  the budget and the other answers are proved) and the turns as the provider gets them (`ProviderCanAnswer`, whose
  rounds are proved of the turns before their conversion).
* The side-by-side properties (`BackendIsTrue`, `PagesAreTrue`, `BrowserIsTrue`, `StepsAreTrue`, `PartIsTrue`,
  `MarkingKept`, `MCScreens`' `Inv`) are about fixed instances of several modules, so no theorem states them. What they are
  made of is proved for every instance, but for what the point above and liveness leave to TLC: of `BackendIsTrue`,
  `LinksMatchDocuments`, the limiter and the rounds; `PagesAreTrue`, `BrowserIsTrue` and `StepsAreTrue` in all their parts;
  of `PartIsTrue` the PDF service, the deliveries of a batch and the templates' screen; of `MarkingKept` the browser's
  half; of `MCScreens`' `Inv` all but the file's.

## 7. Findings

1. *A job can stay PREPARING* (run `stuck_preparing`). `sweep` fails stalled RUNNING and ASSEMBLING jobs only
   (`pdf-jobs.service.ts:1051`), against its comment ("jobs without progress for JOB_WATCHDOG_MINUTES are failed
   and reverted", `:1036`). When the dispatch fails because the database does, and the revert in its catch fails for
   the same reason, the job stays active until the next restart, and blocks every generation of the municipality.
2. *A final settlement can be replaced* (run `final_replaced`). The import replaces by id what it read before
   (`persist-tax-roll.ts:252`); a settlement that became EN_FIRME in between is replaced, against "a final
   liquidation is never replaced from a tax roll" (`:25`).

## 8. Read while modelling

What follows is not the subject of a run; each is a behaviour of the code that a model reaches or that was read
beside it, and that a maintainer may want to know.

*Settlements and documents.* The link UPDATE of payment orders does not look at the status
(`issue-payment-orders.ts:63`), nor `changeStatus` at the payment order it read (`settlements.service.ts:251`): a
settlement paid after the plan gets an order, or PRESCRITA beside a recent one. An import that waits for a
confirmation has already written the properties, owners and links of its file (`persist-tax-roll.ts:114`), against "this pass
persists nothing at all [...] so the Administrator can cancel without any partial write" (`:15`): `Import` does so, and
`AnswerIsTrue` speaks of its settlements only. A later row with a blank "Nombre Predio" erases the address of its property,
though it keeps the place and the land use (`persist-tax-roll.ts:129`). An import counts active jobs before
its commit, not in it (`tax-roll.service.ts:138`): a job created in the same instant can lose its settlements. A final
settlement that an import brings back keeps its `missingSince` (`persist-tax-roll.ts:217`, `schema.prisma:175`). The
batch rows of a job stay if the backend stops between the DONE update and the `deleteMany` after it
(`pdf-jobs.service.ts:886`). A delivery past the limit of attempts reports a batch failed, and so has its job reverted, though
an earlier delivery still works on it or has done it (`worker.ts:300`); one that comes after the clean-up of its job answers
INVALID_MESSAGE (`:53`), which changes nothing. `canPrescribeFromFirm` (`payment-order-rules.ts:111`), used only by its tests, answers
differently from `settlement-status-rules.ts` for a settlement without payment order. An individual request may
render the resolution of a job that is still active and deliver a number that the job's revert hands back
(`generate-liquidation-pdf.service.ts:130`).

*Sessions.* A renewal that crosses a logout leaves the session open (`session.service.ts:111`); `refresh` clears the
cookie after any error (`auth.controller.ts:123`), a database that does not answer included; a page reloaded during a
renewal presents the exchanged token and closes the session; the late answer of a logout or of a refused renewal wipes
the cookie of a newer login; a tab that signed out can get an in-memory token back from a renewal that was on its way.
`MAX_TRACKED_KEYS` is called an upper bound (`login-attempt-tracker.ts:11`), but `prune` deletes stale records only.

*Templates.* A version may have another's file when the transaction that had its number was rolled back after its upload
(`templates.service.ts:519`; `FileKept` excepts exactly this). A removed draft can leave a preview blob (`:689`). The
version replaced may not be the one the dialog names (`GuidedMarkingDialogs.tsx:12`). A double click on Guardar while the
versions load sends two saves, the second answered "not found"; a save asked then saves the marking of the click even if
edited since (`GuidedMarking.tsx:563`), and goes on when the screen was left: what was marked after coming back is then lost
with the draft. A `{#rows}` that Word cut over several runs is not seen by `wrapRow` (`guided-marking.ts:336`): the row is
wrapped twice, and the save refused with TEMPLATE_FIELDS_INVALID. The commit of a version whose answer is lost
is taken for a failure, and its file deleted (`templates.service.ts:300`). A late answer of one draft can close the marking of a newer one
(`TemplatesPage.tsx:55`). Reloads of the history may land out of order (`DocumentTemplates.tsx:137`). Two versions
download at a time, against "one at a time" (`useTemplateDownload.ts:7`). A marked table that needs its last row removed
is refused; `ReadyToSave` is not enough when a document's field was marked in the example row (`MarkerChecklist.tsx:156`).

*Screens.* Liquidaciones: a search repeated after an effect may land over a newer one (`SettlementsPage.tsx:80`,
`:234`); the failure of a change may show in another row's sheet and its retry updates that row's periods (`:190`); two
changes in flight may land out of order; a number may be issued without asking after a job's revert
(`GeneratePdfDialog.tsx:9`); a PDF asked when its row had a number reads the list no more (`:223`), even if it had to issue
a new one because a revert took that number back meanwhile. Tax roll: that sending a spent file again "would change nothing" (`TaxRollUploadPage.tsx:61`) stops
being so when others load or change something; closing the card makes the confirmation go without its import (`:155`). Payment orders: what is shown may be of another
Excel (`PaymentOrdersPage.tsx:93`, `:135`). Jobs: a late restore can overwrite the job being followed (`usePdfJob.ts`).
Public form: the late answer of a PDF sets the error of a row that was not clicked; its PDF lists replaced settlements that
its list does not.

*Assistant.* An answer may mark a proposal that is not its own after a retry (`useSlompsimConversation.ts:63`); two
proposals may be open at a time (`slompsimConversation.ts:133`). A failed proposal after a good one leaves the earlier in
the reply; the deadline does not bound a tool that is running, only the next round; a proposal made before it is lost. When
the answer of a confirmation is lost, applying it again finds its settlements `unchanged`, which the panel ignores.

*Municipalities.* Slug or DANE code can change after a first load was committed, by an edit that looked before it
(`municipalities.service.ts:59`); a load can edit another municipality's property while its DANE code passes from one to the
other (`persist-tax-roll.ts:93`); two identical PATCHes: the second is refused for a conflict with itself (`:159`). An older
list read that lands after `add` unmounts the new municipality's screen (`useMunicipalities.ts:34`); a late failure of the
first read replaces a list another read brought (`:24`); a creation whose answer was lost is "taken" by itself; a call made
between the change of the address and its event goes to the new municipality.

## 9. Not modelled, and why

* *Contents of documents, XML, LibreOffice, formats of cells and amounts*: transformation of data with unit tests
  of its own; what depends on them is in `GuidedMarking`, `TaxRollFile` and `BatchConversion`.
* *The internal key of the PDF service*: a call without it changes nothing.
* *Concepts of a settlement*: written with it and read with it.
* *The composition of modules that share a table*: `CounterLock`, `BulkJob` and `Settlements` meet in "a job is active or
  over"; each assumes of the others what their own properties give (numbers, life of a job, links).
* *Access tokens, audit of logins, the deletion of accounts*: not kept, or not in the code.
* *Views that only show what they read, health checks, infrastructure, end-to-end tests*: no protocol.
* *Left out inside modules that model the rest*: an empty reply of the assistant adds no entry to the conversation
  (`domain/slompsimConversation.ts:213`; `Conversation` always adds one) and others may change an ordered row too (its `Elsewhere`
  does not): both were tried, and make the run far too long. The commit of a version whose answer is lost (`Templates`,
  section 8). An answer of the PDF service with an unexpected body (`pdf-service.client.ts:155`; `RenderService`): an error
  like the others. A job of another tab adopted after an individual generation was refused (`PaymentOrdersPage.tsx:266`), and a
  job that is no longer there (`usePdfJob.ts:166`, `:220`; `JobScreen`): no job is deleted.
* *Row lock order within one UPDATE*: up to Postgres; a deadlock it resolves is an `Abort`.
* *Several municipalities in one model*: every query is scoped by municipality; `Municipalities`, `AdminPanel` and
  `Conversation` have two, where what crosses them is the question.

## 10. Plan

1. Composition of `CounterLock` and `Settlements` through an abstract specification of the documents that both implement.
2. `BatchConversion` as a refinement of what `BulkJob` assumes of a batch.
