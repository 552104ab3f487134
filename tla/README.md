# Smart Bill Manager: a TLA+ model

Smart Bill Manager keeps the payments, invoices and business trips of a small
group of users. Payments come in as screenshots and invoices as PDF files or
from a mailbox; an OCR queue reads them; the user confirms the drafts; trips
collect the payments of their time range. The server is one Go process over one
SQLite database and one directory of uploaded files (`backend-go/`), with a Vue
client (`frontend/`) and Python recognition scripts (`scripts/`).

The hard part is not the amount of code but how little protects it: most
handlers are sequences of autonomous SQL statements, several browser tabs,
one task worker, a reaper, a draft sweeper and mail monitors run at the same
time, the directory of files takes part in no transaction, and a Python process
hangs or dies when it likes. These modules state what nevertheless holds, check
it with TLC on small instances, and prove the most important of it with TLAPS
for all of them. Paths below are relative to `src/backend-go/internal/` unless they
start elsewhere.

## 1. Inventory

| Component | Source | State | Operations | Interacts with | Module |
| --- | --- | --- | --- | --- | --- |
| Task queue | `services/tasks.go`, `handlers/tasks.go` | table `tasks`; wake channel; worker; root context | create (look up, insert, wake), cancel, claim, run, finish, reap | uploads create tasks; a run calls the OCR services; account deletion removes rows | `TaskQueue` |
| Trips and assignment | `services/trip.go`, `trip_assignment.go`, `trip_pending.go`, `bad_debt.go` | `trips` with the cached `bad_debt_locked` | create, update, delete with or without payments, assign or block a pending payment | rewrite `payments.trip_*`; delete payments, invoices, links, files | `TripLedger` |
| Payments | `services/payment.go`, `repository/payment.go` | `payments`: time, amount, trip, assignment source and state, bad debt, draft | create, update, delete | automatic assignment reads the trips; flags of trips | `TripLedger`, `ScreenshotDrafts` |
| Screenshot drafts | `handlers/payment.go`, `services/payment.go`, `dedup_queries.go`, `draft_cleanup.go` | `payments.screenshot_path`, `file_sha256`, `is_draft`; the files | two upload endpoints, confirm, cancel, delete, expire | OCR writes into the draft; the sweeper removes it | `ScreenshotDrafts` |
| Invoices and links | `services/invoice.go`, `repository/invoice.go` | `invoices` with the legacy `payment_id`, `invoice_payment_links` | create, update, delete, link, unlink | payments; flags of trips | `TripLedger` |
| Invoice drafts and attachments | `handlers/invoice.go`, `services/invoice*.go`, `repository/invoice_attachments.go` | `invoices` with file, hash, number, duplicate mark; `invoice_attachments`; the files | upload (alone, many, asynchronously), recognise, confirm, edit, attach, delete, expire | task queue, e-mail import, trips | `InvoiceIntake` |
| E-mail import | `services/email_parse.go`, `invoice_parsed.go` | the `parsed_*` columns of a log | import a message as invoice, attachments and further invoices | invoices, mail server | `InvoiceIntake` (control) |
| E-mail monitor | `services/email_monitor.go`, `repository/email.go`, `handlers/email.go` | map of IMAP connections, running full synchronisations, `email_logs` | start, stop, IDLE loop with debounce, manual check, full sync, reconcile, clear, delete | the mail server; logs are imported | `EmailMonitor` |
| Accounts and invites | `services/auth.go`, `admin_users.go`, `invites.go`, `middleware/` | `users`, `invites`; tokens | set up, invite, register, log in, disable, delete, act as | deletion removes everything the user owns | `Accounts` |
| OCR calls and worker | `services/ocr_worker.go`, `limits.go`, `scripts/ocr_worker.py` | a child process, its pipes, its exit channel, one mutex, limiter slots | request and answer, restart, fall back, stop | recognition | `OcrCalls` |
| Regression samples | `services/regression_samples.go`, `cmd/regression_export` | `regression_samples`; `testdata/regression` | mark, delete, export, redact, import at start | payments and invoices; the repository | `RegressionSamples` |
| Start and migrations | `migrations/`, `services/email_*migrations.go`, `email_password_crypto.go` | `schema_migrations`, indexes, the key file | versioned steps at start, merge of duplicate logs, encryption of passwords | all tables | `Startup` |
| Matching | `services/matching.go`, suggestions of `invoice.go`, `payment.go` | none of its own | suggest payments for an invoice, invoices for a payment | reads rows and links that change | `Matching` |
| Process life cycle | `cmd/server/main.go`, `app/app.go` | root context, wait group | start, SIGTERM, wait at most 15 s | worker, reaper, sweeper, monitors | `TaskQueue`, `Startup`, `OcrCalls` |
| Money, cursors, hashes | `utils/`, `pkg/` | none | conversions | everything | `Startup`, `Matching` (parts) |
| Request guards | `middleware/` | windows of the rate limiter | limit, confirm acting as a user | every request | - |
| Client composables, views | `frontend/src/` | page, abort controller, poll timers | load, page, poll | the API | - |
| Recognition | `services/ocr.go`, mail and PDF parsing | none | pure functions over one document | called by the above | - |
| Reports, exports, configuration | `services/`, `config/` | none | read-only streams, environment | - | - |

### What is hard, and what makes each component correct

* **Task queue** - look-up and insert are two statements, select and claim are
  two statements, a row is queued exactly when the worker is about to sleep, a
  result arrives after a cancel or a time-out, the last UPDATE fails, the
  process dies. Correct when: terminal rows stay terminal, nothing runs twice,
  "succeeded" means a committed result, a claim passes over an older row only if that
  row came after the look for the oldest, no wake-up is lost, shutdown is quiet, and every row is settled at last.
* **Trips, payments, links** - the same five columns are written by trip
  edits, the pending list, payment edits, and automatic assignment from a copy
  read earlier; `bad_debt_locked` is a cache refreshed after the commit, by statements
  whose errors are dropped; cancelling an upload deletes a draft and not its links.
  Correct when: deleting a trip never removes a bad debt, links join rows that
  exist, decisions made by hand survive calendar edits, automatic ones follow
  them, and every bad payment's refresh reaches its trip.
* **Screenshot drafts** - files and rows change in different steps of
  overlapping requests; a trip is deleted with the files on a list made before;
  a payment typed in may name any file. Correct when: one screenshot becomes at most one
  payment, a payment made from a screenshot keeps its file, a file without a row goes, and
  abandoned drafts go - each but for named steps.
* **Invoice drafts and imports** - the same, with attachments, a second
  duplicate check by number, a trip deletion that works from an old list of
  files, and an import of five hundred lines with a dozen exits. Correct when:
  one upload becomes one invoice, of two imports of one number one is marked,
  a log does not stay in "parsing", a row that stays keeps its files.
* **E-mail monitor** - a monitor that ends removes the map entry of its
  successor, two starts overlap, a fetch works from a largest UID read earlier
  while others insert and clear, and nobody takes the updates of the connection
  while a fetch runs. Correct when: the status tells the
  truth and recovers, no message is skipped, no present message is hidden.
* **Accounts** - counts are taken before the UPDATE they justify, a role is
  taken from an old token. Correct when: an administrator remains, an invite
  makes one user, claims are true.
* **OCR calls** - an answer nobody waits for stays in the pipe, an exit is seen
  by one of two looks, a mutex is held for a whole time-out. Correct when: an
  answer belongs to its request, nothing is left in the pipes, a dead process
  is replaced, calls and shutdown end.
* **Samples** - a text is hashed, redacted, exported, committed, built and
  imported again; two unique indexes meet. Correct when: the table says what the
  repository says, and a hash is that of the original text.
* **Start** - a kill falls between any two of a dozen steps that must not run
  twice. Correct when: passwords stay readable, a column of a merged log does not
  become empty, what is served is migrated, and the server comes up.
* **Matching** - SQL cuts the candidates before the score sees them. Correct
  when: a perfect match is not cut, what is linked is not offered.

`PROJECT.json` lists every hazard with its line and the properties about it; a
hazard without a property, or with a limit to it, says why.

## 2. Plan

The order was: the queue and its refinement; the ledger; drafts and their files;
then the monitor, invoices and imports, accounts, the OCR process, samples, the
start, matching. All of these are written and checked, and every invariant and
action property a run checks is a theorem as well.

What is left, in the order of its worth:

1. The `dedup_status` mark and `ReparseScreenshot` of payments; the normalised
   invoice dates and the back-fill of the other tables in `Startup`.
2. The client's paging and polling (`frontend/src/composables/`), the limiter and the keyset
   cursor of listings.

## 3. Modules

| Module | Contents |
| --- | --- |
| `TaskLifecycle` | what the queue promises about one row, whoever acts on it: the abstract specification |
| `TaskQueue` | the queue as coded; `Lifecycle` says that it implements `TaskLifecycle` (`INSTANCE ... WITH` a refinement mapping) |
| `UploadLifecycle` | what the tables of payments and of invoices promise of the rows uploads make, a confirmation being one step: the abstract specification |
| `TripLedger` | trips, payments, invoices, links, the bad-debt flag |
| `ScreenshotDrafts` | files, draft rows, recognition, sweeper; `Lifecycle` says that it implements `UploadLifecycle` |
| `InvoiceIntake` | invoices, attachments, their files, and the import of a message; `Lifecycle` says that it implements `UploadLifecycle` |
| `EmailMonitor` | one mailbox, its monitors and checks, and the table that mirrors it |
| `Accounts` | accounts, invites, tokens |
| `OcrCalls` | calls, the worker and the Python process |
| `RegressionSamples` | samples from mark to import |
| `Startup` | the start of the process over an older database |
| `Matching` | suggestions and their score |
| `TripLedgerProofs`, `ScreenshotDraftsProofs`, `EmailMonitorProofs`, `AccountsProofs`, `MatchingProofs` | the theorems about the module they are named after |
| `WorkerProofs` | the theorems about `TaskQueue` and `OcrCalls`: what runs in the background |
| `InvoiceProofs` | the theorems about `InvoiceIntake` |
| `StartProofs` | the theorems about `Startup` and `RegressionSamples`: what runs before the server listens |
| `MC...` | values and symmetry for TLC |

Common conventions. One SQL statement, or one transaction, is one step:
SQLite runs a single writer over WAL (`pkg/database/sqlite.go`), and a transaction
that read what another one has changed since cannot become a writer, so one
that commits took place at one moment. What
a request keeps between its steps is in a record (`req`, or `cpc`/`ctarget` and
`wpc`/`wtask` in the queue) with a program counter `pc`; what other goroutines
do falls between. A row that was never inserted is `Unborn`, "unborn" or
"absent", a deleted one `Gone` or "gone": ids are UUIDs and are not used again.
One user's data is modelled because every query filters on the owner; `TaskQueue`,
`Accounts`, `Startup` and `Matching` have several. Users decide freely which
request comes next. `PROJECT.json` ("map") gives the lines of every definition.
Actions with no code of this repository behind them (the IMAP server, a kill, a
commit) are marked external there.

### TaskQueue

| Code | Actions |
| --- | --- |
| `createTaskInternal`: look up an active row of the target, stamp and insert, `wake()` | `CreateHit`, `CreateMiss`, `CreateStamp`, `CreateInsert`, `CreateInsertFails`, `Wake` |
| `CancelTask` | `CancelTask` |
| `DeleteUserCtx` | `DeleteUser` |
| `processOne`: select, claim, re-read, run, finish | `SelectTask`, `SelectNone`, `ClaimTask`, `ClaimLost`, `WorkerStatementFails`, `SkipCanceled`, `StartRun`, `RunCommits`, `RunFails`, `FinishTask`, `FinishFails` |
| loop of `StartWorker` | `FallAsleep`, `Woken`, `TimerFires`, `WorkerStops` |
| `reapStuckProcessing` | `TTLElapses` (time), `Reap` |
| `main.go`: SIGTERM, wait, exit; supervisor | `Shutdown`, `Exit`, `Restart` |

Two details of the code matter. Statements of the worker carry the root
context, the OCR run does not: after a shutdown a run still commits its result
but its row stays in "processing". And the last UPDATE is guarded by
`status = 'processing'`, which is what keeps a late result from reviving a
canceled or reaped row. `started` is a history variable (runs begun), used by
the refinement. gorm takes `created_at` from the clock before the INSERT runs, so
`CreateMiss` (the look-up), `CreateStamp` and `CreateInsert` are three steps and
overlapping requests may insert in the other order than they were stamped: `born`, `cstamp`
and `clock` stand for this, and `late` is a history variable, the rows inserted
between the worker's SELECT and its claim. The wake-up of
`CreateHit` for a row found queued is part of the code and modelled. The order
of two rows with the same `created_at` is left open.

### TripLedger

| Code | Actions |
| --- | --- |
| `TripService.Create`, `Update`, `DeleteWithOptions` | `CreateTrip`, `UpdateTrip`, `DeleteTripCascade`, `DeleteTripKeep` |
| `AssignPendingPayment`, `BlockPendingPayment` | `AssignPending` then `AssignPendingCommit`; `BlockPending` |
| `PaymentService.Create` and the upload of a draft | `CreatePayment`, `UploadDraft` |
| `PaymentService.Update` | `ReadBefore`, `UpdateCommit`, `ReadAfter`, `AutoAssign`, `ReadAfter` |
| `PaymentService.Delete` | `DeletePayment`, `DeletePaymentCommit` |
| `DeleteDraftByScreenshotPath` (the cancelled upload) | `CancelUpload` |
| `cleanupDraftsOnce` | `SweepDrafts` |
| `ProcessPaymentOCRTask` | `OCRSetsTime` |
| `InvoiceService.Create`, `Update`, `Delete` | `CreateInvoice`; `ReadInvoice`, `UpdateInvoiceCommit`; `DeleteInvoice`, `DeleteInvoiceCommit` |
| `LinkPayment`, `UnlinkPayment` | `LinkPayment`, `UnlinkPayment`, then `ReadLinked` |
| `recalcTripBadDebtLocked` | `CountBadDebt`, `WriteFlag`, once for each trip in `todo` |
| a statement after the commit that fails, its error dropped; a kill | `RequestEnds` |

`Matched`, `InRange`, `Recompute`, `Affected`, `BadUnder` and `Patched` are the
pure parts of those functions. The three counts of `recalcTripBadDebtLocked`
are one step here; the UPDATE that follows is another. A request may end before any
statement that follows its commit, so a flag can stay as it was. Three history
variables name the accidents the code allows: `doubt` are the trips whose flag was
left behind, by a refresh that never came or by a count that was outdated when it was
written; `canceled` are the drafts removed by the bare DELETE of a cancelled upload,
which leaves their links; `outdated` are the payments an update wrote while the
trip it had read was no longer theirs. Amounts, names
and reimbursement status influence none of this and are left out.

### ScreenshotDrafts

| Code | Actions |
| --- | --- |
| `UploadScreenshotAsync`, `UploadScreenshot` | `UploadSave`, `UploadFind`, `UploadStat`, `UploadRepoint`, `UploadInsert` or `UploadInsertRead` and `UploadMark`; `UploadFails`, `UploadRepointUnread` |
| `ProcessPaymentOCRTask` | `OCRRead`, `OCRWrite` |
| `PaymentService.Update` with `confirm` | `ConfirmRead`, `ConfirmHash`, `ConfirmCandidates`, `ConfirmWrite` |
| the same without `confirm`; `Create`, with any path | `EditPayment`, `CreatePayment` |
| `CancelUploadScreenshot` | `CancelRemove`, `CancelDelete` |
| `PaymentHandler.Delete` | `DeleteRead`, `DeleteCommit`, `DeleteFile` |
| `DeleteWithOptions` of a trip, its payments too | `TripList` (the preview), `TripCommit`, `TripRefused`, `TripFile` |
| `cleanupDraftsOnce` | `Expire` (time), `SweepRows`, `SweepFile` |
| process death and restart | `Crash` |

`key` stands for amount and transaction time together: payments of one amount,
at times from `Moments`; `None` is an amount or time that was not recognised.
`Create` stores the `screenshot_path` it is given without asking whose it is: any
path a client has been shown (`HasBeenShown`) may come with it, and the payment then has
no hash. Which payments a trip has is the ledger's
matter, and it may change between any two steps: the deletion of a trip takes
any set of confirmed payments when it lists their files and any other set
when it deletes the rows.
The mishaps of the environment are a constant, so a run can say which of
cancellations, crashes and failing statements of an upload it allows. Both
modules have `payments.is_draft`: the ledger cares about trips and flags, this
one about files and duplicates, and neither reads the columns of the other,
except that the ledger changes the time of a payment freely
(`OCRSetsTime`, patches) as the drafts do with `key`.

### InvoiceIntake

| Code | Actions |
| --- | --- |
| `Upload`, `UploadMultiple` | `UploadSave`, `UploadFind`, `UploadInsert`, `UploadFails` |
| `UploadAsync`, `UploadMultipleAsync` | `AsyncSave`, `AsyncFind`, `UploadStat`, `UploadRepoint`, `UploadRepointUnread` |
| `InvoiceService.Create`, `CreateFromExtracted` | `CreateInsert`, `Look`, `Mark`, `CreateUnmarked` |
| `ProcessInvoiceOCRTask`, `Reparse` | `ParseRead`, `ParseWrite` |
| `InvoiceService.Update` with and without `confirm` | `ConfirmRead`, `ConfirmHash`, `ConfirmNumber`, `ConfirmStatus`, `ConfirmWrite`; `EditInvoice` |
| `InvoiceHandler.Delete`, `DeleteWithOptions` of a trip | `DeleteRead`, `DeleteCommit`, `RemoveFiles`; `TripPreview`, `TripCommit`, `TripRefused` |
| `UploadAttachment`, `DeleteAttachmentCtx` | `AttachSave`, `AttachCount`, `AttachInsert`, `AttachFails`; `DeleteAttachment` |
| `cleanupDraftsOnce` for invoices | `Expire` (time), `SweepRows`, `SweepFiles` |
| `ParseEmailLogCtx` | `ImportRead`, `ImportParsing`, `ImportFetch`, `ImportNoPdf`, `ImportSave`, `ImportRetries`, `ImportNoInvoice`, `ImportExtra`, `ImportFinish`, `ImportFails` |
| process death | `Crash` |

Links to payments are `TripLedger`'s, tasks are `TaskQueue`'s: recognition of an
uploaded row may run at any time, which is what the queue allows. What a message
contains is a choice made at `ImportFetch`; the import then goes on from
one artifact to the next as the code does, each one saved, found again or failed.
`rough` records that a statement failed or the process died.

### EmailMonitor

| Code | Actions |
| --- | --- |
| `StartMonitoring` | `StartBegins`, `StartFails`, `StartRegisters` |
| `monitorInbox` with its debounce goroutine | `MonitorSelects`, `SelectFails`, `MonitorIdles`, `TimerFires`, `DebounceFetched`, `DebounceStops`, `MonitorEnds`; `ReaderBlocks` |
| `ManualCheckWithOptions`, `tryBeginFullSync` | `CheckBegins`, `TryBeginFullSync`, `CheckEnds` |
| `fetchEmails`, incremental | `NewSelect`, `NewRange`, `NewBaseline` |
| `fetchEmails`, full, in its modes | `FullSearch`, `FullScan`, `FullFallback`, `ReconcileDeletedLogs` |
| `processMessage` | `ProcessMessage`; any command may fail: `FetchFails` |
| `StopMonitoring`, `DeleteConfig`, `ClearLogs` | `StopRequest`; `DeleteStops`, `DeleteCascade`; `ClearStops`, `ClearRows` |
| a new process | `Restart` |
| the IMAP server (external) | `MailArrives`, `MailGoes`, `LinkDrops` |

A connection is a goroutine with a job: the messages a FETCH returned that are
still to be processed, and where a full scan stands. Closing the connection
does not stop the goroutine that works on what it already has, so a job
outlives its entry in the map, as in the code. go-imap has one reader per connection,
and it hands the updates of the mailbox to a channel without a buffer; while the
debounce goroutine fetches nobody receives from it, so the reader may block (`ReaderBlocks`). A
blocked reader hears no answer and no end of the connection: commands and IDLE
on it do not return, and the entry stays in the map. `rough` is a history variable: it
becomes true at the events after which the code does leave gaps (`NoGap` lists them).

### Accounts

| Code | Actions |
| --- | --- |
| `SetupAdmin`, `CreateInitialAdminCtx` | `SetupBegins`, `CreateInitialAdmin` |
| `InviteRegister`, `RegisterWithInviteCtx` | `RegisterBegins`, `RegisterHashes`, `RegisterWithInvite` |
| `LoginCtx`, `GenerateToken` | `Login` |
| `AuthMiddleware`, `RequireAdmin`, `ActAsConfirmMiddleware` | `AuthMiddleware`, `RequireAdmin`, `MayActAs` in each request's first step |
| `SetActive`, `Delete` of users | `SetActiveBegins`, `FindToSwitch`, `SetUserActive`; `DeleteBegins`, `FindToDelete`, `DeleteUser` |
| `CreateInvite`, `DeleteInvite`, expiry | `InviteBegins`, `CreateInvite`; `UninviteBegins`, `FindInvite`, `DeleteInvite`; `InviteExpires` |
| a request on data, maybe for another user | `WorkBegins`, `WorkWrites` |
| a statement that fails | `RequestFails` |

The middleware reads the account of the token and keeps the role of the claims:
both are in the request's record, and the counts, look-ups and writes of the
handler follow as steps of their own.

### OcrCalls

| Code | Actions |
| --- | --- |
| `recognizeWithRapidOCRArgs`, `acquire`, its context | `CallBegins`, `AcquireSlot`, `SlotRefused`, `ContextExpires`, `RunsCli` |
| `recognizeLocked` | `Lock`, `EnsureStarted`, `Write`, `WriteFails`, `Read`, `ReadError`, `ReadTimeout` |
| `ensureStartedLocked`, `shouldRestartLocked`, `startLocked`, `stopLocked` | operators `Starts`, `ShouldRestart`, `StopLocked` of `EnsureStarted` |
| `cmd.Wait` | `WaitReturns` |
| `StopOCRWorker` | `StopBegins`, `StopEnds` |
| `scripts/ocr_worker.py` | `PythonAnswers`, `PythonPrints`, `PythonDies` |

The pipes are sequences of lines, the exit channel has its one place, and the
text of an image is named after the call it belongs to, which is what
`AnswersMatch` compares. Python may do nothing at all, at any point.

### RegressionSamples

| Code | Actions |
| --- | --- |
| `MarkPayment`, `CreateOrUpdateFromPayment`, and for invoices | `MarkReads`, `MarkByHash`, `MarkBySource`, `MarkUpdates`, `MarkInserts` |
| `Delete`, `BulkDelete` | `Delete`, `BulkDelete` |
| `PrepareExportZip`, `cmd/regression_export` | `ExportZip`, `ExportCommand` |
| `ImportRepoSamples` at the start | `Start`, `ImportFile`, `ImportFails`, `ImportEnds`, `Serve`; `Stop` |
| commits to the repository, edits of records (external) | `Committing`, `Removed`, `EditRecord` |

### Startup

| Code | Actions |
| --- | --- |
| `run` of `main.go` | `Launch`, `ListenAndServe`, `ListenFails`, `Stops`; `Killed` at any step |
| `migrateSchema` (AutoMigrate) | `MigrateSchema` |
| `migrations.Run` | `Versions`, `MigrateLegacy`, `MigrateMoney`, `MigrationFails` |
| `EnsureEmailLogUniqueIndex` | `FindDuplicates`, `PassesOver`, `MergeUpdate`, `MergeDelete`, `MergeEnds`, `MakeIndex` |
| `EnsureEmailConfigPasswordsEncrypted`, key file | `LoadKey`, `CreateKeyFile`, `WriteKeyFile`, `EncryptLegacy`, `EncryptEnds` |
| `CreateConfig`, `processMessage` of an older build | `SaveConfig`, `LogTwice` |

The tables may be those of any earlier version: with or without the new
columns, with amounts but no cents, without owners, with duplicate logs, with
plain passwords. A merge (`Merged`) keeps the row that scores best, fills its empty columns with the
youngest other row's word and raises its numbers to the greatest; where rows
disagree, the word of the others goes. Money is converted with its
rounding and its range (`FromMajor`, `ToMajor`), both signs; an amount out of range fails the
migration, at this start and every later one. Amounts are whole thousandths: up to
7*10^13 a float64 tells neighbouring thousandths apart, beyond that it is coarser.

### Matching

| Code | Actions and operators |
| --- | --- |
| `SuggestPaymentsCtx`, `SuggestInvoicesCtx` of both services | `Ask`, `ReadLinked`, `Query`, `ReadRecent`, `Rank`, `Leave` |
| their SQL: windows, day, order, LIMIT | `Near`, `OfThatDay`, `PaymentDistance`, `PaymentCandidates`, `InvoiceCandidates`, `FirstOf` |
| `matching.go` | `AmountScore`, `DateScore`, `ParseFlexibleDateTime`, `NormalizeName`, `BigramJaccard`, `MerchantScore`, `Score` |
| `LinkPayment`, `UnlinkPayment` meanwhile | `LinkPayment`, `UnlinkPayment` |

`LIMIT 200` and 50 rows per suggestion are constants, so that two rows are
enough to be cut off.

## 4. Runs

| Run | Instance | Distinct states | What it shows |
| --- | --- | --- | --- |
| `task_queue` | 2 rows, 1 target, 2 uploads, 1 exit or fault; fair | 792,704 | the queue implements the life cycle of `TaskLifecycle`, a processing row has somebody who settles it, no wake-up is lost, a claim is overtaken only by what came after the look, every row is settled, the worker ends after a shutdown |
| `trip_ledger` | 2 trips, 1 scanned payment, 1 invoice, 2 clients, 2 windows, all patches, 5 requests | 410,113 | a link dangles only after a cancelled upload, source, state and trip agree unless an update went by an old trip, a bad payment's refresh is made, due or known to be lost, deleting trips spares bad debts, decisions by hand survive, automatic ones follow |
| `drafts` | 2 rows, 2 files, 1 hash, 2 clients, cancellations, crashes and faults | 1,534,915 | one payment per screenshot; only a cancellation, a late failure, the list of a trip or a path that came with a payment takes the file of a row that stays; no file is forgotten unless the process dies, a row has changed since it was read or a payment joined a trip after its preview |
| `drafts_expiry` | the same with 1 client; fair | 43,699 | abandoned drafts go |
| `invoice_intake` | 2 rows, 1 attachment, 3 files, 1 hash, 1 number, 2 clients, 4 events | 1,511,911 | one invoice per upload, twins by number are noticed, "parsing" is held by somebody, only the deletion of a trip strands a row |
| `email_monitor` | 1 monitor that may be started again, 1 check of any mode, 3 messages, 1 mishap; fair | 2,256,085 | a running status is true, no gap in the log, only gone mail is hidden, the status recovers unless the reader of the connection is blocked |
| `accounts` | 3 accounts, 2 invites, 2 requests | 401,497 | an administrator remains, an invite makes one account, claims are true |
| `ocr_calls` | 3 calls, 2 slots, restart after 2, 1 stray line; fair | 399,878 | no call gets another's text, no dead process is kept, the pipes are clean, calls and shutdown end |
| `samples` | 1 payment, 1 invoice, 2 texts, 2 paths, 2 samples, 1 request | 730,812 | the table is what the repository says, hashes are those of originals |
| `startup` | 1 payment, 3 logs of 2 messages (one unnumbered), 2 configurations, 2 keys, 2 mishaps; fair | 612,830 | passwords stay readable, what some duplicate told the kept row tells, though maybe in another row's words, what is served is complete, the server comes up unless an amount is out of range |
| `startup_decisions` | the same | - | the finding below |
| `matching` | 3 payments, 2 invoices, LIMIT 2 | 734,289 | the cut loses no exact amount, nothing linked is offered, a free invoice is answered |

Every property of a passing run has a mutant in `PROJECT.json`: a mapped
definition with a plausible mistake, under which the same run fails. It shows
that the bounds are large enough for the property to bite.

**Bounds.** The interesting conflicts are between two rows, two requests, or a
request and a background goroutine, and one more crash or fault repeats what
the first did because a restart resumes nothing.

* Queue: two uploads of one target look it up together, are stamped in one order and
  inserted in the other, and the worker selects between the two; `MaxTroubles`
  bounds exits and failing statements together. Targets and owners beyond one are
  left to the theorems, which hold for any number.
* Ledger: two windows sharing an edge, `[0,1)` and `[1,2)`, and times 0 and 1 give
  a match, no match, a shared bound and - two trips with the same window - an
  overlap; a move between them gives the union range. The patches are every
  request the client sends and, in addition, "auto" together with a cleared trip;
  the trip a request names is the first one. `MaxRequests` bounds the
  requests made: five are two trips, a payment and two requests that overlap, or a
  payment that is bad, its trip and what follows a refresh that was lost.
* Drafts: a draft and the upload that repeats it, two rows of one file, a name
  that is dropped and one that replaces it; a payment typed in with the path of
  another. One moment suffices: the time
  difference only decides an advisory refusal. Two requests that repoint one draft
  take a third file: that instance is not quick enough for a run; the theorems
  cover it.
* Intake: three names allow a draft's file, an attachment and a new copy;
  `MaxEvents` bounds the requests, imports, expiries and crashes.
* Monitor: three messages are one below, one at and one above a baseline or the
  cut of a limited sync (`Limit` = 1, `Batch` = 1, so a full sync takes several FETCHes);
  one lost connection, failed INSERT, vanished message or restart. Two monitors
  at once exceed the time of a run: the theorem `StatusIsTrue` covers any number.
* Accounts: the administrator, an invited user and one who comes meanwhile.
* Calls: two in their slots and one that waits; a restart after two requests
  falls between them; one line that answers nothing shifts every later answer.
* Samples: two paths in the order of the walk and two texts give a text
  under both paths and a path with another text.
* Startup: two mishaps, so that a recovery can itself be interrupted; three
  logs give a pair to merge and a row that is left alone, or three that disagree.
  The range of money ends at `MaxCents` = 2 and the amounts are the thousandths
  14, 15 and -15, about the halves, and 21, which is out of range.
* Matching: LIMIT 2 for three payments, so that exact, near, refunded, missing
  and draft amounts compete for the cut.

Symmetry is used only where it is sound: names that no definition orders or
tells apart, and never where liveness is checked. Requests overlap with each other
in the runs of the queue, the ledger, drafts, intake, accounts and calls, which have two clients
(or calls) or more; in the other runs a request overlaps with a goroutine, the start or changing links.
The theorems hold for any number of clients.

**Deadlock.** The queue, accounts, samples, startup and matching are checked for it. In
the other modules every id, file name, call or message is used once, so a
run may end with all of them spent and nothing in flight; that is the end of the
instance and not of the system, and their configurations say
`CHECK_DEADLOCK FALSE`.

**Fairness.** Nothing is assumed about users, the mail server or Python: what
they may do may also never come.

* `TaskQueue!FairSpec`: the goroutines are scheduled, a run ends because
  recognition has time-outs, the clock passes the TTL, the reaper ticks while
  the context lives, an idle select wakes by its timer, a process whose worker
  has stopped exits, and the supervisor restarts it. A statement that fails is
  never required to; since faults and exits are finite, weak fairness on the
  successful branch is what repeated polling gives.
* `ScreenshotDrafts!FairSpec`: the sweeper runs at every start and every tick
  (`StartDraftCleanup`; it can be disabled by its environment variables, here it is
  not), so a transaction that could delete something is eventually carried out,
  and it works through its files without waiting.
* `EmailMonitor!FairSpec`: once a connection is closed and its reader is free, every
  IMAP command on it fails and the goroutines of its monitor unwind (`Unwinds`).
  Nothing is assumed of an open connection, nor of one whose reader is blocked
  on the update channel: `StatusClears` leaves that one out, for there the code never
  lets go of the entry.
* `OcrCalls!FairCalls`: a call goes on, since its reads and its place in the queue
  have time-outs (`CallGoesOn`), and a stop that waits for the mutex gets it when it is free. Python
  owes nothing.
* `Startup!StartSpec`: the process goes on and its supervisor starts it again
  (`WF_startVars(Step)`); kills are bounded.

### Finding

* `startup_decisions` (`DecisionsAreMoved`, `migrations/legacy.go:34`): the
  schema migration adds `trip_assignment_source` with the default `'auto'` to
  every row before `migrateLegacyTripAssignmentColumns` copies the old column into
  values that are empty, so nothing is copied. Manual and blocked decisions of
  a database that has only the old column become automatic. The test
  `migrations_test.go:88` expects them moved; its row was inserted with an empty
  new column, which adding the column does not produce.

### Observations

What the models show beside that, without a run of its own; where a comment or a
document says otherwise it is quoted:

* `bad_debt_locked` is refreshed only for payments that are bad themselves
  (`services/trip_assignment.go:168`), after pending assignments only for the new
  trip, and not when a draft invoice that was marked bad is confirmed
  (`services/invoice.go:850`), so a trip with a bad *invoice* may have it unset, though
  `models/trip.go:17` says "auto: any bad_debt under this trip".
  Deletion is still refused, because it counts afresh.
* A manual decision that another tab commits while `PaymentService.Update` is
  between its read and the automatic assignment (`services/payment.go:749`) becomes
  "auto"; a state derived from the older trip may be written beside the newer (`outdated`).
* The refresh of `bad_debt_locked` follows the commit and its error is dropped
  (`services/trip.go:109`, `:243`, `:772`); a failure or a kill there leaves the flag as it was
  until another request on the trip counts again (`doubt`).
* Cancelling an upload deletes the draft and leaves its links
  (`services/payment.go:66`); `LinkPayment` accepts drafts, so a link may point
  to a payment that is gone (`canceled`).
* `Create` of a payment stores any `screenshot_path`; two rows may then share a
  file, and deleting either removes it for both (`GoesByName`).
* A monitor whose connection is closed while its reader is blocked on the update
  channel does not end and shows as running (`services/email_monitor.go:586`).
* An amount beyond the range of cents fails the money migration, and with it the start,
  until the row is mended by hand (`migrations/money_cents.go:45`).
* Two logs of one message that disagree are merged to the word of one of them
  (`services/email_log_migrations.go:115`).
* The duplicate check by amount and time and the UPDATE that confirms are two
  statements; two payments of the same amount and time can both be saved.
* Cancelling an upload removes the file before the row and without regard to
  `is_draft`; `docs/architecture.md:56` prescribes rows first. A confirmed payment can lose its
  screenshot.
* Two uploads of a screenshot whose draft has lost its file both repoint the draft
  (`handlers/payment.go:431`); the file of the first stays in the directory and no row has it.
* Deleting a trip works from a list of files older than its transaction
  (`services/trip.go:633`): an invoice linked or given a new file in between is treated
  by the old list, and attachments of its invoices keep their files. With the
  screenshots of payments it is the same: one moved out of the trip in between
  loses its file, the file of one moved in is forgotten.
* A payment kept when its trip goes is "routed to pending" by the comment at `services/trip.go:736`, but
  the pending list joins the trips that cover its time (`trip_pending.go:83`): it is
  shown only when another trip does.
* `UnlinkPayment` clears `invoices.payment_id` though another payment's link may remain.
* The retry of a suggestion "without date constraint" reuses the statement that has
  the constraint; the service then falls back to the newest rows, which is
  what `FreeInvoiceIsAnswered` holds by.
* A monitor displaced by a second start is not reached by a stop; it ends when its connection does.

## 5. Proofs

All theorems hold for any sets of rows, targets, users, files, hashes, trips,
messages and clients, and any bounds, under the named assumptions of the modules
(`ASSUME ...Assumption`): the ids are distinguished from NULL and from each
other, windows, times, files and limits are numbers of the right range, what is counted is finite. TLC
evaluates these assumptions in every run. In each module of proofs the type
invariant comes first (a theorem, so no run repeats it).

**WorkerProofs**, the queue. `IInv` is the inductive invariant. Types are not enough:
`RunsTracked` says where the run of every row stands (nothing was started that
was not claimed, applied implies started, a worker about to check has not
started its row), `SelectionOldest` that between SELECT and claim the only older rows to
appear are those inserted since (`LateAreSince`: `late` holds nothing else), `RowsHeld` who has
a processing row. From it follow `TypeCorrect`, `SuccessIsReal`,
`NoForgottenRow`, `WakeUpNotLost` and, as action properties,
`FirstComeFirstServed`, which lets a claim pass over such late rows alone, and `ShutdownIsQuiet`. `ImplementsLifecycle` is the
refinement: each action of the queue is an action of `TaskLifecycle` or leaves
its variables alone. `DuplicatesBounded` has an invariant of its own, counting
active rows plus pending inserts, with the cardinality facts of the library.

**TripLedgerProofs.** `IInv` is types, links that exist but for canceled drafts, and that a pending
assignment has its trip. `LedgerTypeCorrect` and `NoDanglingLink` follow. Of the
others some argue about a step: `ManualIsKept` because recomputation leaves rows
alone whose source is not "auto"; `BadDebtIsKept` because the cascade deletes
confirmed payments of the trip and invoices linked to them, which the refusal
has counted in the same transaction; `EditsAreFollowed` because a payment
outside the recomputed range is covered by the same trips before and after.
`SourcesAgree` holds for any number of clients: every statement that writes source,
state and trip writes them together, except the automatic assignment from an older
row, which is what `outdated` excuses. `NoRefreshForgotten` needs `Followed`: a bad debt whose trip is not locked
has its trip in `doubt` or some request caring about it (the trip is on its list, is just being
counted, or the payment is the one in hand); `TripsWereMade` rules out that a trip
appears under payments that already carry its id.

**ScreenshotDraftsProofs.** `HashInv` carries `OneFileOnePayment`: besides the
types it says that a confirmation still goes by its row's hash (`HeldHash`)
and that no two live rows of one hash are *cleared*, that is confirmed or past the
look-up of the hash. It is inductive because the look-up counts drafts as
rivals: whoever passes it had no rival at that moment, and a draft inserted
later meets the cleared row in its own look-up. `FileInv` carries
`RowsKeepTheirFiles`: a name that has been shown to a client is taken (`NamesTaken`,
`AllShown`), no two of uploads, deletions, the sweeper and rows made by an upload
claim one file (`ClaimsApart`), and what is about to be removed belongs to nobody else. The theorem names what takes the file
of a row that stays: a cancellation (`Cancels`); an upload whose row is written before a statement
fails (`FailsLate`; `handlers/payment.go:431`: an UPDATE that took
effect, a failed read after it, and the file is removed that the row now has); the
list of a trip that is older than its transaction (`GoesByList`); the deletion of
a payment that was typed in with somebody's path (`GoesByName`).
`FilesAreAccountedFor` adds `HandsInv`, what a request has in hand that is not
its own new file: before a draft is repointed its old file is gone, a cancelled
file is removed, and the file of a row just written is that row's and whoever
will write or delete the row has seen it there, or it goes with the row (`HandFine`, `Has`). Its
exceptions are a crash, a request that works from an outdated row (`Outdated`) and a payment that joined a trip
after the preview (`Unlisted`).

`ConfirmsAsOneStep` and, for the invoices, `InvoicesFollowLifecycle` say why the
statements of a confirmation need no transaction. `UploadLifecycle` is the machine they stand for: a row is
uploaded as a draft, or entered as saved without an upload (typed in, brought by
mail); a confirmation looks and saves in one step; rows are removed. Each module maps its table to
it (`Document`), and each step is shown to be one step there or none: every step makes one statement
(`OneStatement`, `AtOnce`), and the one that confirms meets the guard of `Confirmed` since the invariant
after the step (`HashInv'`, `UploadInv'`) leaves no other saved row of the content. The
guard there asks for saved rows only, weaker than the look-up of the code, which lets
no draft pass either: a draft may come between the look-up and the write. No run has these two properties, for they imply `OneConfirmedPerFile` and
`OneInvoicePerUpload`, which the runs do have.

**InvoiceProofs.** `Typed` says, besides types, what every request has in hand at
each of its steps (`RequestsFit`) and that a live attachment has a file and an invoice
(`AttsFit`). On it stand three invariants. `UploadInv` carries `OneInvoicePerUpload` by the argument of
the screenshots: a confirmation goes by its row's hash (`HeldHash`) and of one hash at most one
row is *cleared*, confirmed or past the look-up (`OneCleared`); the look-up counts drafts too,
so whoever comes later meets the cleared row. `TwinInv` carries `TwinsAreNoticed`: an import inserts its row before it
looks for another of its number, so of two unmarked rows the later one's look found the earlier, or
is still to come (`TwinsArePending`); that needs to know that the look goes by the number in the
row (`LooksByNumber`) and that only imports make rows "as made" (`AsMadeIsImported`). `FileInv` carries
`OnlyTripsStrand` by `FilesAreApart`: a name has one claim on it, by a row, an attachment or
a request that has just stored it (`ClaimsApart`), a file about to be removed has none (`Free`), and what a
deletion still to commit lists is at most its own invoice's (`MostlyOf`). It holds while `rough` is false, which is why
the statements that fail are excepted. `ParsingIsHeld` is inductive on the
types: every way out of an import writes how it went.

**EmailMonitorProofs.** `StatusIsTrue` needs `Awaited`: a fetch that runs is
waited for by one goroutine, which does not end before it. `NothingIsSkipped` is
`NoGap` for any number of monitors, checks and messages, and rests on `Gapless`:
while `rough` is false, nothing is missed below a row (`BelowRows`) nor below a
message in hand (`BelowHands`), and an incremental fetch works above some row
(`AboveRows`), so what it forgets when it fails leaves no gap. What a full sync
has in hand counts as logged, because breaking it off makes `rough` true; so do a
failed INSERT, a log cleared under a running fetch, a full sync that left mail out, and a first
baseline beside another. `Handed`
says what a fetch holds at each of its steps, `Numbered` that nothing is known of
mail not yet numbered. `NothingIsHidden` adds `SeenIsAll`: a sync that walks
everything has seen what is left of the mail of its time.

**AccountsProofs.** `AdminRemains` is inductive only with what makes the race
harmless: `OneAdmin` (only the setup makes an administrator, and it finds no
account) and `Armed` (a request that disables or deletes an account was made by an
administrator, for somebody else's). `UsedByItsUser` ties an invite to the account
made with it, `UnbornIsBlank` keeps an id that is not given yet out of all this;
`ClaimsAreTrue` holds because no statement changes a role.

**WorkerProofs**, the calls. `CallsInv`: the mutex is held by exactly the call that is inside
(`Exclusive`, `HolderIsCall`); `ExitIsSeen` says that whoever took the exit of a
process from the channel is about to find that it cannot write; `RequestsLeft` that
a process written to has requests left; `PipesAreCounted` that the pipes hold no
more than what was printed for nobody and the one request that is waited for.

**StartProofs**, the samples. `HashesAreOfOriginals` by the same fact about every
place a text passes through: samples, files of the repository, and marks
in flight (`SamplesHonest`, `FilesHonest`, `MarksHonest`). `ImportMirrorsRepo`
follows the import: the files it has reached come before those it has not
(`InOrder`), each of them has its sample or was refused (`Mirrored`), and writing
the next one disturbs neither, because of one kind no two samples have one hash
(`HashIsOfOne`, from the unique index) and nobody marks before the server serves.

**StartProofs**, the start. Three invariants, one for each theorem. `SecretInv`: the key in
memory is the one in the file, and while there is none a process is about to
make it (`KeyIsFiled`, `KeyIsMade`), and no password is plain when the server
listens (`PlainIsGone`). `LedgerInv`: what each migration has made of a row stays so
(`MigrationsAreDone`), and where the start is, it has applied what comes before
(`OrderIsKept`). `MergeInv`: a duplicate has rows until it is merged, and the row
that is kept has a word in every column one of them had, and as great a number, before the others go
(`HandIsFull`, `Fills`); `MergedRowsFillIn` says so of each step. `RoundingIsStable` is about the
second migration, for every amount of either sign: what is in range becomes cents that
stay what they are, however often they are rounded, the negative as the positive, and that
the check after the migration does not refuse.

**MatchingProofs.** `ScoresAreBounded` comes first: every part of the score lies between 0
and 1, from the division bounds and from the cardinality of intersection and union of the bigrams, and an
exact amount alone gives more than the least score. `FirstOfFacts` and `NearestAreKept` say what ORDER BY and LIMIT
return: where no more than k rows are at distance 0, all of them are among the first k, since a full result
without one of them would hold k others at distance 0. `RankedFacts` says that the first of a sorted list
scores highest, and `NearerAmountScoresHigher` that the order of the query agrees with the score. `MatchInv` then follows a request: what is due is among the found (`DueIsFound`) and what is due only
shrinks when links change (`TouchStep`); the payment an invoice has was read as linked unless the link came
later (`LinkIsSeen`); what is found is free or touched (`FoundIsFree`); and something is
found wherever the owner has a payment (`SomethingIsFound`). That `NormalizeName` returns a sequence of runes is an
assumption TLC evaluates for the rows of the run (`NamesAssumption`): it folds over the list of suffixes.

Least and greatest UIDs and best rows of finite sets are obtained from the
well-foundedness of strict inclusion on finite subsets (`WFMin` with
`FS_StrictSubsetOrderingWellFounded`), since the induction theorems of the library
take an operator as a parameter.

**Only model-checked.** Liveness under fairness (`EveryTaskSettles`,
`WorkerEndsAfterShutdown`, `AbandonedDraftsGo`, `StatusClears`, `CallsEnd`, `ComesUp`) is outside the
prover. What a fold
computes for every input needs an induction whose theorem the prover cannot instantiate: hence `NamesAssumption`.
The finding is a counterexample.

## 6. Not modelled

* Recognition (`ocr.go`, 9500 lines) and MIME, HTML, link and archive handling
  of `email_parse.go` transform one document into fields with regular
  expressions and layout rules; they keep no state, and there is nothing finite
  to enumerate that would be faithful. The models take their result as an
  arbitrary value.
* Reports, exports, statistics, dashboards and listings only read; the keyset
  cursor and text normalisation are string handling.
* The `dedup_status` mark of payments and `ReparseScreenshot`; changing and resetting
  passwords; the rate limiter (counts per window and address); configuration; path resolution.
* In `Startup`, the back-fill of the tables that repeat what is done for payments, the
  normalised invoice dates, and a key given by the environment.
* The client: what a page shows when requests overtake each other. Its requests
  are the inputs of the other modules.
* Failing statements are modelled in the queue, uploads, imports, accounts,
  the monitor and the start. In the ledger one inside a transaction rolls it back, which is
  the request not made; one after the commit ends the request there (`RequestEnds`).
* The run of the monitor has one, so it does not show a monitor that ends and removes its
  successor's entry; the theorem `StatusIsTrue` covers any number, and a successor without
  an entry shows as not running, of which it says nothing.
* In `Matching` rows are fixed while a request runs, links are not: the confirmation of a draft
  that is already linked is not covered.
* Modules are composed through what they share by argument, not by one product
  specification: rows that may be recognised at any time (`TaskQueue` with the drafts and invoices), links
  that change at any time (`TripLedger` with `Matching`), deletions of an account. The products
  exceed what TLC can enumerate with two actors on each side.
