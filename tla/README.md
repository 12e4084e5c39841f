# LiveBooks Desktop: TLA+ models and proofs

LiveBooks Desktop is an Electron and Vue bookkeeping program: one SQLite book,
double-entry ledgers, a bank feed delivered by a cloud service and an outbox of
local changes for a later upload. This directory models the parts whose
correctness depends on the order of steps: what is awaited, refused,
interrupted, replayed or done by two flows at once.

Paths below are relative to the repository root; the repository has a `src/`
directory of its own (the renderer), so `src/utils/plaidApply.ts` is a file of
the renderer.

## How the program is put together

The **renderer** is one JavaScript thread holding the models (`fyo/`, `models/`,
`src/`). Documents are cached (`fyo/core/docHandler.ts`) and saved with an
optimistic version check on `modified` (`fyo/model/doc.ts`). Every database call
is an IPC message to the **main process**, which owns one knex connection
(`backend/database/core.ts`). All concurrency is therefore interleaving at
`await`: between two awaits a flow runs alone, and any other flow may run while
it waits. There is one transaction session (`dbTransactionSession.ts`); nothing
but the bank feed uses it, so every other operation is a chain of single writes.

| Component | State it keeps | Operations | Hard part |
|---|---|---|---|
| Bank feed apply, `src/utils/plaidApply.ts` | `inflightPublicIds`; statements, lines and `PlaidBatchApplyJournal` rows | apply all pending batches, apply one, ack | crash and lost answers between commit and ack; overlapping applies |
| Recovery sweep, `plaidApplyRecovery.ts` | the journal rows it read at its start | re-ack, re-apply, give up, purge | acts on rows read long before |
| Transaction session, `runInDbTransaction.ts`, `dbTransactionSession.ts` | the open transaction | begin, commit, rollback | one session for all flows |
| Feed review, `bankLineActions.ts` | line status | match, ignore, undo | meets replays of the same batch |
| Document lifecycle, `fyo/model/doc.ts` | row, cached copy, `modified` | sync, submit, cancel, delete, load | cached copy ahead of its row after a refused write, or changed under a version that still matches |
| Invoice, Payment, Party | outstanding amounts, party balance | submit, cancel, delete | amounts kept by increments, no transaction |
| Ledger posting | `AccountingLedgerEntry` rows | post, reverse, delete | entry by entry |
| Outbox logger, `localMutationLogger.ts` | `LocalMutation` rows, `loggingDepth` | record, pause at cap, prune | number and cap judged before an await |
| Outbox control, `outboxSyncControl.ts`, `livebooksCloudSubscription.ts` | pause control, subscription snapshot, `syncEnabled` | refresh, sign out, pause, resume | two states changed by several flows |
| Background poll, `plaidBackgroundSync.ts`, `plaidCatchUpGuard.ts` | timer, `tickRunning`, remembered feed, back-off, MFA pause | tick, start, stop, nudge, retry | ticks that overlap, stop under a running tick, answers out of order |
| Number series, `fyo/models/NumberSeries.ts`, `fyo/model/naming.ts` | `current`, in the row and in one cached object | next, create | one object shared by all saves; read and written after awaits |
| Database core, `backend/database/core.ts` | tables | exists, get, insert, update, migrate | several statements per document |
| Opening a company, `backend/database/manager.ts`, `runPatch.ts`, `patches/uuidIdentityMigration.ts` | the file, its UUID marker, `PatchRun`, the version it was last opened by, backups | patch, back up, migrate, assert, restore | crash between any two commits; failed patches met again |
| Stock, `models/inventory/` | stock ledger, valuation queue | transfer, value | pure algorithm (not modelled) |

What calls what: the feed apply and the review write documents through the
document lifecycle, the apply inside the session. Every document write passes
`fyo/core/dbHandler.ts`, which calls the outbox logger after the row has landed.
The subscription poll sets the outbox control. Submitting, cancelling and
deleting an invoice drive ledger posting, its payments and its party. The first
save of a document of a numbered schema asks the number series, a document like any
other, for its name, and saves the series before it is itself inserted. All this
happens in a file that has been opened: patched, migrated and checked before
the desk is shown.

Reports, point of sale, pricing rules, the import wizard, source books,
reconciliation pages, printing, translation, the updater and telemetry are not
modelled: read-only, presentation or I/O. `PROJECT.json` lists every component
with its reason, and every hazard at the line where it bites.

## Modules

| Module | Models |
|---|---|
| `FeedDelivery` | abstract: the rows of a batch reach the book together, and the server is told only afterwards |
| `PlaidApply` | feed apply, recovery sweep, session, review; refines `FeedDelivery` |
| `MCPlaidApply` | instances for TLC |
| `PlaidApplyProofs` | inductive invariants, theorems and the refinement of `FeedDelivery` |
| `Settlement`, `MCSettlement` | invoices, payments, ledger entries, party balance, version check |
| `FoldLemmas` | lemmas: what `MapThenSumSet`, `SetToSeq` and `FlattenSeq` compute, for every finite set and every sequence |
| `SettlementProofs` | inductive invariant and theorems |
| `BackgroundSync` | poll loop, catch-up guard, MFA gate |
| `BackgroundSyncProofs` | inductive invariants and theorems |
| `LocalOutbox` | logger, outbox, pause control, subscription refresh |
| `LocalOutboxProofs` | inductive invariant and theorems |
| `NumberSeries`, `MCNumberSeries` | naming from a number series, the two statements of an insert, the logger and the session around them |
| `NumberSeriesProofs` | inductive invariant and theorems: types, rows, the counter's direction |
| `NumberSeriesCounterProofs` | what the counter covers, and what a duplicate, a jam or a gap needs |
| `BooksOpening`, `MCBooksOpening` | backups, patches, schema migration, UUID rewrite, last check, restore |
| `BooksOpeningProofs` | inductive invariant and theorems |

A definition named `Broken...` is a plausible bug of the definition that follows
it (a dropped guard, a missing `finally`, an off-by-one). No specification uses
it. `PROJECT.json` pairs each with the property that fails when it takes the
place of the real definition, so no property holds for want of anything to
violate it.

### PlaidApply

An action is the code between two awaits. `Worker` is the set of asynchronous
calls that can be in progress: passes of `applyAllPendingForBook` (`Feeder`) and
one recovery sweep. `pc` says where each waits: `next` (between batches), `fetch`
(payload asked for), `journal`, `begin`, `write`, `transition`, `ack`, `delete`
inside `applyPlaidBatchWithPayload`, and `reack`, `drop` in the sweep.

- `disk` is the committed database, `db` what `db.knex` shows. They differ only
  while `txn` is a worker. Every write goes through `Write`, so a user's match
  during an apply joins its transaction, as in the code.
- `touched` and `stale` are the document cache: a rollback leaves the documents
  saved in it with a `modified` their rows do not have (`Reverted`), a refused
  update does too (`FailedWrite`), and a write of a stale document is refused.
- A line's status folds `isPending` and `matchStatus`. `AddRow` and `RemoveRow` are
  `applyOneAccount`'s decisions on an inbound and a retracted row. Dates, amounts
  and descriptions are dropped.
- Success and failure of an await are separate actions (`JournalOk`,
  `JournalFail`, ...). A lost answer is a failure in which the server may have taken the
  request (`AckFail`). `Crash` empties all memory and the open transaction.
- The catch-up guard and the MFA gate only end a feed pass early; a pass that
  does not happen is a `FetchPending` not taken.
- A batch refused because no account is mapped (`NeedsMapping`) is modelled; the
  instances contain no such batch, only one with some rows on an unmapped account.

### Settlement

The operations the user starts (`Submit`, `Cancel`, `Delete` of an invoice or a
payment) become an `agenda`, the writes they make in the code's order, nested
operations included (cancelling an invoice cancels its payments, each of which
changes other invoices). `Perform` makes the next write, `Fail` throws out of it,
`Restart` kills the program between two. `status`, `owed`, `balance` and `entries`
are rows, `seen` and `held` what the cached documents hold, `stale` those whose
`modified` is not the row's. A sync writes the whole row (`Written`), from memory.

An error is thrown in one of three places (`Throws`): before the new value is set in memory; between
that and the bump of `modified` (`Payment.beforeSync` finding partial payments switched off, the
read in `Party.beforeSync`, the read of the version check itself); or after the bump. The third
leaves a `stale` copy, which the version check refuses until it is loaded again. The second
leaves an `unsaved` one, whose `modified` is still the row's: if it differs from its row,
the next operation that syncs the document writes the difference. `StaleIsRefused` says that a copy differs
from its row in no other way, and that an unsaved difference goes back to an interrupted operation.
The validators of amounts that run at every sync are left out, which lets the model do more than the code.

`torn` is a history variable: the documents an
interrupted operation left half done, healed by a complete recomputation where
the code does one (the party). One operation is in progress at a time; two
operations interleaved are not modelled.

### BackgroundSync

An action is the code of `tick()` between two awaits. `Fire` is the timer's
callback up to the session query, `SessionKnown` the turn after it, in which
`tickRunning` is set; because that is one await late, and because
`stopPlaidBackgroundSync` resets it, up to `Tick` ticks are in progress at once.
`FeedAnswered` is the server's answer, `FeedItems`, `FeedNotModified` and
`FeedFailed` its arrival, so answers may overtake each other. `RunApplyIfNeeded`
is the function of that name; the `List`, `Bulk` and `Apply` steps are the gates
and the loop of `applyAllPendingForBook`, whose inside is PlaidApply. `Finish` is the
`finally` block. `timer` tells a live handle from one that has fired, because
the code never clears it. The catch-up guard counts in days. `Page` is
the account page's pass, which the user may send over a gap. Ticks and batches are
interchangeable, so `Fire` and `Arrive` take any free name.

The loop does overlap and does outlive a stop, against its comments ("coalesces
with an in-flight tick", line 269; "Stop the background loop", line 254); the
properties say what holds in spite of that. Two things no document forbids: `catchUp` stays set after the
user has pulled the backlog, until the next pass; and the guard calls every
batch that comes more than a day after the last one a gap, which the
tests of `plaidCatchUpGuard.ts` confirm.

### LocalOutbox

A desk write lands (`DeskWrite`), then its reply reaches the logger, which skips,
or enters under `loggingDepth`, loads the rows, decides, and inserts or pauses.
Writes are numbered by the order in which they land. Replies reach the renderer in the order of the calls
(`Replied`), as Electron's IPC delivers them. The pause control is translated operator by
operator; `Entitle` is the one turn in which the snapshot and the control change
together. `Age` makes the oldest row as old as `OUTBOX_MAX_AGE_MS`. `Restart` and
`Reopen` prune; a book is reopened only when no writer waits. Nothing uploads
rows in this version, so rows never become `synced`.

### NumberSeries

An action is the code between two database calls of a save. `pc` names the call a
flow waits for: `load` (`Doc.load` of the series), `missing` (`exists` in
`createNumberSeries`), `create`, `taken` (`checkIfCurrentExists`), `compare` (`get` in
`_validateDbNotModified`), `write` (the update of the series), `head` and `lines` (the two
parts of the document's insert), `pending` and `append` inside the logger. A call's
first statement takes effect when it is sent, because the pool has one
connection and statements run in the order of the calls; `calls` is that order, and
answers come in it (`Replied`). The statements after the first (`#insertOrUpdateChildren`)
take effect at an action of their own.

`series` holds the series objects in memory, `cached` the one the document cache has:
two saves that both miss the cache load two objects, of which the later wins, and
`createNumberSeries` caches its new object before it inserts it. An object no flow and
no cache refers to is forgotten. A stamp stands for `modified`. The logger may skip a write, keep it for two
calls, or fail (`Written`, `Logs`, `LogFails`); whether it skips for its gate or its guard is
LocalOutbox's matter. The session is the feed's transaction, of which only begin, commit and
rollback matter here. `mishap`, `spoilt`, `inside`, `undone` and `clashed` are history
variables: the properties say what holds as long as none of the named
causes occurred, and each cause was found to be needed:

- the version check reads before it writes. Two flows may both compare and then
  both write (two objects after a double load, or a slow log whose `_syncValues`
  puts an old counter back while another save's `get` is under way): the stored counter goes
  back (`lost`). `CounterNeverGoesBack` says that nothing else moves it back, and
  `CounterCovers` that without it, and without a rollback, no used number is ever given again;
- `next` asks whether one number is taken and then takes the following one
  unasked, so two neighbouring imported numbers make the save fail;
- a failed log leaves a document that is stored and still counts as new; saving it
  again stores it twice under two numbers (`spoilt`).

Two refusals are left out. A refused read (`exists`, or the version check's `get`) ends a save with
`current` advanced in memory alone; and the document's first statement is refused for nothing but a
duplicate name. Both end the save and leave the counter ahead of the documents, as the refused
writes that are modelled do.

### BooksOpening

One opening is `Open` (the user picks a file), `Seed`, `Plan`, the backup, the patches
before the migration, `Migrate` and `Alter`, the patches after it, `AssertNotPartial`,
`ToDesk`. `file` is what is on disk at each commit: the UUID marker, what accounts are
named by, the tables' version, the version it was last opened by, the patch records, how
much of each patch's effect is there, and the work the user has done. A patch
commits statement by statement (`half`, `done`); `Fragile` ones, such as
`createPaymentMethods`, throw when part of their effect exists. The schema migration and the
UUID rewrite are one transaction each. `Crash` stops the program between any two actions;
`Mishap` is a failed copy, patch, patch record or migration. `GiveUp` is the way back to the company list.
`Restore` and `Upgrade` are the user's. The checkpoint before a copy is taken to succeed: the main
process holds the only connection (the journal mode is WAL, `core.ts:72`, whatever the comment at
`manager.ts:421` says, so the copy does depend on it).

`makeEntry` swallows whatever refuses the insert of a record (`MakeEntry`'s second branch). A patch that
threw and lost its record so is in the history variable `lost`; `NothingForgotten` says that these are
the only ones the desk may be reached without. A patch that did its work and lost its record is at most tried again.
The comment there (`runPatch.ts:54-56`) has the patch rerun after the migration; nothing does that: the patches to
run are chosen before the migration, and the next opening takes an unrecorded patch only if the version
noted at the desk is not yet past the patch's (`manager.ts:211`).

What the model shows besides the properties: the record of a patch that failed
once is never replaced (`makeEntry`'s second insert is refused by the primary key), so the patch is
run again, and a backup made, at every later opening under another version;
and a partial file that is opened again is backed up, patched and
migrated once more before it is refused.

## Runs

| Run | Shows | Bounds |
|---|---|---|
| `plaid_safety` | nothing is acked before it is committed; one statement per account and batch; one apply per batch; transactions end by their owner; `FeedDelivery` is implemented | 2 batches (b2 retracts a row of b1), 1 account, 1 feed pass and the sweep, any write may fail, 1 crash, 2 attempts |
| `plaid_review` | batches land whole; matches survive; every offered batch is acked or withdrawn in the end; the mutex is always released | 1 batch over 2 mapped accounts and 1 unmapped, 1 user decision line, 2 crashes, server may purge |
| `plaid_retraction` | violation: a retraction of an earlier batch's pending line has no effect | 2 batches, no faults |
| `settlement_faults` | ledger, outstanding amounts, party balance and cached documents agree wherever no operation was interrupted | 2 invoices, 2 payments (one on both), 1 thrown error (read, validation or write), 1 restart |
| `settlement_overpaid` | violation: two drafts overpay an invoice | same, no faults |
| `settlement_cancelled` | violation: a draft payment outlives its cancelled invoice | same, no faults |
| `background_poll` | the loop never dies; remembered ETag and list agree; slow polls have a reason; the guard is never overtaken; the backlog drains or the user can see why not | 2 ticks and the page's pass, 2 batches, 2 dates two days apart, any 2 events |
| `background_silent` | violation: a background tick opens the browser | 1 tick, 1 batch, 1 event |
| `outbox_logging` | order, cap, pause control, guard given back | 3 writers, cap 2, 4 writes |
| `outbox_gap` | violation: a concurrent write is not logged | 2 writers, 3 writes |
| `series_naming` | a number is not given twice, the cached counter is the stored one, a saved document is stored once and whole, unless a named mishap explains it | 3 flows, 2 documents, 3 saves, imported numbers none, 1, or 1 and 2, any 2 of: transaction, refused statement, failed log, restart |
| `books_opening` | the desk shows whole books only; the backup to restore exists; patch records are true; no patch is forgotten unless the record of its failure was refused; every opening ends | 1 patch before and 2 after the migration (1 fragile) and the rewrite, 3 versions, 4 openings, any 2 crashes, failures or refused records |

Why the bounds are enough to meet the hazards: the apply needs two workers and
two batches to collide on the mutex and the session, one account to replay a
statement and two to tear a batch; one crash puts the sweep in every position,
and a second one crashes the recovery. In Settlement one payment on two invoices
and two on one is the smallest case where a cancel reaches an unrelated invoice;
one thrown error and one restart may both strike the same operation. The outbox
needs a third writer for a write that lands while one is logged and another
waits, and more writes than the cap. The poll needs two ticks for answers that
overtake each other, two batches on two dates for a gap, and two events for a
failed pass followed by a pause, a stop or a nudge. The naming needs three saves
for a counter to go back under a fourth's nose (two that compare together and one that shows the loss),
two imported numbers for the unasked `+ 1`, and two events for a transaction with a failure in it.
The opening needs a patch on each side of the migration, a fragile one to fail when it is
repeated, a third version for a patch that failed under the second to be met again, and a second
crash for the recovery from the first. `plaid_review` has no refused writes: a
refused write leaves a stale document that only a restart clears, so
"in the end" would need a restart that nothing guarantees.

Deadlock is checked in the outbox runs and in `background_poll`. The other runs say
`CHECK_DEADLOCK FALSE` because those systems may stop: every batch acked or
withdrawn and the crashes used up; every document deleted and nothing dirty;
every save made; the file closed for the last time
(`background_silent` stops at its counterexample).

### Fairness

`PlaidApply!Fairness` is weak fairness of every worker's steps (the event loop
runs each pending continuation, and the background poll fires again and again)
and strong fairness, per worker and batch, of the payload fetch, the begin and the ack
succeeding: the network does not fail for ever, and the session is not taken
each time. It presumes a user who is signed in, past the MFA step, and who
consents when the catch-up guard asks. The user, the server and crashes owe nothing.
`LocalOutbox!Fairness` is weak fairness of the logger's steps: database calls are
answered, with success or with an error.

`BackgroundSync!Fairness` is weak fairness of the timer and of each tick's and
pass's next step: timers fire, requests are answered or fail. Failures are bounded
by `MaxEvents`; users and the server owe nothing. `BacklogDrains` therefore excuses
a hidden window, a sign-out, a TOTP pause and a reported gap.

`BooksOpening!Spec` has weak fairness of `Step`, the opening's own actions: the main process
goes on by itself once the user has picked a file. Nothing is assumed of the user, and
crashes may come at any time. `OpeningSettles` is then a statement about the opening's
control: whatever file it meets, it runs out of things to do. `NumberSeries` states no liveness:
each of its flows is a finite chain of awaited calls.

## What the violations say

- `plaid_retraction`: the header of `plaidApply.ts` (lines 17-19) promises that a
  retraction deletes the pending line silently. The code looks only in the
  statement of the retracting batch (line 547), so a pending line of an earlier
  batch stays beside its posted successor.
- `settlement_overpaid`: `Payment.validate` returns once `submitted` is set, which
  `submit` does before saving, so the outstanding amount is checked at draft time only.
- `settlement_cancelled`: the cancel dialog lists drafts among the payments it
  will cancel; `Doc.cancel` ignores drafts, and they can be submitted later.
- `outbox_gap`: the guard that keeps the logger's own insert out of the log also
  drops any other write whose reply arrives during it (`localMutationLogger.ts:73`).
- `background_silent`: a null prompt should pause silently
  (`plaidBankFeedsApi.ts:64`); `plaidApply.ts:1005` turns it into undefined, and the
  browser opens from a timer.

## Proofs

tlapm checks the eight modules named in the table above as proofs or lemmas. They hold for every
value of the constants that satisfies the named assumptions: any sets of batches,
transactions, accounts and feed passes, any finite sets of invoices and payments with any
amounts, any cap and any number of writers, any flows and documents, any patches and versions.
Every invariant and every action property that a run checks on a small instance is stated by a
theorem, and so is the refinement; only liveness is not.

**PlaidApply.** `TypeOK` and `AckedIsLanded` are not inductive together: an ack is
sent by a worker that believes the batch landed, on the word of its own position or of a journal
row it read. The invariant `IInv` says:

- `Sane`: the types, and that a worker inside an apply has a batch;
- `SessionInv`: a worker is at `write` exactly when it owns the transaction; with no transaction `db` is
  `disk`; `db` never holds less than `disk`; accounts already
  written have their due lines in `db`;
- `BeliefInv`: whoever believes batch b applied (the server, a journal row
  `ack_pending` in `db`, on disk or in the sweep's memory, a worker past the
  commit) is right: `Landed(disk, b)`.

The argument has two halves. The committed book only grows in the sense that
matters (a due line never disappears), so a true belief stays true. And no step creates a
belief except the commit (`NoNewBelief`), which puts `db`, where every
account was just written, on disk. From `SpecInv` follow `TypeCorrect`,
`AckIsSafe` and `TransactionsAreOwned`.

Three more invariants stand on it. `MutexInv`: a worker inside an apply holds its batch's
id in `inflight`, and no two hold the same; a handler passes the id on, takes a free one or
gives its own back, and does nothing else to it (`MutexSteps`). Hence `OneApplyAtATime`,
and `NoOrphanedMutex`: an id in the mutex always has an apply behind it.
`LandInv`: a batch has at most one statement per account; on disk it is whole or
absent; and the open transaction has rows beyond the committed book of its own batch only, since
a write changes the lines of the batch it applies. So a commit puts one whole batch on disk, every
account of it written (`SessionInv`): `LandingIsAtomic`, `StatementsAreUnique`.
`OfferedInv`: whatever batch a worker, a journal row or the sweep's memory names was published.
`DeliversTheFeed`, the refinement, follows step by step: a commit is `FeedDelivery`'s landing,
an ack the server takes comes from a true belief and is its ack, publishing and purging are its own, and
every other step changes neither the server nor the committed due rows. `MatchesAreKept` is
proved of the five things a step can do to the store (`StoreSteps`): leave the transaction alone, begin
one, write in it, commit it, end it.

**Settlement.** The runs state what holds at rest; `IInv` says what holds between any two
writes of an operation, in eight parts. Besides `TypeOK`:

- `AgendaInv` describes the writes still to be made: a document is marked or erased before anything else of its
  operation and once (`MarksFirst`), no write is made twice (`NoRepeats`), a flagged entry is
  mirrored later (`FlagsMirrored`), a payment to be marked has all its rows in the agenda (`RowsFollow`),
  whatever changes what is owed is followed by an update of the party (`PartyLast`), a write finds its document, row and cached copy, in the status it was
  planned for (`Follows`), and the conditions judged when the operation began still hold
  (`AllReady`), although nested operations came between;
- `SeenInv` and `HeldInv` give `StaleIsRefused`: only a torn document's copy differs from its row, stale or
  unsaved, and in which states it may (an invoice's unsaved `cancelled` may be written with the amount a payment changes on it,
  `Carried`), so that a whole row written from memory (`WrittenRows`) writes what the operation means; `RowInv`: a payment that exists is of invoices that are past draft;
- `LedgerInv`: an entry is the one its document's status asks for, or a write of it is pending;
- `OutInv`: an invoice owes its total less what is applied, where a payment counts from its `pay` to its
  `unpay` and not from its status (`Applied`);
- `PartyInv`: the balance is the sum, or an update of the party is pending, or an
  interrupted operation explains why not.

That an operation begins with such an agenda is proved once per operation from how its
agenda is put together: a chunk per document (`ChunkStart`, `ChunkAdd`, `ChunkPlan`), plans
of different documents one after another (`PlanJoin`), and, for an invoice with its payments, a
plan per payment flattened (`PlanEach`). `Tail...` lemmas say what the agenda keeps when its first
step is made, `Interrupted` what an operation leaves when it is not.

`FoldLemmas` gives the sums. A fold of the community modules is a `CHOOSE` of a function on subsets, so
nothing can be said of it before such a function is shown to exist. `SetInduction` says a set of naturals
with 0 and successors holds them all, from `WFMin` and the order of `Nat`: an induction whose
predicate is a set and not an operator. By it, on the cardinality, such a function exists
(`SumsExist`) and is unique (`SumsAgree`), so adding or removing a payment changes the sum by its amount
(`SumAdd`, `SumRemove`) and payments of 0 do not count (`SumNonzero`). `SetToSeqLists` and
`FlattenRecursion` do the same for the agendas of an unknown number of payments. The proofs use that
invoices and payments are finite (`FiniteAssumption`), as the rows of a database are.

**BackgroundSync.** `LoopIsAlive` needs that a handle that has fired belongs to a
tick in progress (`Alive`): otherwise `start`, which returns when it finds a handle,
could leave a dead loop. `CacheIsTruthful` needs that no ETag is ahead of the
server's and that an answer on its way which carries the current ETag carries the
current list (`CacheOK`); a change of the list takes a new ETag, so everything
older becomes harmless (`CacheOutdated`). For `NoGapIsCrossed`, `GapInv` says that while a
pass has a pending batch left, the guard would let it through: a landing moves the
bookmark to today, which no batch is younger than (`GapLanded`); an arrival adds batches but
never takes the oldest one away; and lists only shrink (`GapKept`). `SlowInv` adds to
`SlowPollIsExplained` that no tick carries a backed-off interval it would arm later.

**LocalOutbox.** `LogIsOrdered` rests on `LogInv`: at most one writer is past the
guard and `loggingDepth` counts it (`GuardInv`); every row logs a write that
landed, its number is at most that write's, and writers still waiting log later writes than
any row, the recorder's write coming before theirs (`NumberInv`); what the
recorder concluded from the rows it read, the next number free and the cap not
reached, is still true when it inserts, because only it inserts and everything
else only removes or ages rows (`DecideInv`); and the rows themselves are ordered and
within the cap (`RowsInv`). `maxClientSeq` is a `CHOOSE`, so the proof
first shows that a finite set of numbers has a greatest one
(`BoundedHasMax`, by well-founded induction on finite subsets from the library).
`NoOrphanedGuard` reads off `GuardInv` that a guard that is up has its writer.

**NumberSeries.** `IInv` adds to the types that each flow's state fits the call it waits for
(`Shapes`), and two facts. `Agree`: rows with the same stamp are the same row,
wherever they are (stored, kept for a rollback, read, or on their way), and an object in memory is
never behind the row whose stamp it carries. So a check that finds equal stamps has
an object at least as far as the row, and as long as the row stays as it was read the update cannot set
it back (`CounterIsKept`). It is preserved because every step takes its rows and objects from
old ones, or makes one with a fresh stamp (`AgreeStep`). `Stored`: a document that is not
`spoilt` is saved by at most one flow and has at most one row, which exists only if that flow
is past the insert (`Single`); what landed is there (`There`); a rollback takes back only rows of
documents in `inside` (`Undoable`). `RoomForOne`, a pigeonhole argument, shows that
the finite set of objects never runs out, so the bound on them loses no behaviour.

`NumberSeriesCounterProofs` proves what the properties say of an undisturbed series. `CInv` has a part for
each degree of calm: without an overlap one flow at most is in naming (`Solo`) and compares
with the row as it is (`Kept`), so no update is lost; without a rollback or a lost update every number
in use or about to be is covered (`Covers`); if moreover no two neighbours were imported, a number about to be
written is free (`Unclashed`); without refused writes and failed logs the cached object is
the row or on its way to it (`Unjammed`); and with no mishap at all the numbers are an
interval (`Gapless`). The later parts lean on the earlier ones.

**BooksOpening.** What the properties say at the desk is carried through the opening.
`Sound` holds of the file and of every backup (so `Restore` keeps it): the marker tells what
accounts are named by, records of success are true, and every patch not younger than the noted version has had its effect, is recorded
as failed, or is `lost`.
`Progress`: each patch of this program is so, or is still on the list. `Marked`: a
partial file is never past the last check. `Copying`: the copy under way is of the file as it is.
`Kept`: the last usable backup of a partial file has all the work, because nothing but the
desk adds work and a partial file never gets there.
`OpeningsRunDown` gives an opening a `Rank`, a natural number: the parts it has yet to go
through, weighted with the patches yet to run (their number is finite, but known only when
`Plan` has chosen them) and the stages of the patch under way. Every step of an opening
lowers it, failures and crashes included, so an opening has boundedly many steps.

All these invariants were checked with TLC on the instances of the runs before they were proved.

Only model-checked: the liveness properties (`EventuallyAcked`, `MutexIsReleased`, `LoggerRecovers`,
`BacklogDrains`, `OpeningSettles`), because fairness and `ENABLED` are beyond the prover, and the
runs that show a violation. Of three of them the safety half is proved: a guard or a mutex that
is held has a holder with its release to come, and an opening runs down; that the holder's next step
is enabled, and so is taken, is TLC's part.

## Plan

Done in this order: the bank feed (the one part with crashes, a network and
overlapping flows, and its own recovery), settlement (the books themselves), the
outbox, the background poll, the naming and insertion of documents (with the
session seen from the other side), the opening of a company file.

Left to prove: no invariant and no action property. Worth adding are lemmas on pure decisions
(`nextInterval` grows with the failures and is bounded, `evaluateOutboxCap` and the pause control are
idempotent), and the safety halves of `EventuallyAcked` and `BacklogDrains`.

## Not modelled

- The gap between begin's answer and the swap of `db.knex` (`dbTransactionSession.ts:34`): a call that
  fell into it would ask for the one connection the transaction holds. The answer crosses two
  processes and the swap needs only some turns of one, so the models let the swap come first.
- `bankLineActions.ts:109`, a journal entry and then the mark on the bank line: nothing in the repository
  says what a failure between the two may leave, so there is nothing to check the code against.
- Two calls of submit or cancel in one turn (`doc.ts:1083`): answers come in the order of the calls, so
  the first has bumped `modified` in memory when the second compares it, and the second throws
  `ConflictError` without a write. Two first saves of one document in one turn are in `NumberSeries`.
- The retry on SQLITE_BUSY (`sqliteBusyRetry.ts`) wraps a call that reports errors inside its answer and
  never throws, so it cannot fire; every model lets any write be refused instead.
- Creating a company and moving one to another folder: sequences of file operations in which the
  operating system's failures are the whole content.
- Stock valuation, pricing rules, loyalty, payroll, taxes, reports and converters: functions of one document
  or of the ledger, without order or interleaving, which the repository's unit tests reach.
- The device guard and the last-writer-wins rule (`syncDeviceGuard.ts`, `lwwConflict.ts`): the
  code that would call them to merge rows is not in the repository.
- User interface, printing, import wizard, translation, updater, telemetry: presentation and I/O.
  Most of the repository's lines are here, in `locales/`, in schemas and in pages.
