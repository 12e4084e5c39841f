----------------------------- MODULE PlaidApply -----------------------------
(***************************************************************************)
(* Applying the bank feed to the local book: src/utils/plaidApply.ts, its  *)
(* recovery sweep plaidApplyRecovery.ts and the database session they      *)
(* write through (runInDbTransaction.ts, dbTransactionSession.ts).         *)
(*                                                                         *)
(* The renderer is one JavaScript thread, so every action below is the     *)
(* code between two awaits.  Workers are the asynchronous calls that can   *)
(* be in progress together: applyAllPendingForBook (the background tick    *)
(* and the account page both call it) and one runApplyJournalRecovery.     *)
(***************************************************************************)
EXTENDS Naturals

CONSTANTS
  Batch,        \* import batches the server offers
  Tx,           \* bank transactions (the externalId of a line)
  Acct,         \* bank sub-accounts
  Feeder,       \* calls of applyAllPendingForBook that may overlap
  Recovery,     \* the recovery sweep
  NONE,         \* no batch, no transaction owner
  AcctOf,       \* sub-account of each transaction
  Mapped,       \* sub-accounts the user mapped to the chart of accounts
  Adds,         \* Adds[b][t]: the row batch b carries for t
  Removes,      \* Removes[b]: the transactions batch b retracts
  Reviewed,     \* bound: transactions whose lines the user matches or ignores
  MaxAttempts,  \* MAX_RECOVERY_ATTEMPTS; attemptCount saturates there
  MaxCrashes,   \* bound on crashes of the process
  DbMayFail,    \* may a database write fail (SQLITE_BUSY, disk full)?
  ServerPurges  \* may the server purge a batch?

RowKind == {"none", "posted", "pending", "foreign"}
Worker  == Feeder \cup {Recovery}

ASSUME WorkerAssumption == Recovery \notin Feeder /\ NONE \notin Worker
ASSUME BatchAssumption  == NONE \notin Batch
ASSUME PayloadAssumption ==
  /\ AcctOf \in [Tx -> Acct]
  /\ Mapped \subseteq Acct
  /\ Adds \in [Batch -> [Tx -> RowKind]]
  /\ Removes \in [Batch -> SUBSET Tx]
  /\ Reviewed \subseteq Tx
  /\ "journal" \notin Acct
ASSUME BoundAssumption ==
  /\ MaxAttempts \in Nat \ {0}
  /\ MaxCrashes \in Nat
  /\ DbMayFail \in BOOLEAN
  /\ ServerPurges \in BOOLEAN

VARIABLES
  server,   \* what the cloud knows of each batch
  disk,     \* the committed database
  db,       \* the database seen through db.knex: disk, or the open transaction
  txn,      \* worker that holds the DbTransactionSession, or NONE
  touched,  \* cached docs synced since the transaction began
  stale,    \* cached docs whose `modified` no longer is the database's
  inflight, \* inflightPublicIds
  pc,       \* where each worker waits
  cur,      \* batch each worker is at
  todo,     \* batches left in the worker's list
  left,     \* accounts applyPlaidBatchWithPayload has still to write
  orphan,   \* journal rows as loadOrphans read them, until no longer needed
  swept,    \* has this session's recovery sweep started?
  crashes   \* crashes so far

vars == <<server, disk, db, txn, touched, stale, inflight, pc, cur, todo,
          left, orphan, swept, crashes>>

store    == <<disk, db, txn, touched, stale>>
progress == <<todo, orphan, swept, crashes>>

-----------------------------------------------------------------------------
(* Data: a line's status stands for (isPending, matchStatus); "none" for   *)
(* a line that does not exist.                                             *)

LineStatus == {"none", "pending", "unmatched", "matched", "ignored"}
Phase      == {"none", "applying", "ack_pending"}
JournalRow == [phase : Phase, att : 0 .. MaxAttempts]
NoJournal  == [phase |-> "none", att |-> 0]

Database == [stmts   : [Batch -> [Acct -> Nat]],
             lines   : [Batch -> [Tx -> LineStatus]],
             journal : [Batch -> JournalRow]]

EmptyDatabase == [stmts   |-> [b \in Batch |-> [a \in Acct |-> 0]],
                  lines   |-> [b \in Batch |-> [t \in Tx |-> "none"]],
                  journal |-> [b \in Batch |-> NoJournal]]

\* Cached docs: the statement of a (batch, account) and the batch's journal.
DocKey        == Batch \X (Acct \cup {"journal"})
JournalKey(b) == <<b, "journal">>

\* Mutant: a pending row's ignoreReason written as the line's status.
BrokenStampOf(kind) == CASE kind = "posted"  -> "unmatched"
                         [] kind = "pending" -> "plaid_pending"
                         [] OTHER            -> "ignored"

\* Status a new or refreshed line gets from the row's pending flag and currency.
StampOf(kind) == CASE kind = "posted"  -> "unmatched"
                   [] kind = "pending" -> "pending"
                   [] OTHER            -> "ignored"

\* Mutant: a replay refreshes every line.
BrokenAddRow(status, kind) == IF kind = "none" THEN status ELSE StampOf(kind)

\* One inbound row: lines the user matched or ignored are left as they are.
AddRow(status, kind) ==
  IF kind = "none" \/ status \in {"matched", "ignored"}
    THEN status
    ELSE StampOf(kind)

\* One retracted row: pending lines go, matched lines stay, others are ignored.
RemoveRow(status) ==
  CASE status \in {"none", "pending"} -> "none"
    [] status = "matched"             -> "matched"
    [] OTHER                          -> "ignored"

\* applyOneAccount on the statement of batch b for account a.
ApplyRow(status, b, t) ==
  IF t \in Removes[b] THEN RemoveRow(AddRow(status, Adds[b][t]))
                      ELSE AddRow(status, Adds[b][t])

ApplyRows(lines, b, a) ==
  [t \in Tx |-> IF AcctOf[t] = a THEN ApplyRow(lines[t], b, t) ELSE lines[t]]

\* Mapped accounts with inbound or retracted rows (groupRows).
Accounts(b) ==
  {a \in Mapped : \E t \in Tx : /\ AcctOf[t] = a
                                /\ Adds[b][t] # "none" \/ t \in Removes[b]}

\* Inbound rows exist, none on a mapped account: the batch is refused.
NeedsMapping(b) ==
  /\ \E t \in Tx : Adds[b][t] # "none" /\ AcctOf[t] \notin Mapped
  /\ Accounts(b) = {}

\* Mutant: the lookup by cloudStatementId never finds the statement.
BrokenStatementExists(d, b, a) == d.stmts[b][a] > 0 /\ FALSE

StatementExists(d, b, a) == d.stmts[b][a] > 0
JournalExists(d, b)      == d.journal[b].phase # "none"

-----------------------------------------------------------------------------
(* The database session.  Inside a transaction every IPC write of the      *)
(* renderer, whoever issues it, goes to the transaction.                   *)

\* Mutant: every write commits at once, as knex does outside a transaction.
BrokenWrite(d, key) ==
  /\ db' = d
  /\ disk' = d
  /\ touched' = IF txn = NONE THEN touched ELSE touched \cup {key}
  /\ UNCHANGED <<txn, stale>>

Write(d, key) ==
  /\ db' = d
  /\ disk' = IF txn = NONE THEN d ELSE disk
  /\ touched' = IF txn = NONE THEN touched ELSE touched \cup {key}
  /\ UNCHANGED <<txn, stale>>

\* Deleting a row also evicts its doc from the cache.
DropJournals(bs) ==
  LET d    == [db EXCEPT !.journal = [b \in Batch |-> IF b \in bs THEN NoJournal ELSE @[b]]]
      keys == {JournalKey(b) : b \in bs}
  IN  /\ db' = d
      /\ disk' = IF txn = NONE THEN d ELSE disk
      /\ touched' = touched \ keys
      /\ stale' = stale \ keys
      /\ UNCHANGED txn

\* A failed update leaves the cached doc with a new `modified` timestamp.
FailedWrite(key) ==
  /\ stale' = stale \cup {key}
  /\ UNCHANGED <<disk, db, txn, touched>>

\* Docs that existed before the transaction and were synced in it.
Reverted == {k \in touched : IF k[2] = "journal" THEN JournalExists(disk, k[1])
                                                 ELSE StatementExists(disk, k[1], k[2])}

Rollback(alsoStale) ==
  /\ db' = disk
  /\ txn' = NONE
  /\ touched' = {}
  /\ stale' = stale \cup Reverted \cup alsoStale
  /\ UNCHANGED disk

-----------------------------------------------------------------------------
Init ==
  /\ server = [b \in Batch |-> "unpublished"]
  /\ disk = EmptyDatabase
  /\ db = EmptyDatabase
  /\ txn = NONE
  /\ touched = {}
  /\ stale = {}
  /\ inflight = {}
  /\ pc = [w \in Worker |-> "idle"]
  /\ cur = [w \in Worker |-> NONE]
  /\ todo = [w \in Worker |-> {}]
  /\ left = [w \in Worker |-> {}]
  /\ orphan = [b \in Batch |-> NoJournal]
  /\ swept = FALSE
  /\ crashes = 0

Goto(w, label, b) ==
  /\ pc' = [pc EXCEPT ![w] = label]
  /\ cur' = [cur EXCEPT ![w] = b]

\* Mutant: no finally block.
BrokenRelease(w) == Goto(w, "next", NONE) /\ UNCHANGED inflight

\* The batch is finished with, whatever the outcome: finally { inflight.delete }.
Release(w) ==
  /\ inflight' = inflight \ {cur[w]}
  /\ Goto(w, "next", NONE)

-----------------------------------------------------------------------------
(* The server and the user.                                                *)

Publish(b) ==
  /\ server[b] = "unpublished"
  /\ server' = [server EXCEPT ![b] = "pending"]
  /\ UNCHANGED <<store, inflight, pc, cur, left, progress>>

Purge(b) ==
  /\ ServerPurges
  /\ server[b] \in {"pending", "acked"}
  /\ server' = [server EXCEPT ![b] = "purged"]
  /\ UNCHANGED <<store, inflight, pc, cur, left, progress>>

\* linkLineToReference, setLineStatus, undoLineMatch: set one line, stmt.sync().
Decide(b, t, from, to) ==
  /\ db.lines[b][t] = from
  /\ <<b, AcctOf[t]>> \notin stale
  /\ Write([db EXCEPT !.lines[b][t] = to], <<b, AcctOf[t]>>)
  /\ UNCHANGED <<server, inflight, pc, cur, left, progress>>

MatchLine(b, t)  == Decide(b, t, "unmatched", "matched")
IgnoreLine(b, t) == Decide(b, t, "unmatched", "ignored")
UndoLine(b, t)   == \E from \in {"matched", "ignored"} : Decide(b, t, from, "unmatched")

\* The process dies; the open transaction and all memory are gone.
Crash ==
  /\ crashes < MaxCrashes
  /\ crashes' = crashes + 1
  /\ db' = disk
  /\ txn' = NONE
  /\ touched' = {}
  /\ stale' = {}
  /\ inflight' = {}
  /\ pc' = [w \in Worker |-> "idle"]
  /\ cur' = [w \in Worker |-> NONE]
  /\ todo' = [w \in Worker |-> {}]
  /\ left' = [w \in Worker |-> {}]
  /\ orphan' = [b \in Batch |-> NoJournal]
  /\ swept' = FALSE
  /\ UNCHANGED <<server, disk>>

-----------------------------------------------------------------------------
(* applyAllPendingForBook.                                                 *)

FetchPending(w) ==
  /\ pc[w] = "idle"
  /\ \E b \in Batch : server[b] = "pending"
  /\ todo' = [todo EXCEPT ![w] = {b \in Batch : server[b] = "pending"}]
  /\ Goto(w, "next", NONE)
  /\ UNCHANGED <<server, store, inflight, left, orphan, swept, crashes>>

\* Mutant: the mutex is set without being looked at.
BrokenStartApply(w, b) ==
  \/ NeedsMapping(b) /\ Goto(w, "next", NONE) /\ UNCHANGED inflight
  \/ ~NeedsMapping(b) /\ inflight' = inflight \cup {b} /\ Goto(w, "journal", b)

\* The head of applyPlaidBatchWithPayload, up to the journal write.
StartApply(w, b) ==
  \/ /\ b \in inflight \/ NeedsMapping(b)
     /\ Goto(w, "next", NONE)
     /\ UNCHANGED inflight
  \/ /\ b \notin inflight
     /\ ~NeedsMapping(b)
     /\ inflight' = inflight \cup {b}
     /\ Goto(w, "journal", b)

\* The bulk fetch brought the payload.
TakeBatch(w, b) ==
  /\ pc[w] = "next"
  /\ b \in todo[w]
  /\ todo' = [todo EXCEPT ![w] = @ \ {b}]
  /\ StartApply(w, b)
  /\ UNCHANGED <<server, store, left, orphan, swept, crashes>>

\* The bulk fetch did not: applyPlaidBatch fetches this one.
TakeUnfetched(w, b) ==
  /\ pc[w] = "next"
  /\ b \in todo[w]
  /\ todo' = [todo EXCEPT ![w] = @ \ {b}]
  /\ IF b \in inflight THEN Goto(w, "next", NONE) ELSE Goto(w, "fetch", b)
  /\ UNCHANGED <<server, store, inflight, left, orphan, swept, crashes>>

EndFeed(w) ==
  /\ pc[w] = "next"
  /\ todo[w] = {}
  /\ Goto(w, "idle", NONE)
  /\ UNCHANGED <<server, store, inflight, left, progress>>

-----------------------------------------------------------------------------
(* applyPlaidBatch: loadPayload.                                           *)

PayloadOk(w) ==
  /\ pc[w] = "fetch"
  /\ server[cur[w]] \in {"pending", "acked"}
  /\ StartApply(w, cur[w])
  /\ UNCHANGED <<server, store, left, progress>>

\* HTTP 404: the orphan journal row is dropped, whoever wrote it.
PayloadGone(w) ==
  /\ pc[w] = "fetch"
  /\ server[cur[w]] = "purged"
  /\ DropJournals({cur[w]})
  /\ Goto(w, "next", NONE)
  /\ UNCHANGED <<server, inflight, left, progress>>

PayloadFail(w) ==
  /\ pc[w] = "fetch"
  /\ Goto(w, "next", NONE)
  /\ UNCHANGED <<server, store, inflight, left, progress>>

-----------------------------------------------------------------------------
(* applyPlaidBatchWithPayload.                                             *)

Bump(n) == IF n < MaxAttempts THEN n + 1 ELSE n

\* upsertJournalApplying
JournalOk(w) ==
  LET b == cur[w] IN
  /\ pc[w] = "journal"
  /\ JournalExists(db, b) => JournalKey(b) \notin stale
  /\ Write([db EXCEPT !.journal[b] = [phase |-> "applying", att |-> Bump(@.att)]],
           JournalKey(b))
  /\ Goto(w, "begin", b)
  /\ UNCHANGED <<server, inflight, left, progress>>

\* The mapping or the row cannot be read, or the row cannot be written.
JournalFail(w) ==
  LET b == cur[w] IN
  /\ pc[w] = "journal"
  /\ DbMayFail \/ JournalKey(b) \in stale
  /\ \/ JournalExists(db, b) /\ FailedWrite(JournalKey(b))
     \/ UNCHANGED store
  /\ Release(w)
  /\ UNCHANGED <<server, left, progress>>

BeginOk(w) ==
  /\ pc[w] = "begin"
  /\ txn = NONE
  /\ txn' = w
  /\ left' = [left EXCEPT ![w] = Accounts(cur[w])]
  /\ Goto(w, "write", cur[w])
  /\ UNCHANGED <<server, disk, db, touched, stale, inflight, progress>>

\* Mutant: the transaction is ended although the begin failed.
BrokenBeginFail(w) ==
  /\ pc[w] = "begin"
  /\ DbMayFail \/ txn # NONE
  /\ Rollback({})
  /\ Release(w)
  /\ UNCHANGED <<server, left, progress>>

\* 'Database transaction already active': nothing begun, nothing rolled back.
BeginFail(w) ==
  /\ pc[w] = "begin"
  /\ DbMayFail \/ txn # NONE
  /\ Release(w)
  /\ UNCHANGED <<server, store, left, progress>>

\* applyOneAccount: upsertStatementForAccount, the rows, stmt.sync().
WriteOk(w, a) ==
  LET b == cur[w]
      n == IF StatementExists(db, b, a) THEN db.stmts[b][a] ELSE db.stmts[b][a] + 1
  IN
  /\ pc[w] = "write"
  /\ a \in left[w]
  /\ StatementExists(db, b, a) => <<b, a>> \notin stale
  /\ Write([db EXCEPT !.stmts[b][a] = n, !.lines[b] = ApplyRows(@, b, a)], <<b, a>>)
  /\ left' = [left EXCEPT ![w] = @ \ {a}]
  /\ UNCHANGED <<server, inflight, pc, cur, progress>>

\* A write failed or met a ConflictError: endTransaction(false).
WriteFail(w, a) ==
  LET b == cur[w] IN
  /\ pc[w] = "write"
  /\ a \in left[w]
  /\ DbMayFail \/ <<b, a>> \in stale
  /\ Rollback(IF StatementExists(disk, b, a) THEN {<<b, a>>} ELSE {})
  /\ left' = [left EXCEPT ![w] = {}]
  /\ Release(w)
  /\ UNCHANGED <<server, progress>>

CommitOk(w) ==
  /\ pc[w] = "write"
  /\ left[w] = {}
  /\ disk' = db
  /\ txn' = NONE
  /\ touched' = {}
  /\ Goto(w, "transition", cur[w])
  /\ UNCHANGED <<server, db, stale, inflight, left, progress>>

\* Mutant: a failed commit is taken for a landed batch.
BrokenCommitFail(w) ==
  /\ pc[w] = "write"
  /\ left[w] = {}
  /\ DbMayFail
  /\ Rollback({})
  /\ Goto(w, "transition", cur[w])
  /\ UNCHANGED <<server, inflight, left, progress>>

CommitFail(w) ==
  /\ pc[w] = "write"
  /\ left[w] = {}
  /\ DbMayFail
  /\ Rollback({})
  /\ Release(w)
  /\ UNCHANGED <<server, left, progress>>

\* transitionJournalToAckPending: silent when the row is gone.
TransitionOk(w) ==
  LET b == cur[w] IN
  /\ pc[w] = "transition"
  /\ IF JournalExists(db, b)
       THEN /\ JournalKey(b) \notin stale
            /\ Write([db EXCEPT !.journal[b].phase = "ack_pending"], JournalKey(b))
       ELSE UNCHANGED store
  /\ Goto(w, "ack", b)
  /\ UNCHANGED <<server, inflight, left, progress>>

\* 'Apply succeeded; ack will still be attempted'.
TransitionFail(w) ==
  LET b == cur[w] IN
  /\ pc[w] = "transition"
  /\ JournalExists(db, b)
  /\ DbMayFail \/ JournalKey(b) \in stale
  /\ FailedWrite(JournalKey(b))
  /\ Goto(w, "ack", b)
  /\ UNCHANGED <<server, inflight, left, progress>>

\* The server takes the ack of a batch it still has, and takes it twice.
ServerAcks(b) ==
  /\ server[b] \in {"pending", "acked"}
  /\ server' = [server EXCEPT ![b] = "acked"]

AckOk(w) ==
  /\ pc[w] = "ack"
  /\ ServerAcks(cur[w])
  /\ Goto(w, "delete", cur[w])
  /\ UNCHANGED <<store, inflight, left, progress>>

\* Mutant: an ack that fails returns without leaving the mutex.
BrokenAckFail(w) ==
  /\ pc[w] = "ack"
  /\ ServerAcks(cur[w]) \/ UNCHANGED server
  /\ Goto(w, "next", NONE)
  /\ UNCHANGED <<store, inflight, left, progress>>

\* The request or its answer is lost, or the server refuses.
AckFail(w) ==
  /\ pc[w] = "ack"
  /\ ServerAcks(cur[w]) \/ UNCHANGED server
  /\ Release(w)
  /\ UNCHANGED <<store, left, progress>>

DeleteJournal(w) ==
  /\ pc[w] = "delete"
  /\ \/ DropJournals({cur[w]})
     \/ DbMayFail /\ UNCHANGED store
  /\ Release(w)
  /\ UNCHANGED <<server, left, progress>>

ApplyStep(w) ==
  \/ PayloadOk(w) \/ PayloadGone(w) \/ PayloadFail(w)
  \/ JournalOk(w) \/ JournalFail(w)
  \/ BeginOk(w) \/ BeginFail(w)
  \/ \E a \in Acct : WriteOk(w, a) \/ WriteFail(w, a)
  \/ CommitOk(w) \/ CommitFail(w)
  \/ TransitionOk(w) \/ TransitionFail(w)
  \/ AckOk(w) \/ AckFail(w)
  \/ DeleteJournal(w)

-----------------------------------------------------------------------------
(* runApplyJournalRecovery, once per session, two seconds after Desk opens.*)

SweepStart ==
  /\ pc[Recovery] = "idle"
  /\ ~swept
  /\ swept' = TRUE
  /\ orphan' = db.journal
  /\ todo' = [todo EXCEPT ![Recovery] = {b \in Batch : JournalExists(db, b)}]
  /\ Goto(Recovery, "next", NONE)
  /\ UNCHANGED <<server, store, inflight, left, crashes>>

\* purgeStaleRows looks again at the exhausted 'applying' rows read here.
Exhausted(row) == row.phase = "applying" /\ row.att >= MaxAttempts

TakeOrphan(b) ==
  /\ pc[Recovery] = "next"
  /\ b \in todo[Recovery]
  /\ todo' = [todo EXCEPT ![Recovery] = @ \ {b}]
  /\ orphan' = [orphan EXCEPT ![b] = IF Exhausted(@) THEN @ ELSE NoJournal]
  /\ UNCHANGED <<server, store, inflight, left, swept, crashes>>

SweepSkip(b) ==
  /\ TakeOrphan(b)
  /\ b \in inflight
  /\ Goto(Recovery, "next", NONE)

\* Reports over the network, then deletes the row whatever it holds by then.
SweepGiveUp(b) ==
  /\ TakeOrphan(b)
  /\ b \notin inflight
  /\ orphan[b].att >= MaxAttempts
  /\ Goto(Recovery, "drop", b)

\* Mutant: the sweep acks every orphan row, those still 'applying' too.
BrokenSweepAck(b) ==
  /\ TakeOrphan(b)
  /\ b \notin inflight
  /\ orphan[b].att < MaxAttempts
  /\ Goto(Recovery, "reack", b)

SweepAck(b) ==
  /\ TakeOrphan(b)
  /\ b \notin inflight
  /\ orphan[b].att < MaxAttempts
  /\ orphan[b].phase = "ack_pending"
  /\ Goto(Recovery, "reack", b)

SweepApply(b) ==
  /\ TakeOrphan(b)
  /\ b \notin inflight
  /\ orphan[b].att < MaxAttempts
  /\ orphan[b].phase = "applying"
  /\ Goto(Recovery, "fetch", b)

ReAckOk ==
  /\ pc[Recovery] = "reack"
  /\ ServerAcks(cur[Recovery])
  /\ Goto(Recovery, "drop", cur[Recovery])
  /\ UNCHANGED <<store, inflight, left, progress>>

ReAckFail ==
  /\ pc[Recovery] = "reack"
  /\ ServerAcks(cur[Recovery]) \/ UNCHANGED server
  /\ Goto(Recovery, "next", NONE)
  /\ UNCHANGED <<store, inflight, left, progress>>

SweepDrop ==
  /\ pc[Recovery] = "drop"
  /\ \/ DropJournals({cur[Recovery]})
     \/ DbMayFail /\ UNCHANGED store
  /\ Goto(Recovery, "next", NONE)
  /\ UNCHANGED <<server, inflight, left, progress>>

\* purgeStaleRows: the exhausted rows that were old when the sweep read them.
SweepEnd ==
  /\ pc[Recovery] = "next"
  /\ todo[Recovery] = {}
  /\ \E old \in SUBSET {b \in Batch : Exhausted(orphan[b])} : DropJournals(old)
  /\ orphan' = [b \in Batch |-> NoJournal]
  /\ Goto(Recovery, "idle", NONE)
  /\ UNCHANGED <<server, inflight, left, todo, swept, crashes>>

RecoveryStep ==
  \/ SweepStart
  \/ \E b \in Batch : SweepSkip(b) \/ SweepGiveUp(b) \/ SweepAck(b) \/ SweepApply(b)
  \/ ReAckOk \/ ReAckFail \/ SweepDrop \/ SweepEnd

FeedStep(w) ==
  \/ FetchPending(w)
  \/ \E b \in Batch : TakeBatch(w, b) \/ TakeUnfetched(w, b)
  \/ EndFeed(w)

-----------------------------------------------------------------------------
UserStep ==
  \E b \in Batch, t \in Reviewed : MatchLine(b, t) \/ IgnoreLine(b, t) \/ UndoLine(b, t)

Next ==
  \/ \E b \in Batch : Publish(b) \/ Purge(b)
  \/ UserStep
  \/ Crash
  \/ \E w \in Feeder : FeedStep(w)
  \/ \E w \in Worker : ApplyStep(w)
  \/ RecoveryStep

Spec == Init /\ [][Next]_vars

(***************************************************************************)
(* Fairness.  The event loop runs every pending continuation (WF), the     *)
(* background timer fires again and again (WF of FetchPending), and the    *)
(* network and the session are not unavailable to the same batch for ever  *)
(* (SF of the good outcomes).  The user, the server and crashes owe        *)
(* nothing.                                                                *)
(***************************************************************************)
Fairness ==
  /\ \A w \in Feeder : WF_vars(FeedStep(w))
  /\ WF_vars(RecoveryStep)
  /\ \A w \in Worker : WF_vars(ApplyStep(w))
  /\ \A w \in Worker, b \in Batch :
       /\ SF_vars(cur[w] = b /\ PayloadOk(w))
       /\ SF_vars(cur[w] = b /\ BeginOk(w))
       /\ SF_vars(cur[w] = b /\ AckOk(w))

LiveSpec == Spec /\ Fairness

-----------------------------------------------------------------------------
(* Correctness.                                                            *)

\* Lines the committed book owes batch b: its inbound rows on mapped accounts,
\* but for a pending row the same batch retracts.
DueRows(b) ==
  {t \in Tx : /\ AcctOf[t] \in Mapped
              /\ Adds[b][t] # "none"
              /\ ~(Adds[b][t] = "pending" /\ t \in Removes[b])}

RowsOf(d, b)  == {t \in DueRows(b) : d.lines[b][t] # "none"}
Landed(d, b)  == RowsOf(d, b) = DueRows(b)
Applying      == {"journal", "begin", "write", "transition", "ack", "delete"}
Labels        == Applying \cup {"idle", "next", "fetch", "reack", "drop"}
ServerStates  == {"unpublished", "pending", "acked", "purged"}

TypeOK ==
  /\ server \in [Batch -> ServerStates]
  /\ disk \in Database
  /\ db \in Database
  /\ txn \in Worker \cup {NONE}
  /\ touched \subseteq DocKey
  /\ stale \subseteq DocKey
  /\ inflight \subseteq Batch
  /\ pc \in [Worker -> Labels]
  /\ cur \in [Worker -> Batch \cup {NONE}]
  /\ todo \in [Worker -> SUBSET Batch]
  /\ left \in [Worker -> SUBSET Acct]
  /\ orphan \in [Batch -> JournalRow]
  /\ swept \in BOOLEAN
  /\ crashes \in 0 .. MaxCrashes

\* The server never believes a batch was applied when its rows are not in the
\* committed book, whatever crashed, was rolled back or was acked from a stale
\* journal row (ack after commit, plaidApply.ts:856-932, plaidApplyRecovery.ts:122).
AckedIsLanded == \A b \in Batch : server[b] = "acked" => Landed(disk, b)

\* A batch over several accounts is in the committed book entirely or not at
\* all (runInDbTransaction around the account loop, plaidApply.ts:856-888).
AtomicLanding == \A b \in Batch : RowsOf(disk, b) \in {{}, DueRows(b)}

\* However often a batch is replayed, each account has one statement of it
\* (findExistingStatement by cloudStatementId, plaidApply.ts:322-348).
OneStatement == \A b \in Batch, a \in Acct : disk.stmts[b][a] <= 1

\* Two workers never apply the same batch at once, though both may have
\* checked the mutex before an await (inflightPublicIds, plaidApply.ts:754-778).
OneApplyPerBatch ==
  \A v, w \in Worker : /\ pc[v] \in Applying
                       /\ pc[w] \in Applying
                       /\ cur[v] = cur[w]
                       => v = w

\* Only the worker that began the open transaction ends it: a second apply
\* that cannot begin leaves the first one's writes alone (runInDbTransaction.ts:20-30).
TransactionIsOwned == [][txn # NONE /\ txn' # txn /\ crashes' = crashes => pc'[txn] # pc[txn]]_vars

\* Once the user matched a line, no apply, replay or sweep changes it: only the
\* user's undo does, or the rollback of a transaction the match fell into
\* (plaidApply.ts:469-472 and 573-587).
MatchesSurvive ==
  [][ \A b \in Batch, t \in Tx :
        db.lines[b][t] = "matched" /\ db'.lines[b][t] # "matched"
          => \/ UserStep
             \/ txn # NONE /\ txn' = NONE /\ db' = disk ]_vars

\* What a batch retracts while its line is still pending is gone from the book
\* when the batch is acked: "A `removed` row pointing at a pending line is treated
\* as the normal pending->posted swap and the local row is deleted silently"
\* (plaidApply.ts:17-19).
RetractionDropsPending ==
  [][ \A b \in Batch : server[b] = "pending" /\ server'[b] = "acked" =>
        \A t \in Removes[b], c \in Batch : disk.lines[c][t] # "pending" ]_vars

\* Every offered batch on a mapped account is acked in the end, whatever was
\* lost, skipped or interrupted, unless the server withdrew it.
EventuallyAcked ==
  \A b \in Batch : server[b] = "pending" /\ ~NeedsMapping(b) ~> server[b] \in {"acked", "purged"}

\* The in-process mutex never leaks: every exit of an apply passes the finally
\* (plaidApply.ts:960-962).
MutexIsReleased == \A b \in Batch : b \in inflight ~> b \notin inflight

\* The batches implement FeedDelivery, seen through the committed book.
Delivery == INSTANCE FeedDelivery WITH
              Rows  <- [b \in Batch |-> DueRows(b)],
              offer <- server,
              book  <- [b \in Batch |-> RowsOf(disk, b)]

DeliverySpec == Delivery!Spec
=============================================================================
