-------------------------- MODULE PlaidApplyProofs --------------------------
(***************************************************************************)
(* Proofs about PlaidApply, for every set of batches, transactions,        *)
(* accounts and feeders, any number of crashes and any failing write: the  *)
(* types, the acks, the transaction's owner; then one apply per batch, one *)
(* statement per account, batches that land whole, matches that no apply   *)
(* undoes, and that PlaidApply implements FeedDelivery.                    *)
(***************************************************************************)
EXTENDS PlaidApply, TLAPS

USE DEF Worker, LineStatus, Phase, JournalRow, NoJournal, Database, DocKey, JournalKey,
        ServerStates, Applying, Labels, RowKind

-----------------------------------------------------------------------------
(* Type correctness.                                                       *)

StoreOK ==
  /\ disk \in Database
  /\ db \in Database
  /\ txn \in Worker \cup {NONE}
  /\ touched \subseteq DocKey
  /\ stale \subseteq DocKey

LEMMA EmptyType == EmptyDatabase \in Database
BY BoundAssumption DEF EmptyDatabase

\* A line's status stays a status whatever batch is applied to it.
LEMMA RowsType ==
  ASSUME NEW b \in Batch, NEW a \in Acct, NEW l \in [Tx -> LineStatus]
  PROVE  ApplyRows(l, b, a) \in [Tx -> LineStatus]
BY PayloadAssumption DEF ApplyRows, ApplyRow, AddRow, RemoveRow, StampOf

LEMMA JournalType ==
  ASSUME NEW d \in Database, NEW b \in Batch, NEW row \in JournalRow
  PROVE  [d EXCEPT !.journal[b] = row] \in Database
<1> HIDE DEF JournalRow
<1> QED OBVIOUS

LEMMA WriteType ==
  ASSUME StoreOK, NEW d \in Database, NEW key \in DocKey, Write(d, key)
  PROVE  StoreOK'
BY DEF StoreOK, Write

LEMMA DropType ==
  ASSUME StoreOK, NEW bs \in SUBSET Batch, DropJournals(bs)
  PROVE  StoreOK'
<1> DEFINE j == [b \in Batch |-> IF b \in bs THEN NoJournal ELSE db.journal[b]]
           d == [db EXCEPT !.journal = j]
<1>1. d \in Database
  <2>1. db \in Database
    BY DEF StoreOK
  <2>2. NoJournal \in JournalRow
    BY BoundAssumption
  <2>3. j \in [Batch -> JournalRow]
    BY <2>1, <2>2
  <2> HIDE DEF j
  <2> QED BY <2>1, <2>3
<1>2. db' = d /\ disk' \in {d, disk} /\ touched' \subseteq touched /\ stale' \subseteq stale /\ txn' = txn
  BY DEF DropJournals
<1> QED BY <1>1, <1>2 DEF StoreOK

LEMMA RollbackType ==
  ASSUME StoreOK, NEW S \in SUBSET DocKey, Rollback(S)
  PROVE  StoreOK'
<1>1. Reverted \subseteq DocKey
  BY DEF StoreOK, Reverted
<1> QED BY <1>1 DEF StoreOK, Rollback

LEMMA FailedWriteType ==
  ASSUME StoreOK, NEW key \in DocKey, FailedWrite(key)
  PROVE  StoreOK'
BY DEF StoreOK, FailedWrite

\* What the rest of the state is made of.
ControlOK ==
  /\ server \in [Batch -> ServerStates]
  /\ inflight \subseteq Batch
  /\ pc \in [Worker -> Labels]
  /\ cur \in [Worker -> Batch \cup {NONE}]
  /\ todo \in [Worker -> SUBSET Batch]
  /\ left \in [Worker -> SUBSET Acct]
  /\ orphan \in [Batch -> JournalRow]
  /\ swept \in BOOLEAN
  /\ crashes \in 0 .. MaxCrashes

LEMMA TypeSplit == TypeOK <=> StoreOK /\ ControlOK
BY DEF TypeOK, StoreOK, ControlOK

\* A worker that is at a batch is at a real one.
AtBatch == \A w \in Worker : pc[w] \in Applying \cup {"fetch", "reack", "drop"} => cur[w] \in Batch

Sane == StoreOK /\ ControlOK /\ AtBatch

LEMMA InitSane == Init => Sane
<1> SUFFICES ASSUME Init PROVE Sane
  OBVIOUS
<1>1. StoreOK
  BY EmptyType DEF Init, StoreOK
<1>2. NoJournal \in JournalRow /\ 0 \in 0 .. MaxCrashes
  BY BoundAssumption
<1>3. ControlOK
  <2> HIDE DEF JournalRow, NoJournal
  <2> QED BY <1>2 DEF Init, ControlOK
<1>4. AtBatch
  BY DEF Init, AtBatch
<1> QED BY <1>1, <1>3, <1>4 DEF Sane

\* Moving a worker keeps the control state sane when its new label needs no
\* batch or it has one.
LEMMA GotoSane ==
  ASSUME pc \in [Worker -> Labels], cur \in [Worker -> Batch \cup {NONE}], AtBatch,
         NEW w \in Worker, NEW l \in Labels, NEW b \in Batch \cup {NONE}, Goto(w, l, b),
         l \in {"idle", "next"} \/ b \in Batch
  PROVE  /\ pc' \in [Worker -> Labels]
         /\ cur' \in [Worker -> Batch \cup {NONE}]
         /\ AtBatch'
BY DEF Goto, AtBatch

\* The server's and the user's steps, and the crash.
LEMMA OutsideSane ==
  ASSUME Sane,
         \/ \E b \in Batch : Publish(b) \/ Purge(b)
         \/ UserStep
         \/ Crash
  PROVE  Sane'
<1> USE DEF Sane
<1>1. ASSUME NEW b \in Batch, Publish(b) \/ Purge(b) PROVE Sane'
  BY <1>1 DEF Publish, Purge, StoreOK, ControlOK, AtBatch, store, progress
<1>2. ASSUME NEW b \in Batch, NEW t \in Tx, NEW from \in LineStatus, NEW to \in LineStatus,
             Decide(b, t, from, to)
      PROVE  Sane'
  <2> DEFINE d == [db EXCEPT !.lines[b][t] = to]
             key == <<b, AcctOf[t]>>
  <2>1. d \in Database /\ key \in DocKey
    BY PayloadAssumption DEF StoreOK
  <2>2. Write(d, key) /\ UNCHANGED <<server, inflight, pc, cur, left, progress>>
    BY <1>2 DEF Decide
  <2> HIDE DEF d, key
  <2>3. StoreOK'
    BY <2>1, <2>2, WriteType
  <2> QED BY <2>2, <2>3 DEF ControlOK, AtBatch, progress
<1>3. CASE UserStep
  BY <1>2, <1>3, PayloadAssumption DEF UserStep, MatchLine, IgnoreLine, UndoLine
<1>4. CASE Crash
  <2>1. StoreOK'
    BY <1>4 DEF Crash, StoreOK
  <2>2. NoJournal \in JournalRow /\ crashes' \in 0 .. MaxCrashes
    BY <1>4, BoundAssumption DEF Crash, ControlOK
  <2>3. ControlOK'
    <3> HIDE DEF JournalRow, NoJournal
    <3> QED BY <1>4, <2>2 DEF Crash, ControlOK
  <2>4. AtBatch'
    BY <1>4 DEF Crash, AtBatch
  <2> QED BY <2>1, <2>3, <2>4
<1> QED BY <1>1, <1>3, <1>4

LEMMA StartSane ==
  ASSUME ControlOK, AtBatch, NEW w \in Worker, NEW b \in Batch, StartApply(w, b)
  PROVE  /\ inflight' \subseteq Batch
         /\ pc' \in [Worker -> Labels]
         /\ cur' \in [Worker -> Batch \cup {NONE}]
         /\ AtBatch'
<1>1. CASE UNCHANGED inflight /\ Goto(w, "next", NONE)
  BY <1>1, GotoSane DEF ControlOK
<1>2. CASE inflight' = inflight \cup {b} /\ Goto(w, "journal", b)
  BY <1>2, GotoSane DEF ControlOK
<1> QED BY <1>1, <1>2 DEF StartApply

\* The loop of applyAllPendingForBook.
LEMMA FeedSane ==
  ASSUME Sane, NEW w \in Feeder, FeedStep(w)
  PROVE  Sane'
<1> USE DEF Sane, Goto, store
<1>1. CASE FetchPending(w)
  BY <1>1 DEF FetchPending, StoreOK, ControlOK, AtBatch
<1>2. ASSUME NEW b \in Batch, TakeBatch(w, b) PROVE Sane'
  <2>1. StartApply(w, b)
    BY <1>2 DEF TakeBatch
  <2>2. todo' \in [Worker -> SUBSET Batch]
    BY <1>2 DEF TakeBatch, ControlOK
  <2> QED BY <1>2, <2>1, <2>2, StartSane DEF TakeBatch, StoreOK, ControlOK
<1>3. ASSUME NEW b \in Batch, TakeUnfetched(w, b) PROVE Sane'
  <2>1. \E l \in {"next", "fetch"} : Goto(w, l, IF l = "next" THEN NONE ELSE b)
    BY <1>3 DEF TakeUnfetched
  <2>2. pc' \in [Worker -> Labels] /\ cur' \in [Worker -> Batch \cup {NONE}] /\ AtBatch'
    <3> HIDE DEF Goto
    <3> QED BY <2>1, GotoSane DEF ControlOK
  <2>3. todo' \in [Worker -> SUBSET Batch]
    BY <1>3 DEF TakeUnfetched, ControlOK
  <2> QED BY <1>3, <2>2, <2>3 DEF TakeUnfetched, StoreOK, ControlOK
<1>4. CASE EndFeed(w)
  BY <1>4 DEF EndFeed, StoreOK, ControlOK, AtBatch, progress
<1> QED BY <1>1, <1>2, <1>3, <1>4 DEF FeedStep

LEMMA AckType ==
  ASSUME server \in [Batch -> ServerStates], NEW b \in Batch, ServerAcks(b) \/ UNCHANGED server
  PROVE  server' \in [Batch -> ServerStates]
BY DEF ServerAcks

\* applyPlaidBatch and applyPlaidBatchWithPayload.
LEMMA ApplySane ==
  ASSUME Sane, NEW w \in Worker, ApplyStep(w)
  PROVE  Sane'
<1> USE DEF Sane, Goto, Release, progress
<1>1. CASE PayloadOk(w)
  <2>1. StartApply(w, cur[w]) /\ cur[w] \in Batch
    BY <1>1 DEF PayloadOk, AtBatch
  <2> QED BY <1>1, <2>1, StartSane DEF PayloadOk, StoreOK, ControlOK, store
<1>2. CASE PayloadGone(w)
  <2>1. DropJournals({cur[w]}) /\ {cur[w]} \in SUBSET Batch
    BY <1>2 DEF PayloadGone, AtBatch
  <2>2. StoreOK'
    BY <2>1, DropType
  <2> QED BY <1>2, <2>2 DEF PayloadGone, ControlOK, AtBatch
<1>3. CASE PayloadFail(w)
  BY <1>3 DEF PayloadFail, StoreOK, ControlOK, AtBatch, store
<1>4. CASE JournalOk(w)
  <2> DEFINE b == cur[w]
             d == [db EXCEPT !.journal[b] = [phase |-> "applying", att |-> Bump(@.att)]]
  <2>1. b \in Batch
    BY <1>4 DEF JournalOk, AtBatch
  <2>2. d \in Database
    <3>1. [phase |-> "applying", att |-> Bump(db.journal[b].att)] \in JournalRow
      BY <2>1, BoundAssumption DEF StoreOK, Bump
    <3> QED BY <2>1, <3>1, JournalType DEF StoreOK
  <2>3. Write(d, JournalKey(b))
    BY <1>4 DEF JournalOk
  <2>4. UNCHANGED <<server, inflight, left, todo, orphan, swept, crashes>> /\ Goto(w, "begin", b)
    BY <1>4 DEF JournalOk
  <2> HIDE DEF d
  <2>5. StoreOK'
    BY <2>1, <2>2, <2>3, WriteType
  <2> QED BY <2>1, <2>4, <2>5 DEF ControlOK, AtBatch
<1>5. CASE JournalFail(w)
  <2>1. cur[w] \in Batch
    BY <1>5 DEF JournalFail, AtBatch
  <2>2. CASE FailedWrite(JournalKey(cur[w]))
    <3>1. StoreOK'
      BY <2>1, <2>2, FailedWriteType
    <3> QED BY <1>5, <3>1 DEF JournalFail, ControlOK, AtBatch
  <2>3. CASE UNCHANGED store
    BY <1>5, <2>3 DEF JournalFail, StoreOK, ControlOK, AtBatch, store
  <2> QED BY <1>5, <2>2, <2>3 DEF JournalFail
<1>6. CASE BeginOk(w)
  BY <1>6, PayloadAssumption DEF BeginOk, Accounts, StoreOK, ControlOK, AtBatch
<1>7. CASE BeginFail(w)
  BY <1>7 DEF BeginFail, StoreOK, ControlOK, AtBatch, store
<1>8. ASSUME NEW a \in Acct, WriteOk(w, a) PROVE Sane'
  <2> DEFINE b == cur[w]
             n == IF StatementExists(db, b, a) THEN db.stmts[b][a] ELSE db.stmts[b][a] + 1
             d == [db EXCEPT !.stmts[b][a] = n, !.lines[b] = ApplyRows(@, b, a)]
  <2>1. b \in Batch
    BY <1>8 DEF WriteOk, AtBatch
  <2>2. n \in Nat /\ ApplyRows(db.lines[b], b, a) \in [Tx -> LineStatus]
    BY <2>1, RowsType DEF StoreOK
  <2> HIDE DEF n
  <2>3. d \in Database
    BY <2>1, <2>2 DEF StoreOK
  <2>4. Write(d, <<b, a>>) /\ left' = [left EXCEPT ![w] = @ \ {a}]
        /\ UNCHANGED <<server, inflight, pc, cur, todo, orphan, swept, crashes>>
    BY <1>8 DEF WriteOk, n
  <2> HIDE DEF d
  <2>5. StoreOK'
    BY <2>1, <2>3, <2>4, WriteType
  <2> QED BY <2>4, <2>5 DEF ControlOK, AtBatch
<1>9. ASSUME NEW a \in Acct, WriteFail(w, a) PROVE Sane'
  <2> DEFINE S == IF StatementExists(disk, cur[w], a) THEN {<<cur[w], a>>} ELSE {}
  <2>1. S \in SUBSET DocKey /\ Rollback(S)
    BY <1>9 DEF WriteFail, AtBatch
  <2>2. StoreOK'
    BY <2>1, RollbackType
  <2> QED BY <1>9, <2>2 DEF WriteFail, ControlOK, AtBatch
<1>10. CASE CommitOk(w)
  BY <1>10 DEF CommitOk, StoreOK, ControlOK, AtBatch
<1>11. CASE CommitFail(w)
  <2>1. StoreOK'
    BY <1>11, RollbackType DEF CommitFail
  <2> QED BY <1>11, <2>1 DEF CommitFail, ControlOK, AtBatch
<1>12. CASE TransitionOk(w)
  <2>1. cur[w] \in Batch
    BY <1>12 DEF TransitionOk, AtBatch
  <2>2. CASE JournalExists(db, cur[w])
    <3> DEFINE d == [db EXCEPT !.journal[cur[w]].phase = "ack_pending"]
    <3>1. d \in Database
      <4>1. [db.journal[cur[w]] EXCEPT !.phase = "ack_pending"] \in JournalRow
        <5>1. db.journal[cur[w]] \in JournalRow
          BY <2>1 DEF StoreOK
        <5> QED BY <5>1
      <4> QED BY <2>1, <4>1, JournalType DEF StoreOK
    <3>2. Write(d, JournalKey(cur[w]))
      BY <1>12, <2>2 DEF TransitionOk
    <3> HIDE DEF d
    <3>3. StoreOK'
      BY <2>1, <3>1, <3>2, WriteType
    <3> QED BY <1>12, <2>1, <3>3 DEF TransitionOk, ControlOK, AtBatch
  <2>3. CASE ~JournalExists(db, cur[w])
    BY <1>12, <2>1, <2>3 DEF TransitionOk, StoreOK, ControlOK, AtBatch, store
  <2> QED BY <2>2, <2>3
<1>13. CASE TransitionFail(w)
  <2>1. cur[w] \in Batch
    BY <1>13 DEF TransitionFail, AtBatch
  <2>2. StoreOK'
    BY <1>13, <2>1, FailedWriteType DEF TransitionFail
  <2> QED BY <1>13, <2>1, <2>2 DEF TransitionFail, ControlOK, AtBatch
<1>14. CASE AckOk(w) \/ AckFail(w)
  <2>1. cur[w] \in Batch
    BY <1>14 DEF AckOk, AckFail, AtBatch
  <2>2. server' \in [Batch -> ServerStates]
    BY <1>14, <2>1, AckType DEF AckOk, AckFail, ControlOK
  <2>3. inflight' \subseteq Batch
    BY <1>14 DEF AckOk, AckFail, ControlOK
  <2>4. Goto(w, "delete", cur[w]) \/ Goto(w, "next", NONE)
    BY <1>14 DEF AckOk, AckFail
  <2>5. pc' \in [Worker -> Labels] /\ cur' \in [Worker -> Batch \cup {NONE}] /\ AtBatch'
    <3> HIDE DEF Goto
    <3> QED BY <2>1, <2>4, GotoSane DEF ControlOK
  <2> QED BY <1>14, <2>2, <2>3, <2>5 DEF AckOk, AckFail, StoreOK, ControlOK, store
<1>15. CASE DeleteJournal(w)
  <2>1. cur[w] \in Batch
    BY <1>15 DEF DeleteJournal, AtBatch
  <2>2. StoreOK'
    <3>1. CASE DropJournals({cur[w]})
      BY <2>1, <3>1, DropType
    <3>2. CASE UNCHANGED store
      BY <3>2 DEF store, StoreOK
    <3> QED BY <1>15, <3>1, <3>2 DEF DeleteJournal
  <2> QED BY <1>15, <2>1, <2>2 DEF DeleteJournal, ControlOK, AtBatch
<1> QED BY <1>1, <1>2, <1>3, <1>4, <1>5, <1>6, <1>7, <1>8, <1>9, <1>10, <1>11, <1>12,
           <1>13, <1>14, <1>15 DEF ApplyStep

\* runApplyJournalRecovery.
LEMMA RecoverySane ==
  ASSUME Sane, RecoveryStep
  PROVE  Sane'
<1> USE BoundAssumption DEF Sane, Goto
<1>1. CASE SweepStart
  BY <1>1 DEF SweepStart, StoreOK, ControlOK, AtBatch, store
<1>2. ASSUME NEW b \in Batch, SweepSkip(b) \/ SweepGiveUp(b) \/ SweepAck(b) \/ SweepApply(b)
      PROVE  Sane'
  <2>1. TakeOrphan(b) /\ \E l \in {"next", "drop", "reack", "fetch"} :
                           Goto(Recovery, l, IF l = "next" THEN NONE ELSE b)
    BY <1>2 DEF SweepSkip, SweepGiveUp, SweepAck, SweepApply
  <2> QED BY <2>1 DEF TakeOrphan, StoreOK, ControlOK, AtBatch, store
<1>3. CASE ReAckOk \/ ReAckFail
  <2>1. cur[Recovery] \in Batch
    BY <1>3 DEF ReAckOk, ReAckFail, AtBatch
  <2>2. server' \in [Batch -> ServerStates]
    BY <1>3, <2>1, AckType DEF ReAckOk, ReAckFail, ControlOK
  <2>3. Goto(Recovery, "drop", cur[Recovery]) \/ Goto(Recovery, "next", NONE)
    BY <1>3 DEF ReAckOk, ReAckFail
  <2>4. pc' \in [Worker -> Labels] /\ cur' \in [Worker -> Batch \cup {NONE}] /\ AtBatch'
    <3> HIDE DEF Goto
    <3> QED BY <2>1, <2>3, GotoSane DEF ControlOK
  <2> QED BY <1>3, <2>2, <2>4 DEF ReAckOk, ReAckFail, StoreOK, ControlOK, store, progress
<1>4. CASE SweepDrop
  <2>1. cur[Recovery] \in Batch
    BY <1>4 DEF SweepDrop, AtBatch
  <2>2. StoreOK'
    <3>1. CASE DropJournals({cur[Recovery]})
      BY <2>1, <3>1, DropType
    <3>2. CASE UNCHANGED store
      BY <3>2 DEF store, StoreOK
    <3> QED BY <1>4, <3>1, <3>2 DEF SweepDrop
  <2> QED BY <1>4, <2>1, <2>2 DEF SweepDrop, ControlOK, AtBatch, progress
<1>5. CASE SweepEnd
  <2>1. PICK old \in SUBSET {b \in Batch : Exhausted(orphan[b])} : DropJournals(old)
    BY <1>5 DEF SweepEnd
  <2>2. StoreOK'
    BY <2>1, DropType
  <2> QED BY <1>5, <2>2 DEF SweepEnd, ControlOK, AtBatch
<1> QED BY <1>1, <1>2, <1>3, <1>4, <1>5 DEF RecoveryStep

LEMMA NextSane == Sane /\ [Next]_vars => Sane'
<1> SUFFICES ASSUME Sane, [Next]_vars PROVE Sane'
  OBVIOUS
<1>1. CASE Next
  BY <1>1, OutsideSane, FeedSane, ApplySane, RecoverySane DEF Next
<1>2. CASE UNCHANGED vars
  BY <1>2 DEF vars, Sane, StoreOK, ControlOK, AtBatch
<1> QED BY <1>1, <1>2

THEOREM SpecSane == Spec => []Sane
BY InitSane, NextSane, PTL DEF Spec

\* Type correctness: every reachable state of the apply path is well formed.
THEOREM TypeCorrect == Spec => []TypeOK
<1>1. Sane => TypeOK
  BY TypeSplit DEF Sane
<1> QED BY <1>1, SpecSane, PTL

-----------------------------------------------------------------------------
(* The session: what the open transaction holds.                           *)

\* e has every due line d has.
Grows(d, e) == \A b \in Batch : \A t \in DueRows(b) :
                 d.lines[b][t] # "none" => e.lines[b][t] # "none"

SessionInv ==
  /\ \A w \in Worker : pc[w] = "write" <=> txn = w
  /\ txn = NONE => db = disk
  /\ Grows(disk, db)
  /\ \A w \in Worker : pc[w] = "write" =>
       \A t \in DueRows(cur[w]) : AcctOf[t] \notin left[w] => db.lines[cur[w]][t] # "none"

\* Someone holds that b was applied: the server, a journal row, the sweep's
\* snapshot of one, or a worker past its commit.
Believed(b) ==
  \/ server[b] = "acked"
  \/ \E row \in {db.journal[b], disk.journal[b], orphan[b]} : row.phase = "ack_pending"
  \/ \E w \in Worker : pc[w] \in {"transition", "ack", "delete", "reack"} /\ cur[w] = b

BeliefInv == \A b \in Batch : Believed(b) => Landed(disk, b)

IInv == Sane /\ SessionInv /\ BeliefInv

LEMMA LandedIff ==
  ASSUME NEW d, NEW b
  PROVE  Landed(d, b) <=> \A t \in DueRows(b) : d.lines[b][t] # "none"
BY DEF Landed, RowsOf

LEMMA GrowsRefl == ASSUME NEW d PROVE Grows(d, d)
BY DEF Grows

LEMMA GrowsLanded ==
  ASSUME NEW d, NEW e, NEW b \in Batch, Grows(d, e), Landed(d, b)
  PROVE  Landed(e, b)
BY LandedIff DEF Grows

\* Applying a batch to one of its lines never leaves a due line missing.
LEMMA ApplyRowLands ==
  ASSUME NEW b \in Batch, NEW t \in DueRows(b), NEW s \in LineStatus
  PROVE  ApplyRow(s, b, t) # "none"
<1>1. t \in Tx /\ Adds[b][t] \in RowKind /\ Adds[b][t] # "none"
      /\ ~(Adds[b][t] = "pending" /\ t \in Removes[b])
  BY PayloadAssumption DEF DueRows
<1> QED BY <1>1 DEF ApplyRow, AddRow, RemoveRow, StampOf

\* A step that only stores d, through the transaction if one is open.
LEMMA PutSession ==
  ASSUME Sane, SessionInv, NEW d,
         db' = d, disk' = (IF txn = NONE THEN d ELSE disk), txn' = txn, Grows(db, d),
         \A w \in Worker : pc'[w] = "write" <=> pc[w] = "write",
         \A w \in Worker : pc[w] = "write" => cur'[w] = cur[w] /\ left'[w] = left[w]
  PROVE  SessionInv' /\ Grows(disk, disk')
<1>1. Grows(disk, disk')
  BY GrowsRefl DEF SessionInv
<1>2. Grows(disk', db')
  BY GrowsRefl DEF SessionInv, Grows
<1>3. txn' = NONE => db' = disk'
  OBVIOUS
<1>4. \A w \in Worker : pc'[w] = "write" <=> txn' = w
  BY DEF SessionInv
<1>5. ASSUME NEW w \in Worker, pc'[w] = "write", NEW t \in DueRows(cur'[w]), AcctOf[t] \notin left'[w]
      PROVE  db'.lines[cur'[w]][t] # "none"
  <2>1. pc[w] = "write" /\ cur'[w] = cur[w] /\ left'[w] = left[w]
    BY <1>5
  <2>2. cur[w] \in Batch
    BY <2>1 DEF Sane, AtBatch
  <2> QED BY <1>5, <2>1, <2>2 DEF SessionInv, Grows
<1> QED BY <1>1, <1>2, <1>3, <1>4, <1>5 DEF SessionInv, Grows, DueRows

\* A step that stores through the session, and does not enter or leave it.
Puts == /\ txn' = txn
        /\ disk' = IF txn = NONE THEN db' ELSE disk
        /\ Grows(db, db')

Quiet == \A w \in Worker : /\ pc'[w] = "write" <=> pc[w] = "write"
                           /\ pc[w] = "write" => cur'[w] = cur[w] /\ left'[w] = left[w]

Secure == SessionInv' /\ Grows(disk, disk')

LEMMA PutsSecure ==
  ASSUME Sane, SessionInv, Puts, Quiet
  PROVE  Secure
BY PutSession DEF Puts, Quiet, Secure

LEMMA StillPuts ==
  ASSUME SessionInv, UNCHANGED <<disk, db, txn>>
  PROVE  Puts
BY GrowsRefl DEF SessionInv, Puts

LEMMA WritePuts ==
  ASSUME NEW d, NEW key, Write(d, key), Grows(db, d)
  PROVE  Puts
BY DEF Write, Puts

\* Journal writes leave the lines alone.
LEMMA SameLinesGrow ==
  ASSUME NEW d, NEW e, d.lines = e.lines
  PROVE  Grows(d, e)
BY DEF Grows

LEMMA DropPuts ==
  ASSUME StoreOK, NEW bs, DropJournals(bs)
  PROVE  Puts
<1>1. db'.lines = db.lines
  BY DEF DropJournals, StoreOK
<1> QED BY <1>1, SameLinesGrow DEF DropJournals, Puts

LEMMA GotoQuiet ==
  ASSUME ControlOK, NEW w \in Worker, NEW l, NEW b, Goto(w, l, b),
         pc[w] # "write", l # "write", left' = left
  PROVE  Quiet
BY DEF ControlOK, Goto, Quiet

-----------------------------------------------------------------------------
(* Beliefs: no step makes anyone believe in a batch, but its commit.       *)

NoNewBelief == \A b \in Batch : Believed(b)' => Believed(b) \/ Landed(disk, b)'

BeliefLabels == {"transition", "ack", "delete", "reack"}

LEMMA NoNew ==
  ASSUME ControlOK,
         \/ UNCHANGED <<pc, cur>>
         \/ \E w \in Worker, l \in Labels, c \in Batch \cup {NONE} :
              Goto(w, l, c) /\ (l \in BeliefLabels => Believed(c)),
         \A b \in Batch : server'[b] = "acked" => Believed(b),
         \A b \in Batch : db'.journal[b].phase = "ack_pending" => Believed(b),
         \A b \in Batch : disk'.journal[b] \in {db'.journal[b], db.journal[b], disk.journal[b]},
         \A b \in Batch : orphan'[b].phase = "ack_pending" => Believed(b)
  PROVE  NoNewBelief
<1> SUFFICES ASSUME NEW b \in Batch, Believed(b)' PROVE Believed(b)
  BY DEF NoNewBelief
<1>1. CASE \E w \in Worker : pc'[w] \in BeliefLabels /\ cur'[w] = b
  <2>1. PICK v \in Worker : pc'[v] \in BeliefLabels /\ cur'[v] = b
    BY <1>1
  <2>2. CASE UNCHANGED <<pc, cur>>
    BY <2>1, <2>2 DEF Believed, BeliefLabels
  <2>3. ASSUME NEW w \in Worker, NEW l \in Labels, NEW c \in Batch \cup {NONE},
               Goto(w, l, c), l \in BeliefLabels => Believed(c)
        PROVE  Believed(b)
    <3>1. CASE v = w
      BY <2>1, <2>3, <3>1 DEF Goto, ControlOK
    <3>2. CASE v # w
      BY <2>1, <2>3, <3>2 DEF Goto, ControlOK, Believed, BeliefLabels
    <3> QED BY <3>1, <3>2
  <2> QED BY <2>2, <2>3
<1>2. CASE server'[b] = "acked"
  BY <1>2
<1>3. CASE \E row \in {db'.journal[b], disk'.journal[b], orphan'[b]} : row.phase = "ack_pending"
  BY <1>3 DEF Believed
<1> QED BY <1>1, <1>2, <1>3 DEF Believed, BeliefLabels

\* What the database, the server and the snapshot hold now is believed already.
LEMMA HeldIsBelieved ==
  ASSUME NEW b \in Batch,
         \/ server[b] = "acked"
         \/ db.journal[b].phase = "ack_pending"
         \/ disk.journal[b].phase = "ack_pending"
         \/ orphan[b].phase = "ack_pending"
  PROVE  Believed(b)
BY DEF Believed

LEMMA WorkerBelieves ==
  ASSUME NEW w \in Worker, pc[w] \in BeliefLabels
  PROVE  Believed(cur[w])
BY DEF Believed, BeliefLabels

LEMMA DropJournalsBelief ==
  ASSUME StoreOK, NEW bs \in SUBSET Batch, DropJournals(bs)
  PROVE  /\ \A b \in Batch : db'.journal[b].phase = "ack_pending" => Believed(b)
         /\ \A b \in Batch : disk'.journal[b] \in {db'.journal[b], db.journal[b], disk.journal[b]}
<1>1. \A b \in Batch : db'.journal[b] = IF b \in bs THEN NoJournal ELSE db.journal[b]
  BY DEF DropJournals, StoreOK
<1>2. \A b \in Batch : db'.journal[b].phase = "ack_pending" => db.journal[b].phase = "ack_pending"
  BY <1>1
<1>3. disk' = db' \/ disk' = disk
  BY DEF DropJournals
<1> QED BY <1>2, <1>3, HeldIsBelieved

-----------------------------------------------------------------------------
(* Each step keeps the session's invariant and creates no belief.          *)

Faithful == Secure /\ NoNewBelief

\* A step of one worker outside the transaction that leaves the store alone.
LEMMA ControlFaithful ==
  ASSUME Sane, SessionInv, NEW w \in Worker, NEW l \in Labels, NEW c \in Batch \cup {NONE},
         Goto(w, l, c), pc[w] # "write", l # "write", left' = left,
         l \in BeliefLabels => Believed(c),
         \A b \in Batch : server'[b] = "acked" => Believed(b),
         \A b \in Batch : orphan'[b].phase = "ack_pending" => Believed(b),
         UNCHANGED <<disk, db, txn>>
  PROVE  Faithful
<1>1. Secure
  BY StillPuts, GotoQuiet, PutsSecure DEF Sane
<1>2. \A b \in Batch : db'.journal[b].phase = "ack_pending" => Believed(b)
  BY HeldIsBelieved
<1>3. \A b \in Batch : disk'.journal[b] \in {db'.journal[b], db.journal[b], disk.journal[b]}
  OBVIOUS
<1>4. NoNewBelief
  <2> HIDE DEF Goto
  <2> QED BY <1>2, <1>3, NoNew DEF Sane
<1> QED BY <1>1, <1>4 DEF Faithful

\* The same when it stores: nothing believed comes to be written.
LEMMA PutFaithful ==
  ASSUME Sane, SessionInv, NEW w \in Worker, NEW l \in Labels, NEW c \in Batch \cup {NONE},
         Goto(w, l, c), pc[w] # "write", l # "write", left' = left,
         l \in BeliefLabels => Believed(c),
         UNCHANGED server,
         \A b \in Batch : orphan'[b].phase = "ack_pending" => Believed(b),
         Puts,
         \A b \in Batch : db'.journal[b].phase = "ack_pending" => Believed(b)
  PROVE  Faithful
<1>1. Secure
  BY GotoQuiet, PutsSecure DEF Sane
<1>2. \A b \in Batch : disk'.journal[b] \in {db'.journal[b], db.journal[b], disk.journal[b]}
  BY DEF Puts
<1>3. \A b \in Batch : server'[b] = "acked" => Believed(b)
  BY HeldIsBelieved
<1>4. NoNewBelief
  <2> HIDE DEF Goto
  <2> QED BY <1>2, <1>3, NoNew DEF Sane
<1> QED BY <1>1, <1>4 DEF Faithful

LEMMA OrphanBelief ==
  ASSUME UNCHANGED orphan
  PROVE  \A b \in Batch : orphan'[b].phase = "ack_pending" => Believed(b)
BY HeldIsBelieved

LEMMA OutsideFaithful ==
  ASSUME Sane, SessionInv,
         \/ \E b \in Batch : Publish(b) \/ Purge(b)
         \/ UserStep
         \/ Crash
  PROVE  Faithful
<1>1. ASSUME NEW b \in Batch, Publish(b) \/ Purge(b) PROVE Faithful
  <2>1. Secure
    BY <1>1, StillPuts, PutsSecure DEF Publish, Purge, store, Quiet
  <2>2. \A c \in Batch : server'[c] = "acked" => server[c] = "acked"
    BY <1>1 DEF Publish, Purge, Sane, ControlOK
  <2>3. UNCHANGED <<pc, cur, db, disk, orphan>>
    BY <1>1 DEF Publish, Purge, store, progress
  <2>4. NoNewBelief
    BY <2>2, <2>3, HeldIsBelieved, NoNew DEF Sane
  <2> QED BY <2>1, <2>4 DEF Faithful
<1>2. ASSUME NEW b \in Batch, NEW t \in Tx, NEW from \in LineStatus,
             NEW to \in LineStatus \ {"none"}, Decide(b, t, from, to)
      PROVE  Faithful
  <2> DEFINE d == [db EXCEPT !.lines[b][t] = to]
  <2>1. Grows(db, d) /\ d.journal = db.journal
    BY DEF Grows, Sane, StoreOK
  <2>2. Write(d, <<b, AcctOf[t]>>) /\ UNCHANGED <<server, pc, cur, left, orphan>>
    BY <1>2 DEF Decide, progress
  <2> HIDE DEF d
  <2>3. Secure
    BY <2>1, <2>2, WritePuts, PutsSecure DEF Quiet
  <2>4. db'.journal = db.journal /\ (disk' = db' \/ disk' = disk)
    BY <2>1, <2>2 DEF Write
  <2>5. NoNewBelief
    BY <2>2, <2>4, HeldIsBelieved, NoNew DEF Sane
  <2> QED BY <2>3, <2>5 DEF Faithful
<1>3. CASE UserStep
  BY <1>2, <1>3, PayloadAssumption DEF UserStep, MatchLine, IgnoreLine, UndoLine
<1>4. CASE Crash
  <2>1. SessionInv'
    BY <1>4, GrowsRefl, WorkerAssumption DEF Crash, SessionInv
  <2>2. Grows(disk, disk')
    BY <1>4, GrowsRefl DEF Crash
  <2>3. \A b \in Batch : Believed(b)' => Believed(b)
    BY <1>4, HeldIsBelieved DEF Crash, Believed
  <2> QED BY <2>1, <2>2, <2>3 DEF Faithful, Secure, NoNewBelief
<1> QED BY <1>1, <1>3, <1>4

LEMMA StartFaithful ==
  ASSUME Sane, SessionInv, NEW w \in Worker, NEW b \in Batch, StartApply(w, b),
         pc[w] # "write", UNCHANGED <<server, left, orphan, disk, db, txn>>
  PROVE  Faithful
<1>1. \E l \in {"next", "journal"}, c \in Batch \cup {NONE} : Goto(w, l, c)
  BY DEF StartApply
<1>2. \A c \in Batch : server'[c] = "acked" => Believed(c)
  BY HeldIsBelieved
<1> QED BY <1>1, <1>2, OrphanBelief, ControlFaithful DEF BeliefLabels

LEMMA FeedFaithful ==
  ASSUME Sane, SessionInv, NEW w \in Feeder, FeedStep(w)
  PROVE  Faithful
<1>1. CASE \E b \in Batch : TakeBatch(w, b)
  BY <1>1, StartFaithful DEF TakeBatch, store
<1>2. CASE FetchPending(w) \/ EndFeed(w) \/ \E b \in Batch : TakeUnfetched(w, b)
  <2>1. \E l \in {"idle", "next", "fetch"}, c \in Batch \cup {NONE} : Goto(w, l, c)
    BY <1>2 DEF FetchPending, EndFeed, TakeUnfetched
  <2>2. pc[w] # "write" /\ UNCHANGED <<server, left, orphan, disk, db, txn>>
    BY <1>2 DEF FetchPending, EndFeed, TakeUnfetched, store, progress
  <2>3. \A c \in Batch : server'[c] = "acked" => Believed(c)
    BY <2>2, HeldIsBelieved
  <2> QED BY <2>1, <2>2, <2>3, OrphanBelief, ControlFaithful DEF BeliefLabels
<1> QED BY <1>1, <1>2 DEF FeedStep

\* Ending the transaction without a commit: the view is the disk again.
LEMMA RollbackFaithful ==
  ASSUME Sane, SessionInv, NEW w \in Worker, pc[w] = "write", NEW S, Rollback(S), Release(w),
         UNCHANGED <<server, orphan>>
  PROVE  Faithful
<1>1. \A v \in Worker : pc'[v] # "write"
  BY DEF Release, Goto, Sane, ControlOK, SessionInv
<1>2. SessionInv'
  BY <1>1, GrowsRefl, WorkerAssumption DEF Rollback, SessionInv
<1>3. Grows(disk, disk')
  BY GrowsRefl DEF Rollback
<1>4. db'.journal = disk.journal /\ disk'.journal = disk.journal
  BY DEF Rollback
<1>5. Goto(w, "next", NONE)
  BY DEF Release
<1>6. NoNewBelief
  <2> HIDE DEF Goto
  <2> QED BY <1>4, <1>5, HeldIsBelieved, NoNew DEF BeliefLabels, Sane
<1> QED BY <1>2, <1>3, <1>6 DEF Faithful, Secure

LEMMA ApplyFaithful ==
  ASSUME Sane, SessionInv, NEW w \in Worker, ApplyStep(w)
  PROVE  Faithful
<1>1. CASE PayloadOk(w)
  BY <1>1, StartFaithful DEF PayloadOk, AtBatch, Sane, store, progress
<1>2. CASE PayloadGone(w)
  <2>1. DropJournals({cur[w]}) /\ {cur[w]} \in SUBSET Batch /\ Goto(w, "next", NONE)
        /\ UNCHANGED <<server, left, orphan>> /\ pc[w] # "write"
    BY <1>2 DEF PayloadGone, AtBatch, Sane, progress
  <2>2. Puts /\ \A b \in Batch : db'.journal[b].phase = "ack_pending" => Believed(b)
    BY <2>1, DropPuts, DropJournalsBelief DEF Sane
  <2> QED BY <2>1, <2>2, OrphanBelief, PutFaithful DEF BeliefLabels
<1>3. CASE PayloadFail(w) \/ JournalFail(w) \/ BeginFail(w) \/ TransitionFail(w) \/ AckOk(w) \/ AckFail(w)
  <2>1. UNCHANGED <<left, orphan, disk, db, txn>>
    BY <1>3 DEF PayloadFail, JournalFail, BeginFail, TransitionFail, AckOk, AckFail, FailedWrite, store, progress
  <2>2. pc[w] # "write"
    BY <1>3 DEF PayloadFail, JournalFail, BeginFail, TransitionFail, AckOk, AckFail
  <2>3. \/ Goto(w, "next", NONE)
        \/ pc[w] \in BeliefLabels /\ \E l \in {"ack", "delete"} : Goto(w, l, cur[w])
    BY <1>3 DEF PayloadFail, JournalFail, BeginFail, TransitionFail, AckOk, AckFail, Release, BeliefLabels
  <2>4. cur[w] \in Batch \cup {NONE}
    BY DEF Sane, ControlOK
  <2>5. \A b \in Batch : server'[b] = "acked" => Believed(b)
    <3>1. CASE UNCHANGED server
      BY <3>1, HeldIsBelieved
    <3>2. CASE ServerAcks(cur[w]) /\ pc[w] \in BeliefLabels
      BY <3>2, HeldIsBelieved, WorkerBelieves DEF ServerAcks, Sane, ControlOK
    <3> QED BY <1>3, <3>1, <3>2 DEF PayloadFail, JournalFail, BeginFail, TransitionFail, AckOk, AckFail, BeliefLabels
  <2>6. \E l \in Labels, c \in Batch \cup {NONE} :
          Goto(w, l, c) /\ l # "write" /\ (l \in BeliefLabels => Believed(c))
    BY <2>3, <2>4, WorkerBelieves DEF BeliefLabels
  <2> QED BY <2>1, <2>2, <2>5, <2>6, OrphanBelief, ControlFaithful
<1>4. CASE JournalOk(w)
  <2> DEFINE b == cur[w]
             row == [phase |-> "applying", att |-> Bump(db.journal[b].att)]
             d == [db EXCEPT !.journal[b] = row]
  <2>1. b \in Batch /\ Write(d, JournalKey(b)) /\ Goto(w, "begin", b) /\ pc[w] = "journal"
        /\ UNCHANGED <<server, left, orphan>>
    BY <1>4 DEF JournalOk, AtBatch, Sane, progress
  <2>2. d.lines = db.lines /\ d.journal = [db.journal EXCEPT ![b] = row]
    BY DEF Sane, StoreOK
  <2>3. db'.journal = [db.journal EXCEPT ![b] = row]
    BY <2>1, <2>2 DEF Write
  <2> HIDE DEF d
  <2>4. Puts
    BY <2>1, <2>2, SameLinesGrow, WritePuts
  <2>5. \A c \in Batch : db'.journal[c].phase = "ack_pending" => Believed(c)
    BY <2>1, <2>3, HeldIsBelieved DEF Sane, StoreOK
  <2> QED BY <2>1, <2>4, <2>5, OrphanBelief, PutFaithful DEF BeliefLabels
<1>5. CASE BeginOk(w)
  <2>1. \A v \in Worker : pc[v] # "write"
    BY <1>5, WorkerAssumption DEF BeginOk, SessionInv
  <2>2. \A v \in Worker : pc'[v] = "write" <=> txn' = v
    BY <1>5, <2>1 DEF BeginOk, Goto, Sane, ControlOK
  <2>3. cur' = cur /\ cur[w] \in Batch /\ left'[w] = Accounts(cur[w])
    BY <1>5 DEF BeginOk, Goto, Sane, ControlOK, AtBatch
  <2>4. \A t \in DueRows(cur[w]) : AcctOf[t] \in Accounts(cur[w])
    BY DEF DueRows, Accounts
  <2>5. SessionInv'
    BY <1>5, <2>2, <2>3, <2>4, WorkerAssumption DEF BeginOk, SessionInv, DueRows, Grows
  <2>6. Grows(disk, disk')
    BY <1>5, GrowsRefl DEF BeginOk
  <2>7. Goto(w, "write", cur[w]) /\ UNCHANGED <<server, db, disk, orphan>>
    BY <1>5 DEF BeginOk, progress
  <2>8. NoNewBelief
    <3> HIDE DEF Goto
    <3> QED BY <2>3, <2>7, HeldIsBelieved, NoNew DEF BeliefLabels, Sane
  <2> QED BY <2>5, <2>6, <2>8 DEF Faithful, Secure
<1>6. ASSUME NEW a \in Acct, WriteOk(w, a) PROVE Faithful
  <2> DEFINE b == cur[w]
             n == IF StatementExists(db, b, a) THEN db.stmts[b][a] ELSE db.stmts[b][a] + 1
             d == [db EXCEPT !.stmts[b][a] = n, !.lines[b] = ApplyRows(@, b, a)]
  <2>1. b \in Batch /\ pc[w] = "write" /\ txn = w /\ txn # NONE
    BY <1>6, WorkerAssumption DEF WriteOk, AtBatch, Sane, SessionInv
  <2>2. Write(d, <<b, a>>) /\ left' = [left EXCEPT ![w] = @ \ {a}] /\ UNCHANGED <<pc, cur, server, orphan>>
    BY <1>6 DEF WriteOk, progress
  <2>3. d.lines = [db.lines EXCEPT ![b] = ApplyRows(@, b, a)] /\ d.journal = db.journal
    BY DEF Sane, StoreOK
  <2> HIDE DEF d
  <2>4. db' = d /\ disk' = disk /\ txn' = txn
    BY <2>1, <2>2 DEF Write
  <2>5. \A t \in DueRows(b) : /\ AcctOf[t] = a => db'.lines[b][t] # "none"
                              /\ AcctOf[t] # a => db'.lines[b][t] = db.lines[b][t]
    <3> TAKE t \in DueRows(b)
    <3>1. t \in Tx /\ db.lines[b][t] \in LineStatus
      BY <2>1 DEF DueRows, Sane, StoreOK
    <3>2. db'.lines[b][t] = IF AcctOf[t] = a THEN ApplyRow(db.lines[b][t], b, t) ELSE db.lines[b][t]
      BY <2>1, <2>3, <2>4, <3>1 DEF ApplyRows, Sane, StoreOK
    <3> QED BY <2>1, <3>1, <3>2, ApplyRowLands
  <2>6. \A c \in Batch : c # b => db'.lines[c] = db.lines[c]
    BY <2>3, <2>4 DEF Sane, StoreOK
  <2>7. Grows(db, db')
    BY <2>5, <2>6 DEF Grows
  <2>8. Grows(disk, db') /\ Grows(disk, disk')
    BY <2>4, <2>7, GrowsRefl DEF SessionInv, Grows
  <2>9. \A t \in DueRows(b) : AcctOf[t] \notin left'[w] => db'.lines[b][t] # "none"
    <3> SUFFICES ASSUME NEW t \in DueRows(b), AcctOf[t] \notin left[w] \/ AcctOf[t] = a
                 PROVE  db'.lines[b][t] # "none"
      BY <2>2 DEF Sane, ControlOK
    <3> QED BY <2>1, <2>5 DEF SessionInv
  <2>10. SessionInv'
    <3>1. \A v \in Worker : pc'[v] = "write" <=> txn' = v
      BY <2>2, <2>4 DEF SessionInv
    <3>2. \A v \in Worker : pc'[v] = "write" => v = w
      BY <2>1, <2>2 DEF SessionInv
    <3>3. Grows(disk, db)' /\ (txn' = NONE => db' = disk')
      BY <2>1, <2>4, <2>8 DEF Grows, DueRows
    <3> QED BY <2>2, <2>9, <3>1, <3>2, <3>3 DEF SessionInv, DueRows
  <2>11. NoNewBelief
    BY <2>2, <2>3, <2>4, HeldIsBelieved, NoNew DEF Sane
  <2> QED BY <2>8, <2>10, <2>11 DEF Faithful, Secure
<1>7. CASE CommitFail(w) \/ \E a \in Acct : WriteFail(w, a)
  <2>1. \E S : Rollback(S)
    BY <1>7 DEF CommitFail, WriteFail
  <2>2. pc[w] = "write" /\ Release(w) /\ UNCHANGED <<server, orphan>>
    BY <1>7 DEF CommitFail, WriteFail, progress
  <2> QED BY <2>1, <2>2, RollbackFaithful
<1>8. CASE CommitOk(w)
  <2>1. cur[w] \in Batch /\ Goto(w, "transition", cur[w]) /\ disk' = db /\ db' = db /\ txn' = NONE
        /\ left[w] = {} /\ UNCHANGED <<server, orphan>> /\ pc[w] = "write"
    BY <1>8 DEF CommitOk, AtBatch, Sane, progress
  <2>2. \A v \in Worker : pc'[v] # "write"
    BY <2>1 DEF Goto, Sane, ControlOK, SessionInv
  <2>3. SessionInv'
    BY <2>1, <2>2, GrowsRefl, WorkerAssumption DEF SessionInv
  <2>4. Grows(disk, disk')
    BY <2>1 DEF SessionInv
  <2>5. Landed(disk, cur[w])'
    <3>1. cur' = cur
      BY <2>1 DEF Goto, Sane, ControlOK
    <3>2. \A t \in DueRows(cur[w]) : db.lines[cur[w]][t] # "none"
      BY <2>1 DEF SessionInv
    <3>3. \A t \in DueRows(cur'[w]) : disk'.lines[cur'[w]][t] # "none"
      BY <2>1, <3>1, <3>2
    <3> QED BY <3>3, LandedIff DEF Landed, RowsOf, DueRows
  <2>6. \A b \in Batch : Believed(b)' => Believed(b) \/ b = cur[w]
    BY <2>1 DEF Believed, Goto, Sane, ControlOK
  <2>7. NoNewBelief
    <3>1. cur'[w] = cur[w]
      BY <2>1 DEF Goto, Sane, ControlOK
    <3> QED BY <2>5, <2>6, <3>1 DEF NoNewBelief, Landed, RowsOf, DueRows
  <2> QED BY <2>3, <2>4, <2>7 DEF Faithful, Secure
<1>9. CASE TransitionOk(w)
  <2> DEFINE d == [db EXCEPT !.journal[cur[w]].phase = "ack_pending"]
  <2>1. cur[w] \in Batch /\ Goto(w, "ack", cur[w]) /\ pc[w] = "transition" /\ UNCHANGED <<server, left, orphan>>
    BY <1>9 DEF TransitionOk, AtBatch, Sane, progress
  <2>2. Believed(cur[w])
    BY <2>1, WorkerBelieves DEF BeliefLabels
  <2>3. CASE JournalExists(db, cur[w])
    <3>1. Write(d, JournalKey(cur[w]))
      BY <1>9, <2>3 DEF TransitionOk
    <3>2. d.lines = db.lines /\ \A c \in Batch : c # cur[w] => d.journal[c] = db.journal[c]
      BY DEF Sane, StoreOK
    <3> HIDE DEF d
    <3>3. Puts
      BY <3>1, <3>2, SameLinesGrow, WritePuts
    <3>4. \A c \in Batch : db'.journal[c].phase = "ack_pending" => Believed(c)
      BY <2>2, <3>1, <3>2, HeldIsBelieved DEF Write
    <3> QED BY <2>1, <2>2, <3>3, <3>4, OrphanBelief, PutFaithful DEF BeliefLabels
  <2>4. CASE ~JournalExists(db, cur[w])
    <3>1. UNCHANGED <<disk, db, txn>>
      BY <1>9, <2>4 DEF TransitionOk, store
    <3>2. \A c \in Batch : server'[c] = "acked" => Believed(c)
      BY <2>1, HeldIsBelieved
    <3> QED BY <2>1, <2>2, <3>1, <3>2, OrphanBelief, ControlFaithful
  <2> QED BY <2>3, <2>4
<1>10. CASE DeleteJournal(w)
  <2>1. cur[w] \in Batch /\ Goto(w, "next", NONE) /\ pc[w] = "delete" /\ UNCHANGED <<server, left, orphan>>
    BY <1>10 DEF DeleteJournal, Release, AtBatch, Sane, progress
  <2>2. CASE DropJournals({cur[w]})
    <3>1. Puts /\ \A b \in Batch : db'.journal[b].phase = "ack_pending" => Believed(b)
      BY <2>1, <2>2, DropPuts, DropJournalsBelief DEF Sane
    <3> QED BY <2>1, <3>1, OrphanBelief, PutFaithful DEF BeliefLabels
  <2>3. CASE UNCHANGED store
    <3>1. UNCHANGED <<disk, db, txn>> /\ \A b \in Batch : server'[b] = "acked" => Believed(b)
      BY <2>1, <2>3, HeldIsBelieved DEF store
    <3> QED BY <2>1, <3>1, OrphanBelief, ControlFaithful DEF BeliefLabels
  <2> QED BY <1>10, <2>2, <2>3 DEF DeleteJournal
<1> QED BY <1>1, <1>2, <1>3, <1>4, <1>5, <1>6, <1>7, <1>8, <1>9, <1>10 DEF ApplyStep

\* runApplyJournalRecovery.
LEMMA RecoveryFaithful ==
  ASSUME Sane, SessionInv, RecoveryStep
  PROVE  Faithful
<1> USE DEF BeliefLabels
<1>1. CASE SweepStart
  <2>1. Goto(Recovery, "next", NONE) /\ pc[Recovery] # "write"
        /\ UNCHANGED <<server, left, disk, db, txn>> /\ orphan' = db.journal
    BY <1>1 DEF SweepStart, store
  <2>2. \A b \in Batch : server'[b] = "acked" \/ orphan'[b].phase = "ack_pending" => Believed(b)
    BY <2>1, HeldIsBelieved
  <2> QED BY <2>1, <2>2, ControlFaithful
<1>2. ASSUME NEW b \in Batch, SweepSkip(b) \/ SweepGiveUp(b) \/ SweepAck(b) \/ SweepApply(b)
      PROVE  Faithful
  <2>1. TakeOrphan(b)
    BY <1>2 DEF SweepSkip, SweepGiveUp, SweepAck, SweepApply
  <2>2. pc[Recovery] # "write" /\ UNCHANGED <<server, left, disk, db, txn>>
    BY <2>1 DEF TakeOrphan, store
  <2>3. \A c \in Batch : orphan'[c].phase = "ack_pending" => orphan[c].phase = "ack_pending"
    BY <2>1 DEF TakeOrphan, Sane, ControlOK
  <2>4. \A c \in Batch : server'[c] = "acked" \/ orphan'[c].phase = "ack_pending" => Believed(c)
    BY <2>2, <2>3, HeldIsBelieved
  <2>5. \E l \in {"next", "drop", "reack", "fetch"}, c \in {b, NONE} :
          Goto(Recovery, l, c) /\ (l = "reack" => Believed(c))
    BY <1>2, HeldIsBelieved DEF SweepSkip, SweepGiveUp, SweepAck, SweepApply
  <2> QED BY <2>2, <2>4, <2>5, ControlFaithful
<1>3. CASE ReAckOk \/ ReAckFail
  <2>1. cur[Recovery] \in Batch /\ Believed(cur[Recovery]) /\ pc[Recovery] # "write"
    BY <1>3, WorkerBelieves DEF ReAckOk, ReAckFail, Sane, AtBatch
  <2>2. UNCHANGED <<left, orphan, disk, db, txn>> /\ (UNCHANGED server \/ ServerAcks(cur[Recovery]))
    BY <1>3 DEF ReAckOk, ReAckFail, store, progress
  <2>3. \A b \in Batch : server'[b] = "acked" => Believed(b)
    BY <2>1, <2>2, HeldIsBelieved DEF ServerAcks, Sane, ControlOK
  <2>4. Goto(Recovery, "drop", cur[Recovery]) \/ Goto(Recovery, "next", NONE)
    BY <1>3 DEF ReAckOk, ReAckFail
  <2> QED BY <2>1, <2>2, <2>3, <2>4, OrphanBelief, ControlFaithful
<1>4. CASE SweepDrop
  <2>1. cur[Recovery] \in Batch /\ Goto(Recovery, "next", NONE) /\ pc[Recovery] # "write"
        /\ UNCHANGED <<server, left, orphan>>
    BY <1>4 DEF SweepDrop, Sane, AtBatch, progress
  <2>2. CASE DropJournals({cur[Recovery]})
    <3>1. Puts /\ \A b \in Batch : db'.journal[b].phase = "ack_pending" => Believed(b)
      BY <2>1, <2>2, DropPuts, DropJournalsBelief DEF Sane
    <3> QED BY <2>1, <3>1, OrphanBelief, PutFaithful
  <2>3. CASE UNCHANGED store
    <3>1. UNCHANGED <<disk, db, txn>> /\ \A b \in Batch : server'[b] = "acked" => Believed(b)
      BY <2>1, <2>3, HeldIsBelieved DEF store
    <3> QED BY <2>1, <3>1, OrphanBelief, ControlFaithful
  <2> QED BY <1>4, <2>2, <2>3 DEF SweepDrop
<1>5. CASE SweepEnd
  <2>1. PICK old \in SUBSET Batch : DropJournals(old)
    BY <1>5 DEF SweepEnd
  <2>2. Goto(Recovery, "idle", NONE) /\ pc[Recovery] # "write" /\ UNCHANGED <<server, left>>
        /\ \A b \in Batch : orphan'[b].phase # "ack_pending"
    BY <1>5 DEF SweepEnd
  <2>3. Puts /\ \A b \in Batch : db'.journal[b].phase = "ack_pending" => Believed(b)
    BY <2>1, DropPuts, DropJournalsBelief DEF Sane
  <2> QED BY <2>2, <2>3, PutFaithful
<1> QED BY <1>1, <1>2, <1>3, <1>4, <1>5 DEF RecoveryStep

-----------------------------------------------------------------------------
(* The theorems.                                                           *)

LEMMA InitInv == Init => IInv
<1> SUFFICES ASSUME Init PROVE IInv
  OBVIOUS
<1>1. SessionInv
  BY GrowsRefl, WorkerAssumption DEF Init, SessionInv
<1>2. ASSUME NEW b \in Batch PROVE ~Believed(b)
  <2>1. server[b] = "unpublished" /\ orphan[b] = NoJournal
    BY DEF Init
  <2>2. db.journal[b] = NoJournal /\ disk.journal[b] = NoJournal
    BY DEF Init, EmptyDatabase
  <2>3. \A w \in Worker : pc[w] = "idle"
    BY DEF Init
  <2> QED BY <2>1, <2>2, <2>3 DEF Believed
<1> QED BY <1>1, <1>2, InitSane DEF IInv, BeliefInv

LEMMA NextInv == IInv /\ [Next]_vars => IInv'
<1> SUFFICES ASSUME IInv, [Next]_vars PROVE IInv'
  OBVIOUS
<1>1. Sane'
  BY NextSane DEF IInv
<1>2. Faithful
  <2>1. CASE Next
    BY <2>1, OutsideFaithful, FeedFaithful, ApplyFaithful, RecoveryFaithful DEF Next, IInv
  <2>2. CASE UNCHANGED vars
    <3>1. Quiet /\ Puts
      BY <2>2, StillPuts DEF Quiet, vars, IInv
    <3>2. NoNewBelief
      BY <2>2, HeldIsBelieved, NoNew DEF vars, IInv, Sane
    <3> QED BY <3>1, <3>2, PutsSecure DEF Faithful, IInv
  <2> QED BY <2>1, <2>2
<1>3. BeliefInv'
  <2> SUFFICES ASSUME NEW b \in Batch, Believed(b)' PROVE Landed(disk, b)'
    BY DEF BeliefInv
  <2>1. Grows(disk, disk') /\ (Believed(b) \/ Landed(disk, b)')
    BY <1>2 DEF Faithful, Secure, NoNewBelief
  <2>2. ASSUME Believed(b) PROVE Landed(disk, b)'
    <3>1. Landed(disk', b)
      BY <2>1, <2>2, GrowsLanded DEF IInv, BeliefInv
    <3> QED BY <3>1 DEF Landed, RowsOf, DueRows
  <2> QED BY <2>1, <2>2
<1> QED BY <1>1, <1>2, <1>3 DEF IInv, Faithful, Secure

THEOREM SpecInv == Spec => []IInv
BY InitInv, NextInv, PTL DEF Spec

\* Ack only after commit, for every set of batches, accounts, feeders and
\* crashes: a batch the server holds for applied has all its due lines in the
\* committed book (plaidApply.ts:856-944, plaidApplyRecovery.ts:122-134).
THEOREM AckIsSafe == Spec => []AckedIsLanded
<1>1. IInv => AckedIsLanded
  BY HeldIsBelieved DEF IInv, BeliefInv, AckedIsLanded
<1> QED BY <1>1, SpecInv, PTL

\* Only the worker that began a transaction ends it, however many applies try
\* to begin one (runInDbTransaction.ts:20-30, dbTransactionSession.ts:16-71).
THEOREM TransactionsAreOwned == Spec => TransactionIsOwned
<1> DEFINE Owned == txn # NONE /\ txn' # txn /\ crashes' = crashes => pc'[txn] # pc[txn]
<1>1. IInv /\ [Next]_vars => [Owned]_vars
  <2> SUFFICES ASSUME IInv, Next, txn # NONE, txn' # txn, crashes' = crashes
               PROVE  pc'[txn] # pc[txn]
    BY DEF vars
  <2>1. ~Crash
    BY DEF Crash, IInv, Sane, ControlOK
  <2>2. ASSUME NEW w \in Worker, ApplyStep(w) PROVE pc[w] = "write" /\ pc'[w] # "write"
    <3>1. CommitOk(w) \/ CommitFail(w) \/ \E a \in Acct : WriteFail(w, a)
      BY <2>2 DEF ApplyStep, PayloadOk, PayloadGone, PayloadFail, JournalOk, JournalFail, BeginOk,
                  BeginFail, WriteOk, TransitionOk, TransitionFail, AckOk, AckFail, DeleteJournal,
                  Write, FailedWrite, DropJournals, store
    <3>2. pc[w] = "write" /\ \E l \in {"next", "transition"} : pc' = [pc EXCEPT ![w] = l]
      BY <3>1 DEF CommitOk, CommitFail, WriteFail, Release, Goto
    <3> QED BY <3>2 DEF IInv, Sane, ControlOK
  <2>3. \E w \in Worker : ApplyStep(w)
    BY <2>1 DEF Next, Publish, Purge, UserStep, MatchLine, IgnoreLine, UndoLine, Decide, Write,
                FeedStep, FetchPending, TakeBatch, TakeUnfetched, EndFeed, RecoveryStep, SweepStart,
                SweepSkip, SweepGiveUp, SweepAck, SweepApply, TakeOrphan, ReAckOk, ReAckFail,
                SweepDrop, SweepEnd, DropJournals, store
  <2> QED BY <2>2, <2>3 DEF IInv, SessionInv
<1> QED BY <1>1, SpecInv, PTL DEF Spec, TransactionIsOwned

-----------------------------------------------------------------------------
(* The mutex.                                                              *)

\* A worker applies a batch only while it holds its id in inflight, and an id
\* in inflight is held by a worker that is applying it.
MutexIsOwned == \A b \in inflight : \E w \in Worker : pc[w] \in Applying /\ cur[w] = b
MutexInv == /\ \A w \in Worker : pc[w] \in Applying => cur[w] \in inflight
            /\ MutexIsOwned
            /\ OneApplyPerBatch

\* What a step may do to the mutex: pass a batch on, take one or leave one.
Passes(w)   == /\ UNCHANGED inflight
               /\ \E l \in Labels, c \in Batch \cup {NONE} :
                    /\ Goto(w, l, c)
                    /\ l \in Applying <=> pc[w] \in Applying
                    /\ l \in Applying => c = cur[w]
Takes(w, b) == /\ b \notin inflight /\ pc[w] \notin Applying
               /\ inflight' = inflight \cup {b} /\ Goto(w, "journal", b)
Leaves(w)   == pc[w] \in Applying /\ Release(w)

\* No handler does anything else to it.
LEMMA MutexSteps ==
  ASSUME Sane, Next
  PROVE  \/ UNCHANGED <<inflight, pc, cur>>
         \/ Crash
         \/ \E w \in Worker : Passes(w) \/ Leaves(w) \/ \E b \in Batch : Takes(w, b)
<1>1. CASE \/ \E b \in Batch : Publish(b) \/ Purge(b)
           \/ UserStep
           \/ Crash
  BY <1>1 DEF Publish, Purge, UserStep, MatchLine, IgnoreLine, UndoLine, Decide
<1>2. ASSUME NEW w \in Worker, NEW b \in Batch, pc[w] \notin Applying, StartApply(w, b)
      PROVE  Passes(w) \/ Takes(w, b)
  <2>1. "next" \in Labels /\ "next" \notin Applying
    BY DEF Labels, Applying
  <2> QED BY <1>2, <2>1 DEF StartApply, Passes, Takes
<1>3. ASSUME NEW w \in Feeder, FeedStep(w)
      PROVE  Passes(w) \/ \E b \in Batch : Takes(w, b)
  BY <1>2, <1>3 DEF FeedStep, FetchPending, TakeBatch, TakeUnfetched, EndFeed, Passes
<1>4. ASSUME NEW w \in Worker, ApplyStep(w)
      PROVE  \/ UNCHANGED <<inflight, pc, cur>>
             \/ Passes(w) \/ Leaves(w) \/ \E b \in Batch : Takes(w, b)
  <2>1. CASE PayloadOk(w)
    BY <1>2, <2>1 DEF PayloadOk, Sane, AtBatch
  <2>2. CASE PayloadGone(w) \/ PayloadFail(w)
    BY <2>2 DEF PayloadGone, PayloadFail, Passes
  <2>3. CASE JournalFail(w) \/ BeginFail(w) \/ CommitFail(w) \/ AckFail(w) \/ DeleteJournal(w)
             \/ \E a \in Acct : WriteFail(w, a)
    BY <2>3 DEF JournalFail, BeginFail, CommitFail, AckFail, DeleteJournal, WriteFail, Leaves
  <2>4. CASE JournalOk(w) \/ BeginOk(w) \/ CommitOk(w) \/ TransitionOk(w) \/ TransitionFail(w) \/ AckOk(w)
    <3>1. pc[w] \in Applying /\ UNCHANGED inflight /\ cur[w] \in Batch
      BY <2>4 DEF JournalOk, BeginOk, CommitOk, TransitionOk, TransitionFail, AckOk, Sane, AtBatch
    <3>2. \E l \in Applying : Goto(w, l, cur[w])
      BY <2>4 DEF JournalOk, BeginOk, CommitOk, TransitionOk, TransitionFail, AckOk
    <3> QED BY <3>1, <3>2 DEF Passes
  <2>5. CASE \E a \in Acct : WriteOk(w, a)
    BY <2>5 DEF WriteOk
  <2> QED BY <1>4, <2>1, <2>2, <2>3, <2>4, <2>5 DEF ApplyStep
<1>5. CASE RecoveryStep
  <2>1. UNCHANGED inflight
    BY <1>5 DEF RecoveryStep, SweepStart, SweepSkip, SweepGiveUp, SweepAck, SweepApply, TakeOrphan,
                ReAckOk, ReAckFail, SweepDrop, SweepEnd
  <2>2. /\ Recovery \in Worker /\ pc[Recovery] \notin Applying
        /\ \E l \in {"idle", "next", "fetch", "reack", "drop"}, c \in Batch \cup {NONE} : Goto(Recovery, l, c)
    BY <1>5 DEF Worker, Applying, TakeOrphan, RecoveryStep, SweepStart, SweepSkip, SweepGiveUp, SweepAck, SweepApply,
                ReAckOk, ReAckFail, SweepDrop, SweepEnd, Sane, ControlOK, AtBatch
  <2>3. \A l \in {"idle", "next", "fetch", "reack", "drop"} : l \in Labels \ Applying
    BY DEF Labels, Applying
  <2> QED BY <2>1, <2>2, <2>3 DEF Passes
<1> QED BY <1>1, <1>3, <1>4, <1>5 DEF Next

LEMMA NextMutex ==
  ASSUME Sane, MutexInv, [Next]_vars
  PROVE  MutexInv'
<1> USE DEF MutexInv, OneApplyPerBatch
<1>1. CASE UNCHANGED <<inflight, pc, cur>>
  BY <1>1 DEF MutexIsOwned
<1>2. CASE Crash
  BY <1>2 DEF Crash, MutexIsOwned, Applying
<1>3. ASSUME NEW w \in Worker, Passes(w) PROVE MutexInv'
  <2>1. \A u \in Worker : pc[u] \in Applying => pc'[u] \in Applying /\ cur'[u] = cur[u]
    BY <1>3 DEF Passes, Goto, Sane, ControlOK
  <2>2. MutexIsOwned'
    BY <1>3, <2>1 DEF MutexIsOwned, Passes
  <2> QED BY <1>3, <2>2 DEF Passes, Goto, Sane, ControlOK
<1>4. ASSUME NEW w \in Worker, NEW b \in Batch, Takes(w, b) PROVE MutexInv'
  <2>1. pc'[w] \in Applying /\ cur'[w] = b
    BY <1>4 DEF Takes, Goto, Sane, ControlOK, Applying
  <2>2. \A u \in Worker : u # w => pc'[u] = pc[u] /\ cur'[u] = cur[u]
    BY <1>4 DEF Takes, Goto, Sane, ControlOK
  <2>3. MutexIsOwned'
    BY <1>4, <2>1, <2>2 DEF MutexIsOwned, Takes
  <2> QED BY <1>4, <2>3 DEF Takes, Goto, Sane, ControlOK
<1>5. ASSUME NEW w \in Worker, Leaves(w) PROVE MutexInv'
  <2>1. \A u \in Worker : u # w => pc'[u] = pc[u] /\ cur'[u] = cur[u]
    BY <1>5 DEF Leaves, Release, Goto, Sane, ControlOK
  <2>2. pc'[w] \notin Applying
    BY <1>5 DEF Leaves, Release, Goto, Sane, ControlOK, Applying
  <2>3. inflight' = inflight \ {cur[w]}
    BY <1>5 DEF Leaves, Release
  <2>4. MutexIsOwned'
    BY <2>1, <2>3 DEF MutexIsOwned
  <2> QED BY <1>5, <2>1, <2>2, <2>3, <2>4 DEF Leaves
<1> QED BY <1>1, <1>2, <1>3, <1>4, <1>5, MutexSteps DEF vars

LEMMA SpecMutex == Spec => []MutexInv
<1>1. Init => MutexInv
  BY DEF Init, MutexInv, MutexIsOwned, OneApplyPerBatch, Applying
<1>2. Sane /\ MutexInv /\ [Next]_vars => MutexInv'
  BY NextMutex
<1> QED BY <1>1, <1>2, SpecSane, PTL DEF Spec

\* Two workers never apply one batch at once, whatever each of them checked
\* before an await (inflightPublicIds, plaidApply.ts:754-778 and 960-962).
THEOREM OneApplyAtATime == Spec => []OneApplyPerBatch
<1>1. MutexInv => OneApplyPerBatch
  BY DEF MutexInv
<1> QED BY <1>1, SpecMutex, PTL

\* No batch is locked by nobody: an id in inflightPublicIds is that of an apply
\* under way, so a batch is never skipped as in flight (plaidApply.ts:770-778)
\* for good after the apply that took it failed, returned or died with the
\* process.  This is the safety half of MutexIsReleased.
THEOREM NoOrphanedMutex == Spec => []MutexIsOwned
<1>1. MutexInv => MutexIsOwned
  BY DEF MutexInv
<1> QED BY <1>1, SpecMutex, PTL

-----------------------------------------------------------------------------
(* What a step may do to the store.                                        *)

\* The same lines exist, and the statements are the same.
SameRows(d, e) ==
  /\ d.stmts = e.stmts
  /\ \A b \in Batch, t \in Tx : d.lines[b][t] = "none" <=> e.lines[b][t] = "none"

\* A write outside applyOneAccount, through the transaction if one is open.
Stores == /\ txn' = txn
          /\ disk' = IF txn = NONE THEN db' ELSE disk
          /\ SameRows(db, db')
          /\ db'.lines = db.lines \/ UserStep

Begins == txn = NONE /\ txn' # NONE /\ UNCHANGED <<db, disk>>
Ends   == txn' = NONE /\ db' = disk /\ disk' = disk /\ (txn = NONE => db = disk)
Writes == \E w \in Worker, a \in Acct : WriteOk(w, a)
Commits == \E w \in Worker : CommitOk(w)

LEMMA StillStores ==
  ASSUME SessionInv, UNCHANGED <<disk, db, txn>>
  PROVE  Stores
BY DEF SessionInv, Stores, SameRows

LEMMA JournalStores ==
  ASSUME StoreOK, NEW d, NEW key, Write(d, key), d.lines = db.lines, d.stmts = db.stmts
  PROVE  Stores
BY DEF Write, Stores, SameRows

LEMMA DropStores ==
  ASSUME StoreOK, NEW bs, DropJournals(bs)
  PROVE  Stores
<1>1. db'.lines = db.lines /\ db'.stmts = db.stmts
  BY DEF DropJournals, StoreOK
<1> QED BY <1>1 DEF DropJournals, Stores, SameRows

LEMMA DecideStores ==
  ASSUME Sane, UserStep
  PROVE  Stores
<1>1. PICK b \in Batch, t \in Tx, from \in LineStatus \ {"none"}, to \in LineStatus \ {"none"} :
        Decide(b, t, from, to)
  BY PayloadAssumption DEF UserStep, MatchLine, IgnoreLine, UndoLine
<1> DEFINE d == [db EXCEPT !.lines[b][t] = to]
<1>2. SameRows(db, d)
  BY <1>1 DEF Decide, SameRows, Sane, StoreOK
<1>3. Write(d, <<b, AcctOf[t]>>)
  BY <1>1 DEF Decide
<1> HIDE DEF d
<1> QED BY <1>2, <1>3 DEF Write, Stores

\* No handler does anything else to the store.
LEMMA StoreSteps ==
  ASSUME Sane, SessionInv, [Next]_vars
  PROVE  Stores \/ Begins \/ Ends \/ Writes \/ Commits
<1>1. CASE UNCHANGED <<disk, db, txn>>
  BY <1>1, StillStores
<1>2. CASE \E b \in Batch : Publish(b) \/ Purge(b)
  BY <1>1, <1>2 DEF Publish, Purge, store
<1>3. CASE UserStep
  BY <1>3, DecideStores
<1>4. CASE Crash
  BY <1>4 DEF Crash, Ends, SessionInv
<1>5. CASE \E w \in Feeder : FeedStep(w)
  BY <1>1, <1>5 DEF FeedStep, FetchPending, TakeBatch, TakeUnfetched, EndFeed, store
<1>6. ASSUME NEW w \in Worker, ApplyStep(w)
      PROVE  Stores \/ Begins \/ Ends \/ Writes \/ Commits
  <2>1. CASE PayloadOk(w) \/ PayloadFail(w) \/ JournalFail(w) \/ BeginFail(w) \/ TransitionFail(w)
             \/ AckOk(w) \/ AckFail(w)
    BY <1>1, <2>1 DEF PayloadOk, PayloadFail, JournalFail, BeginFail, TransitionFail, AckOk, AckFail,
                      FailedWrite, store
  <2>2. CASE PayloadGone(w) \/ DeleteJournal(w)
    BY <1>1, <2>2, DropStores DEF PayloadGone, DeleteJournal, Sane, store
  <2>3. CASE JournalOk(w)
    <3> DEFINE d == [db EXCEPT !.journal[cur[w]] = [phase |-> "applying", att |-> Bump(@.att)]]
    <3>1. d.lines = db.lines /\ d.stmts = db.stmts
      BY DEF Sane, StoreOK
    <3>2. Write(d, JournalKey(cur[w]))
      BY <2>3 DEF JournalOk
    <3> HIDE DEF d
    <3> QED BY <3>1, <3>2, JournalStores DEF Sane
  <2>4. CASE TransitionOk(w)
    <3> DEFINE d == [db EXCEPT !.journal[cur[w]].phase = "ack_pending"]
    <3>1. d.lines = db.lines /\ d.stmts = db.stmts
      BY DEF Sane, StoreOK
    <3>2. Write(d, JournalKey(cur[w])) \/ UNCHANGED store
      BY <2>4 DEF TransitionOk
    <3> HIDE DEF d
    <3> QED BY <1>1, <3>1, <3>2, JournalStores DEF Sane, store
  <2>5. CASE BeginOk(w)
    BY <2>5, WorkerAssumption DEF BeginOk, Begins
  <2>6. CASE CommitFail(w) \/ \E a \in Acct : WriteFail(w, a)
    <3>1. pc[w] = "write" /\ \E S : Rollback(S)
      BY <2>6 DEF CommitFail, WriteFail
    <3> QED BY <3>1, WorkerAssumption DEF Rollback, Ends, SessionInv
  <2> QED BY <1>6, <2>1, <2>2, <2>3, <2>4, <2>5, <2>6 DEF ApplyStep, Writes, Commits
<1>7. CASE RecoveryStep
  <2>1. CASE SweepDrop \/ SweepEnd
    BY <1>1, <2>1, DropStores DEF SweepDrop, SweepEnd, Sane, store
  <2>2. CASE ~(SweepDrop \/ SweepEnd)
    BY <1>1, <1>7, <2>2 DEF RecoveryStep, SweepStart, SweepSkip, SweepGiveUp, SweepAck, SweepApply,
                            TakeOrphan, ReAckOk, ReAckFail, store
  <2> QED BY <2>1, <2>2
<1>8. CASE UNCHANGED vars
  BY <1>1, <1>8 DEF vars
<1> QED BY <1>2, <1>3, <1>4, <1>5, <1>6, <1>7, <1>8 DEF Next

\* The worker in the transaction stays at its batch as long as it holds it.
LEMMA WriterStays ==
  ASSUME Sane, SessionInv, [Next]_vars, txn' = txn, NEW w \in Worker, txn = w
  PROVE  cur'[w] = cur[w]
<1>1. pc[w] = "write"
  BY DEF SessionInv
<1>2. ~Crash
  BY WorkerAssumption DEF Crash
<1>3. ASSUME NEW v \in Worker, NEW l, NEW c, Goto(v, l, c), pc[v] # "write"
      PROVE  cur'[w] = cur[w]
  BY <1>1, <1>3 DEF Goto, Sane, ControlOK
<1>4. CASE UNCHANGED cur
  BY <1>4
<1>5. CASE \E v \in Feeder : FeedStep(v)
  <2>1. \E v \in Worker, l \in Labels, c \in Batch \cup {NONE} : Goto(v, l, c) /\ pc[v] # "write"
    BY <1>5 DEF FeedStep, FetchPending, TakeBatch, TakeUnfetched, EndFeed, StartApply
  <2> QED BY <1>3, <2>1
<1>6. ASSUME NEW v \in Worker, ApplyStep(v)
      PROVE  cur'[w] = cur[w]
  <2>1. CASE \E a \in Acct : WriteOk(v, a)
    BY <1>4, <2>1 DEF WriteOk
  <2>2. CASE CommitOk(v) \/ CommitFail(v) \/ \E a \in Acct : WriteFail(v, a)
    BY <2>2, WorkerAssumption DEF CommitOk, CommitFail, WriteFail, Rollback
  <2>3. CASE PayloadOk(v) \/ PayloadGone(v) \/ PayloadFail(v) \/ JournalOk(v) \/ JournalFail(v)
             \/ BeginOk(v) \/ BeginFail(v) \/ TransitionOk(v) \/ TransitionFail(v)
             \/ AckOk(v) \/ AckFail(v) \/ DeleteJournal(v)
    <3>1. pc[v] # "write" /\ \E l, c : Goto(v, l, c)
      BY <2>3 DEF PayloadOk, StartApply, PayloadGone, PayloadFail, JournalOk, JournalFail, BeginOk,
                  BeginFail, TransitionOk, TransitionFail, AckOk, AckFail, DeleteJournal, Release
    <3> QED BY <1>3, <3>1
  <2> QED BY <1>6, <2>1, <2>2, <2>3 DEF ApplyStep
<1>7. CASE RecoveryStep
  <2>1. pc[Recovery] # "write" /\ \E l, c : Goto(Recovery, l, c)
    BY <1>7 DEF RecoveryStep, SweepStart, SweepSkip, SweepGiveUp, SweepAck, SweepApply, TakeOrphan,
                ReAckOk, ReAckFail, SweepDrop, SweepEnd
  <2> QED BY <1>3, <2>1
<1>8. CASE (\E b \in Batch : Publish(b) \/ Purge(b)) \/ UserStep \/ UNCHANGED vars
  BY <1>4, <1>8 DEF Publish, Purge, UserStep, MatchLine, IgnoreLine, UndoLine, Decide, vars
<1> QED BY <1>2, <1>5, <1>6, <1>7, <1>8 DEF Next

-----------------------------------------------------------------------------
(* Landing.                                                                *)

OneEach(d) == \A b \in Batch, a \in Acct : d.stmts[b][a] <= 1

\* One statement per batch and account; batches whole or absent on disk; and the
\* open transaction has due rows beyond the committed book of its own batch only.
LandInv ==
  /\ OneEach(db) /\ OneEach(disk)
  /\ AtomicLanding
  /\ \A b \in Batch : \/ RowsOf(db, b) = RowsOf(disk, b)
                      \/ txn # NONE /\ cur[txn] = b

\* applyOneAccount: one statement, lines of its own batch only, none of them lost.
LEMMA WriteEffect ==
  ASSUME Sane, NEW w \in Worker, NEW a \in Acct, WriteOk(w, a)
  PROVE  /\ cur[w] \in Batch /\ pc[w] = "write"
         /\ OneEach(db) => OneEach(db')
         /\ \A b \in Batch : b # cur[w] => db'.lines[b] = db.lines[b]
         /\ \A t \in Tx : db'.lines[cur[w]][t] \in {db.lines[cur[w]][t], ApplyRow(db.lines[cur[w]][t], cur[w], t)}
         /\ db' \in Database
<1> DEFINE b == cur[w]
           n == IF StatementExists(db, b, a) THEN db.stmts[b][a] ELSE db.stmts[b][a] + 1
           d == [db EXCEPT !.stmts[b][a] = n, !.lines[b] = ApplyRows(@, b, a)]
<1>1. b \in Batch /\ pc[w] = "write" /\ db \in Database
  BY DEF WriteOk, Sane, StoreOK, AtBatch
<1>2. n \in Nat /\ (db.stmts[b][a] <= 1 => n <= 1)
  BY <1>1 DEF StatementExists
<1>3. ApplyRows(db.lines[b], b, a) \in [Tx -> LineStatus]
  BY <1>1, RowsType
<1>4. db' = d
  BY DEF WriteOk, Write
<1> HIDE DEF n
<1>5. d \in Database /\ d.lines = [db.lines EXCEPT ![b] = ApplyRows(@, b, a)]
      /\ \A c \in Batch, e \in Acct : d.stmts[c][e] = IF c = b /\ e = a THEN n ELSE db.stmts[c][e]
  BY <1>1, <1>2, <1>3
<1>6. OneEach(db) => OneEach(d)
  BY <1>1, <1>2, <1>5 DEF OneEach
<1>7. \A t \in Tx : d.lines[b][t] = IF AcctOf[t] = a THEN ApplyRow(db.lines[b][t], b, t) ELSE db.lines[b][t]
  BY <1>1, <1>5 DEF ApplyRows
<1> HIDE DEF d
<1> QED BY <1>1, <1>4, <1>5, <1>6, <1>7

LEMMA SameRowsOf ==
  ASSUME NEW d, NEW e, SameRows(d, e), NEW b \in Batch
  PROVE  RowsOf(d, b) = RowsOf(e, b)
BY DEF SameRows, RowsOf, DueRows

LEMMA InitLand == Init => LandInv
<1> SUFFICES ASSUME Init PROVE LandInv
  OBVIOUS
<1>1. db = EmptyDatabase /\ disk = EmptyDatabase
  BY DEF Init
<1>2. OneEach(EmptyDatabase) /\ \A b \in Batch : RowsOf(EmptyDatabase, b) = {}
  BY DEF OneEach, EmptyDatabase, RowsOf, DueRows
<1> QED BY <1>1, <1>2 DEF LandInv, AtomicLanding

LEMMA NextLand ==
  ASSUME Sane, SessionInv, LandInv, [Next]_vars
  PROVE  LandInv'
<1> DEFINE Held(b) == txn # NONE /\ cur[txn] = b
<1>1. \A b \in Batch : RowsOf(disk, b) \in {{}, DueRows(b)}
  BY DEF LandInv, AtomicLanding
<1>2. \A b \in Batch : RowsOf(db, b) = RowsOf(disk, b) \/ Held(b)
  BY DEF LandInv
<1>3. SUFFICES /\ OneEach(db') /\ OneEach(disk')
               /\ \A b \in Batch : RowsOf(disk', b) \in {{}, DueRows(b)}
               /\ \A b \in Batch : RowsOf(db', b) = RowsOf(disk', b) \/ (txn' # NONE /\ cur'[txn'] = b)
  BY DEF LandInv, AtomicLanding, OneEach, RowsOf, DueRows
<1>4. txn' = txn => \A b \in Batch : Held(b) => txn' # NONE /\ cur'[txn'] = b
  BY WriterStays DEF Sane, StoreOK
<1>5. CASE Stores
  <2>1. \A b \in Batch : RowsOf(db', b) = RowsOf(db, b)
    BY <1>5, SameRowsOf DEF Stores
  <2>2. OneEach(db')
    BY <1>5 DEF Stores, SameRows, LandInv, OneEach
  <2>3. CASE txn = NONE
    BY <1>1, <1>2, <1>5, <2>1, <2>2, <2>3 DEF Stores
  <2>4. CASE txn # NONE
    BY <1>1, <1>2, <1>4, <1>5, <2>1, <2>2, <2>4 DEF Stores, LandInv
  <2> QED BY <2>3, <2>4
<1>6. CASE Begins
  BY <1>1, <1>2, <1>6 DEF Begins, LandInv
<1>7. CASE Ends
  BY <1>1, <1>7 DEF Ends, LandInv
<1>8. ASSUME NEW w \in Worker, NEW a \in Acct, WriteOk(w, a)
      PROVE  /\ OneEach(db') /\ OneEach(disk')
             /\ \A b \in Batch : RowsOf(disk', b) \in {{}, DueRows(b)}
             /\ \A b \in Batch : RowsOf(db', b) = RowsOf(disk', b) \/ (txn' # NONE /\ cur'[txn'] = b)
  <2>1. OneEach(db') /\ \A b \in Batch : b # cur[w] => RowsOf(db', b) = RowsOf(db, b)
    BY <1>8, WriteEffect DEF LandInv, RowsOf
  <2>2. pc[w] = "write"
    BY <1>8, WriteEffect
  <2>3. txn = w /\ w # NONE
    BY <2>2, WorkerAssumption DEF SessionInv
  <2>4. disk' = disk /\ txn' = txn
    BY <1>8, <2>3 DEF WriteOk, Write
  <2> QED BY <1>1, <1>2, <1>4, <2>1, <2>3, <2>4 DEF LandInv
<1>9. ASSUME NEW w \in Worker, CommitOk(w)
      PROVE  /\ OneEach(db') /\ OneEach(disk')
             /\ \A b \in Batch : RowsOf(disk', b) \in {{}, DueRows(b)}
             /\ \A b \in Batch : RowsOf(db', b) = RowsOf(disk', b) \/ (txn' # NONE /\ cur'[txn'] = b)
  <2>1. pc[w] = "write" /\ left[w] = {} /\ disk' = db /\ db' = db
    BY <1>9 DEF CommitOk
  <2>2. txn = w /\ RowsOf(db, cur[w]) = DueRows(cur[w])
    BY <2>1 DEF SessionInv, RowsOf
  <2> QED BY <1>1, <1>2, <2>1, <2>2 DEF LandInv
<1> QED BY <1>5, <1>6, <1>7, <1>8, <1>9, StoreSteps DEF Writes, Commits

\* What the open transaction and the committed book may differ in, at every state.
THEOREM SpecLand == Spec => []LandInv
<1>1. IInv /\ LandInv /\ [Next]_vars => LandInv'
  BY NextLand DEF IInv
<1> QED BY <1>1, InitLand, SpecInv, PTL DEF Spec

\* A batch over several accounts is in the committed book entirely or not at
\* all, wherever a write, the commit or the process fails (plaidApply.ts:856-888).
THEOREM LandingIsAtomic == Spec => []AtomicLanding
<1>1. LandInv => AtomicLanding
  BY DEF LandInv
<1> QED BY <1>1, SpecLand, PTL

\* However often a batch is replayed, each account has at most one statement of
\* it (findExistingStatement by cloudStatementId, plaidApply.ts:322-348).
THEOREM StatementsAreUnique == Spec => []OneStatement
<1>1. LandInv => OneStatement
  BY DEF LandInv, OneEach, OneStatement
<1> QED BY <1>1, SpecLand, PTL

\* No apply, replay or sweep takes back a match: only the user's undo and the
\* rollback of the transaction it fell into do (plaidApply.ts:469-472, 573-587).
THEOREM MatchesAreKept == Spec => MatchesSurvive
<1> DEFINE Kept == \A b \in Batch, t \in Tx :
                     db.lines[b][t] = "matched" /\ db'.lines[b][t] # "matched"
                       => \/ UserStep
                          \/ txn # NONE /\ txn' = NONE /\ db' = disk
<1>1. IInv /\ [Next]_vars => [Kept]_vars
  <2> SUFFICES ASSUME IInv, [Next]_vars, NEW b \in Batch, NEW t \in Tx,
                      db.lines[b][t] = "matched", db'.lines[b][t] # "matched", ~UserStep
               PROVE  txn # NONE /\ txn' = NONE /\ db' = disk
    OBVIOUS
  <2>1. ApplyRow("matched", b, t) = "matched"
    BY DEF ApplyRow, AddRow, RemoveRow
  <2>2. ~Writes
    BY <2>1, WriteEffect DEF Writes, IInv
  <2>3. ~Stores /\ ~Begins /\ ~Commits
    BY DEF Stores, Begins, Commits, CommitOk
  <2>4. Ends
    BY <2>2, <2>3, StoreSteps DEF IInv
  <2> QED BY <2>4 DEF Ends
<1> QED BY <1>1, SpecInv, PTL DEF Spec, MatchesSurvive

-----------------------------------------------------------------------------
(* What the client works on was offered by the server.                     *)

\* b is in some worker's hands, in a journal row or in the sweep's snapshot.
Known(b) ==
  \/ \E w \in Worker : b \in todo[w] \/ cur[w] = b
  \/ JournalExists(db, b) \/ JournalExists(disk, b)
  \/ orphan[b].phase # "none"

Offered(b) == server[b] # "unpublished"

OfferedInv == \A b \in Batch : Known(b) => Offered(b)

\* What a step tells the server of b: the ack, only of what it believes applied.
Publishes(b) == server[b] = "unpublished" /\ server' = [server EXCEPT ![b] = "pending"]
Purges(b)    == server[b] \in {"pending", "acked"} /\ server' = [server EXCEPT ![b] = "purged"]
Acks(b)      == ServerAcks(b) /\ Believed(b)

LEMMA ServerSteps ==
  ASSUME Sane, [Next]_vars
  PROVE  (UNCHANGED server) \/ (disk' = disk /\ \E b \in Batch : Publishes(b) \/ Purges(b) \/ Acks(b))
<1>1. CASE \E b \in Batch : Publish(b) \/ Purge(b)
  BY <1>1 DEF Publish, Purge, Publishes, Purges, store
<1>2. CASE UserStep \/ Crash \/ UNCHANGED vars
  BY <1>2 DEF UserStep, MatchLine, IgnoreLine, UndoLine, Decide, Crash, vars
<1>3. CASE \E w \in Feeder : FeedStep(w)
  BY <1>3 DEF FeedStep, FetchPending, TakeBatch, TakeUnfetched, EndFeed, progress
<1>4. ASSUME NEW w \in Worker, ApplyStep(w)
      PROVE  (UNCHANGED server) \/ (disk' = disk /\ \E b \in Batch : Acks(b))
  <2>1. CASE AckOk(w) \/ AckFail(w)
    BY <2>1, WorkerBelieves DEF AckOk, AckFail, Acks, BeliefLabels, store, Sane, AtBatch
  <2>2. CASE ~(AckOk(w) \/ AckFail(w))
    BY <1>4, <2>2 DEF ApplyStep, PayloadOk, PayloadGone, PayloadFail, JournalOk, JournalFail, BeginOk,
                      BeginFail, WriteOk, WriteFail, CommitOk, CommitFail, TransitionOk, TransitionFail,
                      DeleteJournal
  <2> QED BY <2>1, <2>2
<1>5. CASE RecoveryStep
  <2>1. CASE ReAckOk \/ ReAckFail
    BY <2>1, WorkerBelieves DEF ReAckOk, ReAckFail, Acks, BeliefLabels, store, Sane, AtBatch
  <2>2. CASE ~(ReAckOk \/ ReAckFail)
    BY <1>5, <2>2 DEF RecoveryStep, SweepStart, SweepSkip, SweepGiveUp, SweepAck, SweepApply, TakeOrphan,
                      SweepDrop, SweepEnd
  <2> QED BY <2>1, <2>2
<1> QED BY <1>1, <1>2, <1>3, <1>4, <1>5 DEF Next

\* No offer is ever withdrawn to "unpublished".
LEMMA OfferStays ==
  ASSUME Sane, [Next]_vars, NEW b \in Batch, Offered(b)
  PROVE  Offered(b)'
BY ServerSteps DEF Offered, Publishes, Purges, Acks, ServerAcks, Sane, ControlOK

\* The hands a step may put a batch into.
LEMMA KnownBy ==
  ASSUME NEW b \in Batch,
         \A w \in Worker : b \in todo'[w] => Known(b) \/ Offered(b),
         \A w \in Worker : cur'[w] = b => Known(b),
         JournalExists(db', b) => Known(b),
         JournalExists(disk', b) => Known(b),
         orphan'[b].phase # "none" => Known(b)
  PROVE  Known(b)' => Known(b) \/ Offered(b)
BY DEF Known, JournalExists

\* A worker's list holds what the server offers, or what the journal has.
LEMMA TodoSteps ==
  ASSUME Sane, [Next]_vars, NEW b \in Batch, NEW w \in Worker, b \in todo'[w]
  PROVE  Known(b) \/ Offered(b)
<1>1. CASE UNCHANGED todo
  BY <1>1 DEF Known
<1>2. CASE Crash
  BY <1>2 DEF Crash
<1>3. CASE (\E c \in Batch : Publish(c) \/ Purge(c)) \/ UserStep \/ UNCHANGED vars
  BY <1>1, <1>3 DEF Publish, Purge, UserStep, MatchLine, IgnoreLine, UndoLine, Decide, progress, vars
<1>4. ASSUME NEW v \in Feeder, FeedStep(v) PROVE Known(b) \/ Offered(b)
  <2>1. CASE FetchPending(v)
    BY <2>1 DEF FetchPending, Known, Offered, Sane, ControlOK
  <2>2. CASE ~FetchPending(v)
    BY <1>4, <2>2 DEF FeedStep, TakeBatch, TakeUnfetched, EndFeed, progress, Known, Sane, ControlOK
  <2> QED BY <2>1, <2>2
<1>5. CASE \E v \in Worker : ApplyStep(v)
  BY <1>1, <1>5 DEF ApplyStep, PayloadOk, PayloadGone, PayloadFail, JournalOk, JournalFail, BeginOk,
                    BeginFail, WriteOk, WriteFail, CommitOk, CommitFail, TransitionOk, TransitionFail,
                    AckOk, AckFail, DeleteJournal, progress
<1>6. CASE RecoveryStep
  <2>1. CASE SweepStart
    BY <2>1 DEF SweepStart, Known, Sane, ControlOK
  <2>2. CASE ReAckOk \/ ReAckFail \/ SweepDrop \/ SweepEnd
    BY <1>1, <2>2 DEF ReAckOk, ReAckFail, SweepDrop, SweepEnd, progress
  <2>3. ASSUME NEW c \in Batch, TakeOrphan(c) PROVE Known(b)
    BY <2>3 DEF TakeOrphan, Known, Sane, ControlOK
  <2> QED BY <1>6, <2>1, <2>2, <2>3 DEF RecoveryStep, SweepSkip, SweepGiveUp, SweepAck, SweepApply
<1> QED BY <1>2, <1>3, <1>4, <1>5, <1>6 DEF Next

\* A worker comes to a batch from its own list.
LEMMA CurSteps ==
  ASSUME Sane, [Next]_vars, NEW b \in Batch, NEW w \in Worker, cur'[w] = b
  PROVE  Known(b)
<1>1. CASE UNCHANGED cur
  BY <1>1 DEF Known
<1>2. ASSUME NEW v \in Worker, NEW l, NEW c, Goto(v, l, c), c = NONE \/ c = cur[v] \/ c \in todo[v]
      PROVE  Known(b)
  BY <1>2, BatchAssumption DEF Goto, Known, Sane, ControlOK
<1>3. CASE Crash
  BY <1>3, BatchAssumption DEF Crash
<1>4. CASE (\E c \in Batch : Publish(c) \/ Purge(c)) \/ UserStep \/ UNCHANGED vars
  BY <1>1, <1>4 DEF Publish, Purge, UserStep, MatchLine, IgnoreLine, UndoLine, Decide, vars
<1>5. CASE \E v \in Feeder : FeedStep(v)
  <2>1. \E v \in Worker : \E l, c : Goto(v, l, c) /\ (c = NONE \/ c \in todo[v])
    BY <1>5 DEF FeedStep, FetchPending, TakeBatch, StartApply, TakeUnfetched, EndFeed
  <2> QED BY <1>2, <2>1
<1>6. ASSUME NEW v \in Worker, ApplyStep(v) PROVE Known(b)
  <2>1. CASE \E a \in Acct : WriteOk(v, a)
    BY <1>1, <2>1 DEF WriteOk
  <2>2. CASE ~\E a \in Acct : WriteOk(v, a)
    <3>1. \E l, c : Goto(v, l, c) /\ (c = NONE \/ c = cur[v])
      BY <1>6, <2>2 DEF ApplyStep, PayloadOk, StartApply, PayloadGone, PayloadFail, JournalOk, JournalFail,
                        BeginOk, BeginFail, WriteFail, CommitOk, CommitFail, TransitionOk,
                        TransitionFail, AckOk, AckFail, DeleteJournal, Release
    <3> QED BY <1>2, <3>1
  <2> QED BY <2>1, <2>2
<1>7. CASE RecoveryStep
  <2>1. \E l, c : Goto(Recovery, l, c) /\ (c = NONE \/ c = cur[Recovery] \/ c \in todo[Recovery])
    BY <1>7 DEF RecoveryStep, SweepStart, SweepSkip, SweepGiveUp, SweepAck, SweepApply, TakeOrphan,
                ReAckOk, ReAckFail, SweepDrop, SweepEnd
  <2> QED BY <1>2, <2>1
<1> QED BY <1>3, <1>4, <1>5, <1>6, <1>7 DEF Next

\* Journal rows are written for the batch a worker is at, and only kept or
\* dropped by everything else.
LEMMA JournalSteps ==
  ASSUME Sane, [Next]_vars, NEW b \in Batch
  PROVE  /\ JournalExists(db', b) => Known(b)
         /\ JournalExists(disk', b) => Known(b)
<1> DEFINE Goal == /\ JournalExists(db', b) => Known(b)
                   /\ JournalExists(disk', b) => Known(b)
<1>1. CASE db'.journal = db.journal /\ disk' \in {db', db, disk}
  BY <1>1 DEF JournalExists, Known
<1>2. CASE db'.journal = disk.journal /\ disk' = disk
  BY <1>2 DEF JournalExists, Known
<1>3. ASSUME NEW bs \in SUBSET Batch, DropJournals(bs) PROVE Goal
  <2>1. JournalExists(db', b) => JournalExists(db, b)
    BY <1>3 DEF DropJournals, JournalExists, Sane, StoreOK
  <2>2. disk' \in {db', disk}
    BY <1>3 DEF DropJournals
  <2> QED BY <2>1, <2>2 DEF Known
<1>4. CASE UNCHANGED <<disk, db>>
  BY <1>1, <1>4
<1>5. CASE UserStep
  <2>1. PICK c \in Batch, t \in Tx, to \in LineStatus : 
          Write([db EXCEPT !.lines[c][t] = to], <<c, AcctOf[t]>>)
    BY <1>5, PayloadAssumption DEF UserStep, MatchLine, IgnoreLine, UndoLine, Decide
  <2> QED BY <1>1, <2>1 DEF Write, Sane, StoreOK
<1>6. CASE (\E c \in Batch : Publish(c) \/ Purge(c)) \/ UNCHANGED vars
  BY <1>4, <1>6 DEF Publish, Purge, store, vars
<1>7. CASE Crash
  BY <1>2, <1>7 DEF Crash
<1>8. CASE \E w \in Feeder : FeedStep(w)
  BY <1>4, <1>8 DEF FeedStep, FetchPending, TakeBatch, TakeUnfetched, EndFeed, store
<1>9. ASSUME NEW w \in Worker, ApplyStep(w) PROVE Goal
  <2>1. CASE PayloadOk(w) \/ PayloadFail(w) \/ JournalFail(w) \/ BeginOk(w) \/ BeginFail(w)
             \/ TransitionFail(w) \/ AckOk(w) \/ AckFail(w)
    BY <1>4, <2>1 DEF PayloadOk, PayloadFail, JournalFail, BeginOk, BeginFail, TransitionFail, AckOk,
                      AckFail, FailedWrite, store
  <2>2. CASE PayloadGone(w) \/ DeleteJournal(w)
    <3>1. UNCHANGED store \/ (cur[w] \in Batch /\ DropJournals({cur[w]}))
      BY <2>2 DEF PayloadGone, DeleteJournal, Sane, AtBatch
    <3> QED BY <1>3, <1>4, <3>1 DEF store
  <2>3. CASE JournalOk(w) \/ TransitionOk(w)
    <3>1. PICK row : \/ Write([db EXCEPT !.journal[cur[w]] = row], JournalKey(cur[w]))
                     \/ UNCHANGED store
      <4>1. CASE JournalOk(w)
        BY <4>1 DEF JournalOk
      <4>2. CASE TransitionOk(w)
        <5>1. [db EXCEPT !.journal[cur[w]].phase = "ack_pending"]
              = [db EXCEPT !.journal[cur[w]] = [@ EXCEPT !.phase = "ack_pending"]]
          OBVIOUS
        <5> QED BY <4>2, <5>1 DEF TransitionOk
      <4> QED BY <2>3, <4>1, <4>2
    <3>2. CASE Write([db EXCEPT !.journal[cur[w]] = row], JournalKey(cur[w]))
      <4>1. \A c \in Batch : c # cur[w] => db'.journal[c] = db.journal[c]
        BY <3>2 DEF Write, Sane, StoreOK
      <4>2. disk' \in {db', disk}
        BY <3>2 DEF Write
      <4> QED BY <4>1, <4>2 DEF Known, JournalExists
    <3> QED BY <1>4, <3>1, <3>2 DEF store
  <2>4. CASE \E a \in Acct : WriteOk(w, a)
    <3>1. PICK a \in Acct : WriteOk(w, a)
      BY <2>4
    <3> DEFINE n == IF StatementExists(db, cur[w], a) THEN db.stmts[cur[w]][a] ELSE db.stmts[cur[w]][a] + 1
               d == [db EXCEPT !.stmts[cur[w]][a] = n, !.lines[cur[w]] = ApplyRows(@, cur[w], a)]
    <3>2. Write(d, <<cur[w], a>>)
      BY <3>1 DEF WriteOk
    <3> HIDE DEF n
    <3>3. d.journal = db.journal
      BY DEF Sane, StoreOK
    <3> HIDE DEF d
    <3> QED BY <1>1, <3>2, <3>3 DEF Write
  <2>5. CASE CommitOk(w)
    BY <1>1, <2>5 DEF CommitOk
  <2>6. CASE CommitFail(w) \/ \E a \in Acct : WriteFail(w, a)
    BY <1>2, <2>6 DEF CommitFail, WriteFail, Rollback
  <2> QED BY <1>9, <2>1, <2>2, <2>3, <2>4, <2>5, <2>6 DEF ApplyStep
<1>10. CASE RecoveryStep
  <2>1. CASE SweepDrop
    <3>1. UNCHANGED store \/ (cur[Recovery] \in Batch /\ DropJournals({cur[Recovery]}))
      BY <2>1 DEF SweepDrop, Sane, AtBatch
    <3> QED BY <1>3, <1>4, <3>1 DEF store
  <2>2. CASE SweepEnd
    BY <1>3, <2>2 DEF SweepEnd
  <2>3. CASE ~(SweepDrop \/ SweepEnd)
    BY <1>4, <1>10, <2>3 DEF RecoveryStep, SweepStart, SweepSkip, SweepGiveUp, SweepAck, SweepApply,
                             TakeOrphan, ReAckOk, ReAckFail, store
  <2> QED BY <2>1, <2>2, <2>3
<1> QED BY <1>5, <1>6, <1>7, <1>8, <1>9, <1>10 DEF Next

LEMMA OrphanSteps ==
  ASSUME Sane, [Next]_vars, NEW b \in Batch, orphan'[b].phase # "none"
  PROVE  Known(b)
<1>1. CASE UNCHANGED orphan
  BY <1>1 DEF Known
<1>2. CASE Crash
  BY <1>2 DEF Crash
<1>3. CASE (\E c \in Batch : Publish(c) \/ Purge(c)) \/ UserStep \/ UNCHANGED vars
           \/ \E w \in Feeder : FeedStep(w)
  BY <1>1, <1>3 DEF Publish, Purge, UserStep, MatchLine, IgnoreLine, UndoLine, Decide, progress, vars,
                    FeedStep, FetchPending, TakeBatch, TakeUnfetched, EndFeed
<1>4. CASE \E v \in Worker : ApplyStep(v)
  BY <1>1, <1>4 DEF ApplyStep, PayloadOk, PayloadGone, PayloadFail, JournalOk, JournalFail, BeginOk,
                    BeginFail, WriteOk, WriteFail, CommitOk, CommitFail, TransitionOk, TransitionFail,
                    AckOk, AckFail, DeleteJournal, progress
<1>5. CASE RecoveryStep
  <2>1. CASE SweepStart
    BY <2>1 DEF SweepStart, Known, JournalExists
  <2>2. CASE ReAckOk \/ ReAckFail \/ SweepDrop
    BY <1>1, <2>2 DEF ReAckOk, ReAckFail, SweepDrop, progress
  <2>3. CASE SweepEnd
    BY <2>3 DEF SweepEnd
  <2>4. ASSUME NEW c \in Batch, TakeOrphan(c) PROVE Known(b)
    BY <2>4 DEF TakeOrphan, Known, Sane, ControlOK
  <2> QED BY <1>5, <2>1, <2>2, <2>3, <2>4 DEF RecoveryStep, SweepSkip, SweepGiveUp, SweepAck, SweepApply
<1> QED BY <1>2, <1>3, <1>4, <1>5 DEF Next

LEMMA NextOffered ==
  ASSUME Sane, OfferedInv, [Next]_vars
  PROVE  OfferedInv'
<1> SUFFICES ASSUME NEW b \in Batch, Known(b)' PROVE Offered(b)'
  BY DEF OfferedInv
<1>1. Known(b) \/ Offered(b)
  BY TodoSteps, CurSteps, JournalSteps, OrphanSteps, KnownBy
<1> QED BY <1>1, OfferStays DEF OfferedInv

LEMMA InitOffered == Init => OfferedInv
<1> SUFFICES ASSUME Init, NEW b \in Batch PROVE ~Known(b)
  BY DEF OfferedInv
<1>1. \A w \in Worker : todo[w] = {} /\ cur[w] = NONE
  BY DEF Init
<1>2. orphan[b] = NoJournal /\ db.journal[b] = NoJournal /\ disk.journal[b] = NoJournal
  BY DEF Init, EmptyDatabase
<1> QED BY <1>1, <1>2, BatchAssumption DEF Known, JournalExists

-----------------------------------------------------------------------------
(* The refinement: every step of the apply path is a step of FeedDelivery  *)
(* seen through the committed book, or none.                               *)

Book == [b \in Batch |-> RowsOf(disk, b)]

DeliveryInv == IInv /\ LandInv /\ OfferedInv

LEMMA InitDelivers == Init => Delivery!Init
<1> SUFFICES ASSUME Init PROVE Delivery!Init
  OBVIOUS
<1>1. disk = EmptyDatabase /\ server = [b \in Batch |-> "unpublished"]
  BY DEF Init
<1>2. \A b \in Batch : RowsOf(EmptyDatabase, b) = {}
  BY DEF EmptyDatabase, RowsOf, DueRows
<1> QED BY <1>1, <1>2 DEF Delivery!Init

\* Who changes the committed book: the commit, by all the lines it owes.
LEMMA BookSteps ==
  ASSUME DeliveryInv, [Next]_vars
  PROVE  \/ Book' = Book
         \/ \E b \in Batch : /\ Offered(b)
                             /\ Book' = [Book EXCEPT ![b] = DueRows(b)]
                             /\ UNCHANGED server
<1> USE DEF DeliveryInv, IInv
<1>1. Book' = [b \in Batch |-> RowsOf(disk', b)]
  BY DEF Book, RowsOf, DueRows
<1>2. CASE Stores
  <2>1. \A b \in Batch : RowsOf(db', b) = RowsOf(db, b)
    BY <1>2, SameRowsOf DEF Stores
  <2>2. \A b \in Batch : RowsOf(disk', b) = RowsOf(disk, b)
    BY <1>2, <2>1 DEF Stores, LandInv
  <2> QED BY <1>1, <2>2 DEF Book
<1>3. CASE Begins \/ Ends
  BY <1>3 DEF Begins, Ends, Book
<1>4. CASE Writes
  <2>1. PICK w \in Worker, a \in Acct : WriteOk(w, a)
    BY <1>4 DEF Writes
  <2>2. pc[w] = "write"
    BY <2>1, WriteEffect
  <2>3. disk' = disk
    BY <2>1, <2>2, WorkerAssumption DEF WriteOk, Write, SessionInv
  <2> QED BY <2>3 DEF Book
<1>5. ASSUME NEW w \in Worker, CommitOk(w)
      PROVE  \E b \in Batch : /\ Offered(b)
                              /\ Book' = [Book EXCEPT ![b] = DueRows(b)]
                              /\ UNCHANGED server
  <2>1. pc[w] = "write" /\ left[w] = {} /\ disk' = db /\ UNCHANGED server
    BY <1>5 DEF CommitOk
  <2>2. txn = w /\ RowsOf(db, cur[w]) = DueRows(cur[w]) /\ cur[w] \in Batch
    BY <2>1 DEF SessionInv, RowsOf, Sane, AtBatch
  <2>3. \A b \in Batch : RowsOf(disk', b) = IF b = cur[w] THEN DueRows(b) ELSE RowsOf(disk, b)
    BY <2>1, <2>2 DEF LandInv
  <2>4. Offered(cur[w])
    BY <2>2 DEF OfferedInv, Known
  <2> QED BY <1>1, <2>1, <2>2, <2>3, <2>4 DEF Book
<1> QED BY <1>2, <1>3, <1>4, <1>5, StoreSteps DEF Commits

LEMMA NextDelivers ==
  ASSUME DeliveryInv, [Next]_vars
  PROVE  [Delivery!Next]_(Delivery!vars)
<1>1. CASE UNCHANGED server
  <2>1. CASE Book' = Book
    BY <1>1, <2>1 DEF Delivery!vars, Book
  <2>2. ASSUME NEW b \in Batch, Offered(b), Book' = [Book EXCEPT ![b] = DueRows(b)]
        PROVE  Delivery!Next
    <3>1. Delivery!Land(b)
      BY <1>1, <2>2 DEF Delivery!Land, Offered, Book
    <3> QED BY <3>1 DEF Delivery!Next
  <2> QED BY <2>1, <2>2, BookSteps
<1>2. ASSUME disk' = disk, NEW b \in Batch, Publishes(b) \/ Purges(b) \/ Acks(b)
      PROVE  [Delivery!Next]_(Delivery!vars)
  <2>1. Book' = Book
    BY <1>2 DEF Book
  <2>2. CASE Publishes(b)
    <3>1. Delivery!Publish(b)
      BY <2>1, <2>2 DEF Delivery!Publish, Publishes, Book
    <3> QED BY <3>1 DEF Delivery!Next
  <2>3. CASE Purges(b)
    <3>1. Delivery!Purge(b)
      BY <2>1, <2>3 DEF Delivery!Purge, Purges, Book
    <3> QED BY <3>1 DEF Delivery!Next
  <2>4. CASE Acks(b) /\ server[b] = "pending"
    <3>1. RowsOf(disk, b) = DueRows(b)
      BY <2>4 DEF Acks, DeliveryInv, IInv, BeliefInv, Landed
    <3>2. Delivery!Acknowledge(b)
      BY <2>1, <2>4, <3>1 DEF Delivery!Acknowledge, Acks, ServerAcks, Book
    <3> QED BY <3>2 DEF Delivery!Next
  <2>5. CASE Acks(b) /\ server[b] = "acked"
    BY <2>1, <2>5 DEF Acks, ServerAcks, DeliveryInv, IInv, Sane, ControlOK, Delivery!vars, Book
  <2> QED BY <1>2, <2>2, <2>3, <2>4, <2>5 DEF Acks, ServerAcks
<1>3. Sane
  BY DEF DeliveryInv, IInv
<1> QED BY <1>1, <1>2, <1>3, ServerSteps

\* The journal, the sweep, the session and its crashes implement FeedDelivery:
\* the rows of a batch reach the committed book together, after the server
\* offered it, and the server hears of it only then (plaidApply.ts:856-944).
THEOREM DeliversTheFeed == Spec => DeliverySpec
<1>1. Init => OfferedInv /\ Delivery!Init
  BY InitOffered, InitDelivers
<1>2. Sane /\ OfferedInv /\ [Next]_vars => OfferedInv'
  BY NextOffered
<1>3. Spec => []OfferedInv
  BY <1>1, <1>2, SpecSane, PTL DEF Spec
<1>4. IInv /\ LandInv /\ OfferedInv /\ [Next]_vars => [Delivery!Next]_(Delivery!vars)
  BY NextDelivers DEF DeliveryInv
<1> QED BY <1>1, <1>3, <1>4, SpecInv, SpecLand, PTL DEF Spec, DeliverySpec, Delivery!Spec
=============================================================================
