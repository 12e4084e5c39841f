---------------------------- MODULE LocalOutbox ----------------------------
(***************************************************************************)
(* The outbox of desk writes kept for a later upload.  Every insert,       *)
(* update, delete, submit and cancel first lands in the database and then  *)
(* asks the logger (fyo/core/localMutationLogger.ts) to append one row to  *)
(* LocalMutation.  The renderer is one thread, but every database call is  *)
(* awaited: several writes are in progress at once (the user and the bank  *)
(* feed sweep, or Promise.all), and the logger's guard is one counter they *)
(* all share.  A pause control follows the Pro subscription, which a poll  *)
(* refreshes concurrently; the book may be reopened and the program may    *)
(* die at any time.                                                        *)
(*                                                                         *)
(* Nothing uploads rows yet, so a row stays pending until it is pruned.    *)
(***************************************************************************)
EXTENDS Naturals, FiniteSets

CONSTANTS
    Writers,     \* the asynchronous flows of the renderer that write
    Cap,         \* OUTBOX_MAX_MUTATIONS
    MaxWrites    \* bound: how many desk writes a behaviour holds

ASSUME CapAssumption == Cap \in Nat \ {0}
ASSUME MaxWritesAssumption == MaxWrites \in Nat

VARIABLES
    rows,         \* the LocalMutation table
    landed,       \* how many desk writes the database holds; they are numbered
    pc,           \* where each writer is
    mine,         \* the number of the write each writer logs
    seen,         \* what the logger concluded from the rows it loaded
    loggingDepth, \* the logger's module-level guard
    control,      \* OutboxSyncControlState
    proEntitled,  \* the subscription snapshot
    syncEnabled,  \* fyo.store.syncEnabled
    refresh,      \* the subscription refresh under way, if any
    missed        \* history: writes the guard dropped though recording was on

vars == <<rows, landed, pc, mine, seen, loggingDepth, control, proEntitled,
          syncEnabled, refresh, missed>>
logger == <<pc, mine, seen, loggingDepth>>
gate == <<control, proEntitled, syncEnabled, refresh>>

Row == [seq : Nat, write : 1 .. MaxWrites, aged : BOOLEAN]
Reasons == {"none", "pro_lapsed", "snapshot_required"}
Controls == [paused : BOOLEAN, reason : Reasons, awaitingReconcile : BOOLEAN]

TypeOK ==
    /\ rows \subseteq Row
    /\ landed \in 0 .. MaxWrites
    /\ pc \in [Writers -> {"idle", "wrote", "load", "decide"}]
    /\ mine \in [Writers -> 0 .. MaxWrites]
    /\ seen \in [Writers -> [next : Nat, capped : BOOLEAN]]
    /\ loggingDepth \in {0, 1}
    /\ control \in Controls
    /\ proEntitled \in BOOLEAN
    /\ syncEnabled \in BOOLEAN
    /\ refresh \in {"none", "fetch", "book"}
    /\ missed \subseteq 1 .. MaxWrites

(***************************************************************************)
(* The pure helpers.                                                       *)
(***************************************************************************)
maxClientSeq(R) ==
    LET seqs == {0} \cup {r.seq : r \in R}
    IN  CHOOSE m \in seqs : \A s \in seqs : s <= m

nextClientSeq(R) == maxClientSeq(R) + 1

BrokenOutboxCap(R) ==      \* mutant: off by one
    \/ Cardinality(R) > Cap
    \/ \E r \in R : r.aged

\* Too many pending rows, or one older than OUTBOX_MAX_AGE_MS.
evaluateOutboxCap(R) ==
    \/ Cardinality(R) >= Cap
    \/ \E r \in R : r.aged

initialControl == [paused |-> TRUE, reason |-> "none", awaitingReconcile |-> FALSE]
running == [paused |-> FALSE, reason |-> "none", awaitingReconcile |-> FALSE]

BrokenEntitlementChange(c, pro) ==      \* mutant: no reconcile on renewal, no pause on lapse
    IF pro THEN running
    ELSE IF c.paused THEN c ELSE [c EXCEPT !.reason = "pro_lapsed"]

applyProEntitlementChange(c, pro) ==
    IF pro
    THEN IF c.reason = "pro_lapsed"
         THEN [paused |-> TRUE, reason |-> "pro_lapsed", awaitingReconcile |-> TRUE]
         ELSE running
    ELSE IF c.paused /\ c.reason = "snapshot_required"
         THEN c
         ELSE [paused |-> TRUE, reason |-> "pro_lapsed", awaitingReconcile |-> FALSE]

applySnapshotCap(c) ==
    [c EXCEPT !.paused = TRUE, !.reason = "snapshot_required",
              !.awaitingReconcile = TRUE]

markReconcileComplete(c) ==
    IF c.reason = "snapshot_required" THEN c ELSE running

\* The gate of the logger: no pause, and Pro with a linked book.
Recording == ~control.paused /\ syncEnabled /\ proEntitled

Init ==
    /\ rows = {}
    /\ landed = 0
    /\ pc = [w \in Writers |-> "idle"]
    /\ mine = [w \in Writers |-> 0]
    /\ seen = [w \in Writers |-> [next |-> 1, capped |-> FALSE]]
    /\ loggingDepth = 0
    /\ control = initialControl
    /\ proEntitled = FALSE
    /\ syncEnabled = FALSE
    /\ refresh = "none"
    /\ missed = {}

(***************************************************************************)
(* A desk write and the logging that follows it.                           *)
(***************************************************************************)

\* The write itself lands in the main process.
DeskWrite(w) ==
    /\ pc[w] = "idle"
    /\ landed < MaxWrites
    /\ landed' = landed + 1
    /\ pc' = [pc EXCEPT ![w] = "wrote"]
    /\ mine' = [mine EXCEPT ![w] = landed + 1]
    /\ UNCHANGED <<rows, seen, loggingDepth, gate, missed>>

\* Replies of database calls reach the renderer in the order of the calls.
Replied(w) ==
    /\ pc[w] = "wrote"
    /\ \A v \in Writers : pc[v] = "wrote" => mine[w] <= mine[v]

\* One of the early returns of recordLocalMutation.
Skip(w) ==
    /\ Replied(w)
    /\ loggingDepth > 0 \/ ~Recording
    /\ pc' = [pc EXCEPT ![w] = "idle"]
    /\ missed' = IF Recording THEN missed \cup {mine[w]} ELSE missed
    /\ UNCHANGED <<rows, landed, mine, seen, loggingDepth, gate>>

BrokenEnter(w) ==      \* mutant: no loggingDepth guard
    /\ Replied(w)
    /\ Recording
    /\ loggingDepth' = 1
    /\ pc' = [pc EXCEPT ![w] = "load"]
    /\ UNCHANGED <<rows, landed, mine, seen, gate, missed>>

Enter(w) ==
    /\ Replied(w)
    /\ loggingDepth = 0
    /\ Recording
    /\ loggingDepth' = loggingDepth + 1
    /\ pc' = [pc EXCEPT ![w] = "load"]
    /\ UNCHANGED <<rows, landed, mine, seen, gate, missed>>

\* The pending rows are read; the decision is taken when the reply arrives.
LoadRows(w) ==
    /\ pc[w] = "load"
    /\ seen' = [seen EXCEPT ![w] = [next |-> nextClientSeq(rows),
                                    capped |-> evaluateOutboxCap(rows)]]
    /\ pc' = [pc EXCEPT ![w] = "decide"]
    /\ UNCHANGED <<rows, landed, mine, loggingDepth, gate, missed>>

BrokenPauseAtCap(w) ==      \* mutant: given back by hand and by finally
    /\ pc[w] = "decide"
    /\ seen[w].capped
    /\ control' = applySnapshotCap(control)
    /\ loggingDepth' = loggingDepth - 2
    /\ pc' = [pc EXCEPT ![w] = "idle"]
    /\ UNCHANGED <<rows, landed, mine, seen, proEntitled, syncEnabled, refresh,
                   missed>>

\* The outbox is full: nothing is recorded and recording pauses.
PauseAtCap(w) ==
    /\ pc[w] = "decide"
    /\ seen[w].capped
    /\ control' = applySnapshotCap(control)
    /\ loggingDepth' = loggingDepth - 1
    /\ pc' = [pc EXCEPT ![w] = "idle"]
    /\ UNCHANGED <<rows, landed, mine, seen, proEntitled, syncEnabled, refresh,
                   missed>>

Store(w) ==
    /\ pc[w] = "decide"
    /\ ~seen[w].capped
    /\ rows' = rows \cup {[seq |-> seen[w].next, write |-> mine[w], aged |-> FALSE]}
    /\ loggingDepth' = loggingDepth - 1
    /\ pc' = [pc EXCEPT ![w] = "idle"]
    /\ UNCHANGED <<landed, mine, seen, gate, missed>>

BrokenLogFail(w) ==      \* mutant: no finally
    /\ pc[w] \in {"load", "decide"}
    /\ pc[w] = "decide" => ~seen[w].capped
    /\ pc' = [pc EXCEPT ![w] = "idle"]
    /\ UNCHANGED <<rows, landed, mine, seen, loggingDepth, gate, missed>>

\* The read or the insert is refused: the desk write fails although it landed.
LogFail(w) ==
    /\ pc[w] \in {"load", "decide"}
    /\ pc[w] = "decide" => ~seen[w].capped
    /\ loggingDepth' = loggingDepth - 1
    /\ pc' = [pc EXCEPT ![w] = "idle"]
    /\ UNCHANGED <<rows, landed, mine, seen, gate, missed>>

(***************************************************************************)
(* The subscription poll.                                                  *)
(***************************************************************************)

\* The snapshot changes and, in the same turn, the pause control with it.
Entitle(next) ==
    /\ proEntitled' = next
    /\ control' =
         IF next = proEntitled THEN control
         ELSE IF next
              THEN markReconcileComplete(applyProEntitlementChange(control, TRUE))
              ELSE applyProEntitlementChange(control, FALSE)

\* Signed out: a refresh under way swallows the call, and sync intent is kept.
SignOut ==
    /\ refresh = "none"
    /\ Entitle(FALSE)
    /\ UNCHANGED <<rows, landed, logger, syncEnabled, refresh, missed>>

StartRefresh ==
    /\ refresh = "none"
    /\ refresh' = "fetch"
    /\ UNCHANGED <<rows, landed, logger, control, proEntitled, syncEnabled, missed>>

\* The answer, or no answer at all, which counts as not entitled.
Fetched(next) ==
    /\ refresh = "fetch"
    /\ Entitle(next)
    /\ refresh' = IF next THEN "book" ELSE "none"
    /\ syncEnabled' = (next /\ syncEnabled)
    /\ UNCHANGED <<rows, landed, logger, missed>>

\* refreshSyncIntent learns whether the book is linked.
BookLinked(ok) ==
    /\ refresh = "book"
    /\ syncEnabled' = ok
    /\ refresh' = "none"
    /\ UNCHANGED <<rows, landed, logger, control, proEntitled, missed>>

(***************************************************************************)
(* Time, restarts, and the pruning done when a book is opened.             *)
(***************************************************************************)

\* The oldest row that is not aged reaches OUTBOX_MAX_AGE_MS.
Age ==
    /\ \E r \in rows :
         /\ ~r.aged
         /\ \A q \in rows : ~q.aged => r.write <= q.write
         /\ rows' = (rows \ {r}) \cup {[r EXCEPT !.aged = TRUE]}
    /\ UNCHANGED <<landed, logger, gate, missed>>

\* pruneStaleLocalMutations deletes aged rows one by one and may stop early.
Prune(R) == \E gone \in SUBSET {r \in R : r.aged} : rows' = R \ gone

\* The program dies and starts again: Pro is unknown, so pruning runs.
Restart ==
    /\ pc' = [w \in Writers |-> "idle"]
    /\ loggingDepth' = 0
    /\ control' = initialControl
    /\ proEntitled' = FALSE
    /\ syncEnabled' = FALSE
    /\ refresh' = "none"
    /\ Prune(rows)
    /\ UNCHANGED <<landed, mine, seen, missed>>

\* The book is closed and opened again in the same session.
Reopen(ok) ==
    /\ \A w \in Writers : pc[w] = "idle"
    /\ syncEnabled' = (proEntitled /\ ok)
    /\ IF syncEnabled' THEN rows' = rows ELSE Prune(rows)
    /\ UNCHANGED <<landed, logger, control, proEntitled, refresh, missed>>

LoggerStep(w) ==
    Skip(w) \/ Enter(w) \/ LoadRows(w) \/ PauseAtCap(w) \/ Store(w) \/ LogFail(w)

Next ==
    \/ \E w \in Writers : DeskWrite(w) \/ LoggerStep(w)
    \/ SignOut
    \/ StartRefresh
    \/ \E next \in BOOLEAN : Fetched(next)
    \/ \E ok \in BOOLEAN : BookLinked(ok) \/ Reopen(ok)
    \/ Age
    \/ Restart

\* Database calls are answered; users, polls, time and crashes owe nothing.
Fairness == \A w \in Writers : WF_vars(LoggerStep(w))

Spec == Init /\ [][Next]_vars /\ Fairness

(***************************************************************************)
(* What the outbox promises.                                               *)
(***************************************************************************)

\* The upload order is the order of the desk writes: clientSeq identifies a
\* row, and a row with a smaller number logs an earlier write
\* (localMutationLogger.ts reads the largest number and inserts one more, with
\* an await in between, so everything rests on the loggingDepth guard).
LogIsOrdered ==
    \A r, q \in rows :
        /\ r.seq < q.seq <=> r.write < q.write
        /\ r.write = q.write => r = q

\* The cap is judged on rows that were read earlier, and still holds when the
\* new row is inserted.
PendingWithinCap == IsFiniteSet(rows) /\ Cardinality(rows) <= Cap

\* The pause control and the subscription never come apart: whenever Pro is
\* off the outbox is paused, and while Pro is on only the cap pauses it.
PauseFollowsEntitlement ==
    /\ ~proEntitled => control.paused
    /\ proEntitled => (control.paused <=> control.reason = "snapshot_required")

\* The logger's guard is always given back, whatever call fails: a depth left
\* above zero would end all recording for the rest of the session, silently.
LoggerRecovers == loggingDepth > 0 ~> loggingDepth = 0

\* What fyo/index.ts says of syncEnabled: with Pro and a linked book, rows are
\* recorded.  A write that reaches the logger while another one is being logged
\* is dropped by the shared guard.
EveryWriteIsLogged == missed = {}
=============================================================================
