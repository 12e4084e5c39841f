------------------------- MODULE LocalOutboxProofs -------------------------
(***************************************************************************)
(* Proofs about LocalOutbox, for every set of writers, every cap and any   *)
(* number of desk writes.                                                  *)
(***************************************************************************)
EXTENDS LocalOutbox, FiniteSetTheorems, WellFoundedInduction, TLAPS

USE CapAssumption, MaxWritesAssumption
USE DEF logger, gate

-----------------------------------------------------------------------------
(* The helpers.                                                            *)

\* A nonempty set of naturals below a bound has a largest element.
LEMMA BoundedHasMax ==
  ASSUME NEW N \in Nat, NEW S \in SUBSET (0 .. N), S # {}
  PROVE  \E m \in S : \A s \in S : s <= m
<1> DEFINE Tail(s) == s .. N
           Tails == {Tail(s) : s \in S}
           U == 0 .. N
           Less == StrictSubsetOrdering(U)
<1>1. Tails \subseteq FiniteSubsetsOf(U) /\ Tails # {}
  <2>1. \A s \in S : Tail(s) \in SUBSET U
    OBVIOUS
  <2>2. IsFiniteSet(U)
    BY FS_Interval
  <2>3. FiniteSubsetsOf(U) = SUBSET U
    BY <2>2, FS_FiniteSubsetsOfFinite
  <2>4. Tails # {} /\ \A t \in Tails : t \in SUBSET U
    BY <2>1
  <2> HIDE DEF Tails, U
  <2> QED BY <2>3, <2>4
<1>2. IsWellFoundedOn(Less, FiniteSubsetsOf(U))
  BY FS_StrictSubsetOrderingWellFounded
<1>3. PICK t \in Tails : \A u \in Tails : <<u, t>> \notin Less
  <2> HIDE DEF Tails, Less, U
  <2> QED BY <1>1, <1>2, WFMin
<1>4. PICK m \in S : t = Tail(m)
  OBVIOUS
<1>5. ASSUME NEW s \in S, m < s PROVE FALSE
  <2>1. <<Tail(s), Tail(m)>> \notin Less
    BY <1>3, <1>4
  <2>2. Tail(s) \subseteq Tail(m) /\ Tail(m) \subseteq U /\ m \in Tail(m) /\ m \notin Tail(s)
    BY <1>5
  <2> HIDE DEF Tail, U
  <2> QED BY <2>1, <2>2 DEF StrictSubsetOrdering
<1> QED BY <1>5

\* The number drawn for a new row is above every number in the table.
LEMMA NextIsFresh ==
  ASSUME NEW R, NEW N \in Nat, \A r \in R : r.seq \in 0 .. N
  PROVE  /\ nextClientSeq(R) \in 1 .. N + 1
         /\ \A r \in R : r.seq < nextClientSeq(R)
<1> DEFINE seqs == {0} \cup {r.seq : r \in R}
<1>1. seqs \in SUBSET (0 .. N) /\ seqs # {}
  OBVIOUS
<1>2. \E m \in seqs : \A s \in seqs : s <= m
  <2> HIDE DEF seqs
  <2> QED BY <1>1, BoundedHasMax
<1>3. maxClientSeq(R) = CHOOSE m \in seqs : \A s \in seqs : s <= m
  BY DEF maxClientSeq
<1>4. maxClientSeq(R) \in seqs /\ \A s \in seqs : s <= maxClientSeq(R)
  <2> HIDE DEF seqs
  <2> QED BY <1>2, <1>3
<1>5. \A r \in R : r.seq <= maxClientSeq(R)
  BY <1>4
<1>6. maxClientSeq(R) \in 0 .. N
  BY <1>1, <1>4
<1> HIDE DEF seqs
<1> QED BY <1>5, <1>6 DEF nextClientSeq

-----------------------------------------------------------------------------
(* The invariant.  The guard admits one recorder at a time; replies come in *)
(* the order of the writes; so the recorder's write is later than every row *)
(* and earlier than every write still waiting, and what it concluded from   *)
(* the rows it read stays true until it inserts.                            *)

Recorder(w) == pc[w] \in {"load", "decide"}

GuardInv ==
  /\ \A v, w \in Writers : Recorder(v) /\ Recorder(w) => v = w
  /\ loggingDepth = 0 <=> \A w \in Writers : ~Recorder(w)

NumberInv ==
  /\ \A r \in rows : r.seq <= r.write /\ r.write <= landed
  /\ \A w \in Writers : pc[w] # "idle" =>
        /\ mine[w] \in 1 .. landed
        /\ \A r \in rows : r.write < mine[w]
  /\ \A v, w \in Writers :
        /\ pc[v] # "idle" /\ pc[w] # "idle" /\ v # w => mine[v] # mine[w]
        /\ Recorder(v) /\ pc[w] = "wrote" => mine[v] < mine[w]

DecideInv ==
  \A w \in Writers : pc[w] = "decide" =>
        /\ seen[w].next <= mine[w]
        /\ \A r \in rows : r.seq < seen[w].next
        /\ ~seen[w].capped => Cardinality(rows) < Cap

RowsInv == LogIsOrdered /\ PendingWithinCap

LogInv == TypeOK /\ GuardInv /\ NumberInv /\ DecideInv /\ RowsInv

LEMMA InitLog == Init => LogInv
<1> SUFFICES ASSUME Init PROVE LogInv
  OBVIOUS
<1>1. TypeOK
  <2>1. initialControl \in Controls
    BY DEF initialControl, Controls, Reasons
  <2>2. seen \in [Writers -> [next : Nat, capped : BOOLEAN]]
    BY DEF Init
  <2>3. landed \in 0 .. MaxWrites /\ pc \in [Writers -> {"idle", "wrote", "load", "decide"}]
        /\ mine \in [Writers -> 0 .. MaxWrites] /\ loggingDepth \in {0, 1}
    BY DEF Init
  <2> QED BY <2>1, <2>2, <2>3 DEF Init, TypeOK
<1>2. GuardInv /\ NumberInv /\ DecideInv
  BY DEF Init, GuardInv, NumberInv, DecideInv, Recorder
<1>3. RowsInv
  BY FS_EmptySet DEF Init, RowsInv, LogIsOrdered, PendingWithinCap
<1> QED BY <1>1, <1>2, <1>3 DEF LogInv

\* The pause control stays one whatever is applied to it.
LEMMA ControlType ==
  ASSUME NEW c \in Controls, NEW pro \in BOOLEAN
  PROVE  /\ applyProEntitlementChange(c, pro) \in Controls
         /\ applySnapshotCap(c) \in Controls
         /\ markReconcileComplete(c) \in Controls
BY DEF Controls, Reasons, running, applyProEntitlementChange, applySnapshotCap,
       markReconcileComplete

\* A step that leaves the table and the logger alone keeps the log sound.
LEMMA AsideLog ==
  ASSUME LogInv, UNCHANGED <<rows, landed, logger, missed>>,
         control' \in Controls, proEntitled' \in BOOLEAN, syncEnabled' \in BOOLEAN,
         refresh' \in {"none", "fetch", "book"}
  PROVE  LogInv'
BY DEF LogInv, TypeOK, GuardInv, NumberInv, DecideInv, Recorder, RowsInv,
       LogIsOrdered, PendingWithinCap

LEMMA PollLog ==
  ASSUME LogInv,
         \/ SignOut \/ StartRefresh
         \/ \E next \in BOOLEAN : Fetched(next)
         \/ \E ok \in BOOLEAN : BookLinked(ok)
  PROVE  LogInv'
<1>1. control \in Controls /\ proEntitled \in BOOLEAN /\ syncEnabled \in BOOLEAN
      /\ refresh \in {"none", "fetch", "book"}
  BY DEF LogInv, TypeOK
<1>2. ASSUME NEW next \in BOOLEAN, Entitle(next)
      PROVE  control' \in Controls /\ proEntitled' \in BOOLEAN
  BY <1>1, <1>2, ControlType DEF Entitle
<1>3. CASE SignOut
  BY <1>1, <1>2, <1>3, AsideLog DEF SignOut
<1>4. CASE StartRefresh
  BY <1>1, <1>4, AsideLog DEF StartRefresh
<1>5. ASSUME NEW next \in BOOLEAN, Fetched(next) PROVE LogInv'
  BY <1>1, <1>2, <1>5, AsideLog DEF Fetched
<1>6. ASSUME NEW ok \in BOOLEAN, BookLinked(ok) PROVE LogInv'
  BY <1>1, <1>6, AsideLog DEF BookLinked
<1> QED BY <1>3, <1>4, <1>5, <1>6

\* A smaller table is as well ordered, and no fuller.
LEMMA PruneRows ==
  ASSUME LogInv, rows' \in SUBSET rows, landed' = landed
  PROVE  /\ rows' \subseteq Row
         /\ RowsInv'
         /\ \A r \in rows' : r.seq <= r.write /\ r.write <= landed
<1>1. IsFiniteSet(rows') /\ Cardinality(rows') <= Cardinality(rows)
  BY FS_Subset DEF LogInv, RowsInv, PendingWithinCap
<1>2. Cardinality(rows') \in Nat /\ Cardinality(rows) \in Nat
  BY <1>1, FS_CardinalityType DEF LogInv, RowsInv, PendingWithinCap
<1> QED BY <1>1, <1>2 DEF LogInv, TypeOK, NumberInv, RowsInv, LogIsOrdered, PendingWithinCap

LEMMA OpenLog ==
  ASSUME LogInv, Restart \/ \E ok \in BOOLEAN : Reopen(ok)
  PROVE  LogInv'
<1>1. \A w \in Writers : pc'[w] = "idle"
  BY DEF Restart, Reopen, logger, LogInv, TypeOK
<1>2. rows' \in SUBSET rows /\ landed' = landed
  BY DEF Restart, Reopen, Prune
<1>3. TypeOK'
  <2>1. initialControl \in Controls
    BY DEF initialControl, Controls, Reasons
  <2> QED BY <1>2, <2>1 DEF LogInv, TypeOK, Restart, Reopen
<1>4. loggingDepth' = 0
  BY DEF Restart, Reopen, LogInv, GuardInv, Recorder
<1> QED
  BY <1>1, <1>2, <1>3, <1>4, PruneRows DEF LogInv, GuardInv, NumberInv, DecideInv, Recorder

LEMMA AgeLog ==
  ASSUME LogInv, Age
  PROVE  LogInv'
<1>1. PICK r \in rows : ~r.aged /\ rows' = (rows \ {r}) \cup {[r EXCEPT !.aged = TRUE]}
  BY DEF Age
<1> DEFINE q == [r EXCEPT !.aged = TRUE]
<1>2. r \in Row /\ q \in Row /\ q.seq = r.seq /\ q.write = r.write /\ q.aged
  BY <1>1 DEF LogInv, TypeOK, Row
<1>3. UNCHANGED <<landed, logger, gate, missed>>
  BY DEF Age
<1> HIDE DEF q
<1>4. q \notin rows
  BY <1>1, <1>2 DEF LogInv, RowsInv, LogIsOrdered
<1>5. IsFiniteSet(rows') /\ Cardinality(rows') = Cardinality(rows)
  <2>1. IsFiniteSet(rows) /\ Cardinality(rows) \in Nat
    BY FS_CardinalityType DEF LogInv, RowsInv, PendingWithinCap
  <2>2. IsFiniteSet(rows \ {r}) /\ Cardinality(rows \ {r}) = Cardinality(rows) - 1
    BY <2>1, <1>1, FS_RemoveElement
  <2>3. q \notin rows \ {r}
    BY <1>4
  <2>4. IsFiniteSet((rows \ {r}) \cup {q})
        /\ Cardinality((rows \ {r}) \cup {q}) = Cardinality(rows \ {r}) + 1
    BY <2>2, <2>3, FS_AddElement
  <2> QED BY <1>1, <2>1, <2>2, <2>4 DEF q
<1>6. \A p \in rows' : \E o \in rows : o.seq = p.seq /\ o.write = p.write
  BY <1>1, <1>2 DEF q
<1>7. rows' \subseteq Row /\ TypeOK'
  BY <1>1, <1>2, <1>3 DEF q, LogInv, TypeOK
<1>8. LogIsOrdered'
  <2>1. rows' = (rows \ {r}) \cup {q}
    BY <1>1 DEF q
  <2> QED BY <2>1, <1>1, <1>2, <1>7 DEF LogInv, RowsInv, LogIsOrdered, TypeOK, Row
<1>9. GuardInv' /\ NumberInv' /\ DecideInv'
  BY <1>3, <1>5, <1>6, <1>7 DEF LogInv, GuardInv, NumberInv, DecideInv, Recorder, TypeOK, Row
<1> QED BY <1>5, <1>7, <1>8, <1>9 DEF LogInv, RowsInv, PendingWithinCap

\* One writer's steps; the guard makes the recorder the only one.
LEMMA DeskWriteLog ==
  ASSUME LogInv, NEW w \in Writers, DeskWrite(w)
  PROVE  LogInv'
<1>1. TypeOK'
  BY DEF DeskWrite, LogInv, TypeOK, gate
<1>2. GuardInv' /\ DecideInv' /\ RowsInv'
  BY DEF DeskWrite, LogInv, TypeOK, GuardInv, NumberInv, DecideInv, Recorder, RowsInv,
         LogIsOrdered, PendingWithinCap
<1>3. \A r \in rows : r.write \in Nat /\ r.seq \in Nat
  BY DEF LogInv, TypeOK, Row
<1>4. NumberInv'
  BY <1>3 DEF DeskWrite, LogInv, TypeOK, NumberInv, Recorder
<1> QED BY <1>1, <1>2, <1>4 DEF LogInv

LEMMA GateLog ==
  ASSUME LogInv, NEW w \in Writers, Skip(w) \/ Enter(w)
  PROVE  LogInv'
<1>1. TypeOK'
  <2>1. CASE Skip(w)
    <3>1. mine[w] \in 1 .. MaxWrites
      BY <2>1 DEF Skip, Replied, LogInv, TypeOK, NumberInv
    <3>2. missed' \subseteq 1 .. MaxWrites
      BY <2>1, <3>1 DEF Skip, LogInv, TypeOK
    <3> QED BY <2>1, <3>2 DEF Skip, LogInv, TypeOK, gate
  <2>2. CASE Enter(w)
    BY <2>2 DEF Enter, LogInv, TypeOK, gate
  <2> QED BY <2>1, <2>2
<1>2. GuardInv'
  <2>1. CASE Skip(w)
    BY <2>1 DEF Skip, Replied, LogInv, TypeOK, GuardInv, Recorder
  <2>2. CASE Enter(w)
    BY <2>2 DEF Enter, Replied, LogInv, TypeOK, GuardInv, Recorder
  <2> QED BY <2>1, <2>2
<1>3. NumberInv'
  <2>1. CASE Skip(w)
    BY <2>1 DEF Skip, Replied, LogInv, TypeOK, NumberInv, Recorder
  <2>2. CASE Enter(w)
    BY <2>2 DEF Enter, Replied, LogInv, TypeOK, NumberInv, GuardInv, Recorder
  <2> QED BY <2>1, <2>2
<1>4. DecideInv' /\ RowsInv'
  BY DEF Skip, Enter, LogInv, TypeOK, DecideInv, RowsInv, LogIsOrdered, PendingWithinCap
<1> QED BY <1>1, <1>2, <1>3, <1>4 DEF LogInv

LEMMA LoadLog ==
  ASSUME LogInv, NEW w \in Writers, LoadRows(w)
  PROVE  LogInv'
<1>1. mine[w] \in 1 .. landed /\ landed \in Nat /\ \A r \in rows : r.seq \in 0 .. mine[w] - 1
  BY DEF LoadRows, LogInv, TypeOK, Row, NumberInv
<1>2. nextClientSeq(rows) \in 1 .. mine[w] /\ \A r \in rows : r.seq < nextClientSeq(rows)
  BY <1>1, NextIsFresh
<1>3. Cardinality(rows) \in Nat
  BY FS_CardinalityType DEF LogInv, RowsInv, PendingWithinCap
<1>4. evaluateOutboxCap(rows) \in BOOLEAN /\ (~evaluateOutboxCap(rows) => Cardinality(rows) < Cap)
  BY <1>3 DEF evaluateOutboxCap
<1>5. TypeOK'
  <2>1. [next |-> nextClientSeq(rows), capped |-> evaluateOutboxCap(rows)]
          \in [next : Nat, capped : BOOLEAN]
    <3>1. nextClientSeq(rows) \in Nat
      BY <1>1, <1>2 DEF LogInv, TypeOK
    <3> QED BY <3>1, <1>4, Zenon
  <2> QED BY <2>1 DEF LoadRows, LogInv, TypeOK, gate
<1>6. seen'[w].next = nextClientSeq(rows) /\ seen'[w].capped = evaluateOutboxCap(rows)
      /\ \A v \in Writers \ {w} : seen'[v] = seen[v]
  BY DEF LoadRows, LogInv, TypeOK
<1>7. DecideInv'
  BY <1>1, <1>2, <1>4, <1>6 DEF LoadRows, LogInv, TypeOK, DecideInv
<1>8. GuardInv' /\ NumberInv' /\ RowsInv'
  BY DEF LoadRows, LogInv, TypeOK, GuardInv, NumberInv, Recorder, RowsInv, LogIsOrdered,
         PendingWithinCap
<1> QED BY <1>5, <1>7, <1>8 DEF LogInv

\* Giving the guard back leaves no recorder.
LEMMA ReleaseLog ==
  ASSUME LogInv, NEW w \in Writers, Recorder(w),
         loggingDepth' = loggingDepth - 1, pc' = [pc EXCEPT ![w] = "idle"]
  PROVE  /\ loggingDepth' = 0
         /\ \A v \in Writers : pc'[v] \in {"idle", "wrote"}
         /\ \A v \in Writers : pc'[v] # "idle" => pc'[v] = pc[v] /\ v # w
         /\ GuardInv'
         /\ pc' \in [Writers -> {"idle", "wrote", "load", "decide"}]
<1>1. loggingDepth = 1 /\ \A v \in Writers : Recorder(v) => v = w
  BY DEF LogInv, TypeOK, GuardInv
<1>2. \A v \in Writers : pc'[v] = IF v = w THEN "idle" ELSE pc[v]
  BY DEF LogInv, TypeOK
<1>3. \A v \in Writers : pc[v] \in {"idle", "wrote", "load", "decide"}
  BY DEF LogInv, TypeOK
<1> QED BY <1>1, <1>2, <1>3 DEF GuardInv, Recorder, LogInv, TypeOK

LEMMA LeaveLog ==
  ASSUME LogInv, NEW w \in Writers, PauseAtCap(w) \/ LogFail(w)
  PROVE  LogInv'
<1>1. Recorder(w) /\ loggingDepth' = loggingDepth - 1 /\ pc' = [pc EXCEPT ![w] = "idle"]
  BY DEF PauseAtCap, LogFail, Recorder
<1>2. UNCHANGED <<rows, landed, mine, seen, proEntitled, syncEnabled, refresh, missed>>
      /\ control' \in Controls
  BY ControlType DEF PauseAtCap, LogFail, gate, LogInv, TypeOK
<1>3. TypeOK'
  BY <1>1, <1>2, ReleaseLog DEF LogInv, TypeOK
<1>4. NumberInv' /\ DecideInv' /\ RowsInv'
  BY <1>1, <1>2, ReleaseLog DEF LogInv, NumberInv, DecideInv, Recorder, RowsInv, LogIsOrdered,
     PendingWithinCap
<1> QED BY <1>1, <1>3, <1>4, ReleaseLog DEF LogInv

LEMMA StoreLog ==
  ASSUME LogInv, NEW w \in Writers, Store(w)
  PROVE  LogInv'
<1> DEFINE q == [seq |-> seen[w].next, write |-> mine[w], aged |-> FALSE]
<1>1. Recorder(w) /\ loggingDepth' = loggingDepth - 1 /\ pc' = [pc EXCEPT ![w] = "idle"]
      /\ rows' = rows \cup {q} /\ UNCHANGED <<landed, mine, seen, gate, missed>>
  BY DEF Store, Recorder
<1>2. /\ mine[w] \in 1 .. landed /\ landed \in 0 .. MaxWrites /\ seen[w].next \in Nat
      /\ seen[w].next <= mine[w]
      /\ \A r \in rows : r.seq < seen[w].next /\ r.write < mine[w]
      /\ Cardinality(rows) < Cap
  BY DEF Store, LogInv, TypeOK, NumberInv, DecideInv
<1>3. q \in Row /\ q.seq = seen[w].next /\ q.write = mine[w]
  BY <1>2 DEF Row
<1> HIDE DEF q
<1>4. TypeOK'
  BY <1>1, <1>3, ReleaseLog DEF LogInv, TypeOK, gate
<1>5. PendingWithinCap'
  <2>1. IsFiniteSet(rows) /\ Cardinality(rows) \in Nat
    BY FS_CardinalityType DEF LogInv, RowsInv, PendingWithinCap
  <2>2. IsFiniteSet(rows \cup {q}) /\ Cardinality(rows \cup {q}) <= Cardinality(rows) + 1
    BY <2>1, FS_AddElement
  <2>3. Cardinality(rows \cup {q}) \in Nat
    BY <2>2, FS_CardinalityType
  <2> QED BY <1>1, <1>2, <2>1, <2>2, <2>3 DEF PendingWithinCap
<1>6. \A r \in rows : r.seq \in Nat /\ r.write \in Nat
  BY DEF LogInv, TypeOK, Row
<1>7. LogIsOrdered'
  BY <1>1, <1>2, <1>3, <1>6 DEF LogInv, RowsInv, LogIsOrdered
<1>8. NumberInv'
  <2>1. \A r \in rows' : r.seq <= r.write /\ r.write <= landed'
    BY <1>1, <1>2, <1>3 DEF LogInv, NumberInv
  <2>2. \A v \in Writers : pc'[v] # "idle" => pc'[v] = "wrote" /\ pc[v] = "wrote" /\ v # w
    BY <1>1, ReleaseLog
  <2>3. \A v \in Writers : pc[v] = "wrote" => mine[w] < mine[v]
    BY <1>1 DEF LogInv, NumberInv
  <2>4. \A v \in Writers : pc'[v] # "idle" =>
            mine[v] \in 1 .. landed /\ \A r \in rows' : r.write < mine[v]
    BY <1>1, <1>3, <2>2, <2>3 DEF LogInv, NumberInv
  <2> QED BY <1>1, <2>1, <2>2, <2>4 DEF LogInv, NumberInv, Recorder
<1>9. DecideInv'
  BY <1>1, ReleaseLog DEF DecideInv
<1> QED BY <1>1, <1>4, <1>5, <1>7, <1>8, <1>9, ReleaseLog DEF LogInv, RowsInv

LEMMA StepLog == LogInv /\ [Next]_vars => LogInv'
<1> SUFFICES ASSUME LogInv, [Next]_vars PROVE LogInv'
  OBVIOUS
<1>1. CASE UNCHANGED vars
  <2>1. UNCHANGED <<rows, landed, logger, missed>>
        /\ UNCHANGED <<control, proEntitled, syncEnabled, refresh>>
    BY <1>1 DEF vars
  <2> QED BY <2>1, AsideLog DEF LogInv, TypeOK
<1>2. ASSUME NEW w \in Writers, DeskWrite(w) \/ LoggerStep(w) PROVE LogInv'
  BY <1>2, DeskWriteLog, GateLog, LoadLog, LeaveLog, StoreLog DEF LoggerStep
<1>3. CASE SignOut \/ StartRefresh \/ \E next \in BOOLEAN : Fetched(next)
  BY <1>3, PollLog
<1>4. ASSUME NEW ok \in BOOLEAN, BookLinked(ok) \/ Reopen(ok) PROVE LogInv'
  BY <1>4, PollLog, OpenLog
<1>5. CASE Age \/ Restart
  BY <1>5, AgeLog, OpenLog
<1> QED BY <1>1, <1>2, <1>3, <1>4, <1>5 DEF Next

-----------------------------------------------------------------------------
(* The theorems.                                                           *)

THEOREM SpecLog == Spec => []LogInv
BY InitLog, StepLog, PTL DEF Spec

\* Type correctness of the logger, the pause control and the table.
THEOREM TypeCorrect == Spec => []TypeOK
<1>1. LogInv => TypeOK
  BY DEF LogInv
<1> QED BY <1>1, SpecLog, PTL

\* clientSeq identifies a row and orders rows as their desk writes, although
\* the number is computed from rows read before an await
\* (localMutationLogger.ts 91-123).
THEOREM OrderIsKept == Spec => []LogIsOrdered
<1>1. LogInv => LogIsOrdered
  BY DEF LogInv, RowsInv
<1> QED BY <1>1, SpecLog, PTL

\* The outbox never holds more rows than its cap, although the cap too is
\* judged before the await (localMutationOutbox.ts 106-137).
THEOREM CapIsKept == Spec => []PendingWithinCap
<1>1. LogInv => PendingWithinCap
  BY DEF LogInv, RowsInv
<1> QED BY <1>1, SpecLog, PTL

\* The outbox is paused exactly when Pro is off or the cap was reached
\* (outboxSyncControl.ts and livebooksCloudSubscription.ts 196-256).
THEOREM PauseIsEntitlement == Spec => []PauseFollowsEntitlement
<1>1. Init => PauseFollowsEntitlement
  BY DEF Init, initialControl, PauseFollowsEntitlement
<1>2. TypeOK /\ PauseFollowsEntitlement /\ [Next]_vars => PauseFollowsEntitlement'
  <2> SUFFICES ASSUME TypeOK, PauseFollowsEntitlement, [Next]_vars
               PROVE  PauseFollowsEntitlement'
    OBVIOUS
  <2>1. ASSUME NEW next \in BOOLEAN, Entitle(next) PROVE PauseFollowsEntitlement'
    BY <2>1 DEF Entitle, TypeOK, Controls, Reasons, PauseFollowsEntitlement, running,
       applyProEntitlementChange, markReconcileComplete
  <2>2. CASE SignOut \/ \E next \in BOOLEAN : Fetched(next)
    BY <2>1, <2>2 DEF SignOut, Fetched
  <2>3. ASSUME NEW w \in Writers, PauseAtCap(w) PROVE PauseFollowsEntitlement'
    BY <2>3 DEF PauseAtCap, TypeOK, Controls, applySnapshotCap, PauseFollowsEntitlement
  <2>4. CASE Restart
    BY <2>4 DEF Restart, initialControl, PauseFollowsEntitlement
  <2>5. ASSUME UNCHANGED <<control, proEntitled>> PROVE PauseFollowsEntitlement'
    BY <2>5 DEF PauseFollowsEntitlement
  <2>6. ASSUME NEW w \in Writers,
               DeskWrite(w) \/ Skip(w) \/ Enter(w) \/ LoadRows(w) \/ Store(w) \/ LogFail(w)
        PROVE  PauseFollowsEntitlement'
    BY <2>5, <2>6 DEF DeskWrite, Skip, Enter, LoadRows, Store, LogFail
  <2>7. ASSUME NEW ok \in BOOLEAN, BookLinked(ok) \/ Reopen(ok) PROVE PauseFollowsEntitlement'
    BY <2>5, <2>7 DEF BookLinked, Reopen
  <2>8. CASE StartRefresh \/ Age \/ UNCHANGED vars
    BY <2>5, <2>8 DEF StartRefresh, Age, vars
  <2> QED BY <2>2, <2>3, <2>4, <2>6, <2>7, <2>8 DEF Next, LoggerStep
<1> QED BY <1>1, <1>2, TypeCorrect, PTL DEF Spec

\* The guard never outlives the call that raised it: while loggingDepth is not
\* zero, exactly one writer is at work under it, so that its finally block
\* (localMutationLogger.ts:94-125) is still to come.  The safety half of
\* LoggerRecovers.
GuardIsOwned ==
  loggingDepth > 0 =>
    \E w \in Writers : Recorder(w) /\ \A v \in Writers : Recorder(v) => v = w

THEOREM NoOrphanedGuard == Spec => []GuardIsOwned
<1>1. LogInv => GuardIsOwned
  BY DEF LogInv, GuardInv, GuardIsOwned
<1> QED BY <1>1, SpecLog, PTL
=============================================================================
