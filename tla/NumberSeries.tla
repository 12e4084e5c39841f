---------------------------- MODULE NumberSeries ----------------------------
(***************************************************************************)
(* Naming and inserting a document of a numbered schema (fyo/model/        *)
(* naming.ts, fyo/models/NumberSeries.ts, fyo/model/doc.ts).  A save asks  *)
(* the cached series document for its next number, writes the series back, *)
(* and inserts the document under that number; the database core inserts   *)
(* the document's row and its table rows by separate statements.           *)
(*                                                                         *)
(* The renderer is one thread, but each database call is awaited, so the   *)
(* saves of several flows interleave at their calls, and they share the    *)
(* one series object of the document cache.  The bank feed may meanwhile   *)
(* hold a transaction open in the main process: db.knex is then the        *)
(* transaction for everyone (DbTransactionSession).                        *)
(*                                                                         *)
(* A call's first statement is executed when the call is sent: the pool    *)
(* has one connection, so statements run, and are answered, in the order   *)
(* of the calls.                                                           *)
(***************************************************************************)
EXTENDS Naturals, Sequences, FiniteSets

CONSTANTS
    Flows,      \* asynchronous flows of the renderer that save documents
    Docs,       \* documents to be inserted
    Imports,    \* the sets of numbers an import may have used as names before
    Start,      \* the first number of the series (DEFAULT_SERIES_START)
    MaxSaves,   \* bound: how many saves are started
    MaxEvents   \* bound: how many transactions, restarts and failed statements

NoFlow == "none"
NoDoc == "imported"

ASSUME ApartAssumption == NoFlow \notin Flows /\ NoDoc \notin Docs
ASSUME StartAssumption == Start \in Nat \ {0}
ASSUME ImportsAssumption == Imports \subseteq SUBSET Nat
ASSUME FlowsAssumption == IsFiniteSet(Flows)
ASSUME BoundsAssumption == MaxSaves \in Nat /\ MaxEvents \in Nat

VARIABLES
    row,      \* the NumberSeries row of the database
    heads,    \* the document rows: a number and whose row it is
    lines,    \* the table rows of the documents, by number and owner
    session,  \* the open transaction: what a rollback would restore
    series,   \* the series objects in memory
    cached,   \* which of them the document cache holds, 0 for none
    flow,     \* where each flow is
    calls,    \* the calls not answered yet, in order
    logger,   \* the flow that is inside recordLocalMutation, if any
    fate,     \* what the user knows of each document
    saves,    \* how many saves were started
    events,   \* how many transactions, restarts and failures there were
    clock,    \* source of `modified` stamps
    mishap,   \* history: what went wrong so far
    spoilt,   \* history: documents saved twice at once, or whose save failed half-way
    inside,   \* history: documents with a statement in the open transaction
    undone,   \* history: documents with a statement in one rolled back
    clashed   \* history: documents refused because their name was taken

database == <<row, heads, lines, session>>
memory == <<series, cached>>
bounds == <<saves, events>>
history == <<mishap, spoilt, inside, undone, clashed>>
vars == <<database, memory, flow, calls, logger, fate, bounds, clock, history>>

Objects == 1 .. Cardinality(Flows) + 1

\* A row that is absent has no stamp.
NoRow == [cur |-> 0, stamp |-> 0]
Absent(r) == r.stamp = 0
Row == [cur : Nat, stamp : Nat]
Series == [cur : Nat, stamp : Nat, inserted : BOOLEAN]
NoSeries == [cur |-> 0, stamp |-> 0, inserted |-> FALSE]
DocRow == [num : Nat, doc : Docs \cup {NoDoc}]
Line == [num : Nat, doc : Docs]

Naming == {"load", "missing", "create", "taken", "compare", "write"}
Logging == {"pending", "append"}
Steps == {"idle", "head", "lines"} \cup Naming \cup Logging
Write == {"create", "write", "lines"}
FlowState == [pc : Steps, doc : Docs \cup {NoDoc}, obj : Objects \cup {0}, read : Row,
              ok : BOOLEAN, dict : Row, after : Write \cup {NoFlow}]
Idle == [pc |-> "idle", doc |-> NoDoc, obj |-> 0, read |-> NoRow, ok |-> TRUE,
         dict |-> NoRow, after |-> NoFlow]
Closed == [open |-> FALSE, row |-> NoRow, heads |-> {}, lines |-> {}]
Mishaps == {"overlap", "lost", "rollback", "refused", "unlogged", "restart"}

TypeOK ==
    /\ row \in Row
    /\ heads \subseteq DocRow
    /\ lines \subseteq Line
    /\ session \in [open : BOOLEAN, row : Row, heads : SUBSET DocRow, lines : SUBSET Line]
    /\ series \in [Objects -> Series]
    /\ cached \in Objects \cup {0}
    /\ flow \in [Flows -> FlowState]
    /\ calls \in Seq(Flows)
    /\ logger \in Flows \cup {NoFlow}
    /\ logger # NoFlow => flow[logger].pc \in Logging
    /\ \A i, j \in DOMAIN calls : calls[i] = calls[j] => i = j
    /\ \A f \in Flows : flow[f].pc = "idle" <=> \A i \in DOMAIN calls : calls[i] # f
    /\ fate \in [Docs -> {"draft", "saved", "gone"}]
    /\ saves \in Nat /\ events \in Nat /\ clock \in Nat
    /\ mishap \subseteq Mishaps
    /\ spoilt \subseteq Docs /\ inside \subseteq Docs
    /\ undone \subseteq Docs /\ clashed \subseteq Docs

Init ==
    /\ row \in {NoRow, [cur |-> 0, stamp |-> 1]}
    /\ \E N \in Imports : heads = {[num |-> n, doc |-> NoDoc] : n \in N}
    /\ lines = {}
    /\ session = Closed
    /\ series = [o \in Objects |-> NoSeries]
    /\ cached = 0
    /\ flow = [f \in Flows |-> Idle]
    /\ calls = <<>>
    /\ logger = NoFlow
    /\ fate = [d \in Docs |-> "draft"]
    /\ saves = 0 /\ events = 0 /\ clock = 1
    /\ mishap = {} /\ spoilt = {} /\ inside = {} /\ undone = {} /\ clashed = {}

(***************************************************************************)
(* Calls and their answers.                                                *)
(***************************************************************************)
Replied(f) == calls # <<>> /\ Head(calls) = f

Pending(f) == IF Replied(f) THEN Tail(calls) ELSE calls

\* f sends its next call and waits in state s.
Sends(f, s) ==
    /\ flow' = [flow EXCEPT ![f] = s]
    /\ calls' = Append(Pending(f), f)

\* The save of f is over.
Ends(f) ==
    /\ flow' = [flow EXCEPT ![f] = Idle]
    /\ calls' = Pending(f)

\* An object nobody refers to is dropped.
Held(S, c, fl) ==
    [o \in Objects |-> IF o = c \/ \E f \in Flows : fl[f].obj = o
                       THEN S[o] ELSE NoSeries]

Keeps(S) == series' = Held(S, cached', flow')

NewObject ==
    CHOOSE o \in Objects : o # cached /\ \A f \in Flows : flow[f].obj # o

exists(n) == \E h \in heads : h.num = n

\* Documents whose rows the open transaction holds.
Touches(x) == inside' = IF session.open THEN inside \cup {x} ELSE inside

(***************************************************************************)
(* The number: NumberSeries.next.                                          *)
(***************************************************************************)
BrokenSetCurrent(cur) ==      \* mutant: the first number is skipped
    IF cur = 0 THEN Start + 1 ELSE cur + 1

setCurrent(cur) == IF cur = 0 THEN Start ELSE cur + 1

\* next, up to the query whether the number is taken.
next(f, x, o, S) ==
    LET cur == setCurrent(S[o].cur)
    IN  /\ Sends(f, [Idle EXCEPT !.pc = "taken", !.doc = x, !.obj = o,
                                 !.ok = exists(cur)])
        /\ Keeps([S EXCEPT ![o].cur = cur])

\* getDoc('NumberSeries', prefix): from the cache, or the row is asked for.
getDoc(f, x, S) ==
    /\ cached' = cached
    /\ \/ /\ cached # 0
          /\ next(f, x, cached, S)
       \/ /\ cached = 0
          /\ Sends(f, [Idle EXCEPT !.pc = "load", !.doc = x, !.read = row])
          /\ Keeps(S)

\* The series object is inserted: a first sync of a new series.
insertSeries(f, o, S) ==
    LET dict == [cur |-> S[o].cur, stamp |-> clock + 1]
    IN  /\ row' = IF Absent(row) THEN dict ELSE row
        /\ clock' = clock + 1
        /\ Sends(f, [flow[f] EXCEPT !.pc = IF @ = "missing" THEN "create" ELSE "write",
                                    !.obj = o, !.dict = dict, !.ok = Absent(row),
                                    !.read = NoRow])
        /\ Keeps([S EXCEPT ![o].stamp = clock + 1])

InNaming(s) == s.pc \in Naming \/ (s.pc \in Logging /\ s.after # "lines")

\* The user, or the feed, saves a document that has no row yet.
StartSave(f, x) ==
    /\ flow[f].pc = "idle" /\ fate[x] = "draft" /\ saves < MaxSaves
    /\ saves' = saves + 1
    /\ mishap' = IF \E g \in Flows : InNaming(flow[g]) THEN mishap \cup {"overlap"} ELSE mishap
    /\ spoilt' = IF \E g \in Flows : flow[g].doc = x THEN spoilt \cup {x} ELSE spoilt
    /\ getDoc(f, x, series)
    /\ UNCHANGED <<database, logger, fate, events, clock, inside, undone, clashed>>

\* load has the row: a new object enters the cache.  Or there is none.
Loaded(f) ==
    /\ Replied(f) /\ flow[f].pc = "load"
    /\ LET r == flow[f].read
           o == NewObject
       IN  \/ /\ ~Absent(r)
              /\ cached' = o
              /\ next(f, flow[f].doc, o, [series EXCEPT ![o] =
                      [cur |-> r.cur, stamp |-> r.stamp, inserted |-> TRUE]])
           \/ /\ Absent(r)
              /\ cached' = cached
              /\ Sends(f, [flow[f] EXCEPT !.pc = "missing", !.read = row])
              /\ Keeps(series)
    /\ UNCHANGED <<database, logger, fate, bounds, clock, history>>

\* createNumberSeries: return if the row exists, else cache a new series and
\* insert it.
Missing(f) ==
    /\ Replied(f) /\ flow[f].pc = "missing"
    /\ \/ /\ ~Absent(flow[f].read)
          /\ getDoc(f, flow[f].doc, series)
          /\ UNCHANGED <<row, clock>>
       \/ /\ Absent(flow[f].read)
          /\ cached' = NewObject
          /\ insertSeries(f, NewObject, series)
    /\ UNCHANGED <<heads, lines, session, logger, fate, bounds, history>>

BrokenTaken(f) ==      \* mutant: the answer of exists is not used
    /\ Replied(f) /\ flow[f].pc = "taken"
    /\ cached' = cached
    /\ LET o == flow[f].obj
       IN  \/ /\ series[o].inserted
              /\ Sends(f, [flow[f] EXCEPT !.pc = "compare", !.ok = TRUE, !.read = row])
              /\ Keeps(series)
              /\ UNCHANGED <<row, clock>>
           \/ /\ ~series[o].inserted
              /\ insertSeries(f, o, series)
    /\ UNCHANGED <<heads, lines, session, logger, fate, bounds, history>>

\* The number is known to be free, or the next one is taken unasked; then sync.
\* Left out: a read that is refused.  It ends the save here or at the version
\* check, with the number advanced in memory alone.
Taken(f) ==
    /\ Replied(f) /\ flow[f].pc = "taken"
    /\ LET o == flow[f].obj
           S == IF flow[f].ok THEN [series EXCEPT ![o].cur = @ + 1] ELSE series
       IN  /\ cached' = cached
           /\ \/ /\ series[o].inserted
                 /\ Sends(f, [flow[f] EXCEPT !.pc = "compare", !.ok = TRUE, !.read = row])
                 /\ Keeps(S)
                 /\ UNCHANGED <<row, clock>>
              \/ /\ ~series[o].inserted
                 /\ insertSeries(f, o, S)
    /\ UNCHANGED <<heads, lines, session, logger, fate, bounds, history>>

BrokenCompared(f) ==      \* mutant: no version check
    /\ Replied(f) /\ flow[f].pc = "compare"
    /\ LET o == flow[f].obj
           dict == [cur |-> series[o].cur, stamp |-> clock + 1]
       IN  /\ clock' = clock + 1
           /\ cached' = cached
           /\ row' = IF Absent(row) THEN row ELSE dict
           /\ Sends(f, [flow[f] EXCEPT !.pc = "write", !.dict = dict,
                                       !.ok = TRUE, !.read = NoRow])
           /\ Keeps([series EXCEPT ![o].stamp = clock + 1])
    /\ UNCHANGED <<heads, lines, session, logger, fate, bounds, history>>

\* _validateDbNotModified passed: `modified` moves on in memory, and the row is
\* updated (an update of a row that is gone changes nothing and succeeds).
Compared(f) ==
    /\ Replied(f) /\ flow[f].pc = "compare"
    /\ LET o == flow[f].obj
           dict == [cur |-> series[o].cur, stamp |-> clock + 1]
       IN  /\ flow[f].read.stamp = series[o].stamp
           /\ clock' = clock + 1
           /\ cached' = cached
           /\ \E ok \in IF events < MaxEvents THEN BOOLEAN ELSE {TRUE} :
                 /\ row' = IF Absent(row) \/ ~ok THEN row ELSE dict
                 /\ events' = IF ok THEN events ELSE events + 1
                 /\ mishap' = mishap \cup (IF ok THEN {} ELSE {"refused"})
                                   \cup (IF flow[f].read = row THEN {} ELSE {"lost"})
                 /\ Sends(f, [flow[f] EXCEPT !.pc = "write", !.dict = dict,
                                             !.ok = ok, !.read = NoRow])
           /\ Keeps([series EXCEPT ![o].stamp = clock + 1])
    /\ UNCHANGED <<heads, lines, session, logger, fate, saves,
                   spoilt, inside, undone, clashed>>

\* ConflictError.
Conflict(f) ==
    /\ Replied(f) /\ flow[f].pc = "compare"
    /\ flow[f].read.stamp # series[flow[f].obj].stamp
    /\ cached' = cached
    /\ Ends(f)
    /\ Keeps(series)
    /\ UNCHANGED <<database, logger, fate, bounds, clock, history>>

(***************************************************************************)
(* After a write: recordLocalMutation, then _syncValues with what was      *)
(* written, however old that has become.                                   *)
(***************************************************************************)
BrokenSynced(f, s) ==      \* mutant: what was written is not read back
    series

Synced(f, s) ==
    [series EXCEPT ![s.obj] =
        [cur |-> s.dict.cur, stamp |-> s.dict.stamp, inserted |-> TRUE]]

\* The document's own row, under the number the series gave.  Left out: a first
\* statement refused for any reason but a duplicate name.
insertHead(f, s) ==
    LET n == s.dict.cur
        ok == ~exists(n)
    IN  /\ heads' = IF ok THEN heads \cup {[num |-> n, doc |-> s.doc]} ELSE heads
        /\ IF ok THEN Touches(s.doc) ELSE inside' = inside
        /\ Sends(f, [s EXCEPT !.pc = "head", !.ok = ok, !.obj = 0,
                              !.dict = [cur |-> n, stamp |-> 0], !.after = NoFlow])

BrokenContinue(f, what) ==      \* mutant: an inserted document still counts as new
    LET s == flow[f]
    IN  \/ /\ what = "create"
           /\ getDoc(f, s.doc, Synced(f, s))
           /\ UNCHANGED <<heads, fate, inside>>
        \/ /\ what = "write"
           /\ cached' = cached
           /\ insertHead(f, s)
           /\ Keeps(Synced(f, s))
           /\ UNCHANGED fate
        \/ /\ what = "lines"
           /\ Ends(f)
           /\ UNCHANGED <<memory, heads, fate, inside>>

\* What follows a write that landed and is logged, or not to be logged.
Continue(f, what) ==
    LET s == flow[f]
    IN  \/ /\ what = "create"
           /\ getDoc(f, s.doc, Synced(f, s))
           /\ UNCHANGED <<heads, fate, inside>>
        \/ /\ what = "write"
           /\ cached' = cached
           /\ insertHead(f, s)
           /\ Keeps(Synced(f, s))
           /\ UNCHANGED fate
        \/ /\ what = "lines"
           /\ fate' = [fate EXCEPT ![s.doc] = "saved"]
           /\ Ends(f)
           /\ UNCHANGED <<memory, heads, inside>>

BrokenWritten(f) ==      \* mutant: a refused write is taken for one that landed
    /\ Replied(f) /\ flow[f].pc \in Write
    /\ \/ /\ Continue(f, flow[f].pc)
          /\ UNCHANGED logger
       \/ /\ logger = NoFlow
          /\ logger' = f
          /\ Sends(f, [flow[f] EXCEPT !.pc = "pending", !.after = flow[f].pc])
          /\ UNCHANGED <<memory, heads, fate, inside>>
    /\ UNCHANGED <<row, lines, session, bounds, clock, mishap, spoilt, undone, clashed>>

\* The answer to a write: refused, or landed and handed to the logger, which
\* lets one write in and turns the others away.
Written(f) ==
    /\ Replied(f) /\ flow[f].pc \in Write
    /\ \/ /\ ~flow[f].ok
          /\ cached' = cached
          /\ Ends(f)
          /\ Keeps(series)
          /\ UNCHANGED <<heads, fate, inside, logger>>
       \/ /\ flow[f].ok
          /\ Continue(f, flow[f].pc)
          /\ UNCHANGED logger
       \/ /\ flow[f].ok /\ logger = NoFlow
          /\ logger' = f
          /\ Sends(f, [flow[f] EXCEPT !.pc = "pending", !.after = flow[f].pc])
          /\ UNCHANGED <<memory, heads, fate, inside>>
    /\ UNCHANGED <<row, lines, session, bounds, clock, mishap, spoilt, undone, clashed>>

\* The logger has read the pending rows: it appends one, or stops at the cap.
Logs(f) ==
    /\ Replied(f) /\ flow[f].pc \in Logging
    /\ \/ /\ flow[f].pc = "pending"
          /\ Sends(f, [flow[f] EXCEPT !.pc = "append"])
          /\ UNCHANGED <<memory, heads, fate, inside, logger>>
       \/ /\ logger' = NoFlow
          /\ Continue(f, flow[f].after)
    /\ UNCHANGED <<row, lines, session, bounds, clock, mishap, spoilt, undone, clashed>>

BrokenLogFails(f) ==      \* mutant: the logger's guard is not given back
    /\ Replied(f) /\ flow[f].pc \in Logging
    /\ events < MaxEvents
    /\ events' = events + 1
    /\ mishap' = mishap \cup {"unlogged"}
    /\ spoilt' = IF flow[f].after = "lines" THEN spoilt \cup {flow[f].doc} ELSE spoilt
    /\ cached' = cached
    /\ Ends(f)
    /\ Keeps(series)
    /\ UNCHANGED <<database, logger, fate, saves, clock, inside, undone, clashed>>

\* The log fails: the caller of the write that landed is refused.
LogFails(f) ==
    /\ Replied(f) /\ flow[f].pc \in Logging
    /\ events < MaxEvents
    /\ events' = events + 1
    /\ logger' = NoFlow
    /\ mishap' = mishap \cup {"unlogged"}
    /\ spoilt' = IF flow[f].after = "lines" THEN spoilt \cup {flow[f].doc} ELSE spoilt
    /\ cached' = cached
    /\ Ends(f)
    /\ Keeps(series)
    /\ UNCHANGED <<database, fate, saves, clock, inside, undone, clashed>>

BrokenInserted(f) ==      \* mutant: the answer to the first statement is not looked at
    /\ Replied(f) /\ flow[f].pc = "head"
    /\ lines' = lines \cup {[num |-> flow[f].dict.cur, doc |-> flow[f].doc]}
    /\ Touches(flow[f].doc)
    /\ Sends(f, [flow[f] EXCEPT !.pc = "lines", !.ok = TRUE])
    /\ UNCHANGED <<row, heads, session, memory, logger, fate, bounds, clock,
                   mishap, spoilt, undone, clashed>>

\* The document's row is in: its table rows follow, or they are refused and
\* the row stays.
Inserted(f) ==
    LET s == flow[f]
    IN  /\ Replied(f) /\ s.pc = "head" /\ s.ok
        /\ \/ /\ lines' = lines \cup {[num |-> s.dict.cur, doc |-> s.doc]}
              /\ Touches(s.doc)
              /\ Sends(f, [s EXCEPT !.pc = "lines"])
              /\ UNCHANGED <<events, spoilt>>
           \/ /\ events < MaxEvents
              /\ events' = events + 1
              /\ spoilt' = spoilt \cup {s.doc}
              /\ Ends(f)
              /\ UNCHANGED <<lines, inside>>
        /\ UNCHANGED <<row, heads, session, memory, logger, fate, saves,
                       clock, mishap, undone, clashed>>

\* DuplicateEntryError: the name is taken.
Duplicate(f) ==
    /\ Replied(f) /\ flow[f].pc = "head" /\ ~flow[f].ok
    /\ clashed' = clashed \cup {flow[f].doc}
    /\ Ends(f)
    /\ UNCHANGED <<database, memory, logger, fate, bounds, clock, mishap, spoilt,
                   inside, undone>>

(***************************************************************************)
(* The transaction of the feed, and restarts.                              *)
(***************************************************************************)
Begin ==
    /\ ~session.open /\ events < MaxEvents
    /\ session' = [open |-> TRUE, row |-> row, heads |-> heads, lines |-> lines]
    /\ events' = events + 1
    /\ UNCHANGED <<row, heads, lines, memory, flow, calls, logger, fate, saves,
                   clock, history>>

Commit ==
    /\ session.open
    /\ session' = Closed
    /\ inside' = {}
    /\ UNCHANGED <<row, heads, lines, memory, flow, calls, logger, fate, bounds, clock,
                   mishap, spoilt, undone, clashed>>

\* What the transaction holds is gone, whoever wrote it.
Undo ==
    /\ row' = session.row /\ heads' = session.heads /\ lines' = session.lines
    /\ session' = Closed
    /\ inside' = {}
    /\ undone' = undone \cup inside

Rollback ==
    /\ session.open
    /\ Undo
    /\ mishap' = mishap \cup {"rollback"}
    /\ UNCHANGED <<memory, flow, calls, logger, fate, bounds, clock, spoilt, clashed>>

\* The program ends and starts again.  What it was saving is lost to the user.
Restart ==
    /\ events < MaxEvents
    /\ events' = events + 1
    /\ flow' = [f \in Flows |-> Idle] /\ calls' = <<>> /\ logger' = NoFlow
    /\ cached' = 0
    /\ series' = [o \in Objects |-> NoSeries]
    /\ fate' = [d \in Docs |-> IF fate[d] = "draft" /\ \E f \in Flows : flow[f].doc = d
                               THEN "gone" ELSE fate[d]]
    /\ \/ /\ session.open /\ Undo
          /\ mishap' = mishap \cup {"restart", "rollback"}
       \/ /\ ~session.open
          /\ mishap' = mishap \cup {"restart"}
          /\ UNCHANGED <<database, inside, undone>>
    /\ UNCHANGED <<saves, clock, spoilt, clashed>>

Answer(f) ==
    \/ Loaded(f) \/ Missing(f) \/ Taken(f) \/ Compared(f) \/ Conflict(f)
    \/ Written(f) \/ Logs(f) \/ LogFails(f) \/ Inserted(f) \/ Duplicate(f)

Next ==
    \/ \E f \in Flows, x \in Docs : StartSave(f, x)
    \/ \E f \in Flows : Answer(f)
    \/ Begin \/ Commit \/ Rollback \/ Restart

Spec == Init /\ [][Next]_vars

(***************************************************************************)
(* Properties.                                                             *)
(***************************************************************************)
Quiet == calls = <<>>

\* No stored document carries a number the stored counter has not reached, so
\* the number is not given again: "to prevent reassignment of NumberSeries
\* document ids" (NumberSeries.ts:30).  A rolled-back counter breaks it, and so
\* does a lost update: two saves compared the same row, and the later write put
\* the lower number back.
CounterCovers ==
    mishap \cap {"rollback", "lost"} = {} =>
        \A h \in heads : h.doc # NoDoc => h.num <= row.cur

\* A save is refused as a duplicate only when another save was being named at
\* the same time, a counter was rolled back, or two neighbouring numbers were
\* imported: next looks at one number and takes the following one unasked.
DuplicateNeedsCause ==
    clashed # {} =>
        \/ mishap \cap {"overlap", "rollback"} # {}
        \/ \E g, h \in heads : g.doc = NoDoc /\ h.doc = NoDoc /\ h.num = g.num + 1

\* At rest the cached series is the row, so the next save is not refused by
\* _validateDbNotModified; it differs only after overlapping saves, a
\* rollback, a refused write or a failed log.
JamNeedsCause ==
    (Quiet /\ cached # 0 /\ mishap \cap {"overlap", "rollback", "refused", "unlogged"} = {}) =>
        series[cached] = [cur |-> row.cur, stamp |-> row.stamp, inserted |-> TRUE]

\* A save whose version check read the row as it still is never writes an older
\* counter over it.  (The check reads before it writes: two saves that both read
\* first may, see the README.)
CounterNeverGoesBack ==
    [][\/ Absent(row)
       \/ row'.cur >= row.cur
       \/ session.open /\ ~session'.open
       \/ \E f \in Flows : flow[f].pc = "compare" /\ flow'[f].pc = "write"
                           /\ flow[f].read # row]_vars

\* A document has two rows only when it was saved twice at once or an earlier
\* save of it failed after its row landed.
StoredOnce ==
    \A g, h \in heads : g.doc = h.doc /\ g.doc # NoDoc /\ g # h => g.doc \in spoilt

\* What the user saw saved is stored with its lines, and no row carries the
\* lines of another document, unless a rollback caught the write.
SavedIsStored ==
    /\ \A x \in Docs \ undone : fate[x] = "saved" =>
          \E h \in heads : h.doc = x /\ [num |-> h.num, doc |-> x] \in lines
    /\ \A p \in lines : p.doc \notin undone => [num |-> p.num, doc |-> p.doc] \in heads

\* When nothing overlapped, failed or was rolled back, the numbers in use are
\* those from Start to the counter, without a gap.
QuietSeriesIsGapless ==
    (Quiet /\ mishap = {} /\ \A h \in heads : h.doc # NoDoc) =>
        {h.num : h \in heads} = Start .. row.cur

=============================================================================
