------------------------- MODULE NumberSeriesProofs -------------------------
(***************************************************************************)
(* Proofs about NumberSeries, for any flows, documents, imports and        *)
(* number of saves, transactions, restarts and failures.                   *)
(***************************************************************************)
EXTENDS NumberSeries, FiniteSetTheorems, SequenceTheorems, TLAPS

-----------------------------------------------------------------------------
(* The invariant, first part: where a flow is tells what its state holds.   *)

\* A flow that has no series object has none (its place may be taken by a new
\* one); one that is about to use it has it.
Shaped(s) ==
    /\ s.pc = "idle" => s.doc = NoDoc
    /\ s.pc # "idle" => s.doc \in Docs
    /\ s.pc \in {"idle", "load", "missing", "head", "lines"} => s.obj = 0
    /\ s.pc \in {"taken", "compare", "create", "write"} => s.obj # 0
    /\ s.pc \in Logging => s.after \in Write /\ (s.after # "lines" => s.obj # 0)
    /\ s.pc = "lines" => s.ok

Shapes == \A f \in Flows : Shaped(flow[f])

\* What a flow does: it comes to a state s, and waits for its next call or is done.
Moves(f, s) ==
    /\ flow' = [flow EXCEPT ![f] = s]
    /\ calls' = IF s.pc = "idle" THEN Pending(f) ELSE Append(Pending(f), f)

\* It may: its call was answered, or it has not begun.
MayMove(f) == Replied(f) \/ flow[f].pc = "idle"

-----------------------------------------------------------------------------
(* Types of the values the actions build.                                   *)

LEMMA Numbers ==
    /\ Cardinality(Flows) \in Nat
    /\ Objects \subseteq Nat \ {0}
    /\ IsFiniteSet(Objects) /\ Cardinality(Objects) = Cardinality(Flows) + 1
<1>1. Cardinality(Flows) \in Nat
  BY FlowsAssumption, FS_CardinalityType
<1>2. IsFiniteSet(1 .. Cardinality(Flows) + 1)
      /\ Cardinality(1 .. Cardinality(Flows) + 1) = Cardinality(Flows) + 1
  <2> DEFINE n == Cardinality(Flows) + 1
  <2>1. n \in Int /\ 1 \in Int /\ ~(1 > n) /\ n - 1 + 1 = n
    BY <1>1
  <2> HIDE DEF n
  <2>2. IsFiniteSet(1 .. n) /\ Cardinality(1 .. n) = n
    BY <2>1, FS_Interval
  <2> QED
    BY <2>2 DEF n
<1> QED
  BY <1>1, <1>2 DEF Objects

\* There are more places than flows, so one is free for a flow that has none.
LEMMA RoomForOne ==
    ASSUME flow \in [Flows -> FlowState], NEW f \in Flows, flow[f].obj = 0
    PROVE  /\ NewObject \in Objects
           /\ NewObject # cached /\ \A g \in Flows : flow[g].obj # NewObject
<1>1. SUFFICES ASSUME \A o \in Objects : o = cached \/ \E g \in Flows : flow[g].obj = o
               PROVE  FALSE
  BY DEF NewObject
<1> DEFINE h == [o \in Objects |->
                   IF o = cached THEN f ELSE CHOOSE g \in Flows : flow[g].obj = o]
<1>2. \A o \in Objects : /\ h[o] \in Flows
                         /\ o # cached => flow[h[o]].obj = o /\ h[o] # f
  BY <1>1, Numbers
<1>3. h \in [Objects -> Flows]
  BY <1>2
<1>4. \A o, q \in Objects : h[o] = h[q] => o = q
  <2> SUFFICES ASSUME NEW o \in Objects, NEW q \in Objects, h[o] = h[q], o # q
               PROVE  FALSE
    OBVIOUS
  <2>1. CASE o = cached
    <3>1. h[o] = f /\ h[q] # f
      BY <1>2, <2>1
    <3> QED
      BY <3>1
  <2>2. CASE q = cached
    <3>1. h[q] = f /\ h[o] # f
      BY <1>2, <2>2
    <3> QED
      BY <3>1
  <2>3. CASE o # cached /\ q # cached
    BY <1>2, <2>3
  <2> QED
    BY <2>1, <2>2, <2>3
<1> HIDE DEF h
<1>5. /\ Cardinality(Flows) < Cardinality(Objects)
      /\ IsFiniteSet(Objects) /\ IsFiniteSet(Flows)
  BY Numbers, FlowsAssumption
<1>6. \E o, q \in Objects : o # q /\ h[o] = h[q]
  <2> HIDE DEF Objects
  <2> QED
    BY <1>3, <1>5, FS_PigeonHole
<1> QED
  BY <1>4, <1>6

LEMMA RowTyped ==
    /\ NoRow \in Row
    /\ \A c, st \in Nat : [cur |-> c, stamp |-> st] \in Row
  BY DEF NoRow, Row

LEMMA IdleTyped ==
    /\ Idle \in FlowState /\ Shaped(Idle) /\ Idle.pc = "idle" /\ Idle.doc = NoDoc
    /\ Idle.obj = 0 /\ Idle.read = NoRow /\ Idle.dict = NoRow /\ Idle.after = NoFlow
<1>1. TRUE \in BOOLEAN
  OBVIOUS
<1>2. Idle \in FlowState
  BY <1>1, RowTyped DEF Idle, FlowState, Steps
<1> QED
  BY <1>2 DEF Idle, Shaped, Logging

LEMMA NoSeriesTyped == NoSeries \in Series
<1>1. FALSE \in BOOLEAN
  OBVIOUS
<1> QED
  BY <1>1 DEF NoSeries, Series

LEMMA HeldTyped ==
    ASSUME NEW S \in [Objects -> Series], NEW c, NEW fl
    PROVE  /\ Held(S, c, fl) \in [Objects -> Series]
           /\ \A o \in Objects : Held(S, c, fl)[o] = S[o] \/ Held(S, c, fl)[o] = NoSeries
  BY NoSeriesTyped DEF Held

\* The calls after a move of f: one for each flow that waits.
LEMMA MoveTyped ==
    ASSUME TypeOK, Shapes, NEW f \in Flows, MayMove(f), NEW s \in FlowState, Shaped(s),
           Moves(f, s)
    PROVE  /\ flow' \in [Flows -> FlowState] /\ Shapes'
           /\ calls' \in Seq(Flows)
           /\ \A i, j \in DOMAIN calls' : calls'[i] = calls'[j] => i = j
           /\ \A g \in Flows : flow'[g].pc = "idle" <=> \A i \in DOMAIN calls' : calls'[i] # g
           /\ flow'[f] = s /\ \A g \in Flows : g # f => flow'[g] = flow[g]
<1> DEFINE P == Pending(f)
<1>1. /\ flow \in [Flows -> FlowState] /\ calls \in Seq(Flows)
      /\ \A i, j \in DOMAIN calls : calls[i] = calls[j] => i = j
      /\ \A g \in Flows : flow[g].pc = "idle" <=> \A i \in DOMAIN calls : calls[i] # g
  BY DEF TypeOK
<1>2. /\ flow' \in [Flows -> FlowState] /\ flow'[f] = s
      /\ \A g \in Flows : g # f => flow'[g] = flow[g]
  BY <1>1 DEF Moves
<1>3. Shapes'
  BY <1>2 DEF Shapes, Shaped
<1>4. /\ P \in Seq(Flows)
      /\ \A i, j \in 1 .. Len(P) : P[i] = P[j] => i = j
      /\ \A i \in 1 .. Len(P) : P[i] # f
      /\ \A g \in Flows : g # f =>
            (flow[g].pc = "idle" <=> \A i \in 1 .. Len(P) : P[i] # g)
  <2>1. CASE Replied(f)
    <3>1. P = Tail(calls) /\ calls # <<>> /\ calls[1] = f
      BY <1>1, <2>1 DEF Replied, Pending
    <3>2. /\ Tail(calls) \in Seq(Flows) /\ Len(calls) \in Nat /\ Len(calls) > 0
          /\ Len(Tail(calls)) = Len(calls) - 1
          /\ \A i \in 1 .. Len(Tail(calls)) : Tail(calls)[i] = calls[i + 1]
      BY <1>1, <3>1, HeadTailProperties
    <3>3. DOMAIN calls = 1 .. Len(calls)
      BY <1>1
    <3>4. \A i \in 1 .. Len(P) : P[i] = calls[i + 1] /\ i + 1 \in DOMAIN calls
      BY <3>1, <3>2, <3>3
    <3>5. 1 \in DOMAIN calls
      BY <3>2, <3>3
    <3>6. \A i, j \in 1 .. Len(P) : P[i] = P[j] => i = j
      BY <1>1, <3>4
    <3>7. \A i \in 1 .. Len(P) : P[i] # f
      BY <1>1, <3>1, <3>4, <3>5
    <3>8. \A g \in Flows : g # f =>
             (flow[g].pc = "idle" <=> \A i \in 1 .. Len(P) : P[i] # g)
      <4> SUFFICES ASSUME NEW g \in Flows, g # f
                   PROVE  (\E i \in DOMAIN calls : calls[i] = g)
                          <=> (\E i \in 1 .. Len(P) : P[i] = g)
        BY <1>1
      <4>1. ASSUME NEW i \in DOMAIN calls, calls[i] = g
            PROVE  \E j \in 1 .. Len(P) : P[j] = g
        <5>1. i # 1
          BY <3>1, <4>1
        <5>2. i - 1 \in 1 .. Len(P) /\ (i - 1) + 1 = i
          BY <3>1, <3>2, <3>3, <5>1
        <5> QED
          BY <3>4, <4>1, <5>2
      <4> QED
        BY <3>4, <4>1
    <3> QED
      BY <3>1, <3>2, <3>6, <3>7, <3>8
  <2>2. CASE ~Replied(f)
    BY <1>1, <2>2 DEF Pending, MayMove
  <2> QED
    BY <2>1, <2>2
<1> HIDE DEF P
<1>5. CASE s.pc = "idle"
  <2>1. calls' = P /\ DOMAIN P = 1 .. Len(P)
    BY <1>4, <1>5 DEF Moves, P
  <2> QED
    BY <1>2, <1>3, <1>4, <1>5, <2>1
<1>6. CASE s.pc # "idle"
  <2>1. /\ calls' = Append(P, f) /\ Len(P) \in Nat
        /\ calls' \in Seq(Flows) /\ DOMAIN calls' = 1 .. Len(P) + 1
        /\ calls'[Len(P) + 1] = f
        /\ \A i \in 1 .. Len(P) : calls'[i] = P[i]
    BY <1>4, <1>6, AppendProperties DEF Moves, P
  <2>2. \A i \in DOMAIN calls' : i \in 1 .. Len(P) \/ i = Len(P) + 1
    BY <2>1
  <2>3. \A i, j \in DOMAIN calls' : calls'[i] = calls'[j] => i = j
    BY <1>4, <2>1, <2>2
  <2>4. \A g \in Flows : flow'[g].pc = "idle" <=> \A i \in DOMAIN calls' : calls'[i] # g
    <3> TAKE g \in Flows
    <3>1. CASE g = f
      <4>1. Len(P) + 1 \in DOMAIN calls'
        BY <2>1
      <4> QED
        BY <1>2, <1>6, <2>1, <3>1, <4>1
    <3>2. CASE g # f
      BY <1>2, <1>4, <2>1, <2>2, <3>2
    <3> QED
      BY <3>1, <3>2
  <2> QED
    BY <1>2, <1>3, <2>1, <2>3, <2>4
<1> QED
  BY <1>5, <1>6

-----------------------------------------------------------------------------
(* The second part: rows with the same `modified` stamp are the same, and   *)
(* an object in memory is never behind the row it has the stamp of.         *)

\* Every row that is stored, was read, or is on its way.
Rows ==
    {row, session.row} \cup {flow[f].read : f \in Flows} \cup {flow[f].dict : f \in Flows}

Agree ==
    /\ \A x, y \in Rows : x.stamp = y.stamp /\ x.stamp # 0 => x.cur = y.cur
    /\ \A o \in Objects, x \in Rows :
          series[o].stamp = x.stamp /\ x.stamp # 0 => series[o].cur >= x.cur
    /\ \A x \in Rows : x.stamp <= clock
    /\ \A o \in Objects : series[o].stamp <= clock

\* A row that was known before, or none.
Old(x) == x \in Rows \/ x = NoRow
New(x, r) == clock' = clock + 1 /\ r.stamp = clock + 1 /\ x = r

\* An object that is given up, goes on from what it was, or is made from a row.
From(s, x) == s.stamp = x.stamp /\ s.cur >= x.cur

LEMMA RowsTyped == TypeOK => \A x \in Rows : x \in Row
<1> SUFFICES ASSUME TypeOK PROVE \A x \in Rows : x \in Row
  OBVIOUS
<1>1. /\ row \in Row /\ session.row \in Row
      /\ \A f \in Flows : flow[f].read \in Row /\ flow[f].dict \in Row
  BY DEF TypeOK, FlowState
<1> QED
  BY <1>1 DEF Rows

\* A step keeps the agreement when each row is an old one or the one the step
\* writes, and each object goes on from itself, from an old row or from that one.
LEMMA AgreeStep ==
    ASSUME TypeOK, Agree, TypeOK', clock' \in {clock, clock + 1}, NEW r \in Row,
           \A x \in Rows' : Old(x) \/ x.stamp = 0 \/ New(x, r),
           \A o \in Objects :
              \/ series'[o].stamp = 0
              \/ From(series'[o], series[o])
              \/ \E x \in Rows : From(series'[o], x)
              \/ clock' = clock + 1 /\ r.stamp = clock + 1 /\ From(series'[o], r)
    PROVE  Agree'
<1>1. /\ clock \in Nat /\ clock' \in Nat /\ r.cur \in Nat
      /\ \A x \in Rows : x \in Row /\ x.cur \in Nat /\ x.stamp \in Nat /\ x.stamp <= clock
      /\ \A x \in Rows' : x \in Row /\ x.cur \in Nat /\ x.stamp \in Nat
      /\ \A o \in Objects : /\ series[o].cur \in Nat /\ series[o].stamp \in Nat
                            /\ series[o].stamp <= clock
                            /\ series'[o].cur \in Nat /\ series'[o].stamp \in Nat
  <2>1. clock \in Nat /\ clock' \in Nat /\ r.cur \in Nat
    BY DEF TypeOK, Row
  <2>2. \A x \in Rows : x \in Row
    BY RowsTyped
  <2>3. \A x \in Rows' : x \in Row
    <3>1. /\ row' \in Row /\ session'.row \in Row
          /\ \A f \in Flows : flow'[f].read \in Row /\ flow'[f].dict \in Row
      BY DEF TypeOK, FlowState
    <3> QED
      BY <3>1 DEF Rows
  <2>4. \A x \in Row : x.cur \in Nat /\ x.stamp \in Nat
    BY DEF Row
  <2>5. \A o \in Objects : /\ series[o].cur \in Nat /\ series[o].stamp \in Nat
                            /\ series'[o].cur \in Nat /\ series'[o].stamp \in Nat
    BY DEF TypeOK, Series
  <2> QED
    BY <2>1, <2>2, <2>3, <2>4, <2>5 DEF Agree
<1>2. \A x \in Rows' : x.stamp # 0 => x \in Rows \/ New(x, r)
  BY DEF Old, NoRow
<1>3. \A x, y \in Rows' : x.stamp = y.stamp /\ x.stamp # 0 => x.cur = y.cur
  <2> SUFFICES ASSUME NEW x \in Rows', NEW y \in Rows', x.stamp = y.stamp, x.stamp # 0
               PROVE  x.cur = y.cur
    OBVIOUS
  <2>1. CASE x \in Rows /\ y \in Rows
    BY <2>1 DEF Agree
  <2>2. CASE New(x, r) /\ New(y, r)
    BY <2>2 DEF New
  <2>3. ASSUME NEW u \in Rows, NEW v, u.stamp = v.stamp, New(v, r)
        PROVE  FALSE
    <3>1. u.stamp \in Nat /\ u.stamp <= clock /\ clock \in Nat
      BY <1>1
    <3>2. u.stamp = clock + 1
      BY <2>3 DEF New
    <3> QED
      BY <3>1, <3>2
  <2> QED
    BY <1>2, <2>1, <2>2, <2>3
<1>4. \A o \in Objects, x \in Rows' :
         series'[o].stamp = x.stamp /\ x.stamp # 0 => series'[o].cur >= x.cur
  <2> SUFFICES ASSUME NEW o \in Objects, NEW x \in Rows',
                      series'[o].stamp = x.stamp, x.stamp # 0
               PROVE  series'[o].cur >= x.cur
    OBVIOUS
  <2>1. CASE x \in Rows
    <3>1. CASE From(series'[o], series[o])
      <4>1. series[o].stamp = x.stamp /\ series'[o].cur >= series[o].cur
        BY <3>1 DEF From
      <4>2. series[o].cur >= x.cur
        BY <2>1, <4>1 DEF Agree
      <4> QED
        BY <1>1, <2>1, <4>1, <4>2
    <3>2. CASE \E y \in Rows : From(series'[o], y)
      BY <1>1, <2>1, <3>2 DEF Agree, From
    <3>3. CASE r.stamp = clock + 1 /\ From(series'[o], r)
      <4>1. x.stamp = clock + 1 /\ x.stamp <= clock /\ clock \in Nat
        BY <1>1, <2>1, <3>3 DEF From
      <4> QED
        BY <4>1
    <3> QED
      BY <3>1, <3>2, <3>3
  <2>2. CASE New(x, r)
    <3>1. ~From(series'[o], series[o]) /\ ~(\E y \in Rows : From(series'[o], y))
      BY <1>1, <2>2 DEF From, New
    <3> QED
      BY <2>2, <3>1 DEF From, New
  <2> QED
    BY <1>2, <2>1, <2>2
<1>5. \A x \in Rows' : x.stamp <= clock'
  BY <1>1, <1>2 DEF New
<1>6. \A o \in Objects : series'[o].stamp <= clock'
  BY <1>1 DEF From
<1> QED
  BY <1>3, <1>4, <1>5, <1>6 DEF Agree

-----------------------------------------------------------------------------
(* The third part: whose rows are where.                                    *)

\* The row of the document being saved is in; its table rows are too.
Landed(s) ==
    \/ s.pc = "head" /\ s.ok
    \/ s.pc = "lines"
    \/ s.pc \in Logging /\ s.after = "lines"
Lined(s) == s.pc = "lines" \/ (s.pc \in Logging /\ s.after = "lines")
Mine(s) == [num |-> s.dict.cur, doc |-> s.doc]

\* A document that is not spoilt is saved by one flow, and has one row at most.
Single ==
    /\ \A x \in Docs \ spoilt :
          /\ \A f, g \in Flows : flow[f].doc = x /\ flow[g].doc = x => f = g
          /\ \A g, h \in heads : g.doc = x /\ h.doc = x => g = h
          /\ \A h \in heads : h.doc = x =>
                fate[x] # "draft" \/ \E f \in Flows : flow[f].doc = x /\ Landed(flow[f])
    /\ \A f \in Flows : flow[f].doc \in Docs \ spoilt => fate[flow[f].doc] = "draft"

\* What landed is there, unless it was undone.
There ==
    /\ \A x \in Docs \ undone : fate[x] = "saved" =>
          \E n \in Nat : [num |-> n, doc |-> x] \in heads \cap lines
    /\ \A p \in lines : p.doc \notin undone => p \in heads
    /\ \A f \in Flows : flow[f].doc \in Docs \ undone =>
          /\ Landed(flow[f]) => Mine(flow[f]) \in heads
          /\ Lined(flow[f]) => Mine(flow[f]) \in lines

\* The rows a rollback would take back are those of documents it knows.
Undoable ==
    session.open =>
        /\ session.heads \subseteq heads /\ session.lines \subseteq lines
        /\ \A h \in heads \ session.heads : h.doc \in inside
        /\ \A p \in lines \ session.lines : p.doc \in inside

Stored == Single /\ There /\ Undoable

\* A flow moves on, and nothing of its document changes.
LEMMA StoredMove ==
    ASSUME flow \in [Flows -> FlowState], Stored, NEW f \in Flows, NEW s \in FlowState,
           flow' = [flow EXCEPT ![f] = s],
           s.doc = flow[f].doc, Landed(s) <=> Landed(flow[f]), Lined(s) <=> Lined(flow[f]),
           Landed(s) => s.dict.cur = flow[f].dict.cur,
           UNCHANGED <<heads, lines, session, fate, spoilt, inside, undone>>
    PROVE  Stored'
<1>1. /\ \A g \in Flows : flow'[g] = IF g = f THEN s ELSE flow[g]
      /\ \A g \in Flows : /\ flow'[g].doc = flow[g].doc
                          /\ Landed(flow'[g]) <=> Landed(flow[g])
                          /\ Lined(flow'[g]) <=> Lined(flow[g])
  OBVIOUS
<1>2. \A g \in Flows : Landed(flow[g]) => Mine(flow'[g]) = Mine(flow[g])
  BY <1>1 DEF Mine
<1>3. \A g \in Flows : Lined(flow[g]) => Landed(flow[g])
  BY DEF Lined, Landed
<1>4. Single'
  BY <1>1 DEF Stored, Single
<1>5. There'
  BY <1>1, <1>2, <1>3 DEF Stored, There
<1>6. Undoable'
  BY DEF Stored, Undoable
<1> QED
  BY <1>4, <1>5, <1>6 DEF Stored

\* A flow gives up: before its document's row landed, or the document is spoilt.
LEMMA StoredGiveUp ==
    ASSUME flow \in [Flows -> FlowState], Stored, NEW f \in Flows,
           flow' = [flow EXCEPT ![f] = Idle],
           ~Landed(flow[f]) \/ flow[f].doc \in spoilt', spoilt \subseteq spoilt',
           UNCHANGED <<heads, lines, session, fate, inside, undone>>
    PROVE  Stored'
<1>1. /\ \A g \in Flows : flow'[g] = IF g = f THEN Idle ELSE flow[g]
      /\ Idle.doc \notin Docs
  BY ApartAssumption, IdleTyped
<1>2. Single'
  <2>1. ASSUME NEW x \in Docs \ spoilt'
        PROVE  /\ \A u, g \in Flows : flow'[u].doc = x /\ flow'[g].doc = x => u = g
               /\ \A g, h \in heads' : g.doc = x /\ h.doc = x => g = h
               /\ \A h \in heads' : h.doc = x =>
                     fate'[x] # "draft"
                     \/ \E g \in Flows : flow'[g].doc = x /\ Landed(flow'[g])
    <3>1. x \in Docs \ spoilt
      BY <2>1
    <3>2. \A u, g \in Flows : flow'[u].doc = x /\ flow'[g].doc = x => u = g
      BY <1>1, <3>1 DEF Stored, Single
    <3>3. \A g, h \in heads' : g.doc = x /\ h.doc = x => g = h
      BY <3>1 DEF Stored, Single
    <3>4. ASSUME NEW h \in heads', h.doc = x
          PROVE  fate'[x] # "draft" \/ \E g \in Flows : flow'[g].doc = x /\ Landed(flow'[g])
      <4>1. CASE fate[x] # "draft"
        BY <4>1
      <4>2. CASE fate[x] = "draft"
        <5>1. PICK g \in Flows : flow[g].doc = x /\ Landed(flow[g])
          BY <3>1, <3>4, <4>2 DEF Stored, Single
        <5>2. g # f
          BY <2>1, <5>1
        <5> QED
          BY <1>1, <5>1, <5>2
      <4> QED
        BY <4>1, <4>2
    <3> QED
      BY <3>2, <3>3, <3>4
  <2>2. \A g \in Flows : flow'[g].doc \in Docs \ spoilt' => fate'[flow'[g].doc] = "draft"
    BY <1>1 DEF Stored, Single
  <2> QED
    BY <2>1, <2>2 DEF Single
<1>3. There'
  BY <1>1 DEF Stored, There
<1>4. Undoable'
  BY DEF Stored, Undoable
<1> QED
  BY <1>2, <1>3, <1>4 DEF Stored

\* A save begins; if the document is being saved already, it is spoilt.
LEMMA StoredStart ==
    ASSUME flow \in [Flows -> FlowState], Stored, NEW f \in Flows, NEW x \in Docs,
           flow[f].doc \notin Docs,
           NEW s \in FlowState, s.doc = x, ~Landed(s), flow' = [flow EXCEPT ![f] = s],
           fate[x] = "draft",
           spoilt' = IF \E g \in Flows : flow[g].doc = x THEN spoilt \cup {x} ELSE spoilt,
           UNCHANGED <<heads, lines, session, fate, inside, undone>>
    PROVE  Stored'
<1>1. \A g \in Flows : flow'[g] = IF g = f THEN s ELSE flow[g]
  OBVIOUS
<1>2. ~Lined(s)
  BY DEF Lined, Landed
<1>3. Single'
  <2>1. ASSUME NEW y \in Docs \ spoilt'
        PROVE  /\ \A u, g \in Flows : flow'[u].doc = y /\ flow'[g].doc = y => u = g
               /\ \A g, h \in heads' : g.doc = y /\ h.doc = y => g = h
               /\ \A h \in heads' : h.doc = y =>
                     fate'[y] # "draft"
                     \/ \E g \in Flows : flow'[g].doc = y /\ Landed(flow'[g])
    <3>1. y \in Docs \ spoilt /\ (y = x => \A g \in Flows : flow[g].doc # x)
      BY <2>1
    <3>2. \A u, g \in Flows : flow'[u].doc = y /\ flow'[g].doc = y => u = g
      BY <1>1, <3>1 DEF Stored, Single
    <3>3. \A g, h \in heads' : g.doc = y /\ h.doc = y => g = h
      BY <3>1 DEF Stored, Single
    <3>4. ASSUME NEW h \in heads', h.doc = y, fate'[y] = "draft"
          PROVE  \E g \in Flows : flow'[g].doc = y /\ Landed(flow'[g])
      <4>1. PICK g \in Flows : flow[g].doc = y /\ Landed(flow[g])
        BY <3>1, <3>4 DEF Stored, Single
      <4>2. g # f
        BY <4>1
      <4> QED
        BY <1>1, <4>1, <4>2
    <3> QED
      BY <3>2, <3>3, <3>4
  <2>2. \A g \in Flows : flow'[g].doc \in Docs \ spoilt' => fate'[flow'[g].doc] = "draft"
    BY <1>1 DEF Stored, Single
  <2> QED
    BY <2>1, <2>2 DEF Single
<1>4. There'
  BY <1>1, <1>2 DEF Stored, There
<1>5. Undoable'
  BY DEF Stored, Undoable
<1> QED
  BY <1>3, <1>4, <1>5 DEF Stored

\* The document's row lands.
LEMMA StoredHead ==
    ASSUME flow \in [Flows -> FlowState], Stored, NEW f \in Flows, NEW x \in Docs,
           flow[f].doc = x, ~Landed(flow[f]),
           NEW s \in FlowState, s.doc = x, s.pc = "head", s.ok,
           flow' = [flow EXCEPT ![f] = s],
           heads' = heads \cup {Mine(s)}, Touches(x),
           UNCHANGED <<lines, session, fate, spoilt, undone>>
    PROVE  Stored'
<1>1. \A g \in Flows : flow'[g] = IF g = f THEN s ELSE flow[g]
  OBVIOUS
<1>2. Landed(s) /\ ~Lined(s) /\ Mine(s).doc = x
  BY DEF Lined, Landed, Mine, Logging
<1>3. Single'
  <2>1. ASSUME NEW y \in Docs \ spoilt'
        PROVE  /\ \A u, g \in Flows : flow'[u].doc = y /\ flow'[g].doc = y => u = g
               /\ \A g, h \in heads' : g.doc = y /\ h.doc = y => g = h
               /\ \A h \in heads' : h.doc = y =>
                     fate'[y] # "draft"
                     \/ \E g \in Flows : flow'[g].doc = y /\ Landed(flow'[g])
    <3>1. y \in Docs \ spoilt
      BY <2>1
    <3>2. \A u, g \in Flows : flow'[u].doc = y /\ flow'[g].doc = y => u = g
      BY <1>1, <3>1 DEF Stored, Single
    <3>3. CASE y = x
      <4>1. \A h \in heads : h.doc # x
        <5> SUFFICES ASSUME NEW h \in heads, h.doc = x PROVE FALSE
          OBVIOUS
        <5>1. fate[x] = "draft"
          BY <3>1, <3>3 DEF Stored, Single
        <5>2. PICK g \in Flows : flow[g].doc = x /\ Landed(flow[g])
          BY <3>1, <3>3, <5>1 DEF Stored, Single
        <5>3. g = f
          BY <3>1, <3>3, <5>2 DEF Stored, Single
        <5> QED
          BY <5>2, <5>3
      <4> QED
        BY <1>1, <1>2, <3>2, <3>3, <4>1
    <3>4. CASE y # x
      <4>1. \A h \in heads' : h.doc = y => h \in heads
        BY <1>2, <3>4
      <4>2. \A g \in Flows : flow[g].doc = y => flow'[g] = flow[g]
        BY <1>1, <3>4
      <4> QED
        BY <3>1, <3>2, <4>1, <4>2 DEF Stored, Single
    <3> QED
      BY <3>3, <3>4
  <2>2. \A g \in Flows : flow'[g].doc \in Docs \ spoilt' => fate'[flow'[g].doc] = "draft"
    BY <1>1 DEF Stored, Single
  <2> QED
    BY <2>1, <2>2 DEF Single
<1>4. There'
  BY <1>1, <1>2 DEF Stored, There
<1>5. Undoable'
  <2>1. CASE session.open
    <3>1. inside' = inside \cup {x}
      BY <2>1 DEF Touches
    <3> QED
      BY <1>2, <2>1, <3>1 DEF Stored, Undoable
  <2>2. CASE ~session.open
    BY <2>2 DEF Undoable
  <2> QED
    BY <2>1, <2>2
<1> QED
  BY <1>3, <1>4, <1>5 DEF Stored

\* Its table rows land.
LEMMA StoredLines ==
    ASSUME flow \in [Flows -> FlowState], Stored, NEW f \in Flows, NEW x \in Docs,
           flow[f].doc = x, Landed(flow[f]),
           NEW s \in FlowState, s.doc = x, s.pc = "lines", s.dict = flow[f].dict,
           flow' = [flow EXCEPT ![f] = s],
           lines' = lines \cup {Mine(s)}, Touches(x),
           UNCHANGED <<heads, session, fate, spoilt, undone>>
    PROVE  Stored'
<1>1. \A g \in Flows : flow'[g] = IF g = f THEN s ELSE flow[g]
  OBVIOUS
<1>2. Landed(s) /\ Lined(s) /\ Mine(s).doc = x /\ Mine(s) = Mine(flow[f])
  BY DEF Lined, Landed, Mine
<1>3. \A g \in Flows : flow'[g].doc = flow[g].doc /\ (Landed(flow'[g]) <=> Landed(flow[g]))
  BY <1>1, <1>2
<1>4. Single'
  BY <1>3 DEF Stored, Single
<1>5. There'
  BY <1>1, <1>2 DEF Stored, There
<1>6. Undoable'
  <2>1. CASE session.open
    <3>1. inside' = inside \cup {x}
      BY <2>1 DEF Touches
    <3> QED
      BY <1>2, <2>1, <3>1 DEF Stored, Undoable
  <2>2. CASE ~session.open
    BY <2>2 DEF Undoable
  <2> QED
    BY <2>1, <2>2
<1> QED
  BY <1>4, <1>5, <1>6 DEF Stored

\* The save is over, and the user sees it.
LEMMA StoredEnd ==
    ASSUME flow \in [Flows -> FlowState], Stored, NEW f \in Flows, NEW x \in Docs,
           flow[f].doc = x, Lined(flow[f]), flow' = [flow EXCEPT ![f] = Idle],
           fate \in [Docs -> {"draft", "saved", "gone"}],
           fate' = [fate EXCEPT ![x] = "saved"],
           UNCHANGED <<heads, lines, session, spoilt, inside, undone>>
    PROVE  Stored'
<1>1. /\ \A g \in Flows : flow'[g] = IF g = f THEN Idle ELSE flow[g]
      /\ Idle.doc \notin Docs
      /\ \A y \in Docs : fate'[y] = IF y = x THEN "saved" ELSE fate[y]
  BY ApartAssumption, IdleTyped
<1>2. Landed(flow[f])
  BY DEF Lined, Landed
<1>3. Single'
  <2>1. ASSUME NEW y \in Docs \ spoilt'
        PROVE  /\ \A u, g \in Flows : flow'[u].doc = y /\ flow'[g].doc = y => u = g
               /\ \A g, h \in heads' : g.doc = y /\ h.doc = y => g = h
               /\ \A h \in heads' : h.doc = y =>
                     fate'[y] # "draft"
                     \/ \E g \in Flows : flow'[g].doc = y /\ Landed(flow'[g])
    BY <1>1, <2>1 DEF Stored, Single
  <2>2. \A g \in Flows : flow'[g].doc \in Docs \ spoilt' => fate'[flow'[g].doc] = "draft"
    <3> SUFFICES ASSUME NEW g \in Flows, flow'[g].doc \in Docs \ spoilt
                 PROVE  fate'[flow'[g].doc] = "draft"
      OBVIOUS
    <3>1. g # f /\ flow'[g] = flow[g]
      BY <1>1
    <3>2. flow[g].doc # x
      BY <3>1 DEF Stored, Single
    <3> QED
      BY <1>1, <3>1, <3>2 DEF Stored, Single
  <2> QED
    BY <2>1, <2>2 DEF Single
<1>4. There'
  <2>1. ASSUME NEW y \in Docs \ undone, fate'[y] = "saved"
        PROVE  \E n \in Nat : [num |-> n, doc |-> y] \in heads \cap lines
    <3>1. CASE y = x
      <4>1. Mine(flow[f]) \in heads /\ Mine(flow[f]) \in lines /\ flow[f].dict.cur \in Nat
        BY <1>2, <2>1, <3>1 DEF Stored, There, FlowState, Row
      <4> QED
        BY <3>1, <4>1 DEF Mine
    <3>2. CASE y # x
      BY <1>1, <2>1, <3>2 DEF Stored, There
    <3> QED
      BY <3>1, <3>2
  <2>2. \A g \in Flows : flow'[g].doc \in Docs \ undone => flow'[g] = flow[g]
    BY <1>1
  <2> QED
    BY <2>1, <2>2 DEF Stored, There
<1>5. Undoable'
  BY DEF Stored, Undoable
<1> QED
  BY <1>3, <1>4, <1>5 DEF Stored

\* A rollback takes back what the transaction holds.
LEMMA StoredUndo ==
    ASSUME Stored, session.open, Undo, UNCHANGED <<flow, fate, spoilt>>
    PROVE  Stored'
<1>1. /\ heads' = session.heads /\ lines' = session.lines /\ session' = Closed
      /\ undone' = undone \cup inside
      /\ heads' \subseteq heads /\ lines' \subseteq lines
      /\ \A h \in heads : h.doc \notin undone' => h \in heads'
      /\ \A p \in lines : p.doc \notin undone' => p \in lines'
  BY DEF Undo, Stored, Undoable
<1>2. Single'
  BY <1>1 DEF Stored, Single
<1>3. There'
  <2>1. ASSUME NEW x \in Docs \ undone', fate[x] = "saved"
        PROVE  \E n \in Nat : [num |-> n, doc |-> x] \in heads' \cap lines'
    <3>1. PICK n \in Nat : [num |-> n, doc |-> x] \in heads \cap lines
      BY <1>1, <2>1 DEF Stored, There
    <3>2. [num |-> n, doc |-> x].doc = x
      OBVIOUS
    <3> QED
      BY <1>1, <2>1, <3>1, <3>2
  <2>2. \A p \in lines' : p.doc \notin undone' => p \in heads'
    BY <1>1 DEF Stored, There
  <2>3. \A f \in Flows : Mine(flow[f]).doc = flow[f].doc
    BY DEF Mine
  <2>4. \A f \in Flows : flow[f].doc \in Docs \ undone' =>
          /\ Landed(flow[f]) => Mine(flow[f]) \in heads'
          /\ Lined(flow[f]) => Mine(flow[f]) \in lines'
    BY <1>1, <2>3 DEF Stored, There
  <2> QED
    BY <2>1, <2>2, <2>4 DEF There
<1>4. Undoable'
  BY <1>1 DEF Undoable, Closed
<1> QED
  BY <1>2, <1>3, <1>4 DEF Stored

\* The program ends: what was being saved is lost to the user, and a transaction
\* that was open is rolled back.
LEMMA StoredRestart ==
    ASSUME Stored, flow' = [f \in Flows |-> Idle],
           fate \in [Docs -> {"draft", "saved", "gone"}],
           fate' = [d \in Docs |-> IF fate[d] = "draft" /\ \E f \in Flows : flow[f].doc = d
                                   THEN "gone" ELSE fate[d]],
           UNCHANGED spoilt,
           \/ session.open /\ Undo
           \/ ~session.open /\ UNCHANGED <<heads, lines, session, inside, undone>>
    PROVE  Stored'
<1>1. /\ heads' \subseteq heads /\ lines' \subseteq lines /\ undone \subseteq undone'
      /\ \A h \in heads : h.doc \notin undone' => h \in heads'
      /\ \A p \in lines : p.doc \notin undone' => p \in lines'
      /\ ~session'.open
  <2>1. CASE session.open /\ Undo
    BY <2>1 DEF Undo, Stored, Undoable, Closed
  <2>2. CASE ~session.open /\ UNCHANGED <<heads, lines, session, inside, undone>>
    BY <2>2
  <2> QED
    BY <2>1, <2>2
<1>2. \A f \in Flows : flow'[f].doc \notin Docs
  BY ApartAssumption, IdleTyped
<1>3. \A x \in Docs : /\ fate'[x] = "saved" => fate[x] = "saved"
                      /\ fate'[x] = "draft" => /\ fate[x] = "draft"
                                               /\ \A f \in Flows : flow[f].doc # x
  OBVIOUS
<1>4. Single'
  BY <1>1, <1>2, <1>3 DEF Stored, Single
<1>5. There'
  <2>1. ASSUME NEW x \in Docs \ undone', fate'[x] = "saved"
        PROVE  \E n \in Nat : [num |-> n, doc |-> x] \in heads' \cap lines'
    <3>1. PICK n \in Nat : [num |-> n, doc |-> x] \in heads \cap lines
      BY <1>1, <1>3, <2>1 DEF Stored, There
    <3>2. [num |-> n, doc |-> x].doc = x
      OBVIOUS
    <3> QED
      BY <1>1, <2>1, <3>1, <3>2
  <2>2. \A p \in lines' : p.doc \notin undone' => p \in heads'
    BY <1>1 DEF Stored, There
  <2> QED
    BY <1>2, <2>1, <2>2 DEF There
<1>6. Undoable'
  BY <1>1 DEF Undoable
<1> QED
  BY <1>4, <1>5, <1>6 DEF Stored

-----------------------------------------------------------------------------
(* The moves the actions are made of.                                       *)

IInv == TypeOK /\ Shapes /\ Agree /\ Stored

\* The part of the type invariant that a move of a flow leaves to its action.
Surroundings ==
    /\ row \in Row
    /\ heads \subseteq DocRow /\ lines \subseteq Line
    /\ session \in [open : BOOLEAN, row : Row, heads : SUBSET DocRow, lines : SUBSET Line]
    /\ series \in [Objects -> Series]
    /\ cached \in Objects \cup {0}
    /\ fate \in [Docs -> {"draft", "saved", "gone"}]
    /\ saves \in Nat /\ events \in Nat /\ clock \in Nat
    /\ mishap \subseteq Mishaps
    /\ spoilt \subseteq Docs /\ inside \subseteq Docs
    /\ undone \subseteq Docs /\ clashed \subseteq Docs

LEMMA SurroundingsHold == TypeOK => Surroundings
  BY DEF TypeOK, Surroundings

LEMMA TypedMove ==
    ASSUME TypeOK, Shapes, NEW f \in Flows, MayMove(f), NEW s \in FlowState, Shaped(s),
           Moves(f, s), Surroundings',
           \/ logger' = NoFlow
           \/ logger' = logger /\ (flow[f].pc \notin Logging \/ s.pc \in Logging)
           \/ logger' = f /\ s.pc \in Logging
    PROVE  TypeOK' /\ Shapes'
<1>1. /\ flow' \in [Flows -> FlowState] /\ Shapes'
      /\ calls' \in Seq(Flows)
      /\ \A i, j \in DOMAIN calls' : calls'[i] = calls'[j] => i = j
      /\ \A g \in Flows : flow'[g].pc = "idle" <=> \A i \in DOMAIN calls' : calls'[i] # g
      /\ flow'[f] = s /\ \A g \in Flows : g # f => flow'[g] = flow[g]
  BY MoveTyped
<1>2. logger' \in Flows \cup {NoFlow} /\ (logger' # NoFlow => flow'[logger'].pc \in Logging)
  <2>1. logger \in Flows \cup {NoFlow} /\ (logger # NoFlow => flow[logger].pc \in Logging)
    BY DEF TypeOK
  <2>2. CASE logger' = NoFlow
    BY <2>2
  <2>3. CASE logger' = logger /\ (flow[f].pc \notin Logging \/ s.pc \in Logging)
    BY <1>1, <2>1, <2>3
  <2>4. CASE logger' = f /\ s.pc \in Logging
    BY <1>1, <2>4
  <2> QED
    BY <2>2, <2>3, <2>4
<1> QED
  BY <1>1, <1>2 DEF TypeOK, Surroundings

\* A move writes no row, or the row r with a new stamp.
LEMMA AgreeMove ==
    ASSUME TypeOK, Agree, TypeOK', NEW f \in Flows, NEW s \in FlowState,
           flow' = [flow EXCEPT ![f] = s], UNCHANGED session,
           clock' \in {clock, clock + 1}, NEW r \in Row,
           row' = row \/ New(row', r),
           s.read \in {NoRow, row, flow[f].read},
           s.dict = flow[f].dict \/ s.dict.stamp = 0 \/ New(s.dict, r),
           \A o \in Objects :
              \/ series'[o].stamp = 0
              \/ From(series'[o], series[o])
              \/ \E x \in Rows : From(series'[o], x)
              \/ clock' = clock + 1 /\ r.stamp = clock + 1 /\ From(series'[o], r)
    PROVE  Agree'
<1>1. \A g \in Flows : flow'[g] = IF g = f THEN s ELSE flow[g]
  BY DEF TypeOK
<1>2. \A x \in Rows' : Old(x) \/ x.stamp = 0 \/ New(x, r)
  <2>1. \A x \in Rows' : \/ x = row' \/ x = session.row
                         \/ x = s.read \/ x = s.dict
                         \/ \E g \in Flows : x = flow[g].read \/ x = flow[g].dict
    BY <1>1 DEF Rows
  <2>2. Old(row) /\ Old(session.row) /\ Old(NoRow)
        /\ \A g \in Flows : Old(flow[g].read) /\ Old(flow[g].dict)
    BY DEF Old, Rows
  <2> QED
    BY <2>1, <2>2
<1> QED
  BY <1>2, AgreeStep

GoesOn(S) == \A q \in Objects : series'[q].stamp = 0 \/ From(series'[q], S[q])

LEMMA KeepsTyped ==
    ASSUME NEW S \in [Objects -> Series], Keeps(S)
    PROVE  series' \in [Objects -> Series] /\ GoesOn(S)
<1>1. \A q \in Objects : series'[q] = S[q] \/ series'[q] = NoSeries
  BY HeldTyped DEF Keeps
<1>2. \A q \in Objects : S[q].cur \in Nat
  BY DEF Series
<1> QED
  BY <1>1, <1>2, HeldTyped DEF Keeps, GoesOn, From, NoSeries

\* The counter of an object moves on.
LEMMA CounterTyped ==
    ASSUME NEW S \in [Objects -> Series], NEW o \in Objects, NEW c \in Nat, c >= S[o].cur
    PROVE  /\ [S EXCEPT ![o].cur = c] \in [Objects -> Series]
           /\ \A q \in Objects : From([S EXCEPT ![o].cur = c][q], S[q])
<1> DEFINE T == [S EXCEPT ![o].cur = c]
<1>1. \A q \in Objects : S[q] \in Series /\ S[q].cur \in Nat
  BY DEF Series
<1>2. [S[o] EXCEPT !.cur = c] \in Series /\ [S[o] EXCEPT !.cur = c].stamp = S[o].stamp
      /\ [S[o] EXCEPT !.cur = c].cur = c
  BY <1>1 DEF Series
<1>3. \A q \in Objects : T[q] = IF q = o THEN [S[o] EXCEPT !.cur = c] ELSE S[q]
  OBVIOUS
<1>4. T \in [Objects -> Series]
  BY <1>1, <1>2, <1>3
<1> HIDE DEF T
<1>5. \A q \in Objects : From(T[q], S[q])
  <2> TAKE q \in Objects
  <2>1. CASE q = o
    <3>1. T[q].stamp = S[q].stamp /\ T[q].cur = c
      BY <1>2, <1>3, <2>1
    <3> QED
      BY <2>1, <3>1 DEF From
  <2>2. CASE q # o
    BY <1>1, <1>3, <2>2 DEF From
  <2> QED
    BY <2>1, <2>2
<1> QED
  BY <1>4, <1>5 DEF T

LEMMA SetCurrentGrows ==
    ASSUME NEW c \in Nat
    PROVE  setCurrent(c) \in Nat /\ setCurrent(c) >= c
  BY StartAssumption DEF setCurrent

LEMMA NextMove ==
    ASSUME NEW f \in Flows, NEW x \in Docs, NEW o \in Objects,
           NEW S \in [Objects -> Series], next(f, x, o, S)
    PROVE  /\ \E s \in FlowState : /\ Shaped(s) /\ s.pc = "taken" /\ s.doc = x
                                   /\ s.read = NoRow /\ s.dict = NoRow /\ Moves(f, s)
           /\ series' \in [Objects -> Series] /\ GoesOn(S)
<1> DEFINE cur == setCurrent(S[o].cur)
           s == [Idle EXCEPT !.pc = "taken", !.doc = x, !.obj = o, !.ok = exists(cur)]
           T == [S EXCEPT ![o].cur = cur]
<1>1. S[o].cur \in Nat
  BY DEF Series
<1>2. cur \in Nat /\ cur >= S[o].cur
  BY <1>1, SetCurrentGrows
<1>3. Sends(f, s) /\ Keeps(T)
  BY DEF next
<1>4. /\ s \in FlowState /\ s.pc = "taken" /\ s.doc = x /\ s.obj = o
      /\ s.read = NoRow /\ s.dict = NoRow
  <2>1. exists(cur) \in BOOLEAN
    BY DEF exists
  <2> HIDE DEF cur
  <2> QED
    BY <2>1, IdleTyped DEF FlowState, Steps, Naming
<1>5. o # 0
  BY Numbers
<1> HIDE DEF s, cur
<1>6. Shaped(s) /\ Moves(f, s)
  BY <1>3, <1>4, <1>5 DEF Shaped, Logging, Moves, Sends
<1>7. T \in [Objects -> Series] /\ \A q \in Objects : From(T[q], S[q])
  BY <1>1, <1>2, CounterTyped
<1> HIDE DEF T
<1>8. series' \in [Objects -> Series] /\ GoesOn(T)
  BY <1>3, <1>7, KeepsTyped
<1>9. GoesOn(S)
  <2>1. \A q \in Objects : /\ S[q].cur \in Nat /\ T[q].cur \in Nat /\ series'[q].cur \in Nat
    BY <1>7, <1>8 DEF Series
  <2> QED
    BY <1>7, <1>8, <2>1 DEF GoesOn, From
<1> QED
  BY <1>4, <1>6, <1>8, <1>9

LEMMA GetDocMove ==
    ASSUME TypeOK, NEW f \in Flows, NEW x \in Docs, NEW S \in [Objects -> Series],
           getDoc(f, x, S)
    PROVE  /\ \E s \in FlowState : /\ Shaped(s) /\ s.pc \in {"taken", "load"} /\ s.doc = x
                                   /\ s.read \in {NoRow, row} /\ s.dict = NoRow /\ Moves(f, s)
           /\ series' \in [Objects -> Series] /\ GoesOn(S)
           /\ cached' = cached
<1>1. CASE cached # 0 /\ next(f, x, cached, S)
  <2>1. cached \in Objects
    BY <1>1 DEF TypeOK
  <2> QED
    BY <1>1, <2>1, NextMove DEF getDoc
<1>2. CASE /\ Sends(f, [Idle EXCEPT !.pc = "load", !.doc = x, !.read = row])
           /\ Keeps(S)
  <2> DEFINE s == [Idle EXCEPT !.pc = "load", !.doc = x, !.read = row]
  <2>1. row \in Row
    BY DEF TypeOK
  <2>2. /\ s \in FlowState /\ s.pc = "load" /\ s.doc = x /\ s.obj = 0
        /\ s.read = row /\ s.dict = NoRow
    BY <2>1, IdleTyped DEF FlowState, Steps, Naming
  <2> HIDE DEF s
  <2>3. Shaped(s)
    BY <2>2 DEF Shaped, Logging
  <2>4. Moves(f, s)
    BY <1>2, <2>2 DEF Moves, Sends, s
  <2> QED
    BY <1>2, <2>2, <2>3, <2>4, KeepsTyped DEF getDoc
<1> QED
  BY <1>1, <1>2 DEF getDoc

\* The series object is written for the first time.
LEMMA InsertSeriesMove ==
    ASSUME TypeOK, Shapes, NEW f \in Flows, flow[f].pc \in {"missing", "taken"},
           NEW o \in Objects, NEW S \in [Objects -> Series], insertSeries(f, o, S),
           NEW r, r = [cur |-> S[o].cur, stamp |-> clock + 1]
    PROVE  /\ \E s \in FlowState : /\ Shaped(s) /\ s.pc \in {"create", "write"}
                                   /\ s.doc = flow[f].doc
                                   /\ s.read = NoRow /\ s.dict = r /\ Moves(f, s)
           /\ r \in Row /\ clock' = clock + 1
           /\ row' = IF Absent(row) THEN r ELSE row
           /\ series' \in [Objects -> Series]
           /\ \A q \in Objects : \/ series'[q].stamp = 0
                                 \/ From(series'[q], S[q])
                                 \/ From(series'[q], r)
<1> DEFINE s == [flow[f] EXCEPT !.pc = IF @ = "missing" THEN "create" ELSE "write",
                                !.obj = o, !.dict = r, !.ok = Absent(row), !.read = NoRow]
           T == [S EXCEPT ![o].stamp = clock + 1]
<1>1. /\ flow[f] \in FlowState /\ clock \in Nat /\ S[o].cur \in Nat /\ S[o] \in Series
      /\ flow[f].doc \in Docs
  BY DEF TypeOK, Series, Shapes, Shaped
<1>2. r \in Row /\ r.cur = S[o].cur /\ r.stamp = clock + 1
  BY <1>1 DEF Row
<1>3. /\ Sends(f, s) /\ Keeps(T) /\ clock' = clock + 1
      /\ row' = IF Absent(row) THEN r ELSE row
  BY DEF insertSeries
<1>4. /\ s \in FlowState /\ s.pc \in {"create", "write"} /\ s.doc = flow[f].doc /\ s.obj = o
      /\ s.read = NoRow /\ s.dict = r
  <2>1. Absent(row) \in BOOLEAN
    BY DEF Absent
  <2>2. NoRow \in Row
    BY RowTyped
  <2> QED
    BY <1>1, <1>2, <2>1, <2>2 DEF FlowState, Steps, Naming
<1>5. o # 0
  BY Numbers
<1> HIDE DEF s
<1>6. Shaped(s) /\ Moves(f, s)
  BY <1>1, <1>3, <1>4, <1>5 DEF Shaped, Logging, Moves, Sends
<1>7. /\ [S[o] EXCEPT !.stamp = clock + 1] \in Series
      /\ From([S[o] EXCEPT !.stamp = clock + 1], r)
  BY <1>1, <1>2 DEF Series, From
<1>8. \A q \in Objects : T[q] = IF q = o THEN [S[o] EXCEPT !.stamp = clock + 1] ELSE S[q]
  OBVIOUS
<1>9. T \in [Objects -> Series]
  BY <1>7, <1>8
<1> HIDE DEF T
<1>10. series' \in [Objects -> Series] /\ \A q \in Objects : series'[q] = T[q] \/ series'[q] = NoSeries
  BY <1>3, <1>9, HeldTyped DEF Keeps
<1>11. \A q \in Objects : From(S[q], S[q])
  BY DEF From, Series
<1>12. ASSUME NEW q \in Objects
       PROVE  \/ series'[q].stamp = 0 \/ From(series'[q], S[q]) \/ From(series'[q], r)
  <2>1. CASE series'[q] = NoSeries
    BY <2>1 DEF NoSeries
  <2>2. CASE series'[q] = T[q]
    BY <1>7, <1>8, <1>11, <2>2
  <2> QED
    BY <1>10, <2>1, <2>2
<1> QED
  BY <1>2, <1>3, <1>4, <1>6, <1>10, <1>12

-----------------------------------------------------------------------------
(* Every action keeps the invariant.                                        *)

LEMMA InitInv == Init => IInv
<1> SUFFICES ASSUME Init PROVE IInv
  OBVIOUS
<1>1. TypeOK
  <2>1. heads \subseteq DocRow
    BY ImportsAssumption DEF Init, DocRow
  <2>2. row \in Row /\ [cur |-> 0, stamp |-> 1] \in Row
    BY RowTyped DEF Init, Row
  <2>3. session \in [open : BOOLEAN, row : Row, heads : SUBSET DocRow, lines : SUBSET Line]
    <3>1. FALSE \in BOOLEAN /\ NoRow \in Row
      BY RowTyped
    <3> QED
      BY <3>1 DEF Init, Closed
  <2>4. flow \in [Flows -> FlowState] /\ series \in [Objects -> Series]
    BY IdleTyped, NoSeriesTyped DEF Init
  <2>5. \A f \in Flows : flow[f].pc = "idle" <=> \A i \in DOMAIN calls : calls[i] # f
    BY IdleTyped DEF Init
  <2>6. calls \in Seq(Flows) /\ \A i, j \in DOMAIN calls : calls[i] = calls[j] => i = j
    BY DEF Init
  <2> QED
    BY <2>1, <2>2, <2>3, <2>4, <2>5, <2>6 DEF Init, TypeOK
<1>2. Shapes
  BY IdleTyped DEF Init, Shapes
<1>3. Agree
  <2>1. \A x \in Rows : x = NoRow \/ x = row
    BY IdleTyped DEF Init, Rows, Closed
  <2>2. row.stamp <= 1 /\ row.cur = 0 /\ clock = 1
    BY DEF Init, NoRow
  <2>3. \A o \in Objects : series[o].stamp = 0
    BY DEF Init, NoSeries
  <2> QED
    BY <2>1, <2>2, <2>3 DEF Agree, NoRow
<1>4. Stored
  <2>1. \A f \in Flows : flow[f].doc \notin Docs
    BY IdleTyped, ApartAssumption DEF Init
  <2>2. \A h \in heads : h.doc \notin Docs
    BY ApartAssumption DEF Init
  <2>3. /\ lines = {} /\ spoilt = {} /\ session.open = FALSE
        /\ \A x \in Docs : fate[x] = "draft"
    BY DEF Init, Closed
  <2> QED
    BY <2>1, <2>2, <2>3 DEF Stored, Single, There, Undoable
<1> QED
  BY <1>1, <1>2, <1>3, <1>4 DEF IInv

LEMMA StartSaveKeeps ==
    ASSUME IInv, NEW f \in Flows, NEW x \in Docs, StartSave(f, x)
    PROVE  IInv'
<1>1. /\ TypeOK /\ Shapes /\ Agree /\ Stored /\ Surroundings
      /\ flow[f].pc = "idle" /\ fate[x] = "draft" /\ saves' = saves + 1
      /\ mishap' \in {mishap, mishap \cup {"overlap"}}
      /\ spoilt' = IF \E g \in Flows : flow[g].doc = x THEN spoilt \cup {x} ELSE spoilt
      /\ getDoc(f, x, series)
      /\ UNCHANGED <<database, logger, fate, events, clock, inside, undone, clashed>>
  BY SurroundingsHold DEF IInv, StartSave
<1>2. series \in [Objects -> Series] /\ flow \in [Flows -> FlowState]
  BY <1>1 DEF TypeOK
<1>3. /\ series' \in [Objects -> Series] /\ GoesOn(series) /\ cached' = cached
  BY <1>1, <1>2, GetDocMove
<1>4. PICK s \in FlowState : /\ Shaped(s) /\ s.pc \in {"taken", "load"} /\ s.doc = x
                             /\ s.read \in {NoRow, row} /\ s.dict = NoRow /\ Moves(f, s)
  BY <1>1, <1>2, GetDocMove
<1>5. Surroundings'
  BY <1>1, <1>3 DEF Surroundings, database, Mishaps
<1>6. TypeOK' /\ Shapes'
  BY <1>1, <1>4, <1>5, TypedMove DEF MayMove, Logging
<1>7. Agree'
  <2>1. NoRow \in Row /\ NoRow.stamp = 0
    BY RowTyped DEF NoRow
  <2> QED
    BY <1>1, <1>3, <1>4, <1>6, <2>1, AgreeMove DEF Moves, GoesOn, database
<1>8. Stored'
  <2>1. flow[f].doc \notin Docs /\ ~Landed(s)
    BY <1>1, <1>4, ApartAssumption DEF Shapes, Shaped, Landed, Logging
  <2> QED
    BY <1>1, <1>2, <1>4, <2>1, StoredStart DEF Moves, database
<1> QED
  BY <1>6, <1>7, <1>8 DEF IInv

\* A flow that waits for an answer has a document.
LEMMA Waiting ==
    ASSUME TypeOK, Shapes, NEW f \in Flows, flow[f].pc # "idle"
    PROVE  /\ flow[f] \in FlowState /\ Shaped(flow[f]) /\ flow[f].doc \in Docs
           /\ flow \in [Flows -> FlowState] /\ series \in [Objects -> Series]
           /\ flow[f].read \in Rows /\ flow[f].dict \in Rows
  BY DEF TypeOK, Shapes, Shaped, Rows

\* Where an object comes from, through the series the action starts from.
Sprung(q) ==
    \/ series'[q].stamp = 0
    \/ From(series'[q], series[q])
    \/ \E x \in Rows : From(series'[q], x)

LEMMA SprungFrom ==
    ASSUME TypeOK, NEW S \in [Objects -> Series], series' \in [Objects -> Series], GoesOn(S),
           \A q \in Objects : From(S[q], series[q]) \/ \E x \in Rows : From(S[q], x)
    PROVE  \A q \in Objects : Sprung(q)
<1> SUFFICES ASSUME NEW q \in Objects PROVE Sprung(q)
  OBVIOUS
<1>1. /\ series'[q].cur \in Nat /\ S[q].cur \in Nat /\ series[q].cur \in Nat
      /\ \A x \in Rows : x.cur \in Nat
  BY RowsTyped DEF TypeOK, Series, Row
<1>2. CASE series'[q].stamp = 0
  BY <1>2 DEF Sprung
<1>3. CASE From(series'[q], S[q])
  <2>1. CASE From(S[q], series[q])
    BY <1>1, <1>3, <2>1 DEF From, Sprung
  <2>2. ASSUME NEW x \in Rows, From(S[q], x)
        PROVE  From(series'[q], x)
    BY <1>1, <1>3, <2>2 DEF From
  <2> QED
    BY <2>1, <2>2 DEF Sprung
<1> QED
  BY <1>2, <1>3 DEF GoesOn

LEMMA SameSprings ==
    ASSUME TypeOK
    PROVE  \A q \in Objects : From(series[q], series[q])
  BY DEF TypeOK, Series, From

\* What was written is put into the object: it goes on from that row.
LEMMA SyncedTyped ==
    ASSUME TypeOK, Shapes, NEW f \in Flows, flow[f].pc # "idle"
    PROVE  /\ Synced(f, flow[f]) \in [Objects -> Series]
           /\ \A q \in Objects : \/ From(Synced(f, flow[f])[q], series[q])
                                 \/ \E x \in Rows : From(Synced(f, flow[f])[q], x)
<1> DEFINE d == flow[f].dict
           v == [cur |-> d.cur, stamp |-> d.stamp, inserted |-> TRUE]
           T == Synced(f, flow[f])
<1>1. series \in [Objects -> Series] /\ d \in Row /\ d \in Rows
  BY Waiting DEF FlowState
<1>2. TRUE \in BOOLEAN
  OBVIOUS
<1>3. v \in Series /\ v.cur = d.cur /\ v.stamp = d.stamp /\ d.cur \in Nat
  BY <1>1, <1>2 DEF Series, Row
<1>4. From(v, d)
  BY <1>3 DEF From
<1>5. T = [series EXCEPT ![flow[f].obj] = v]
  BY DEF Synced
<1>6. T \in [Objects -> Series]
      /\ \A q \in Objects : T[q] = IF q = flow[f].obj THEN v ELSE series[q]
  <2> HIDE DEF v, T
  <2> QED
    BY <1>1, <1>3, <1>5
<1>7. ASSUME NEW q \in Objects
      PROVE  From(T[q], series[q]) \/ \E x \in Rows : From(T[q], x)
  <2>1. CASE q = flow[f].obj
    BY <1>1, <1>4, <1>6, <2>1
  <2>2. CASE q # flow[f].obj
    BY <1>6, <2>2, SameSprings
  <2> QED
    BY <2>1, <2>2
<1> QED
  BY <1>6, <1>7

NothingStored == UNCHANGED <<heads, lines, session, fate, inside, undone>>

\* The logger is free, or was not f's and stays as it is.
LetsGo(f) == \/ logger' = NoFlow
             \/ logger' = logger /\ flow[f].pc \notin Logging

\* A flow moves on in its save.
LEMMA MoveKeeps ==
    ASSUME IInv, NEW f \in Flows, Replied(f), flow[f].pc # "idle",
           NEW s \in FlowState, Shaped(s), Moves(f, s), s.doc = flow[f].doc,
           Landed(s) <=> Landed(flow[f]), Lined(s) <=> Lined(flow[f]),
           Landed(s) => s.dict = flow[f].dict,
           NothingStored, UNCHANGED spoilt, Surroundings',
           \/ logger' = NoFlow
           \/ logger' = logger /\ (flow[f].pc \notin Logging \/ s.pc \in Logging)
           \/ logger' = f /\ s.pc \in Logging,
           clock' \in {clock, clock + 1}, NEW r \in Row,
           row' = row \/ New(row', r),
           s.read \in {NoRow, row, flow[f].read},
           s.dict = flow[f].dict \/ s.dict.stamp = 0 \/ New(s.dict, r),
           \A q \in Objects :
              Sprung(q) \/ (clock' = clock + 1 /\ r.stamp = clock + 1 /\ From(series'[q], r))
    PROVE  IInv'
<1>1. TypeOK /\ Shapes /\ Agree /\ Stored /\ MayMove(f)
  BY DEF IInv, MayMove
<1>2. TypeOK' /\ Shapes'
  BY <1>1, TypedMove
<1>3. Agree'
  BY <1>1, <1>2, AgreeMove DEF Moves, Sprung, NothingStored
<1>4. Stored'
  BY <1>1, StoredMove, Waiting DEF Moves, NothingStored
<1> QED
  BY <1>2, <1>3, <1>4 DEF IInv

\* It gives its save up.
LEMMA GiveUpKeeps ==
    ASSUME IInv, NEW f \in Flows, Replied(f), flow[f].pc # "idle", Ends(f),
           ~Landed(flow[f]) \/ flow[f].doc \in spoilt', spoilt \subseteq spoilt',
           NothingStored, Surroundings', UNCHANGED <<row, clock>>,
           LetsGo(f),
           \A q \in Objects : Sprung(q)
    PROVE  IInv'
<1>1. TypeOK /\ Shapes /\ Agree /\ Stored /\ MayMove(f)
  BY DEF IInv, MayMove
<1>2. Moves(f, Idle)
  BY IdleTyped DEF Ends, Moves
<1>3. TypeOK' /\ Shapes'
  BY <1>1, <1>2, IdleTyped, TypedMove DEF LetsGo
<1>4. Agree'
  <2>1. NoRow \in Row /\ NoRow.stamp = 0
    BY RowTyped DEF NoRow
  <2> QED
    BY <1>1, <1>2, <1>3, <2>1, IdleTyped, AgreeMove DEF Moves, Sprung, NothingStored
<1>5. Stored'
  BY <1>1, <1>2, StoredGiveUp, Waiting DEF Moves, NothingStored
<1> QED
  BY <1>3, <1>4, <1>5 DEF IInv

LEMMA LoadedKeeps ==
    ASSUME IInv, NEW f \in Flows, Loaded(f)
    PROVE  IInv'
<1> DEFINE r == flow[f].read
           o == NewObject
           v == [cur |-> r.cur, stamp |-> r.stamp, inserted |-> TRUE]
           T == [series EXCEPT ![o] = v]
<1>1. /\ TypeOK /\ Shapes /\ Surroundings /\ Replied(f) /\ flow[f].pc = "load"
      /\ UNCHANGED <<database, logger, fate, bounds, clock, history>>
  BY SurroundingsHold DEF IInv, Loaded
<1>2. /\ flow[f] \in FlowState /\ Shaped(flow[f]) /\ flow[f].doc \in Docs
      /\ flow \in [Flows -> FlowState] /\ series \in [Objects -> Series]
      /\ r \in Rows /\ r \in Row /\ flow[f].obj = 0
  BY <1>1, Waiting DEF FlowState, Shaped
<1>3. o \in Objects
  BY <1>2, RoomForOne
<1>4. ~Landed(flow[f]) /\ ~Lined(flow[f]) /\ NoRow.stamp = 0 /\ NoRow \in Row
  BY <1>1, RowTyped DEF Landed, Lined, Logging, NoRow
<1>5. CASE cached' = o /\ next(f, flow[f].doc, o, T)
  <2>1. TRUE \in BOOLEAN
    OBVIOUS
  <2>2. v \in Series /\ From(v, r)
    BY <1>2, <2>1 DEF Series, Row, From
  <2>3. T \in [Objects -> Series] /\ \A q \in Objects : T[q] = IF q = o THEN v ELSE series[q]
    <3> HIDE DEF o, v
    <3> QED
      BY <1>2, <1>3, <2>2
  <2>4. \A q \in Objects : From(T[q], series[q]) \/ \E x \in Rows : From(T[q], x)
    <3> HIDE DEF o, v, T
    <3> QED
      BY <1>1, <1>2, <2>2, <2>3, SameSprings
  <2> HIDE DEF o, v, T, r
  <2>5. PICK s \in FlowState : /\ Shaped(s) /\ s.pc = "taken" /\ s.doc = flow[f].doc
                               /\ s.read = NoRow /\ s.dict = NoRow /\ Moves(f, s)
    BY <1>2, <1>3, <1>5, <2>3, NextMove
  <2>6. series' \in [Objects -> Series] /\ GoesOn(T)
    BY <1>2, <1>3, <1>5, <2>3, NextMove
  <2>7. \A q \in Objects : Sprung(q)
    BY <1>1, <2>3, <2>4, <2>6, SprungFrom
  <2>8. ~Landed(s) /\ ~Lined(s)
    BY <2>5 DEF Landed, Lined, Logging
  <2>9. Surroundings'
    BY <1>1, <1>3, <1>5, <2>6 DEF Surroundings, database, bounds, history
  <2>10. NothingStored /\ UNCHANGED <<spoilt, logger, clock, row>>
    BY <1>1 DEF NothingStored, database, bounds, history
  <2>11. flow[f].pc \notin Logging /\ flow[f].pc # "idle"
    BY <1>1 DEF Logging
  <2> QED
    BY <1>1, <1>4, <2>5, <2>7, <2>8, <2>9, <2>10, <2>11, MoveKeeps
<1>6. CASE /\ cached' = cached /\ Keeps(series)
           /\ Sends(f, [flow[f] EXCEPT !.pc = "missing", !.read = row])
  <2> DEFINE s == [flow[f] EXCEPT !.pc = "missing", !.read = row]
  <2>1. /\ s \in FlowState /\ s.pc = "missing" /\ s.doc = flow[f].doc /\ s.obj = 0
        /\ s.read = row /\ s.dict = flow[f].dict
    BY <1>1, <1>2 DEF FlowState, Steps, Naming, Surroundings
  <2>2. Moves(f, s)
    BY <1>6, <2>1 DEF Moves, Sends
  <2> HIDE DEF s
  <2>3. Shaped(s) /\ ~Landed(s) /\ ~Lined(s)
    BY <1>2, <2>1 DEF Shaped, Logging, Landed, Lined
  <2>4. series' \in [Objects -> Series] /\ \A q \in Objects : Sprung(q)
    BY <1>1, <1>2, <1>6, KeepsTyped, SameSprings, SprungFrom
  <2>5. Surroundings'
    BY <1>1, <1>6, <2>4 DEF Surroundings, database, bounds, history
  <2>6. NothingStored /\ UNCHANGED <<spoilt, logger, clock, row>>
    BY <1>1 DEF NothingStored, database, bounds, history
  <2>7. flow[f].pc \notin Logging /\ flow[f].pc # "idle"
    BY <1>1 DEF Logging
  <2> QED
    BY <1>1, <1>4, <2>1, <2>2, <2>3, <2>4, <2>5, <2>6, <2>7, MoveKeeps
<1> QED
  BY <1>5, <1>6 DEF Loaded

\* The series object's first write begins, whether it was missing or is new.
LEMMA InsertSeriesKeeps ==
    ASSUME IInv, NEW f \in Flows, Replied(f), flow[f].pc \in {"missing", "taken"},
           NEW o \in Objects, NEW S \in [Objects -> Series], insertSeries(f, o, S),
           \A q \in Objects : From(S[q], series[q]),
           cached' \in Objects \cup {0},
           UNCHANGED <<heads, lines, session, logger, fate, bounds, history>>
    PROVE  IInv'
<1> DEFINE r == [cur |-> S[o].cur, stamp |-> clock + 1]
<1>1. TypeOK /\ Shapes /\ Surroundings
  BY SurroundingsHold DEF IInv
<1>2. /\ r \in Row /\ clock' = clock + 1 /\ row' = (IF Absent(row) THEN r ELSE row)
      /\ series' \in [Objects -> Series]
      /\ \A q \in Objects : \/ series'[q].stamp = 0
                            \/ From(series'[q], S[q])
                            \/ From(series'[q], r)
  BY <1>1, InsertSeriesMove
<1>3. PICK s \in FlowState : /\ Shaped(s) /\ s.pc \in {"create", "write"}
                             /\ s.doc = flow[f].doc
                             /\ s.read = NoRow /\ s.dict = r /\ Moves(f, s)
  BY <1>1, InsertSeriesMove
<1>4. r.stamp = clock + 1
  OBVIOUS
<1> HIDE DEF r
<1>5. /\ ~Landed(s) /\ ~Lined(s) /\ ~Landed(flow[f]) /\ ~Lined(flow[f])
      /\ flow[f].pc \notin Logging /\ flow[f].pc # "idle"
  BY <1>3 DEF Landed, Lined, Logging
<1>6. \A q \in Objects : Sprung(q) \/ From(series'[q], r)
  <2> TAKE q \in Objects
  <2>1. /\ series'[q].cur \in Nat /\ S[q].cur \in Nat /\ series[q].cur \in Nat
    BY <1>1, <1>2 DEF TypeOK, Series
  <2> QED
    BY <1>2, <2>1 DEF Sprung, From
<1>7. Surroundings'
  BY <1>1, <1>2 DEF Surroundings, bounds, history
<1>8. NothingStored /\ UNCHANGED <<spoilt, logger>>
  BY DEF NothingStored, history
<1>9. row' = row \/ New(row', r)
  BY <1>2, <1>4 DEF New
<1>10. New(s.dict, r) /\ clock' \in {clock, clock + 1}
  BY <1>2, <1>3, <1>4 DEF New
<1> QED
  BY <1>2, <1>3, <1>4, <1>5, <1>6, <1>7, <1>8, <1>9, <1>10, MoveKeeps

\* getDoc goes on from the objects as they are, or with what was written.
LEMMA GetDocKeeps ==
    ASSUME IInv, NEW f \in Flows, Replied(f), flow[f].pc # "idle",
           ~Landed(flow[f]), NEW S \in [Objects -> Series], getDoc(f, flow[f].doc, S),
           \A q \in Objects : From(S[q], series[q]) \/ \E x \in Rows : From(S[q], x),
           LetsGo(f),
           UNCHANGED <<database, fate, bounds, clock, history>>
    PROVE  IInv'
<1>1. TypeOK /\ Shapes /\ Surroundings /\ flow[f].doc \in Docs
  BY SurroundingsHold, Waiting DEF IInv
<1>2. /\ series' \in [Objects -> Series] /\ GoesOn(S) /\ cached' = cached
  BY <1>1, GetDocMove
<1>3. PICK s \in FlowState : /\ Shaped(s) /\ s.pc \in {"taken", "load"} /\ s.doc = flow[f].doc
                             /\ s.read \in {NoRow, row} /\ s.dict = NoRow /\ Moves(f, s)
  BY <1>1, GetDocMove
<1>4. \A q \in Objects : Sprung(q)
  BY <1>1, <1>2, SprungFrom
<1>5. ~Landed(s) /\ ~Lined(s) /\ ~Lined(flow[f])
  BY <1>3 DEF Landed, Lined, Logging
<1>6. Surroundings'
  BY <1>1, <1>2 DEF Surroundings, database, bounds, history
<1>7. NothingStored /\ UNCHANGED <<spoilt, clock, row>>
  BY DEF NothingStored, database, history
<1>8. NoRow.stamp = 0 /\ NoRow \in Row
  BY RowTyped DEF NoRow
<1> QED
  BY <1>3, <1>4, <1>5, <1>6, <1>7, <1>8, MoveKeeps DEF LetsGo

LEMMA MissingKeeps ==
    ASSUME IInv, NEW f \in Flows, Missing(f)
    PROVE  IInv'
<1>1. /\ TypeOK /\ Shapes /\ Replied(f) /\ flow[f].pc = "missing"
      /\ flow[f].pc # "idle" /\ ~Landed(flow[f]) /\ flow[f].pc \notin Logging
      /\ UNCHANGED <<heads, lines, session, logger, fate, bounds, history>>
  BY DEF IInv, Missing, Landed, Logging
<1>2. /\ series \in [Objects -> Series] /\ flow \in [Flows -> FlowState]
      /\ flow[f].obj = 0 /\ \A q \in Objects : From(series[q], series[q])
  BY <1>1, Waiting, SameSprings DEF Shaped
<1>3. CASE getDoc(f, flow[f].doc, series) /\ UNCHANGED <<row, clock>>
  BY <1>1, <1>2, <1>3, GetDocKeeps DEF database, LetsGo
<1>4. CASE cached' = NewObject /\ insertSeries(f, NewObject, series)
  <2>1. NewObject \in Objects
    BY <1>2, RoomForOne
  <2> QED
    BY <1>1, <1>2, <1>4, <2>1, InsertSeriesKeeps
<1> QED
  BY <1>3, <1>4 DEF Missing

LEMMA TakenKeeps ==
    ASSUME IInv, NEW f \in Flows, Taken(f)
    PROVE  IInv'
<1> DEFINE o == flow[f].obj
           S == IF flow[f].ok THEN [series EXCEPT ![o].cur = @ + 1] ELSE series
<1>1. /\ TypeOK /\ Shapes /\ Surroundings /\ Replied(f) /\ flow[f].pc = "taken"
      /\ cached' = cached
      /\ UNCHANGED <<heads, lines, session, logger, fate, bounds, history>>
  BY SurroundingsHold DEF IInv, Taken
<1>2. /\ flow[f] \in FlowState /\ Shaped(flow[f]) /\ flow[f].doc \in Docs
      /\ series \in [Objects -> Series] /\ o \in Objects
      /\ flow[f].pc # "idle" /\ flow[f].pc \notin Logging
      /\ ~Landed(flow[f]) /\ ~Lined(flow[f])
  BY <1>1, Waiting DEF FlowState, Shaped, Landed, Lined, Logging
<1>3. S \in [Objects -> Series] /\ \A q \in Objects : From(S[q], series[q])
  <2>1. CASE flow[f].ok
    <3> DEFINE c == series[o].cur + 1
    <3>1. c \in Nat /\ c >= series[o].cur
      BY <1>2 DEF Series
    <3>2. S = [series EXCEPT ![o].cur = c]
      BY <2>1
    <3> HIDE DEF c, o, S
    <3> QED
      BY <1>2, <3>1, <3>2, CounterTyped
  <2>2. CASE ~flow[f].ok
    BY <1>1, <1>2, <2>2, SameSprings
  <2> QED
    BY <2>1, <2>2
<1>4. CASE /\ Sends(f, [flow[f] EXCEPT !.pc = "compare", !.ok = TRUE, !.read = row])
           /\ Keeps(S) /\ UNCHANGED <<row, clock>>
  <2> DEFINE s == [flow[f] EXCEPT !.pc = "compare", !.ok = TRUE, !.read = row]
  <2>1. TRUE \in BOOLEAN
    OBVIOUS
  <2>2. /\ s \in FlowState /\ s.pc = "compare" /\ s.doc = flow[f].doc /\ s.obj = o
        /\ s.read = row /\ s.dict = flow[f].dict
    BY <1>1, <1>2, <2>1 DEF FlowState, Steps, Naming, Surroundings
  <2>3. Moves(f, s)
    BY <1>4, <2>2 DEF Moves, Sends
  <2> HIDE DEF s, S
  <2>4. o # 0
    BY <1>2, Numbers
  <2>5. Shaped(s) /\ ~Landed(s) /\ ~Lined(s)
    BY <1>2, <2>2, <2>4 DEF Shaped, Logging, Landed, Lined
  <2>6. series' \in [Objects -> Series] /\ \A q \in Objects : Sprung(q)
    BY <1>1, <1>3, <1>4, KeepsTyped, SprungFrom
  <2>7. Surroundings'
    BY <1>1, <1>4, <2>6 DEF Surroundings, bounds, history
  <2>8. NothingStored /\ UNCHANGED <<spoilt, logger, clock, row>>
    BY <1>1, <1>4 DEF NothingStored, history
  <2>9. NoRow \in Row
    BY RowTyped
  <2> QED
    BY <1>1, <1>2, <2>2, <2>3, <2>5, <2>6, <2>7, <2>8, <2>9, MoveKeeps
<1>5. CASE insertSeries(f, o, S)
  <2>1. cached' \in Objects \cup {0}
    BY <1>1 DEF TypeOK
  <2> HIDE DEF S
  <2> QED
    BY <1>1, <1>2, <1>3, <1>5, <2>1, InsertSeriesKeeps
<1> QED
  BY <1>4, <1>5 DEF Taken

LEMMA ComparedKeeps ==
    ASSUME IInv, NEW f \in Flows, Compared(f)
    PROVE  IInv'
<1> DEFINE o == flow[f].obj
           r == [cur |-> series[o].cur, stamp |-> clock + 1]
           T == [series EXCEPT ![o].stamp = clock + 1]
<1>1. /\ TypeOK /\ Shapes /\ Surroundings /\ Replied(f) /\ flow[f].pc = "compare"
      /\ cached' = cached /\ clock' = clock + 1 /\ Keeps(T)
      /\ UNCHANGED <<heads, lines, session, logger, fate, saves,
                     spoilt, inside, undone, clashed>>
  BY SurroundingsHold DEF IInv, Compared
<1>2. PICK ok \in IF events < MaxEvents THEN BOOLEAN ELSE {TRUE} :
         /\ row' = IF Absent(row) \/ ~ok THEN row ELSE r
         /\ events' = IF ok THEN events ELSE events + 1
         /\ mishap' = mishap \cup (IF ok THEN {} ELSE {"refused"})
                           \cup (IF flow[f].read = row THEN {} ELSE {"lost"})
         /\ Sends(f, [flow[f] EXCEPT !.pc = "write", !.dict = r, !.ok = ok, !.read = NoRow])
  BY DEF Compared
<1> DEFINE s == [flow[f] EXCEPT !.pc = "write", !.dict = r, !.ok = ok, !.read = NoRow]
<1>3. /\ flow[f] \in FlowState /\ Shaped(flow[f]) /\ flow[f].doc \in Docs
      /\ series \in [Objects -> Series] /\ o \in Objects /\ clock \in Nat /\ events \in Nat
      /\ flow[f].pc # "idle" /\ flow[f].pc \notin Logging
      /\ ~Landed(flow[f]) /\ ~Lined(flow[f])
  BY <1>1, Waiting DEF FlowState, Shaped, Landed, Lined, Logging, Surroundings
<1>4. r \in Row /\ r.stamp = clock + 1 /\ r.cur = series[o].cur
  BY <1>3 DEF Row, Series
<1>5. NoRow \in Row /\ ok \in BOOLEAN /\ o # 0
  BY <1>3, RowTyped, Numbers
<1>6. /\ s \in FlowState /\ s.pc = "write" /\ s.doc = flow[f].doc /\ s.obj = o
      /\ s.read = NoRow /\ s.dict = r
  <2> HIDE DEF r
  <2> QED
    BY <1>3, <1>4, <1>5 DEF FlowState, Steps, Naming
<1>7. Moves(f, s)
  BY <1>2, <1>6 DEF Moves, Sends
<1>8. [series[o] EXCEPT !.stamp = clock + 1] \in Series
      /\ From([series[o] EXCEPT !.stamp = clock + 1], r)
  BY <1>3, <1>4 DEF Series, From
<1>9. T \in [Objects -> Series]
      /\ \A q \in Objects : T[q] = IF q = o THEN [series[o] EXCEPT !.stamp = clock + 1]
                                            ELSE series[q]
  <2> HIDE DEF r, s
  <2> QED
    BY <1>3, <1>8
<1> HIDE DEF r, s, T
<1>10. series' \in [Objects -> Series]
       /\ \A q \in Objects : series'[q] = T[q] \/ series'[q] = NoSeries
  BY <1>1, <1>9, HeldTyped DEF Keeps
<1>11. \A q \in Objects : Sprung(q) \/ From(series'[q], r)
  <2> TAKE q \in Objects
  <2>1. CASE series'[q] = NoSeries
    BY <2>1 DEF NoSeries, Sprung
  <2>2. CASE series'[q] = T[q] /\ q = o
    BY <1>8, <1>9, <2>2
  <2>3. CASE series'[q] = T[q] /\ q # o
    BY <1>1, <1>9, <2>3, SameSprings DEF Sprung
  <2> QED
    BY <1>10, <2>1, <2>2, <2>3
<1>12. Shaped(s) /\ ~Landed(s) /\ ~Lined(s)
  BY <1>3, <1>5, <1>6 DEF Shaped, Logging, Landed, Lined
<1>13. Surroundings'
  <2>1. row' \in Row /\ events' \in Nat /\ clock' \in Nat /\ mishap' \subseteq Mishaps
    BY <1>1, <1>2, <1>3, <1>4, <1>5 DEF Surroundings, Mishaps
  <2> QED
    BY <1>1, <1>10, <2>1 DEF Surroundings
<1>14. NothingStored /\ UNCHANGED <<spoilt, logger>>
  BY <1>1 DEF NothingStored
<1>15. (row' = row \/ New(row', r)) /\ New(s.dict, r)
  BY <1>1, <1>2, <1>4, <1>6 DEF New
<1> QED
  BY <1>1, <1>3, <1>4, <1>6, <1>7, <1>11, <1>12, <1>13, <1>14, <1>15, MoveKeeps

LEMMA ConflictKeeps ==
    ASSUME IInv, NEW f \in Flows, Conflict(f)
    PROVE  IInv'
<1>1. /\ TypeOK /\ Shapes /\ Surroundings /\ Replied(f) /\ flow[f].pc = "compare"
      /\ cached' = cached /\ Ends(f) /\ Keeps(series)
      /\ UNCHANGED <<database, logger, fate, bounds, clock, history>>
  BY SurroundingsHold DEF IInv, Conflict
<1>2. /\ series \in [Objects -> Series]
      /\ flow[f].pc # "idle" /\ flow[f].pc \notin Logging /\ ~Landed(flow[f])
  BY <1>1, Waiting DEF Landed, Logging
<1>3. series' \in [Objects -> Series] /\ \A q \in Objects : Sprung(q)
  BY <1>1, <1>2, KeepsTyped, SameSprings, SprungFrom
<1>4. Surroundings'
  BY <1>1, <1>3 DEF Surroundings, database, bounds, history
<1> QED
  BY <1>1, <1>2, <1>3, <1>4, GiveUpKeeps DEF LetsGo, NothingStored, database, history

\* What follows a write that landed.
LEMMA ContinueKeeps ==
    ASSUME IInv, NEW f \in Flows, Replied(f), NEW what, Continue(f, what),
           \/ flow[f].pc \in Write /\ what = flow[f].pc
           \/ flow[f].pc \in Logging /\ what = flow[f].after,
           LetsGo(f),
           UNCHANGED <<row, lines, session, bounds, clock, mishap, spoilt, undone, clashed>>
    PROVE  IInv'
<1> DEFINE s == flow[f]
           S == Synced(f, s)
<1>1. /\ TypeOK /\ Shapes /\ Agree /\ Stored /\ Surroundings /\ MayMove(f)
      /\ flow[f].pc # "idle"
  BY SurroundingsHold DEF IInv, Write, Logging, MayMove
<1>2. /\ s \in FlowState /\ Shaped(s) /\ s.doc \in Docs
      /\ series \in [Objects -> Series] /\ flow \in [Flows -> FlowState]
  BY <1>1, Waiting
<1>3. /\ S \in [Objects -> Series]
      /\ \A q \in Objects : From(S[q], series[q]) \/ \E x \in Rows : From(S[q], x)
  BY <1>1, SyncedTyped
<1>4. what # "lines" => ~Landed(s) /\ ~Lined(s)
  BY DEF Landed, Lined, Write, Logging
<1>5. what = "lines" => Lined(s)
  BY DEF Lined
<1> HIDE DEF S, s
<1>6. CASE what = "create" /\ getDoc(f, s.doc, S) /\ UNCHANGED <<heads, fate, inside>>
  BY <1>1, <1>2, <1>3, <1>4, <1>6, GetDocKeeps DEF s, database, history
<1>7. CASE what = "write" /\ cached' = cached /\ insertHead(f, s) /\ Keeps(S) /\ UNCHANGED fate
  <2> DEFINE n == s.dict.cur
             ok == ~exists(n)
             t == [s EXCEPT !.pc = "head", !.ok = ok, !.obj = 0,
                            !.dict = [cur |-> n, stamp |-> 0], !.after = NoFlow]
  <2>1. /\ heads' = IF ok THEN heads \cup {[num |-> n, doc |-> s.doc]} ELSE heads
        /\ IF ok THEN Touches(s.doc) ELSE inside' = inside
        /\ Sends(f, t)
    BY <1>7 DEF insertHead
  <2>2. n \in Nat /\ [cur |-> n, stamp |-> 0] \in Row /\ ok \in BOOLEAN
    BY <1>2, RowTyped DEF FlowState, Row, exists
  <2>3. /\ t \in FlowState /\ t.pc = "head" /\ t.ok = ok /\ t.doc = s.doc /\ t.obj = 0
        /\ t.dict.cur = n /\ t.dict.stamp = 0 /\ t.read = s.read
    <3> HIDE DEF n, ok
    <3> QED
      BY <1>2, <2>2 DEF FlowState, Steps
  <2> HIDE DEF t, n, ok
  <2>4. Moves(f, t) /\ Shaped(t) /\ ~Lined(t) /\ (Landed(t) <=> ok)
    BY <1>2, <2>1, <2>3 DEF Moves, Sends, Shaped, Logging, Lined, Landed
  <2>5. series' \in [Objects -> Series] /\ \A q \in Objects : Sprung(q)
    BY <1>1, <1>3, <1>7, KeepsTyped, SprungFrom
  <2>6. Surroundings'
    <3>1. heads' \subseteq DocRow /\ inside' \subseteq Docs
      BY <1>1, <1>2, <2>1, <2>2 DEF Surroundings, DocRow, Touches
    <3> QED
      BY <1>1, <1>7, <2>5, <3>1 DEF Surroundings, bounds
  <2>7. TypeOK' /\ Shapes'
    <3>1. \/ logger' = NoFlow
          \/ logger' = logger /\ (flow[f].pc \notin Logging \/ t.pc \in Logging)
      BY DEF LetsGo
    <3> QED
      BY <1>1, <2>3, <2>4, <2>6, <3>1, TypedMove
  <2>8. Agree'
    <3>1. NoRow \in Row
      BY RowTyped
    <3> QED
      BY <1>1, <2>3, <2>4, <2>5, <2>7, <3>1, AgreeMove DEF Moves, Sprung, s
  <2>9. Stored'
    <3>1. CASE ok
      <4>1. heads' = heads \cup {Mine(t)}
        BY <2>1, <2>3, <3>1 DEF Mine
      <4>2. Touches(s.doc)
        BY <2>1, <3>1
      <4> QED
        BY <1>1, <1>2, <1>4, <1>7, <2>3, <2>4, <3>1, <4>1, <4>2, StoredHead DEF Moves, s
    <3>2. CASE ~ok
      BY <1>1, <1>2, <1>4, <1>7, <2>1, <2>3, <2>4, <3>2, StoredMove DEF Moves, s
    <3> QED
      BY <3>1, <3>2
  <2> QED
    BY <2>7, <2>8, <2>9 DEF IInv
<1>8. CASE /\ what = "lines" /\ fate' = [fate EXCEPT ![s.doc] = "saved"] /\ Ends(f)
           /\ UNCHANGED <<memory, heads, inside>>
  <2>1. Moves(f, Idle)
    BY <1>8, IdleTyped DEF Ends, Moves
  <2>2. Surroundings'
    BY <1>1, <1>2, <1>8 DEF Surroundings, memory, bounds
  <2>3. TypeOK' /\ Shapes'
    BY <1>1, <2>1, <2>2, IdleTyped, TypedMove DEF LetsGo
  <2>4. Agree'
    <3>1. NoRow \in Row /\ NoRow.stamp = 0
      BY RowTyped DEF NoRow
    <3>2. \A q \in Objects : From(series'[q], series[q])
      BY <1>1, <1>8, SameSprings DEF memory
    <3> QED
      BY <1>1, <2>1, <2>3, <3>1, <3>2, IdleTyped, AgreeMove DEF Moves
  <2>5. Stored'
    BY <1>1, <1>2, <1>5, <1>8, <2>1, StoredEnd DEF Moves, s, Surroundings
  <2> QED
    BY <2>3, <2>4, <2>5 DEF IInv
<1> QED
  BY <1>6, <1>7, <1>8 DEF Continue, s, S

\* A write is handed to the logger, or waits in it.
LEMMA LogsOn ==
    ASSUME IInv, NEW f \in Flows, Replied(f),
           NEW what, what \in Write,
           \/ flow[f].pc \in Write /\ what = flow[f].pc /\ logger' = f
           \/ flow[f].pc \in Logging /\ what = flow[f].after /\ logger' = logger,
           NEW pc \in Logging, Sends(f, [flow[f] EXCEPT !.pc = pc, !.after = what]),
           flow[f].pc \in Logging \/ flow[f].ok,
           UNCHANGED <<memory, heads, fate, inside, row, lines, session, bounds, clock,
                       mishap, spoilt, undone, clashed>>
    PROVE  IInv'
<1> DEFINE s == [flow[f] EXCEPT !.pc = pc, !.after = what]
<1>1. /\ TypeOK /\ Shapes /\ Surroundings /\ flow[f].pc # "idle"
  BY SurroundingsHold DEF IInv, Write, Logging
<1>2. /\ flow[f] \in FlowState /\ Shaped(flow[f]) /\ flow[f].doc \in Docs
  BY <1>1, Waiting
<1>3. /\ s \in FlowState /\ s.pc = pc /\ s.after = what /\ s.doc = flow[f].doc
      /\ s.obj = flow[f].obj /\ s.dict = flow[f].dict /\ s.read = flow[f].read
  BY <1>2 DEF FlowState, Steps
<1>4. Moves(f, s)
  BY <1>3 DEF Moves, Sends, Logging
<1> HIDE DEF s
<1>5. Shaped(s)
  BY <1>2, <1>3 DEF Shaped, Logging, Write
<1>6. (Landed(s) <=> Landed(flow[f])) /\ (Lined(s) <=> Lined(flow[f]))
  BY <1>3 DEF Landed, Lined, Logging, Write
<1>7. Surroundings'
  BY <1>1 DEF Surroundings, memory, bounds
<1>8. \A q \in Objects : Sprung(q)
  BY <1>1, SameSprings DEF Sprung, memory
<1>9. NothingStored /\ UNCHANGED <<spoilt, row, clock>> /\ NoRow \in Row
  BY RowTyped DEF NothingStored
<1> QED
  BY <1>1, <1>3, <1>4, <1>5, <1>6, <1>7, <1>8, <1>9, MoveKeeps

LEMMA WrittenKeeps ==
    ASSUME IInv, NEW f \in Flows, Written(f)
    PROVE  IInv'
<1>1. /\ TypeOK /\ Shapes /\ Surroundings /\ Replied(f) /\ flow[f].pc \in Write
      /\ flow[f].pc # "idle" /\ flow[f].pc \notin Logging
      /\ UNCHANGED <<row, lines, session, bounds, clock, mishap, spoilt, undone, clashed>>
  BY SurroundingsHold DEF IInv, Written, Write, Logging
<1>2. series \in [Objects -> Series] /\ Shaped(flow[f])
  BY <1>1, Waiting
<1>3. CASE /\ ~flow[f].ok /\ cached' = cached /\ Ends(f) /\ Keeps(series)
           /\ UNCHANGED <<heads, fate, inside, logger>>
  <2>1. ~Landed(flow[f])
    BY <1>1, <1>2, <1>3 DEF Landed, Shaped, Write
  <2>2. series' \in [Objects -> Series] /\ \A q \in Objects : Sprung(q)
    BY <1>1, <1>2, <1>3, KeepsTyped, SameSprings, SprungFrom
  <2>3. Surroundings'
    BY <1>1, <1>3, <2>2 DEF Surroundings, bounds
  <2>4. NothingStored
    BY <1>1, <1>3 DEF NothingStored
  <2> QED
    BY <1>1, <1>3, <2>1, <2>2, <2>3, <2>4, GiveUpKeeps DEF LetsGo
<1>4. CASE flow[f].ok /\ Continue(f, flow[f].pc) /\ UNCHANGED logger
  BY <1>1, <1>4, ContinueKeeps DEF LetsGo
<1>5. CASE /\ flow[f].ok /\ logger = NoFlow /\ logger' = f
           /\ Sends(f, [flow[f] EXCEPT !.pc = "pending", !.after = flow[f].pc])
           /\ UNCHANGED <<memory, heads, fate, inside>>
  <2>1. "pending" \in Logging
    BY DEF Logging
  <2> QED
    BY <1>1, <1>5, <2>1, LogsOn
<1> QED
  BY <1>3, <1>4, <1>5 DEF Written

LEMMA LogsKeeps ==
    ASSUME IInv, NEW f \in Flows, Logs(f)
    PROVE  IInv'
<1>1. /\ TypeOK /\ Shapes /\ Replied(f) /\ flow[f].pc \in Logging
      /\ flow[f].pc # "idle"
      /\ UNCHANGED <<row, lines, session, bounds, clock, mishap, spoilt, undone, clashed>>
  BY DEF IInv, Logs, Logging
<1>2. flow[f] \in FlowState /\ flow[f].after \in Write
  BY <1>1, Waiting DEF Shaped
<1>3. CASE /\ Sends(f, [flow[f] EXCEPT !.pc = "append"])
           /\ UNCHANGED <<memory, heads, fate, inside, logger>>
  <2>1. [flow[f] EXCEPT !.pc = "append"]
        = [flow[f] EXCEPT !.pc = "append", !.after = flow[f].after]
    BY <1>2 DEF FlowState
  <2>2. "append" \in Logging
    BY DEF Logging
  <2> QED
    BY <1>1, <1>2, <1>3, <2>1, <2>2, LogsOn
<1>4. CASE logger' = NoFlow /\ Continue(f, flow[f].after)
  <2> DEFINE what == flow[f].after
  <2>1. Continue(f, what) /\ flow[f].pc \in Logging /\ what = flow[f].after
    BY <1>1, <1>4
  <2>2. LetsGo(f)
    BY <1>4 DEF LetsGo
  <2> HIDE DEF what
  <2> QED
    BY <1>1, <2>1, <2>2, ContinueKeeps
<1> QED
  BY <1>3, <1>4 DEF Logs

LEMMA LogFailsKeeps ==
    ASSUME IInv, NEW f \in Flows, LogFails(f)
    PROVE  IInv'
<1>1. /\ TypeOK /\ Shapes /\ Surroundings /\ Replied(f) /\ flow[f].pc \in Logging
      /\ flow[f].pc # "idle"
      /\ events' = events + 1 /\ logger' = NoFlow /\ mishap' = mishap \cup {"unlogged"}
      /\ spoilt' = IF flow[f].after = "lines" THEN spoilt \cup {flow[f].doc} ELSE spoilt
      /\ cached' = cached /\ Ends(f) /\ Keeps(series)
      /\ UNCHANGED <<database, fate, saves, clock, inside, undone, clashed>>
  BY SurroundingsHold DEF IInv, LogFails, Logging
<1>2. series \in [Objects -> Series] /\ flow[f].doc \in Docs
  BY <1>1, Waiting
<1>3. series' \in [Objects -> Series] /\ \A q \in Objects : Sprung(q)
  BY <1>1, <1>2, KeepsTyped, SameSprings, SprungFrom
<1>4. ~Landed(flow[f]) \/ flow[f].doc \in spoilt'
  BY <1>1 DEF Landed, Logging
<1>5. Surroundings'
  BY <1>1, <1>2, <1>3 DEF Surroundings, database, Mishaps
<1>6. NothingStored /\ UNCHANGED <<row, clock>> /\ spoilt \subseteq spoilt'
  BY <1>1 DEF NothingStored, database
<1>7. Replied(f) /\ flow[f].pc # "idle" /\ Ends(f) /\ LetsGo(f)
  BY <1>1 DEF LetsGo
<1> QED
  BY <1>3, <1>4, <1>5, <1>6, <1>7, GiveUpKeeps

LEMMA InsertedKeeps ==
    ASSUME IInv, NEW f \in Flows, Inserted(f)
    PROVE  IInv'
<1> DEFINE s == flow[f]
           t == [s EXCEPT !.pc = "lines"]
<1>1. /\ TypeOK /\ Shapes /\ Agree /\ Stored /\ Surroundings /\ Replied(f) /\ MayMove(f)
      /\ s.pc = "head" /\ s.ok /\ s.pc # "idle" /\ s.pc \notin Logging
      /\ UNCHANGED <<row, heads, session, memory, logger, fate, saves,
                     clock, mishap, undone, clashed>>
  BY SurroundingsHold DEF IInv, Inserted, MayMove, Logging
<1>2. /\ s \in FlowState /\ Shaped(s) /\ s.doc \in Docs /\ s.dict.cur \in Nat
      /\ flow \in [Flows -> FlowState]
  BY <1>1, Waiting DEF FlowState, Row
<1>3. \A q \in Objects : Sprung(q) /\ From(series'[q], series[q])
  BY <1>1, SameSprings DEF Sprung, memory
<1>4. CASE /\ lines' = lines \cup {[num |-> s.dict.cur, doc |-> s.doc]}
           /\ Touches(s.doc)
           /\ Sends(f, t)
           /\ UNCHANGED <<events, spoilt>>
  <2>1. /\ t \in FlowState /\ t.pc = "lines" /\ t.ok /\ t.doc = s.doc /\ t.obj = 0
        /\ t.dict = s.dict /\ t.read = s.read
    BY <1>1, <1>2 DEF FlowState, Steps, Shaped
  <2>2. Moves(f, t)
    BY <1>4, <2>1 DEF Moves, Sends
  <2> HIDE DEF t
  <2>3. Shaped(t)
    BY <1>2, <2>1 DEF Shaped, Logging
  <2>4. Surroundings'
    <3>1. lines' \subseteq Line /\ inside' \subseteq Docs
      BY <1>1, <1>2, <1>4 DEF Surroundings, Line, Touches
    <3> QED
      BY <1>1, <1>4, <3>1 DEF Surroundings, memory
  <2>5. TypeOK' /\ Shapes'
    BY <1>1, <2>1, <2>2, <2>3, <2>4, TypedMove
  <2>6. Agree'
    <3>1. NoRow \in Row
      BY RowTyped
    <3> QED
      BY <1>1, <1>3, <2>1, <2>2, <2>5, <3>1, AgreeMove DEF Moves
  <2>7. Landed(s) /\ lines' = lines \cup {Mine(t)}
    BY <1>1, <1>4, <2>1 DEF Landed, Mine
  <2>8. Stored'
    BY <1>1, <1>2, <1>4, <2>1, <2>2, <2>7, StoredLines DEF Moves
  <2> QED
    BY <2>5, <2>6, <2>8 DEF IInv
<1>5. CASE /\ events' = events + 1 /\ spoilt' = spoilt \cup {s.doc} /\ Ends(f)
           /\ UNCHANGED <<lines, inside>>
  <2>1. Surroundings'
    BY <1>1, <1>2, <1>5 DEF Surroundings, memory
  <2>2. NothingStored
    BY <1>1, <1>5 DEF NothingStored
  <2> QED
    BY <1>1, <1>3, <1>5, <2>1, <2>2, GiveUpKeeps DEF LetsGo
<1> QED
  BY <1>4, <1>5 DEF Inserted

LEMMA DuplicateKeeps ==
    ASSUME IInv, NEW f \in Flows, Duplicate(f)
    PROVE  IInv'
<1>1. /\ TypeOK /\ Shapes /\ Surroundings /\ Replied(f) /\ flow[f].pc = "head" /\ ~flow[f].ok
      /\ flow[f].pc # "idle" /\ flow[f].pc \notin Logging
      /\ clashed' = clashed \cup {flow[f].doc} /\ Ends(f)
      /\ UNCHANGED <<database, memory, logger, fate, bounds, clock, mishap, spoilt,
                     inside, undone>>
  BY SurroundingsHold DEF IInv, Duplicate, Logging
<1>2. flow[f].doc \in Docs /\ ~Landed(flow[f])
  BY <1>1, Waiting DEF Landed, Logging
<1>3. \A q \in Objects : Sprung(q)
  BY <1>1, SameSprings DEF Sprung, memory
<1>4. Surroundings'
  BY <1>1, <1>2 DEF Surroundings, database, memory, bounds
<1> QED
  BY <1>1, <1>2, <1>3, <1>4, GiveUpKeeps DEF LetsGo, NothingStored, database

\* The feed's transaction.
LEMMA SessionKeeps ==
    ASSUME IInv, Begin \/ Commit \/ Rollback
    PROVE  IInv'
<1>1. /\ TypeOK /\ Shapes /\ Agree /\ Stored /\ Surroundings
      /\ UNCHANGED <<memory, flow, calls, logger, fate, saves, clock, spoilt, clashed>>
  BY SurroundingsHold DEF IInv, Begin, Commit, Rollback, history, bounds
<1>2. Surroundings' /\ \A x \in Rows' : Old(x)
  <2>1. /\ NoRow \in Row /\ TRUE \in BOOLEAN /\ FALSE \in BOOLEAN
    BY RowTyped
  <2>2. \A x \in Rows' : x \in Rows \/ x \in {row', session'.row}
    BY <1>1 DEF Rows
  <2>3. CASE Begin
    <3>1. session' = [open |-> TRUE, row |-> row, heads |-> heads, lines |-> lines]
          /\ UNCHANGED <<row, heads, lines, history>> /\ events' = events + 1
      BY <2>3 DEF Begin
    <3>2. session' \in [open : BOOLEAN, row : Row, heads : SUBSET DocRow, lines : SUBSET Line]
      BY <1>1, <2>1, <3>1 DEF Surroundings
    <3> QED
      BY <1>1, <2>2, <3>1, <3>2 DEF Surroundings, memory, history, Old, Rows
  <2>4. CASE Commit
    <3>1. session' = Closed /\ inside' = {} /\ UNCHANGED <<row, heads, lines, events, mishap, undone>>
      BY <2>4 DEF Commit, bounds
    <3>2. session' \in [open : BOOLEAN, row : Row, heads : SUBSET DocRow, lines : SUBSET Line]
          /\ session'.row = NoRow
      BY <2>1, <3>1 DEF Closed
    <3> QED
      BY <1>1, <2>2, <3>1, <3>2 DEF Surroundings, memory, Old, Rows
  <2>5. CASE Rollback
    <3>1. /\ session' = Closed /\ inside' = {} /\ undone' = undone \cup inside
          /\ row' = session.row /\ heads' = session.heads /\ lines' = session.lines
          /\ mishap' = mishap \cup {"rollback"} /\ UNCHANGED events
      BY <2>5 DEF Rollback, Undo, bounds
    <3>2. session' \in [open : BOOLEAN, row : Row, heads : SUBSET DocRow, lines : SUBSET Line]
          /\ session'.row = NoRow
      BY <2>1, <3>1 DEF Closed
    <3> QED
      BY <1>1, <2>2, <3>1, <3>2 DEF Surroundings, memory, Old, Rows, Mishaps
  <2> QED
    BY <2>3, <2>4, <2>5
<1>3. TypeOK' /\ Shapes'
  BY <1>1, <1>2 DEF TypeOK, Surroundings, Shapes
<1>4. Agree'
  <2>1. \A q \in Objects : From(series'[q], series[q])
    BY <1>1, SameSprings DEF memory
  <2>2. NoRow \in Row /\ clock' = clock
    BY <1>1, RowTyped
  <2> QED
    BY <1>1, <1>2, <1>3, <2>1, <2>2, AgreeStep
<1>5. Stored'
  <2>1. CASE Rollback
    BY <1>1, <2>1, StoredUndo DEF Rollback
  <2>2. CASE Begin \/ Commit
    <3>1. UNCHANGED <<heads, lines, flow, fate, spoilt, undone>>
      BY <1>1, <2>2 DEF Begin, Commit, history
    <3>2. Single' /\ There'
      BY <1>1, <3>1 DEF Stored, Single, There
    <3>3. Undoable'
      BY <2>2, <3>1 DEF Undoable, Begin, Commit, Closed
    <3> QED
      BY <3>2, <3>3 DEF Stored
  <2> QED
    BY <2>1, <2>2
<1> QED
  BY <1>3, <1>4, <1>5 DEF IInv

LEMMA RestartKeeps ==
    ASSUME IInv, Restart
    PROVE  IInv'
<1>1. /\ TypeOK /\ Shapes /\ Agree /\ Stored /\ Surroundings
      /\ events' = events + 1
      /\ flow' = [f \in Flows |-> Idle] /\ calls' = <<>> /\ logger' = NoFlow
      /\ cached' = 0 /\ series' = [o \in Objects |-> NoSeries]
      /\ fate' = [d \in Docs |-> IF fate[d] = "draft" /\ \E f \in Flows : flow[f].doc = d
                               THEN "gone" ELSE fate[d]]
      /\ mishap' \subseteq mishap \cup {"restart", "rollback"}
      /\ UNCHANGED <<saves, clock, spoilt, clashed>>
  BY SurroundingsHold DEF IInv, Restart
<1>2. \/ session.open /\ Undo
      \/ ~session.open /\ UNCHANGED <<heads, lines, session, row, inside, undone>>
  BY DEF Restart, database
<1>3. NoRow \in Row /\ FALSE \in BOOLEAN
  BY RowTyped
<1>4. /\ row' \in {row, session.row} /\ session'.row \in {session.row, NoRow}
      /\ session' \in [open : BOOLEAN, row : Row, heads : SUBSET DocRow, lines : SUBSET Line]
      /\ heads' \subseteq DocRow /\ lines' \subseteq Line
      /\ inside' \subseteq Docs /\ undone' \subseteq Docs
  <2>1. CASE session.open /\ Undo
    <3>1. session' = Closed
      BY <2>1 DEF Undo
    <3>2. Closed \in [open : BOOLEAN, row : Row, heads : SUBSET DocRow, lines : SUBSET Line]
          /\ Closed.row = NoRow
      BY <1>3 DEF Closed
    <3> QED
      BY <1>1, <2>1, <3>1, <3>2 DEF Undo, Surroundings
  <2>2. CASE ~session.open /\ UNCHANGED <<heads, lines, session, row, inside, undone>>
    BY <1>1, <2>2 DEF Surroundings
  <2> QED
    BY <1>2, <2>1, <2>2
<1>5. Surroundings'
  <2>1. fate' \in [Docs -> {"draft", "saved", "gone"}]
    BY <1>1 DEF Surroundings
  <2>2. series' \in [Objects -> Series]
    BY <1>1, NoSeriesTyped
  <2>3. row' \in Row
    BY <1>1, <1>4 DEF Surroundings
  <2> QED
    BY <1>1, <1>4, <2>1, <2>2, <2>3 DEF Surroundings, Mishaps
<1>6. TypeOK' /\ Shapes'
  <2>1. flow' \in [Flows -> FlowState] /\ \A f \in Flows : flow'[f].pc = "idle" /\ Shaped(flow'[f])
    BY <1>1, IdleTyped
  <2>2. /\ calls' \in Seq(Flows)
        /\ \A i, j \in DOMAIN calls' : calls'[i] = calls'[j] => i = j
        /\ \A f \in Flows : flow'[f].pc = "idle" <=> \A i \in DOMAIN calls' : calls'[i] # f
    BY <1>1, <2>1
  <2> QED
    BY <1>1, <1>5, <2>1, <2>2 DEF TypeOK, Surroundings, Shapes, Shaped
<1>7. Agree'
  <2>1. \A f \in Flows : flow'[f].read = NoRow /\ flow'[f].dict = NoRow
    BY <1>1, IdleTyped
  <2>2. \A x \in Rows' : Old(x)
    BY <1>4, <2>1 DEF Rows, Old
  <2>3. \A q \in Objects : series'[q].stamp = 0
    BY <1>1 DEF NoSeries
  <2> QED
    BY <1>1, <1>3, <1>6, <2>2, <2>3, AgreeStep
<1>8. Stored'
  BY <1>1, <1>2, StoredRestart DEF Surroundings
<1> QED
  BY <1>6, <1>7, <1>8 DEF IInv

-----------------------------------------------------------------------------
(* The theorems.                                                            *)

LEMMA NextKeeps == IInv /\ Next => IInv'
  BY StartSaveKeeps, LoadedKeeps, MissingKeeps, TakenKeeps, ComparedKeeps, ConflictKeeps,
     WrittenKeeps, LogsKeeps, LogFailsKeeps, InsertedKeeps, DuplicateKeeps, SessionKeeps,
     RestartKeeps DEF Next, Answer

LEMMA StutterKeeps == IInv /\ UNCHANGED vars => IInv'
<1> SUFFICES ASSUME IInv, UNCHANGED vars PROVE IInv'
  OBVIOUS
<1>1. UNCHANGED <<row, heads, lines, session, series, cached, flow, calls, logger, fate,
                  saves, events, clock, mishap, spoilt, inside, undone, clashed>>
  BY DEF vars, database, memory, bounds, history
<1>2. TypeOK' /\ Shapes'
  BY <1>1 DEF IInv, TypeOK, Shapes
<1>3. Agree'
  BY <1>1 DEF IInv, Agree, Rows
<1>4. Stored'
  BY <1>1 DEF IInv, Stored, Single, There, Undoable
<1> QED
  BY <1>2, <1>3, <1>4 DEF IInv

\* The inductive invariant holds of every reachable state.
THEOREM SpecInv == Spec => []IInv
  BY InitInv, NextKeeps, StutterKeeps, PTL DEF Spec

\* Every reachable state is well typed; each flow that is not idle waits for one
\* call, and the logger's guard is held only by a flow inside the logger
\* (localMutationLogger.ts).
THEOREM TypeCorrect == Spec => []TypeOK
<1>1. IInv => TypeOK
  BY DEF IInv
<1> QED
  BY SpecInv, <1>1, PTL

\* A document inserted by _insert (doc.ts) has one row, unless it was saved
\* twice at once or a save of it failed after its row landed.
THEOREM DocumentsAreStoredOnce == Spec => []StoredOnce
<1>1. IInv => StoredOnce
  <2> SUFFICES ASSUME IInv, NEW g \in heads, NEW h \in heads,
                      g.doc = h.doc, g.doc # NoDoc, g # h
               PROVE  g.doc \in spoilt
    BY DEF StoredOnce
  <2>1. g.doc \in Docs
    BY DEF IInv, TypeOK, DocRow
  <2> QED
    BY <2>1 DEF IInv, Stored, Single
<1> QED
  BY SpecInv, <1>1, PTL

\* What sync reported saved is stored with its table rows, though #insertOne and
\* #insertOrUpdateChildren are separate statements, unless a rollback of the
\* shared session took them.
THEOREM SavedDocumentsAreStored == Spec => []SavedIsStored
<1>1. IInv => SavedIsStored
  <2> SUFFICES ASSUME IInv PROVE SavedIsStored
    OBVIOUS
  <2>1. ASSUME NEW x \in Docs \ undone, fate[x] = "saved"
        PROVE  \E h \in heads : h.doc = x /\ [num |-> h.num, doc |-> x] \in lines
    <3>1. PICK n \in Nat : [num |-> n, doc |-> x] \in heads \cap lines
      BY <2>1 DEF IInv, Stored, There
    <3> DEFINE h == [num |-> n, doc |-> x]
    <3>2. h.doc = x /\ h.num = n
      OBVIOUS
    <3> QED
      BY <3>1, <3>2
  <2>2. ASSUME NEW p \in lines, p.doc \notin undone
        PROVE  [num |-> p.num, doc |-> p.doc] \in heads
    <3>1. p \in heads /\ p \in Line
      BY <2>2 DEF IInv, Stored, There, TypeOK
    <3>2. p = [num |-> p.num, doc |-> p.doc]
      BY <3>1 DEF Line
    <3> QED
      BY <3>1, <3>2
  <2> QED
    BY <2>1, <2>2 DEF SavedIsStored
<1> QED
  BY SpecInv, <1>1, PTL

\* The step of CounterNeverGoesBack.
NeverBack ==
    \/ Absent(row)
    \/ row'.cur >= row.cur
    \/ session.open /\ ~session'.open
    \/ \E f \in Flows : flow[f].pc = "compare" /\ flow'[f].pc = "write"
                        /\ flow[f].read # row

LEMMA NextNeverBack == IInv /\ [Next]_vars => NeverBack
<1> SUFFICES ASSUME IInv, [Next]_vars, ~Absent(row) PROVE NeverBack
  BY DEF NeverBack
<1>1. TypeOK /\ Shapes /\ Agree /\ row.cur \in Nat
  BY DEF IInv, TypeOK, Row
<1>2. ASSUME row' = row PROVE NeverBack
  BY <1>1, <1>2 DEF NeverBack
<1>3. ASSUME NEW f \in Flows, Compared(f) PROVE NeverBack
  <2> DEFINE o == flow[f].obj
             r == [cur |-> series[o].cur, stamp |-> clock + 1]
  <2>1. /\ flow[f].pc = "compare" /\ Replied(f) /\ flow[f].read.stamp = series[o].stamp
        /\ \E ok \in BOOLEAN :
              /\ row' = IF Absent(row) \/ ~ok THEN row ELSE r
              /\ Sends(f, [flow[f] EXCEPT !.pc = "write", !.dict = r, !.ok = ok,
                                          !.read = NoRow])
    BY <1>3 DEF Compared
  <2>2. /\ o \in Objects /\ flow[f] \in FlowState /\ flow \in [Flows -> FlowState]
        /\ series[o].cur \in Nat
    BY <1>1, <2>1, Waiting DEF FlowState, Shaped, Series
  <2>3. row' = row \/ row'.cur = series[o].cur
    BY <2>1
  <2>4. flow'[f].pc = "write"
    BY <2>1, <2>2 DEF Sends, FlowState
  <2>5. CASE flow[f].read = row
    <3>1. series[o].stamp = row.stamp /\ row.stamp # 0 /\ row \in Rows
      BY <2>1, <2>5 DEF Absent, Rows
    <3>2. series[o].cur >= row.cur
      BY <1>1, <2>2, <3>1 DEF Agree
    <3> QED
      BY <1>2, <2>3, <3>2 DEF NeverBack
  <2>6. CASE flow[f].read # row
    BY <2>1, <2>4, <2>6 DEF NeverBack
  <2> QED
    BY <2>5, <2>6
<1>4. ASSUME Rollback \/ Restart PROVE NeverBack
  BY <1>2, <1>4 DEF Rollback, Restart, Undo, Closed, NeverBack, database
<1>5. ASSUME NEW f \in Flows, Missing(f) \/ Taken(f) PROVE row' = row
  BY <1>5 DEF Missing, Taken, insertSeries
<1>6. ASSUME NEW f \in Flows, NEW x \in Docs, StartSave(f, x) PROVE row' = row
  BY <1>6 DEF StartSave, database
<1>7. ASSUME NEW f \in Flows, Loaded(f) \/ Conflict(f) \/ Written(f) \/ Logs(f) \/ LogFails(f)
                              \/ Inserted(f) \/ Duplicate(f)
      PROVE  row' = row
  BY <1>7 DEF Loaded, Conflict, Written, Logs, LogFails, Inserted, Duplicate, database
<1>8. ASSUME Begin \/ Commit PROVE row' = row
  BY <1>8 DEF Begin, Commit
<1>9. ASSUME UNCHANGED vars PROVE row' = row
  BY <1>9 DEF vars, database
<1> QED
  BY <1>2, <1>3, <1>4, <1>5, <1>6, <1>7, <1>8, <1>9 DEF Next, Answer

\* _validateDbNotModified protects the counter: a save that read the row as it
\* still is when it writes never sets it back, for any number of flows, logs that
\* are slow and restarts.
THEOREM CounterIsKept == Spec => CounterNeverGoesBack
<1>1. IInv /\ [Next]_vars => [NeverBack]_vars
  BY NextNeverBack
<1> QED
  BY SpecInv, <1>1, PTL DEF Spec, CounterNeverGoesBack, NeverBack

=============================================================================
