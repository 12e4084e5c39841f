-------------------- MODULE NumberSeriesCounterProofs --------------------
(***************************************************************************)
(* Proofs about the counter of NumberSeries: which numbers it covers, and  *)
(* what it takes for a save to be refused, for any flows, documents,       *)
(* imports and number of saves, transactions, restarts and failures.       *)
(***************************************************************************)
EXTENDS NumberSeriesProofs

-----------------------------------------------------------------------------
(* The invariant, by what may have gone wrong so far.                       *)

Calm(m) == mishap \cap m = {}

\* An object nobody refers to is dropped, and one is referred to only in naming.
Clean ==
    /\ \A o \in Objects : (o # cached /\ \A g \in Flows : flow[g].obj # o) =>
                             series[o] = NoSeries
    /\ \A f \in Flows : flow[f].pc \in Logging /\ flow[f].after = "lines" => flow[f].obj = 0

\* Without an overlap one flow at most is between its number and its row.
Alone == \A f, g \in Flows : InNaming(flow[f]) /\ InNaming(flow[g]) => f = g
Solo == Calm({"overlap"}) => Alone

\* Then the row a save read is the row it compares with, unless it was undone.
Kept ==
    Calm({"overlap", "rollback"}) =>
        /\ "lost" \notin mishap
        /\ \A f \in Flows : flow[f].pc = "compare" => flow[f].read = row

\* The number is stored: the row of the series holds it.
Landing(s) == (s.pc = "write" /\ s.ok) \/ (s.pc \in Logging /\ s.after = "write")

\* Whoever is here has seen or written a row.
Settled(s) ==
    \/ s.pc \in {"load", "missing"} /\ ~Absent(s.read)
    \/ s.pc = "compare"
    \/ s.pc \in {"create", "write"} /\ s.ok
    \/ s.pc \in Logging /\ s.after # "lines"

Covered ==
    /\ \A h \in heads : h.doc # NoDoc => h.num <= row.cur
    /\ \A f \in Flows : Landing(flow[f]) => flow[f].dict.cur <= row.cur
    /\ Absent(row) => /\ row.cur = 0
                      /\ \A o \in Objects : ~series[o].inserted
                      /\ \A f \in Flows : ~Settled(flow[f])
Covers == Calm({"rollback", "lost"}) => Covered

\* Two neighbouring numbers were imported.
Pair == \E g, h \in heads : g.doc = NoDoc /\ h.doc = NoDoc /\ h.num = g.num + 1

\* The object was made from the row as it is, or there is no row yet.
Current(v) == v.stamp = row.stamp \/ Absent(row)

\* The number a save will write is free.
Free(s) ==
    /\ s.pc \in {"taken", "compare"} /\ Current(series[s.obj]) =>
          series[s.obj].cur > row.cur
    /\ s.pc = "taken" => (s.ok <=> exists(series[s.obj].cur))
    /\ s.pc = "compare" /\ Current(series[s.obj]) => ~exists(series[s.obj].cur)
    /\ Landing(s) => ~exists(s.dict.cur)
    /\ s.pc = "head" => s.ok
Unclashed ==
    Calm({"overlap", "rollback"}) /\ ~Pair =>
        clashed = {} /\ \A f \in Flows : Free(flow[f])

\* The cached object is the row, or is on its way to it.
InSync(v) ==
    ~Absent(row) /\ v.cur = row.cur /\ v.stamp = row.stamp /\ v.inserted
OnItsWay(s) ==
    /\ s.pc \in {"load", "missing"} => cached = 0 /\ s.read = row
    /\ s.pc \in {"taken", "compare"} =>
          /\ s.obj = cached /\ ~Absent(row)
          /\ series[cached].stamp = row.stamp /\ series[cached].inserted
    /\ s.pc \in {"create", "write"} => s.ok
    /\ s.pc \in {"create", "write"} \cup Logging =>
          s.obj = cached /\ ~Absent(row) /\ s.dict = row
Jams == {"overlap", "rollback", "refused", "unlogged"}
Unjammed ==
    Calm(Jams) =>
        /\ (\A f \in Flows : ~InNaming(flow[f])) => cached = 0 \/ InSync(series[cached])
        /\ \A f \in Flows : InNaming(flow[f]) => OnItsWay(flow[f])

\* The numbers in use are those up to the counter, or up to the one before it
\* while a document's row is on its way.
Numbered == {h.num : h \in heads}
Tight(s) ==
    /\ s.pc \in {"taken", "compare"} => series[s.obj].cur = setCurrent(row.cur)
    /\ s.pc = "taken" => ~s.ok
    /\ Landing(s) => row.cur >= Start /\ Numbered = Start .. row.cur - 1
Gapless ==
    (mishap = {} /\ \A h \in heads : h.doc # NoDoc) =>
        /\ row.cur = 0 \/ row.cur >= Start
        /\ (\A f \in Flows : ~Landing(flow[f])) => Numbered = Start .. row.cur
        /\ \A f \in Flows : Tight(flow[f])

CInv == Clean /\ Solo /\ Kept /\ Covers /\ Unclashed /\ Unjammed /\ Gapless

-----------------------------------------------------------------------------
(* What the steps of a flow come to.                                        *)

Moved(f, s) == flow' = [flow EXCEPT ![f] = s]

LEMMA MovedTo ==
    ASSUME TypeOK, NEW f \in Flows, NEW s, Moved(f, s)
    PROVE  /\ flow'[f] = s /\ \A g \in Flows : g # f => flow'[g] = flow[g]
           /\ \A g \in Flows : flow'[g] = IF g = f THEN s ELSE flow[g]
  BY DEF TypeOK, Moved

\* Neither the row nor the documents change.
Still == row' = row /\ heads' = heads

\* A new object is marked as inserted only by one who has seen the row.
Marks(f) ==
    \A q \in Objects :
        series'[q].inserted => Settled(flow[f]) \/ \E p \in Objects : series[p].inserted

\* An object with the stamp of the row is not behind it.
Ahead(v) == v.stamp = row.stamp /\ row.stamp # 0 => v.cur >= row.cur

\* f takes the next number of an object that was v.
Takes(f, s, v) ==
    /\ Moved(f, s) /\ Still /\ Marks(f) /\ clashed' = clashed
    /\ s.pc = "taken" /\ s.obj \in Objects /\ cached' = s.obj
    /\ series'[s.obj].cur = setCurrent(v.cur)
    /\ series'[s.obj].stamp = v.stamp /\ series'[s.obj].inserted = v.inserted
    /\ s.ok <=> exists(setCurrent(v.cur))
    /\ v \in Series /\ Ahead(v)

\* f asks for the row.
Asks(f, s) ==
    /\ Moved(f, s) /\ Still /\ Marks(f) /\ clashed' = clashed
    /\ s.pc \in {"load", "missing"} /\ s.read = row /\ cached' = cached

\* f has nothing to do with the naming, before and after.
Elsewhere(f, s) ==
    /\ Moved(f, s) /\ Still
    /\ ~InNaming(flow[f]) /\ ~InNaming(s) /\ s.pc # "head"
    /\ cached' = cached /\ \A q \in Objects : q = cached => series'[q] = series[q]
    /\ \A q \in Objects : series'[q] \in {series[q], NoSeries}
    /\ \A g \in Flows \ {f}, q \in Objects : flow[g].obj = q => series'[q] = series[q]
    /\ clashed' = clashed \/ (flow[f].pc = "head" /\ ~flow[f].ok)

LEMMA SetCurrentMoves ==
    ASSUME NEW c \in Nat
    PROVE  setCurrent(c) \in Nat /\ setCurrent(c) > c /\ setCurrent(c) >= 1
  BY StartAssumption DEF setCurrent

\* The objects that are kept are as they were given.
LEMMA KeepsHeld ==
    ASSUME NEW S \in [Objects -> Series], Keeps(S)
    PROVE  /\ \A q \in Objects : series'[q] \in {S[q], NoSeries}
           /\ \A q \in Objects : q = cached' \/ (\E g \in Flows : flow'[g].obj = q) =>
                 series'[q] = S[q]
           /\ \A q \in Objects : q # cached' /\ (\A g \in Flows : flow'[g].obj # q) =>
                 series'[q] = NoSeries
           /\ \A q \in Objects : series'[q].inserted => S[q].inserted
<1>1. ~NoSeries.inserted
  BY DEF NoSeries
<1>2. \A q \in Objects : series'[q] = IF q = cached' \/ \E g \in Flows : flow'[g].obj = q
                                      THEN S[q] ELSE NoSeries
  BY DEF Keeps, Held
<1> QED
  BY <1>1, <1>2

LEMMA NextEffect ==
    ASSUME TypeOK, NEW f \in Flows, NEW x \in Docs, NEW o \in Objects,
           NEW S \in [Objects -> Series], next(f, x, o, S)
    PROVE  \E s : /\ Moved(f, s) /\ s.pc = "taken" /\ s.obj = o
                  /\ s.ok <=> exists(setCurrent(S[o].cur))
                  /\ series'[o].cur = setCurrent(S[o].cur)
                  /\ series'[o].stamp = S[o].stamp /\ series'[o].inserted = S[o].inserted
                  /\ \A q \in Objects : series'[q].inserted => S[q].inserted
                  /\ \E T \in [Objects -> Series] : Keeps(T)
<1> DEFINE cur == setCurrent(S[o].cur)
           s == [Idle EXCEPT !.pc = "taken", !.doc = x, !.obj = o, !.ok = exists(cur)]
           T == [S EXCEPT ![o].cur = cur]
<1>1. S[o] \in Series /\ S[o].cur \in Nat
  BY DEF Series
<1>2. cur \in Nat /\ cur >= S[o].cur
  BY <1>1, SetCurrentGrows
<1>3. Moved(f, s) /\ Keeps(T)
  BY DEF next, Sends, Moved
<1>4. s.pc = "taken" /\ s.obj = o /\ (s.ok <=> exists(cur))
  BY DEF Idle
<1> HIDE DEF s, cur
<1>5. T \in [Objects -> Series]
  BY <1>1, <1>2, CounterTyped
<1>6. /\ T[o].cur = cur /\ T[o].stamp = S[o].stamp /\ T[o].inserted = S[o].inserted
      /\ \A q \in Objects : T[q].inserted = S[q].inserted
  BY <1>1 DEF Series
<1> HIDE DEF T
<1>7. flow'[f].obj = o
  BY <1>3, <1>4, MovedTo
<1>8. series'[o] = T[o] /\ \A q \in Objects : series'[q].inserted => T[q].inserted
  BY <1>3, <1>5, <1>7, KeepsHeld
<1> QED
  BY <1>3, <1>4, <1>5, <1>6, <1>8 DEF cur

\* getDoc takes a number of the cached object, or asks for the row.
LEMMA GetDocEffect ==
    ASSUME TypeOK, NEW f \in Flows, NEW x \in Docs, NEW S \in [Objects -> Series],
           getDoc(f, x, S), Still, clashed' = clashed,
           \A q \in Objects : S[q].inserted =>
               Settled(flow[f]) \/ \E p \in Objects : series[p].inserted,
           \A q \in Objects : Ahead(S[q])
    PROVE  /\ \E T \in [Objects -> Series] : Keeps(T)
           /\ \E s : (cached = 0 /\ Asks(f, s)) \/ (cached \in Objects /\ Takes(f, s, S[cached]))
<1>1. CASE cached # 0 /\ next(f, x, cached, S)
  <2>1. cached \in Objects /\ cached' = cached
    BY <1>1 DEF TypeOK, getDoc
  <2>2. PICK s : /\ Moved(f, s) /\ s.pc = "taken" /\ s.obj = cached
                 /\ s.ok <=> exists(setCurrent(S[cached].cur))
                 /\ series'[cached].cur = setCurrent(S[cached].cur)
                 /\ series'[cached].stamp = S[cached].stamp
                 /\ series'[cached].inserted = S[cached].inserted
                 /\ \A q \in Objects : series'[q].inserted => S[q].inserted
                 /\ \E T \in [Objects -> Series] : Keeps(T)
    BY <1>1, <2>1, NextEffect
  <2>3. Marks(f)
    BY <2>2 DEF Marks
  <2> QED
    BY <2>1, <2>2, <2>3 DEF Takes
<1>2. CASE /\ cached = 0
           /\ Sends(f, [Idle EXCEPT !.pc = "load", !.doc = x, !.read = row])
           /\ Keeps(S)
  <2> DEFINE s == [Idle EXCEPT !.pc = "load", !.doc = x, !.read = row]
  <2>1. s.pc = "load" /\ s.read = row
    BY DEF Idle
  <2>2. Moved(f, s)
    BY <1>2 DEF Sends, Moved
  <2>3. Marks(f)
    BY <1>2, KeepsHeld DEF Marks
  <2> HIDE DEF s
  <2>4. Asks(f, s)
    BY <1>2, <2>1, <2>2, <2>3 DEF Asks, getDoc
  <2> QED
    BY <1>2, <2>4
<1> QED
  BY <1>1, <1>2 DEF getDoc

-----------------------------------------------------------------------------
(* How a step of one flow keeps the invariant.                              *)

LEMMA CalmBefore ==
    ASSUME mishap \subseteq mishap', NEW m, Calm(m)'
    PROVE  Calm(m)
  BY DEF Calm

LEMMA LandingNames == \A s : Landing(s) => InNaming(s)
  BY DEF Landing, InNaming, Naming, Logging

\* Nobody but f is being named.
Lonely(f) == \A g \in Flows : g # f => ~InNaming(flow[g])

LEMMA SoloStep ==
    ASSUME TypeOK, Solo, NEW f \in Flows, NEW s, Moved(f, s), mishap \subseteq mishap',
           InNaming(s) => \/ InNaming(flow[f]) \/ "overlap" \in mishap'
                          \/ \A g \in Flows : ~InNaming(flow[g])
    PROVE  /\ Solo'
           /\ Calm({"overlap"})' /\ (InNaming(flow[f]) \/ InNaming(s)) => Lonely(f)
<1>1. flow'[f] = s /\ \A g \in Flows : g # f => flow'[g] = flow[g]
  BY MovedTo
<1>2. SUFFICES ASSUME Calm({"overlap"})'
               PROVE  Alone' /\ (InNaming(flow[f]) \/ InNaming(s) => Lonely(f))
  BY DEF Solo
<1>3. Calm({"overlap"}) /\ "overlap" \notin mishap'
  BY <1>2, CalmBefore DEF Calm
<1>4. Alone
  BY <1>3 DEF Solo
<1>5. InNaming(flow[f]) \/ InNaming(s) => Lonely(f)
  BY <1>3, <1>4 DEF Alone, Lonely
<1>6. Alone'
  BY <1>1, <1>4, <1>5 DEF Alone, Lonely
<1> QED
  BY <1>5, <1>6

LEMMA CoverStep ==
    ASSUME TypeOK, TypeOK', Covered, NEW f \in Flows, NEW s, Moved(f, s), Marks(f),
           row'.cur >= row.cur, Absent(row') => row' = row,
           \A h \in heads' : h \in heads \/ h.num <= row'.cur,
           Landing(s) => (Landing(flow[f]) /\ s.dict.cur = flow[f].dict.cur)
                         \/ s.dict.cur <= row'.cur,
           Settled(s) => ~Absent(row')
    PROVE  Covered'
<1>1. flow'[f] = s /\ \A g \in Flows : g # f => flow'[g] = flow[g]
  BY MovedTo
<1>2. /\ row.cur \in Nat /\ row'.cur \in Nat
      /\ \A g \in Flows : flow[g].dict.cur \in Nat /\ flow'[g].dict.cur \in Nat
      /\ \A h \in heads : h.num \in Nat
  BY DEF TypeOK, Row, FlowState, DocRow
<1>3. \A h \in heads' : h.doc # NoDoc => h.num <= row'.cur
  BY <1>2 DEF Covered
<1>4. ASSUME NEW g \in Flows, Landing(flow'[g])
      PROVE  flow'[g].dict.cur <= row'.cur
  <2>1. \A h \in Flows : Landing(flow[h]) => flow[h].dict.cur <= row'.cur
    BY <1>2 DEF Covered
  <2> QED
    BY <1>1, <1>4, <2>1
<1>5. ASSUME Absent(row')
      PROVE  /\ row'.cur = 0 /\ \A o \in Objects : ~series'[o].inserted
             /\ \A g \in Flows : ~Settled(flow'[g])
  <2>1. Absent(row) /\ row' = row
    BY <1>5
  <2> QED
    BY <1>1, <1>5, <2>1 DEF Covered, Marks
<1> QED
  BY <1>3, <1>4, <1>5 DEF Covered

\* Where f is afterwards decides, since nobody else is being named.
LEMMA NamingStep ==
    ASSUME TypeOK, CInv, NEW f \in Flows, NEW s, Moved(f, s), mishap \subseteq mishap',
           heads \subseteq heads', clashed' = clashed, Clean', Covers',
           InNaming(flow[f]) \/ InNaming(s),
           InNaming(s) => \/ InNaming(flow[f]) \/ "overlap" \in mishap'
                          \/ \A g \in Flows : ~InNaming(flow[g]),
           Calm({"overlap", "rollback"})' =>
               "lost" \notin mishap' /\ (s.pc = "compare" => s.read = row'),
           Calm({"overlap", "rollback"})' /\ ~Pair' => Free(s)',
           Calm(Jams)' => IF InNaming(s) THEN OnItsWay(s)'
                          ELSE cached' = 0 \/ InSync(series[cached])',
           mishap' = {} /\ (\A h \in heads' : h.doc # NoDoc) =>
               /\ row'.cur = 0 \/ row'.cur >= Start
               /\ ~Landing(s) => Numbered' = Start .. row'.cur
               /\ Tight(s)'
    PROVE  CInv'
<1>1. flow'[f] = s /\ \A g \in Flows : g # f => flow'[g] = flow[g]
  BY MovedTo
<1>2. Solo' /\ (Calm({"overlap"})' => Lonely(f))
  BY SoloStep DEF CInv
<1>3. /\ Calm({"overlap", "rollback"})' => Calm({"overlap", "rollback"}) /\ Calm({"overlap"})'
      /\ Calm(Jams)' => Calm(Jams) /\ Calm({"overlap"})'
      /\ mishap' = {} => mishap = {} /\ Calm({"overlap"})'
  BY DEF Calm, Jams
<1>4. Pair => Pair'
  BY DEF Pair
<1>5. ASSUME NEW g \in Flows, g # f, Lonely(f)
      PROVE  /\ flow'[g] = flow[g] /\ ~InNaming(flow[g]) /\ ~Landing(flow[g])
             /\ flow[g].pc \notin {"taken", "compare"}
  BY <1>1, <1>5, LandingNames DEF Lonely, InNaming, Naming
<1>6. Kept'
  BY <1>1, <1>2, <1>3, <1>5 DEF Kept
<1>7. Unclashed'
  <2> SUFFICES ASSUME Calm({"overlap", "rollback"})', ~Pair'
               PROVE  clashed' = {} /\ \A g \in Flows : Free(flow[g])'
    BY DEF Unclashed
  <2>1. clashed = {} /\ \A g \in Flows : Free(flow[g])
    BY <1>3, <1>4 DEF CInv, Unclashed
  <2>2. ASSUME NEW g \in Flows PROVE Free(flow[g])'
    <3>1. CASE g = f
      BY <1>1, <3>1 DEF Free
    <3>2. CASE g # f
      <4>1. /\ flow'[g] = flow[g] /\ ~Landing(flow[g])
            /\ flow[g].pc \notin {"taken", "compare"}
        BY <1>2, <1>3, <1>5, <3>2
      <4>2. Landing(flow[g])' <=> Landing(flow[g])
        BY <4>1 DEF Landing
      <4>3. flow[g].pc = "head" => flow[g].ok
        BY <2>1 DEF Free
      <4> QED
        BY <4>1, <4>2, <4>3 DEF Free
    <3> QED
      BY <3>1, <3>2
  <2> QED
    BY <2>1, <2>2
<1>8. Unjammed'
  <2> SUFFICES ASSUME Calm(Jams)'
               PROVE  /\ (\A g \in Flows : ~InNaming(flow'[g])) =>
                            cached' = 0 \/ InSync(series[cached])'
                      /\ \A g \in Flows : InNaming(flow'[g]) => OnItsWay(flow[g])'
    BY DEF Unjammed
  <2>1. \A g \in Flows : g # f => ~InNaming(flow'[g])
    BY <1>2, <1>3, <1>5
  <2>2. InNaming(s) => OnItsWay(flow[f])'
    BY <1>1 DEF OnItsWay
  <2> QED
    BY <1>1, <2>1, <2>2
<1>9. Gapless'
  <2> SUFFICES ASSUME mishap' = {}, \A h \in heads' : h.doc # NoDoc
               PROVE  /\ row'.cur = 0 \/ row'.cur >= Start
                      /\ (\A g \in Flows : ~Landing(flow'[g])) => Numbered' = Start .. row'.cur
                      /\ \A g \in Flows : Tight(flow[g])'
    BY DEF Gapless
  <2>1. ASSUME NEW g \in Flows PROVE Tight(flow[g])'
    <3>1. CASE g = f
      BY <1>1, <3>1 DEF Tight
    <3>2. CASE g # f
      <4>1. /\ flow'[g] = flow[g] /\ ~Landing(flow[g])
            /\ flow[g].pc \notin {"taken", "compare"}
        BY <1>2, <1>3, <1>5, <3>2
      <4>2. ~Landing(flow[g])'
        BY <4>1 DEF Landing
      <4> QED
        BY <4>1, <4>2 DEF Tight
    <3> QED
      BY <3>1, <3>2
  <2> QED
    BY <1>1, <2>1
<1> QED
  BY <1>2, <1>6, <1>7, <1>8, <1>9 DEF CInv

\* A step of a flow that is not being named disturbs nobody who is.
LEMMA ElsewhereStep ==
    ASSUME TypeOK, TypeOK', Shapes, CInv, NEW f \in Flows, NEW s, Elsewhere(f, s), Clean',
           mishap \subseteq mishap', mishap' \subseteq mishap \cup {"unlogged"}
    PROVE  CInv'
<1>1. /\ flow'[f] = s /\ \A g \in Flows : g # f => flow'[g] = flow[g]
      /\ Moved(f, s) /\ Still /\ ~InNaming(flow[f]) /\ ~InNaming(s)
      /\ s.pc # "head" /\ s.pc \notin {"taken", "compare"}
      /\ ~Landing(s) /\ ~Landing(flow[f])
      /\ cached' = cached
  BY MovedTo, LandingNames DEF Elsewhere, InNaming, Naming
<1>2. ASSUME NEW g \in Flows, g # f, flow[g].pc \in {"taken", "compare"}
      PROVE  series'[flow[g].obj] = series[flow[g].obj]
  <2>1. flow[g].obj \in Objects
    BY <1>2 DEF TypeOK, FlowState, Shapes, Shaped
  <2> QED
    BY <1>2, <2>1 DEF Elsewhere
<1>3. cached # 0 => series'[cached] = series[cached]
  BY DEF Elsewhere, TypeOK
<1>4. Solo'
  BY <1>1, SoloStep DEF CInv
<1>5. \A m : Calm(m)' => Calm(m)
  BY DEF Calm
<1>6. Kept'
  <2> SUFFICES ASSUME Calm({"overlap", "rollback"})'
               PROVE  /\ "lost" \notin mishap'
                      /\ \A g \in Flows : flow'[g].pc = "compare" => flow'[g].read = row'
    BY DEF Kept
  <2>1. /\ "lost" \notin mishap
        /\ \A g \in Flows : flow[g].pc = "compare" => flow[g].read = row
    BY <1>5 DEF CInv, Kept
  <2>2. "lost" \notin mishap'
    BY <2>1
  <2> QED
    BY <1>1, <2>1, <2>2 DEF Still
<1>7. Covers'
  <2> SUFFICES ASSUME Calm({"rollback", "lost"})' PROVE Covered'
    BY DEF Covers
  <2>1. Covered
    BY <1>5 DEF CInv, Covers
  <2>2. Marks(f)
    BY DEF Elsewhere, Marks, NoSeries
  <2>3. ~Settled(s)
    BY <1>1 DEF Settled, InNaming, Naming
  <2>4. row'.cur >= row.cur
    BY <1>1 DEF Still, TypeOK, Row
  <2> QED
    BY <1>1, <2>1, <2>2, <2>3, <2>4, CoverStep DEF Still
<1>8. Unclashed'
  <2> SUFFICES ASSUME Calm({"overlap", "rollback"})', ~Pair'
               PROVE  clashed' = {} /\ \A g \in Flows : Free(flow[g])'
    BY DEF Unclashed
  <2>1. ~Pair
    BY <1>1 DEF Pair, Still
  <2>2. clashed = {} /\ \A g \in Flows : Free(flow[g])
    BY <1>5, <2>1 DEF CInv, Unclashed
  <2>3. clashed' = {}
    BY <2>2 DEF Elsewhere, Free
  <2>4. ASSUME NEW g \in Flows PROVE Free(flow[g])'
    <3>1. CASE g = f
      <4>1. ~Landing(flow[g])' /\ flow'[g] = s
        BY <1>1, <3>1 DEF Landing
      <4> QED
        BY <1>1, <4>1 DEF Free
    <3>2. CASE g # f
      <4>1. flow'[g] = flow[g] /\ row' = row /\ heads' = heads
        BY <1>1, <3>2 DEF Still
      <4>2. Free(flow[g])
        BY <2>2
      <4>3. flow[g].pc \in {"taken", "compare"} => series'[flow[g].obj] = series[flow[g].obj]
        BY <1>2, <3>2
      <4> QED
        BY <4>1, <4>2, <4>3 DEF Free, Current, exists, Landing
    <3> QED
      BY <3>1, <3>2
  <2> QED
    BY <2>3, <2>4
<1>9. Unjammed'
  <2> SUFFICES ASSUME Calm(Jams)'
               PROVE  /\ (\A g \in Flows : ~InNaming(flow'[g])) =>
                            cached' = 0 \/ InSync(series[cached])'
                      /\ \A g \in Flows : InNaming(flow'[g]) => OnItsWay(flow[g])'
    BY DEF Unjammed
  <2>1. /\ (\A g \in Flows : ~InNaming(flow[g])) => cached = 0 \/ InSync(series[cached])
        /\ \A g \in Flows : InNaming(flow[g]) => OnItsWay(flow[g])
    BY <1>5 DEF CInv, Unjammed
  <2>2. \A g \in Flows : InNaming(flow'[g]) <=> InNaming(flow[g])
    BY <1>1
  <2>3. cached = 0 \/ InSync(series[cached]) => cached' = 0 \/ InSync(series[cached])'
    BY <1>1, <1>3 DEF InSync, Still
  <2>4. ASSUME NEW g \in Flows, InNaming(flow'[g]) PROVE OnItsWay(flow[g])'
    <3>1. flow'[g] = flow[g] /\ OnItsWay(flow[g]) /\ row' = row
      BY <1>1, <2>1, <2>2, <2>4 DEF Still
    <3>2. flow[g].pc \in {"taken", "compare"} => cached # 0
      BY <3>1 DEF Shapes, Shaped, OnItsWay
    <3> QED
      BY <1>1, <1>3, <3>1, <3>2 DEF OnItsWay
  <2> QED
    BY <2>1, <2>2, <2>3, <2>4
<1>10. Gapless'
  <2> SUFFICES ASSUME mishap' = {}, \A h \in heads' : h.doc # NoDoc
               PROVE  /\ row'.cur = 0 \/ row'.cur >= Start
                      /\ (\A g \in Flows : ~Landing(flow'[g])) => Numbered' = Start .. row'.cur
                      /\ \A g \in Flows : Tight(flow[g])'
    BY DEF Gapless
  <2>1. /\ row.cur = 0 \/ row.cur >= Start
        /\ (\A g \in Flows : ~Landing(flow[g])) => Numbered = Start .. row.cur
        /\ \A g \in Flows : Tight(flow[g])
    BY <1>1 DEF CInv, Gapless, Still
  <2>2. \A g \in Flows : Landing(flow'[g]) <=> Landing(flow[g])
    BY <1>1
  <2>3. Numbered' = Numbered
    BY <1>1 DEF Numbered, Still
  <2>4. ASSUME NEW g \in Flows PROVE Tight(flow[g])'
    <3>1. CASE g = f
      <4>1. ~Landing(flow[g])' /\ flow'[g] = s
        BY <1>1, <3>1 DEF Landing
      <4> QED
        BY <1>1, <4>1 DEF Tight
    <3>2. CASE g # f
      <4>1. flow'[g] = flow[g] /\ row' = row /\ Tight(flow[g])
        BY <1>1, <2>1, <3>2 DEF Still
      <4>2. flow[g].pc \in {"taken", "compare"} => series'[flow[g].obj] = series[flow[g].obj]
        BY <1>2, <3>2
      <4> QED
        BY <2>3, <4>1, <4>2 DEF Tight, Landing
    <3> QED
      BY <3>1, <3>2
  <2> QED
    BY <1>1, <2>1, <2>2, <2>3, <2>4 DEF Still
<1> QED
  BY <1>4, <1>6, <1>7, <1>8, <1>9, <1>10 DEF CInv

-----------------------------------------------------------------------------
(* The steps of the naming, one after the other.                            *)

LEMMA CleanKeeps ==
    ASSUME TypeOK, Clean, NEW f \in Flows, NEW s, Moved(f, s),
           s.pc \in Logging /\ s.after = "lines" => s.obj = 0,
           \/ \E S \in [Objects -> Series] : Keeps(S)
           \/ UNCHANGED memory /\ (s.obj = flow[f].obj \/ flow[f].obj = 0)
    PROVE  Clean'
<1>1. flow'[f] = s /\ \A g \in Flows : g # f => flow'[g] = flow[g]
  BY MovedTo
<1>2. \A g \in Flows : flow'[g].pc \in Logging /\ flow'[g].after = "lines" => flow'[g].obj = 0
  BY <1>1 DEF Clean
<1>3. CASE \E S \in [Objects -> Series] : Keeps(S)
  BY <1>2, <1>3, KeepsHeld DEF Clean
<1>4. CASE UNCHANGED memory /\ (s.obj = flow[f].obj \/ flow[f].obj = 0)
  <2>1. ASSUME NEW o \in Objects, o # cached', \A g \in Flows : flow'[g].obj # o
        PROVE  series'[o] = NoSeries
    <3>1. o # 0
      BY Numbers
    <3>2. \A g \in Flows : flow[g].obj # o
      BY <1>1, <1>4, <2>1, <3>1
    <3> QED
      BY <1>4, <2>1, <3>2 DEF Clean, memory
  <2> QED
    BY <1>2, <2>1 DEF Clean
<1> QED
  BY <1>3, <1>4

\* The row is asked for.
LEMMA AsksStep ==
    ASSUME TypeOK, TypeOK', CInv, NEW f \in Flows, NEW s, Asks(f, s), Clean',
           mishap \subseteq mishap', mishap' \subseteq mishap \cup {"overlap"},
           ~Landing(flow[f]), Calm(Jams)' => cached = 0,
           \/ InNaming(flow[f]) \/ "overlap" \in mishap' \/ \A g \in Flows : ~InNaming(flow[g])
    PROVE  CInv'
<1>1. /\ Moved(f, s) /\ Marks(f) /\ clashed' = clashed /\ row' = row /\ heads' = heads
      /\ s.pc \in {"load", "missing"} /\ s.read = row /\ cached' = cached
      /\ InNaming(s) /\ ~Landing(s) /\ ~Landing(s)'
  BY DEF Asks, Still, InNaming, Naming, Landing, Logging
<1>2. Covers'
  <2> SUFFICES ASSUME Calm({"rollback", "lost"})' PROVE Covered'
    BY DEF Covers
  <2>1. Covered
    BY CalmBefore DEF CInv, Covers
  <2>2. Settled(s) => ~Absent(row')
    BY <1>1 DEF Settled, Logging
  <2>3. row'.cur >= row.cur
    BY <1>1 DEF TypeOK, Row
  <2> QED
    BY <1>1, <2>1, <2>2, <2>3, CoverStep
<1>3. Calm({"overlap", "rollback"})' =>
         "lost" \notin mishap' /\ (s.pc = "compare" => s.read = row')
  BY <1>1 DEF CInv, Kept, Calm
<1>4. Free(s)' /\ (Calm(Jams)' => OnItsWay(s)') /\ Tight(s)'
  BY <1>1 DEF Free, OnItsWay, Tight, Logging
<1>5. mishap' = {} /\ (\A h \in heads' : h.doc # NoDoc) =>
         (row'.cur = 0 \/ row'.cur >= Start) /\ Numbered' = Start .. row'.cur
  <2> SUFFICES ASSUME mishap' = {}, \A h \in heads' : h.doc # NoDoc
               PROVE  (row'.cur = 0 \/ row'.cur >= Start) /\ Numbered' = Start .. row'.cur
    OBVIOUS
  <2>1. Lonely(f)
    BY <1>1, SoloStep DEF CInv, Calm
  <2>2. \A g \in Flows : ~Landing(flow[g])
    BY <2>1, LandingNames DEF Lonely
  <2> QED
    BY <1>1, <2>2 DEF CInv, Gapless, Numbered
<1> QED
  BY <1>1, <1>2, <1>3, <1>4, <1>5, NamingStep

\* A number is taken.
LEMMA TakesStep ==
    ASSUME TypeOK, TypeOK', CInv, NEW f \in Flows, NEW s, NEW v, Takes(f, s, v), Clean',
           mishap \subseteq mishap', mishap' \subseteq mishap \cup {"overlap"},
           ~Landing(flow[f]),
           \/ InNaming(flow[f]) \/ "overlap" \in mishap' \/ \A g \in Flows : ~InNaming(flow[g]),
           Calm(Jams)' => InSync(v)
    PROVE  CInv'
<1>1. /\ Moved(f, s) /\ Marks(f) /\ clashed' = clashed /\ row' = row /\ heads' = heads
      /\ s.pc = "taken" /\ s.obj \in Objects /\ cached' = s.obj
      /\ series'[s.obj].cur = setCurrent(v.cur)
      /\ series'[s.obj].stamp = v.stamp /\ series'[s.obj].inserted = v.inserted
      /\ (s.ok <=> exists(setCurrent(v.cur)))
      /\ InNaming(s) /\ ~Landing(s) /\ ~Landing(s)' /\ ~Settled(s)
  BY DEF Takes, Still, InNaming, Naming, Landing, Logging, Settled
<1>2. /\ v.cur \in Nat /\ row.cur \in Nat /\ setCurrent(v.cur) \in Nat
      /\ setCurrent(v.cur) > v.cur /\ setCurrent(v.cur) >= 1
  BY SetCurrentMoves DEF Takes, Series, TypeOK, Row
<1>3. Covers'
  <2> SUFFICES ASSUME Calm({"rollback", "lost"})' PROVE Covered'
    BY DEF Covers
  <2>1. Covered
    BY CalmBefore DEF CInv, Covers
  <2>2. row'.cur >= row.cur
    BY <1>1 DEF TypeOK, Row
  <2> QED
    BY <1>1, <2>1, <2>2, CoverStep
<1>4. Calm({"overlap", "rollback"})' =>
         "lost" \notin mishap' /\ (s.pc = "compare" => s.read = row')
  BY <1>1 DEF CInv, Kept, Calm
<1>5. Calm({"overlap", "rollback"})' => Free(s)'
  <2> SUFFICES ASSUME Calm({"overlap", "rollback"})' PROVE Free(s)'
    OBVIOUS
  <2>1. Covered
    BY DEF CInv, Kept, Covers, Calm
  <2>2. v.stamp = row.stamp \/ Absent(row) => setCurrent(v.cur) > row.cur
    BY <1>2, <2>1 DEF Covered, Absent, Takes, Ahead
  <2> QED
    BY <1>1, <2>2 DEF Free, Current, Absent, exists
<1>6. Calm(Jams)' => OnItsWay(s)'
  <2>1. Calm(Jams)' => OnItsWay(s)' \/ ~InSync(v)
    BY <1>1 DEF OnItsWay, InSync, Absent, Logging
  <2> QED
    BY <2>1
<1>7. mishap' = {} /\ (\A h \in heads' : h.doc # NoDoc) =>
         /\ row'.cur = 0 \/ row'.cur >= Start
         /\ Numbered' = Start .. row'.cur
         /\ Tight(s)'
  <2> SUFFICES ASSUME mishap' = {}, \A h \in heads' : h.doc # NoDoc
               PROVE  /\ row'.cur = 0 \/ row'.cur >= Start
                      /\ Numbered' = Start .. row'.cur
                      /\ Tight(s)'
    OBVIOUS
  <2>1. Lonely(f)
    BY <1>1, SoloStep DEF CInv, Calm
  <2>2. \A g \in Flows : ~Landing(flow[g])
    BY <2>1, LandingNames DEF Lonely
  <2>3. (row.cur = 0 \/ row.cur >= Start) /\ Numbered = Start .. row.cur
    BY <1>1, <2>2 DEF CInv, Gapless
  <2>4. Calm(Jams)'
    BY DEF Calm
  <2>5. v.cur = row.cur
    BY <2>4 DEF InSync
  <2>6. setCurrent(v.cur) \notin Start .. row.cur
    BY <1>2, <2>5, StartAssumption
  <2>7. ~s.ok
    BY <1>1, <2>3, <2>6 DEF Numbered, exists
  <2> QED
    BY <1>1, <2>3, <2>5, <2>7 DEF Tight, Numbered
<1> QED
  BY <1>1, <1>3, <1>4, <1>5, <1>6, <1>7, NamingStep

LEMMA SeriesAhead ==
    ASSUME TypeOK, Agree, NEW q \in Objects
    PROVE  Ahead(series[q])
  BY DEF Agree, Rows, Ahead

\* A row that was read or written is ahead of the row if it has its stamp.
LEMMA RowAhead ==
    ASSUME TypeOK, Agree, NEW x \in Rows,
           NEW v, v = [cur |-> x.cur, stamp |-> x.stamp, inserted |-> TRUE]
    PROVE  v \in Series /\ Ahead(v)
<1>1. TRUE \in BOOLEAN /\ x \in Row /\ row \in Rows
  BY RowsTyped DEF Rows
<1>2. v \in Series
  BY <1>1 DEF Row, Series
<1>3. x.stamp = row.stamp /\ row.stamp # 0 => x.cur = row.cur
  BY <1>1 DEF Agree
<1> QED
  BY <1>1, <1>2, <1>3 DEF Ahead, Row

LEMMA StartSaveCounts ==
    ASSUME IInv, IInv', CInv, NEW f \in Flows, NEW x \in Docs, StartSave(f, x)
    PROVE  CInv'
<1>1. /\ TypeOK /\ TypeOK' /\ Agree /\ flow[f].pc = "idle" /\ ~Landing(flow[f])
      /\ mishap' = IF \E g \in Flows : InNaming(flow[g]) THEN mishap \cup {"overlap"} ELSE mishap
      /\ getDoc(f, x, series) /\ Still /\ clashed' = clashed
      /\ series \in [Objects -> Series]
  BY DEF IInv, StartSave, Still, database, TypeOK, Landing, Logging
<1>2. /\ \E T \in [Objects -> Series] : Keeps(T)
      /\ \E s : (cached = 0 /\ Asks(f, s)) \/ (cached \in Objects /\ Takes(f, s, series[cached]))
  BY <1>1, GetDocEffect, SeriesAhead
<1>3. PICK s : (cached = 0 /\ Asks(f, s)) \/ (cached \in Objects /\ Takes(f, s, series[cached]))
  BY <1>2
<1>4. Clean'
  BY <1>1, <1>2, <1>3, CleanKeeps DEF CInv, Asks, Takes, Logging
<1>5. /\ mishap \subseteq mishap' /\ mishap' \subseteq mishap \cup {"overlap"}
      /\ "overlap" \in mishap' \/ \A g \in Flows : ~InNaming(flow[g])
  BY <1>1
<1>6. Calm(Jams)' /\ cached \in Objects => InSync(series[cached])
  <2>1. Calm(Jams)' => Calm(Jams) /\ "overlap" \notin mishap'
    BY <1>1 DEF Calm, Jams
  <2>2. cached \in Objects => cached # 0
    BY Numbers
  <2> QED
    BY <1>5, <2>1, <2>2 DEF CInv, Unjammed
<1>7. CASE cached = 0 /\ Asks(f, s)
  BY <1>1, <1>4, <1>5, <1>7, AsksStep
<1>8. CASE cached \in Objects /\ Takes(f, s, series[cached])
  BY <1>1, <1>4, <1>5, <1>6, <1>8, TakesStep
<1> QED
  BY <1>3, <1>7, <1>8

LEMMA LoadedCounts ==
    ASSUME IInv, IInv', CInv, NEW f \in Flows, Loaded(f)
    PROVE  CInv'
<1> DEFINE r == flow[f].read
           o == NewObject
<1>1. /\ TypeOK /\ TypeOK' /\ Agree /\ Shapes /\ flow[f].pc = "load" /\ ~Landing(flow[f])
      /\ Still /\ clashed' = clashed /\ mishap' = mishap /\ InNaming(flow[f])
  BY DEF IInv, Loaded, Still, database, history, Landing, Logging, InNaming, Naming
<1>2. /\ flow[f] \in FlowState /\ flow[f].doc \in Docs /\ flow[f].obj = 0 /\ r \in Rows
      /\ series \in [Objects -> Series] /\ o \in Objects
  BY <1>1, Waiting, RoomForOne DEF Shaped
<1>3. CASE /\ ~Absent(r) /\ cached' = o
           /\ next(f, flow[f].doc, o, [series EXCEPT ![o] =
                   [cur |-> r.cur, stamp |-> r.stamp, inserted |-> TRUE]])
  <2> DEFINE v == [cur |-> r.cur, stamp |-> r.stamp, inserted |-> TRUE]
             S == [series EXCEPT ![o] = v]
  <2>1. v \in Series /\ Ahead(v)
    BY <1>1, <1>2, RowAhead
  <2>2. v.cur = r.cur /\ v.stamp = r.stamp /\ v.inserted
    OBVIOUS
  <2>3. cached' = o /\ next(f, flow[f].doc, o, S)
    BY <1>3
  <2>4. S \in [Objects -> Series] /\ S[o] = v
    <3> HIDE DEF o, v
    <3> QED
      BY <1>2, <2>1
  <2> HIDE DEF S, v, o
  <2>5. PICK s : /\ Moved(f, s) /\ s.pc = "taken" /\ s.obj = o
                 /\ s.ok <=> exists(setCurrent(S[o].cur))
                 /\ series'[o].cur = setCurrent(S[o].cur)
                 /\ series'[o].stamp = S[o].stamp /\ series'[o].inserted = S[o].inserted
                 /\ \A q \in Objects : series'[q].inserted => S[q].inserted
                 /\ \E T \in [Objects -> Series] : Keeps(T)
    BY <1>1, <1>2, <2>3, <2>4, NextEffect
  <2>6. Settled(flow[f])
    BY <1>1, <1>3 DEF Settled
  <2>7. Takes(f, s, v)
    BY <1>1, <1>2, <2>1, <2>3, <2>4, <2>5, <2>6 DEF Takes, Marks
  <2>8. Clean'
    BY <1>1, <2>5, CleanKeeps DEF CInv, Logging
  <2>9. Calm(Jams)' => InSync(v)
    <3>1. Calm(Jams)' => r = row
      BY <1>1 DEF CInv, Unjammed, Calm, OnItsWay
    <3> QED
      BY <1>3, <2>2, <3>1 DEF InSync
  <2> QED
    BY <1>1, <2>7, <2>8, <2>9, TakesStep
<1>4. CASE /\ Absent(r) /\ cached' = cached
           /\ Sends(f, [flow[f] EXCEPT !.pc = "missing", !.read = row])
           /\ Keeps(series)
  <2>1. PICK s : s = [flow[f] EXCEPT !.pc = "missing", !.read = row]
    OBVIOUS
  <2>2. Moved(f, s) /\ s.pc = "missing" /\ s.read = row
    BY <1>2, <1>4, <2>1 DEF Sends, Moved, FlowState
  <2>3. Asks(f, s)
    BY <1>1, <1>2, <1>4, <2>2, KeepsHeld DEF Asks, Marks
  <2>4. Clean'
    BY <1>1, <1>2, <1>4, <2>2, CleanKeeps DEF CInv, Logging
  <2>5. Calm(Jams)' => cached = 0
    BY <1>1 DEF CInv, Unjammed, Calm, OnItsWay
  <2> QED
    BY <1>1, <2>3, <2>4, <2>5, AsksStep
<1> QED
  BY <1>3, <1>4 DEF Loaded

\* The first write of a series begins.
Begins(f, s, c) ==
    /\ Moved(f, s) /\ Marks(f) /\ heads' = heads /\ clashed' = clashed
    /\ s.pc \in {"create", "write"} /\ s.dict = [cur |-> c, stamp |-> clock + 1]
    /\ s.ok <=> Absent(row)
    /\ row' = IF Absent(row) THEN s.dict ELSE row
    /\ c \in Nat

LEMMA InsertSeriesEffect ==
    ASSUME TypeOK, Shapes, NEW f \in Flows, flow[f].pc \in {"missing", "taken"},
           NEW o \in Objects, NEW S \in [Objects -> Series], insertSeries(f, o, S),
           heads' = heads, clashed' = clashed,
           \A q \in Objects : S[q].inserted => series[q].inserted
    PROVE  /\ \E T \in [Objects -> Series] : Keeps(T)
           /\ \E s : /\ Begins(f, s, S[o].cur) /\ s.obj = o
                     /\ s.pc = "create" <=> flow[f].pc = "missing"
<1>1. /\ flow[f] \in FlowState /\ clock \in Nat /\ S[o].cur \in Nat
  BY DEF TypeOK, Series
<1>2. PICK r : r = [cur |-> S[o].cur, stamp |-> clock + 1]
  OBVIOUS
<1>3. PICK s : s = [flow[f] EXCEPT !.pc = IF @ = "missing" THEN "create" ELSE "write",
                                   !.obj = o, !.dict = r, !.ok = Absent(row), !.read = NoRow]
  OBVIOUS
<1>4. /\ s.pc \in {"create", "write"} /\ s.obj = o /\ s.dict = r /\ (s.ok <=> Absent(row))
      /\ s.pc = "create" <=> flow[f].pc = "missing"
  BY <1>1, <1>3 DEF FlowState
<1> DEFINE T == [S EXCEPT ![o].stamp = clock + 1]
<1>5. Moved(f, s) /\ Keeps(T) /\ row' = IF Absent(row) THEN r ELSE row
  BY <1>2, <1>3 DEF insertSeries, Sends, Moved
<1>6. T \in [Objects -> Series] /\ \A q \in Objects : T[q].inserted = S[q].inserted
  BY <1>1 DEF Series
<1> HIDE DEF T
<1>7. Marks(f)
  BY <1>5, <1>6, KeepsHeld DEF Marks
<1> QED
  BY <1>1, <1>2, <1>4, <1>5, <1>6, <1>7 DEF Begins

LEMMA BeginsStep ==
    ASSUME TypeOK, TypeOK', CInv, NEW f \in Flows, NEW s, NEW c, Begins(f, s, c), Clean',
           mishap' = mishap, InNaming(flow[f]), ~Landing(flow[f]),
           Calm({"overlap", "rollback"}) /\ ~Pair /\ s.pc = "write" /\ Absent(row) => ~exists(c),
           Calm(Jams) => s.pc = "create" /\ s.obj = cached' /\ Absent(row),
           mishap = {} => c = 0
    PROVE  CInv'
<1>1. /\ Moved(f, s) /\ Marks(f) /\ heads' = heads /\ clashed' = clashed
      /\ s.pc \in {"create", "write"} /\ s.dict.cur = c /\ s.dict.stamp = clock + 1
      /\ (s.ok <=> Absent(row))
      /\ row' = IF Absent(row) THEN s.dict ELSE row
      /\ InNaming(s) /\ s.pc \notin Logging
  BY DEF Begins, InNaming, Naming, Logging
<1>2. c \in Nat /\ clock \in Nat /\ row.cur \in Nat
  BY DEF Begins, TypeOK, Row
<1>3. ~Absent(row')
  BY <1>1, <1>2 DEF Absent
<1>4. Landing(s) => s.pc = "write" /\ Absent(row) /\ row' = s.dict
  BY <1>1 DEF Landing
<1>5. Covers'
  <2> SUFFICES ASSUME Calm({"rollback", "lost"})' PROVE Covered'
    BY DEF Covers
  <2>1. Covered
    BY DEF CInv, Covers, Calm
  <2>2. row'.cur >= row.cur
    BY <1>1, <1>2, <2>1 DEF Covered
  <2>3. s.dict.cur = c /\ row'.cur \in Nat
    BY <1>1, <1>2
  <2>4. Landing(s) => s.dict.cur <= row'.cur
    BY <1>4, <2>3
  <2> QED
    BY <1>1, <1>3, <2>1, <2>2, <2>4, CoverStep
<1>6. Calm({"overlap", "rollback"})' =>
         "lost" \notin mishap' /\ (s.pc = "compare" => s.read = row')
  BY <1>1 DEF CInv, Kept, Calm
<1>7. Calm({"overlap", "rollback"})' /\ ~Pair' => Free(s)'
  <2> SUFFICES ASSUME Calm({"overlap", "rollback"})', ~Pair' PROVE Free(s)'
    OBVIOUS
  <2>1. Calm({"overlap", "rollback"}) /\ ~Pair
    BY <1>1 DEF Calm, Pair
  <2>2. Landing(s)' => ~exists(s.dict.cur)'
    BY <1>1, <1>4, <2>1 DEF Landing, exists
  <2> QED
    BY <1>1, <2>2 DEF Free
<1>8. Calm(Jams)' => OnItsWay(s)'
  <2> SUFFICES ASSUME Calm(Jams)' PROVE OnItsWay(s)'
    OBVIOUS
  <2>1. s.pc = "create" /\ s.obj = cached' /\ Absent(row)
    BY DEF Calm
  <2> QED
    BY <1>1, <1>3, <2>1 DEF OnItsWay
<1>9. mishap' = {} /\ (\A h \in heads' : h.doc # NoDoc) =>
         /\ row'.cur = 0 \/ row'.cur >= Start
         /\ ~Landing(s) => Numbered' = Start .. row'.cur
         /\ Tight(s)'
  <2> SUFFICES ASSUME mishap' = {}, \A h \in heads' : h.doc # NoDoc
               PROVE  /\ row'.cur = 0 \/ row'.cur >= Start
                      /\ ~Landing(s) => Numbered' = Start .. row'.cur
                      /\ Tight(s)'
    OBVIOUS
  <2>1. Lonely(f)
    BY <1>1, SoloStep DEF CInv, Calm
  <2>2. \A g \in Flows : ~Landing(flow[g])
    BY <2>1, LandingNames DEF Lonely
  <2>3. (row.cur = 0 \/ row.cur >= Start) /\ Numbered = Start .. row.cur
    BY <1>1, <2>2 DEF CInv, Gapless
  <2>4. s.pc = "create" /\ Absent(row) /\ c = 0
    BY DEF Calm
  <2>5. row.cur = 0
    BY <2>4 DEF CInv, Covers, Covered, Calm
  <2>6. row'.cur = 0 /\ Numbered' = Numbered /\ ~Landing(s)'
    BY <1>1, <2>4 DEF Numbered, Landing, Logging
  <2> QED
    BY <1>1, <2>3, <2>4, <2>5, <2>6 DEF Tight
<1> QED
  BY <1>1, <1>5, <1>6, <1>7, <1>8, <1>9, NamingStep

LEMMA MissingCounts ==
    ASSUME IInv, IInv', CInv, NEW f \in Flows, Missing(f)
    PROVE  CInv'
<1>1. /\ TypeOK /\ TypeOK' /\ Agree /\ Shapes /\ flow[f].pc = "missing"
      /\ ~Landing(flow[f]) /\ InNaming(flow[f])
      /\ heads' = heads /\ clashed' = clashed /\ mishap' = mishap
  BY DEF IInv, Missing, history, Landing, Logging, InNaming, Naming
<1>2. /\ flow[f] \in FlowState /\ flow[f].doc \in Docs /\ flow[f].obj = 0
      /\ series \in [Objects -> Series]
      /\ NewObject \in Objects /\ NewObject # cached
      /\ \A g \in Flows : flow[g].obj # NewObject
  BY <1>1, Waiting, RoomForOne DEF Shaped
<1>3. Calm(Jams) => cached = 0 /\ flow[f].read = row
  BY <1>1 DEF CInv, Unjammed, OnItsWay
<1>4. CASE getDoc(f, flow[f].doc, series) /\ UNCHANGED <<row, clock>>
  <2>1. /\ \E T \in [Objects -> Series] : Keeps(T)
        /\ \E s : (cached = 0 /\ Asks(f, s)) \/ (cached \in Objects /\ Takes(f, s, series[cached]))
    BY <1>1, <1>2, <1>4, GetDocEffect, SeriesAhead DEF Still
  <2>2. PICK s : (cached = 0 /\ Asks(f, s)) \/ (cached \in Objects /\ Takes(f, s, series[cached]))
    BY <2>1
  <2>3. Clean'
    BY <1>1, <2>1, <2>2, CleanKeeps DEF CInv, Asks, Takes, Logging
  <2>4. CASE cached = 0 /\ Asks(f, s)
    BY <1>1, <2>3, <2>4, AsksStep
  <2>5. CASE cached \in Objects /\ Takes(f, s, series[cached])
    <3>1. ~Calm(Jams)'
      BY <1>1, <1>3, <2>5, Numbers DEF Calm
    <3> QED
      BY <1>1, <2>3, <2>5, <3>1, TakesStep
  <2> QED
    BY <2>2, <2>4, <2>5
<1>5. CASE /\ Absent(flow[f].read) /\ cached' = NewObject
           /\ insertSeries(f, NewObject, series)
  <2>1. /\ \E T \in [Objects -> Series] : Keeps(T)
        /\ \E s : /\ Begins(f, s, series[NewObject].cur) /\ s.obj = NewObject
                  /\ s.pc = "create" <=> flow[f].pc = "missing"
    BY <1>1, <1>2, <1>5, InsertSeriesEffect
  <2>2. PICK s : /\ Begins(f, s, series[NewObject].cur) /\ s.obj = NewObject
                 /\ s.pc = "create" <=> flow[f].pc = "missing"
    BY <2>1
  <2>3. Clean'
    BY <1>1, <2>1, <2>2, CleanKeeps DEF CInv, Begins, Logging
  <2>4. series[NewObject].cur = 0
    BY <1>2 DEF CInv, Clean, NoSeries
  <2> QED
    BY <1>1, <1>3, <1>5, <2>2, <2>3, <2>4, BeginsStep
<1> QED
  BY <1>4, <1>5 DEF Missing

\* The number that is written after the query is free, if the object is current:
\* the one that was asked for, or the one after an imported one.
LEMMA TakenFree ==
    ASSUME TypeOK, Shapes, CInv, NEW f \in Flows, flow[f].pc = "taken",
           Calm({"overlap", "rollback"}), ~Pair, Current(series[flow[f].obj]),
           NEW c, c = IF flow[f].ok THEN series[flow[f].obj].cur + 1 ELSE series[flow[f].obj].cur
    PROVE  c > row.cur /\ ~exists(c)
<1>1. Free(flow[f]) /\ Covered
  BY DEF CInv, Unclashed, Kept, Covers, Calm
<1>2. /\ series[flow[f].obj].cur \in Nat /\ row.cur \in Nat
      /\ \A h \in heads : h.num \in Nat
  BY DEF TypeOK, Shapes, Shaped, FlowState, Series, Row, DocRow
<1>3. series[flow[f].obj].cur > row.cur /\ (flow[f].ok <=> exists(series[flow[f].obj].cur))
  BY <1>1 DEF Free
<1>4. CASE ~flow[f].ok
  BY <1>3, <1>4
<1>5. CASE flow[f].ok
  <2>1. PICK g \in heads : g.num = series[flow[f].obj].cur
    BY <1>3, <1>5 DEF exists
  <2>2. \A h \in heads : h.num > row.cur => h.doc = NoDoc
    BY <1>1, <1>2 DEF Covered
  <2>3. c = g.num + 1 /\ c > row.cur /\ g.doc = NoDoc
    BY <1>2, <1>3, <1>5, <2>1, <2>2
  <2>4. ~exists(c)
    BY <2>2, <2>3 DEF exists, Pair
  <2> QED
    BY <2>3, <2>4
<1> QED
  BY <1>4, <1>5

LEMMA TakenCounts ==
    ASSUME IInv, IInv', CInv, NEW f \in Flows, Taken(f)
    PROVE  CInv'
<1> DEFINE o == flow[f].obj
           S == IF flow[f].ok THEN [series EXCEPT ![o].cur = @ + 1] ELSE series
<1>1. /\ TypeOK /\ TypeOK' /\ Agree /\ Shapes /\ flow[f].pc = "taken"
      /\ ~Landing(flow[f]) /\ InNaming(flow[f]) /\ cached' = cached
      /\ heads' = heads /\ clashed' = clashed /\ mishap' = mishap
  BY DEF IInv, Taken, history, Landing, Logging, InNaming, Naming
<1>2. /\ flow[f] \in FlowState /\ flow[f].doc \in Docs /\ o \in Objects
      /\ series \in [Objects -> Series] /\ series[o] \in Series /\ series[o].cur \in Nat
      /\ row.cur \in Nat
  BY <1>1, Waiting DEF FlowState, Shaped, Series, TypeOK, Row
<1>3. PICK c : c = IF flow[f].ok THEN series[o].cur + 1 ELSE series[o].cur
  OBVIOUS
<1>4. /\ S \in [Objects -> Series] /\ S[o].cur = c
      /\ S[o].stamp = series[o].stamp /\ S[o].inserted = series[o].inserted
      /\ \A q \in Objects : S[q].inserted = series[q].inserted
  BY <1>2, <1>3 DEF Series
<1>5. CASE /\ series[o].inserted
           /\ Sends(f, [flow[f] EXCEPT !.pc = "compare", !.ok = TRUE, !.read = row])
           /\ Keeps(S) /\ UNCHANGED <<row, clock>>
  <2>1. PICK s : s = [flow[f] EXCEPT !.pc = "compare", !.ok = TRUE, !.read = row]
    OBVIOUS
  <2>2. Moved(f, s)
    BY <1>5, <2>1 DEF Sends, Moved
  <2>3. s.pc = "compare" /\ s.read = row /\ s.obj = o /\ flow'[f] = s
    BY <1>1, <1>2, <2>1, <2>2, MovedTo DEF FlowState
  <2>4. Keeps(S) /\ row' = row /\ series[o].inserted
    BY <1>5
  <2> HIDE DEF S, o
  <2>5. series'[o] = S[o] /\ Marks(f) /\ \E T \in [Objects -> Series] : Keeps(T)
    BY <1>2, <1>4, <2>3, <2>4, KeepsHeld DEF Marks
  <2>6. Clean'
    BY <1>1, <2>2, <2>3, <2>5, CleanKeeps DEF CInv, Logging
  <2>7. InNaming(s) /\ ~Landing(s) /\ ~Landing(s)'
    BY <2>3 DEF InNaming, Naming, Landing, Logging
  <2>8. Covers'
    <3> SUFFICES ASSUME Calm({"rollback", "lost"})' PROVE Covered'
      BY DEF Covers
    <3>1. Covered
      BY <1>1 DEF CInv, Covers, Calm
    <3>2. ~Absent(row') /\ row'.cur >= row.cur
      BY <1>2, <2>4, <3>1 DEF Covered
    <3> QED
      BY <1>1, <2>2, <2>4, <2>5, <2>7, <3>1, <3>2, CoverStep
  <2>9. Calm({"overlap", "rollback"})' =>
           "lost" \notin mishap' /\ (s.pc = "compare" => s.read = row')
    BY <1>1, <2>3, <2>4 DEF CInv, Kept, Calm
  <2>10. Calm({"overlap", "rollback"})' /\ ~Pair' => Free(s)'
    <3> SUFFICES ASSUME Calm({"overlap", "rollback"})', ~Pair' PROVE Free(s)'
      OBVIOUS
    <3>1. Calm({"overlap", "rollback"}) /\ ~Pair
      BY <1>1 DEF Calm, Pair
    <3>2. Current(series[o]) => c > row.cur /\ ~exists(c)
      BY <1>1, <1>3, <3>1, TakenFree DEF o
    <3> QED
      BY <1>1, <1>4, <2>3, <2>4, <2>5, <2>7, <3>2 DEF Free, Current, exists
  <2>11. Calm(Jams)' => OnItsWay(s)'
    <3> SUFFICES ASSUME Calm(Jams)' PROVE OnItsWay(s)'
      OBVIOUS
    <3>1. OnItsWay(flow[f])
      BY <1>1 DEF CInv, Unjammed, Calm
    <3>2. o = cached /\ ~Absent(row) /\ series[o].stamp = row.stamp /\ series[o].inserted
      BY <1>1, <3>1 DEF OnItsWay, o
    <3> QED
      BY <1>1, <1>4, <2>3, <2>4, <2>5, <3>2 DEF OnItsWay, Logging
  <2>12. mishap' = {} /\ (\A h \in heads' : h.doc # NoDoc) =>
            /\ row'.cur = 0 \/ row'.cur >= Start
            /\ Numbered' = Start .. row'.cur
            /\ Tight(s)'
    <3> SUFFICES ASSUME mishap' = {}, \A h \in heads' : h.doc # NoDoc
                 PROVE  /\ row'.cur = 0 \/ row'.cur >= Start
                        /\ Numbered' = Start .. row'.cur
                        /\ Tight(s)'
      OBVIOUS
    <3>1. Lonely(f)
      BY <1>1, <2>2, SoloStep DEF CInv, Calm
    <3>2. \A g \in Flows : ~Landing(flow[g])
      BY <1>1, <3>1, LandingNames DEF Lonely
    <3>3. (row.cur = 0 \/ row.cur >= Start) /\ Numbered = Start .. row.cur /\ Tight(flow[f])
      BY <1>1, <3>2 DEF CInv, Gapless
    <3>4. c = setCurrent(row.cur)
      BY <1>1, <1>3, <3>3 DEF Tight, o
    <3> QED
      BY <1>1, <1>4, <2>3, <2>4, <2>5, <2>7, <3>3, <3>4 DEF Tight, Numbered
  <2> QED
    BY <1>1, <2>2, <2>6, <2>7, <2>8, <2>9, <2>10, <2>11, <2>12, NamingStep
<1>6. CASE ~series[o].inserted /\ insertSeries(f, o, S)
  <2>1. ~series[o].inserted /\ insertSeries(f, o, S)
    BY <1>6
  <2> HIDE DEF S, o
  <2>2. /\ \E T \in [Objects -> Series] : Keeps(T)
        /\ \E s : /\ Begins(f, s, S[o].cur) /\ s.obj = o
                  /\ s.pc = "create" <=> flow[f].pc = "missing"
    BY <1>1, <1>2, <1>4, <2>1, InsertSeriesEffect
  <2>3. PICK s : /\ Begins(f, s, S[o].cur) /\ s.obj = o
                 /\ s.pc = "create" <=> flow[f].pc = "missing"
    BY <2>2
  <2>4. Clean'
    BY <1>1, <2>2, <2>3, CleanKeeps DEF CInv, Begins, Logging
  <2>5. Calm({"overlap", "rollback"}) /\ ~Pair /\ Absent(row) => ~exists(c)
    BY <1>1, <1>3, TakenFree DEF o, Current
  <2>6. ~Calm(Jams)
    BY <1>1, <2>1 DEF CInv, Unjammed, OnItsWay, o
  <2>7. mishap # {}
    BY <2>6 DEF Calm
  <2> QED
    BY <1>1, <1>4, <2>3, <2>4, <2>5, <2>6, <2>7, BeginsStep
<1> QED
  BY <1>5, <1>6 DEF Taken

\* The counter is written, if the row is as old as the object.
LEMMA ComparedCounts ==
    ASSUME IInv, IInv', CInv, NEW f \in Flows, Compared(f)
    PROVE  CInv'
<1> DEFINE o == flow[f].obj
<1>1. /\ TypeOK /\ TypeOK' /\ Agree /\ Shapes /\ flow[f].pc = "compare"
      /\ ~Landing(flow[f]) /\ InNaming(flow[f]) /\ Settled(flow[f]) /\ cached' = cached
      /\ heads' = heads /\ clashed' = clashed /\ clock' = clock + 1
      /\ flow[f].read.stamp = series[o].stamp
      /\ Keeps([series EXCEPT ![o].stamp = clock + 1])
  BY DEF IInv, Compared, Landing, Logging, InNaming, Naming, Settled
<1>2. /\ flow[f] \in FlowState /\ flow[f].doc \in Docs /\ o \in Objects
      /\ series \in [Objects -> Series] /\ series[o] \in Series /\ series[o].cur \in Nat
      /\ row.cur \in Nat /\ clock \in Nat /\ Ahead(series[o])
  BY <1>1, Waiting, SeriesAhead DEF FlowState, Shaped, Series, TypeOK, Row
<1>3. PICK r : r = [cur |-> series[o].cur, stamp |-> clock + 1]
  OBVIOUS
<1>4. PICK ok \in BOOLEAN :
         /\ row' = IF Absent(row) \/ ~ok THEN row ELSE r
         /\ mishap' = mishap \cup (IF ok THEN {} ELSE {"refused"})
                           \cup (IF flow[f].read = row THEN {} ELSE {"lost"})
         /\ Sends(f, [flow[f] EXCEPT !.pc = "write", !.dict = r, !.ok = ok, !.read = NoRow])
  BY <1>3 DEF Compared
<1>5. PICK s : s = [flow[f] EXCEPT !.pc = "write", !.dict = r, !.ok = ok, !.read = NoRow]
  OBVIOUS
<1>6. Moved(f, s) /\ s.pc = "write" /\ s.dict = r /\ s.ok = ok /\ s.obj = o
  BY <1>2, <1>4, <1>5 DEF Sends, Moved, FlowState
<1>7. /\ flow'[f] = s /\ InNaming(s) /\ (Landing(s) <=> ok) /\ (Landing(s)' <=> ok)
      /\ r.cur = series[o].cur /\ r.stamp = clock + 1 /\ Marks(f)
      /\ mishap \subseteq mishap'
  BY <1>1, <1>3, <1>4, <1>6, MovedTo DEF InNaming, Naming, Landing, Logging, Marks
<1>8. PICK T \in [Objects -> Series] : T = [series EXCEPT ![o].stamp = clock + 1]
  <2>1. [series[o] EXCEPT !.stamp = clock + 1] \in Series
    BY <1>2 DEF Series
  <2> QED
    BY <1>2, <2>1
<1> HIDE DEF o
<1>9. Clean'
  BY <1>1, <1>6, <1>8, CleanKeeps DEF CInv, Logging, o
\* Without a row that was lost, the row that was read is still there.
<1>10. flow[f].read = row /\ Covered =>
          ~Absent(row) /\ row.stamp = series[o].stamp /\ series[o].cur >= row.cur
  <2> SUFFICES ASSUME flow[f].read = row, Covered
               PROVE  ~Absent(row) /\ row.stamp = series[o].stamp /\ series[o].cur >= row.cur
    OBVIOUS
  <2>1. ~Absent(row) /\ row.stamp = series[o].stamp
    BY <1>1 DEF Covered
  <2> QED
    BY <1>2, <2>1 DEF Ahead, Absent
<1>11. Calm({"overlap", "rollback"})' => flow[f].read = row /\ Covered /\ "lost" \notin mishap'
  <2> SUFFICES ASSUME Calm({"overlap", "rollback"})'
               PROVE  flow[f].read = row /\ Covered /\ "lost" \notin mishap'
    OBVIOUS
  <2>1. Calm({"overlap", "rollback"})
    BY <1>7, CalmBefore
  <2>2. flow[f].read = row /\ "lost" \notin mishap
    BY <1>1, <2>1 DEF CInv, Kept
  <2>3. Calm({"rollback", "lost"})
    BY <2>1, <2>2 DEF Calm
  <2> QED
    BY <1>4, <2>2, <2>3 DEF CInv, Covers
<1>12. Covers'
  <2> SUFFICES ASSUME Calm({"rollback", "lost"})' PROVE Covered'
    BY DEF Covers
  <2>1. Covered
    BY <1>7, CalmBefore DEF CInv, Covers
  <2>2. flow[f].read = row
    BY <1>4 DEF Calm
  <2>3. ~Absent(row) /\ series[o].cur >= row.cur
    BY <1>10, <2>1, <2>2
  <2>4. row' = IF ok THEN r ELSE row
    BY <1>4, <2>3
  <2>5. ~Absent(row') /\ row'.cur >= row.cur
    BY <1>2, <1>7, <2>3, <2>4 DEF Absent
  <2>6. Landing(s) => s.dict.cur <= row'.cur
    BY <1>2, <1>6, <1>7, <2>4
  <2> QED
    BY <1>1, <1>6, <1>7, <2>1, <2>5, <2>6, CoverStep
<1>13. Calm({"overlap", "rollback"})' =>
          "lost" \notin mishap' /\ (s.pc = "compare" => s.read = row')
  BY <1>6, <1>11
<1>14. Calm({"overlap", "rollback"})' /\ ~Pair' => Free(s)'
  <2> SUFFICES ASSUME Calm({"overlap", "rollback"})', ~Pair' PROVE Free(s)'
    OBVIOUS
  <2>1. Calm({"overlap", "rollback"}) /\ ~Pair
    BY <1>1, <1>7, CalmBefore DEF Pair
  <2>2. Free(flow[f])
    BY <2>1 DEF CInv, Unclashed
  <2>3. Current(series[o])
    BY <1>10, <1>11 DEF Current
  <2>4. ~exists(series[o].cur)
    BY <1>1, <2>2, <2>3 DEF Free, o
  <2>5. ~exists(s.dict.cur)'
    BY <1>1, <1>6, <1>7, <2>4 DEF exists
  <2> QED
    BY <1>6, <2>5 DEF Free
<1>15. Calm(Jams)' => ok /\ row' = r /\ ~Absent(r) /\ o = cached
  <2> SUFFICES ASSUME Calm(Jams)' PROVE ok /\ row' = r /\ ~Absent(r) /\ o = cached
    OBVIOUS
  <2>1. ok
    BY <1>4 DEF Calm, Jams
  <2>2. OnItsWay(flow[f])
    BY <1>1, <1>7, CalmBefore DEF CInv, Unjammed
  <2> QED
    BY <1>1, <1>2, <1>4, <1>7, <2>1, <2>2 DEF OnItsWay, Absent, o
<1>16. Calm(Jams)' => OnItsWay(s)'
  BY <1>1, <1>6, <1>15 DEF OnItsWay
<1>17. mishap' = {} /\ (\A h \in heads' : h.doc # NoDoc) =>
          /\ row'.cur = 0 \/ row'.cur >= Start
          /\ ~Landing(s) => Numbered' = Start .. row'.cur
          /\ Tight(s)'
  <2> SUFFICES ASSUME mishap' = {}, \A h \in heads' : h.doc # NoDoc
               PROVE  /\ row'.cur = 0 \/ row'.cur >= Start
                      /\ ~Landing(s) => Numbered' = Start .. row'.cur
                      /\ Tight(s)'
    OBVIOUS
  <2>1. mishap = {} /\ ok /\ row' = r
    BY <1>7, <1>15 DEF Calm
  <2>2. Lonely(f)
    BY <1>1, <1>6, <1>7, SoloStep DEF CInv, Calm
  <2>3. \A g \in Flows : ~Landing(flow[g])
    BY <1>1, <2>2, LandingNames DEF Lonely
  <2>4. (row.cur = 0 \/ row.cur >= Start) /\ Numbered = Start .. row.cur /\ Tight(flow[f])
    BY <1>1, <2>1, <2>3 DEF CInv, Gapless
  <2>5. row'.cur = setCurrent(row.cur)
    BY <1>1, <1>7, <2>1, <2>4 DEF Tight, o
  <2>6. row'.cur >= Start /\ Start .. row.cur = Start .. row'.cur - 1
    BY <1>2, <2>4, <2>5, StartAssumption DEF setCurrent
  <2>7. Numbered' = Numbered
    BY <1>1 DEF Numbered
  <2> QED
    BY <1>6, <1>7, <2>1, <2>4, <2>6, <2>7 DEF Tight
<1> QED
  BY <1>1, <1>6, <1>7, <1>9, <1>12, <1>13, <1>14, <1>16, <1>17, NamingStep

\* A save is given up before its document's row: the cached object is the row, or
\* something went wrong.
LEMMA GivesUpCounts ==
    ASSUME TypeOK, TypeOK', CInv, NEW f \in Flows, Moved(f, Idle), Still, clashed' = clashed,
           cached' = cached, NEW S \in [Objects -> Series], Keeps(S), S = series,
           mishap \subseteq mishap', mishap' \subseteq mishap \cup {"unlogged"},
           InNaming(flow[f]), ~Calm(Jams)'
    PROVE  CInv'
<1>1. PICK s : s = Idle
  OBVIOUS
<1>2. /\ Moved(f, s) /\ s.pc = "idle" /\ ~InNaming(s) /\ ~Landing(s) /\ ~Landing(s)'
      /\ ~Settled(s) /\ row' = row /\ heads' = heads
  BY <1>1, IdleTyped DEF InNaming, Naming, Landing, Logging, Settled, Still
<1>3. Marks(f) /\ Clean'
  BY <1>2, KeepsHeld, CleanKeeps DEF CInv, Logging, Marks
<1>4. Covers'
  <2> SUFFICES ASSUME Calm({"rollback", "lost"})' PROVE Covered'
    BY DEF Covers
  <2>1. Covered
    BY CalmBefore DEF CInv, Covers
  <2>2. row'.cur >= row.cur
    BY <1>2 DEF TypeOK, Row
  <2> QED
    BY <1>2, <1>3, <2>1, <2>2, CoverStep
<1>5. Calm({"overlap", "rollback"})' =>
         "lost" \notin mishap' /\ (s.pc = "compare" => s.read = row')
  <2> SUFFICES ASSUME Calm({"overlap", "rollback"})' PROVE "lost" \notin mishap'
    BY <1>2
  <2>1. "lost" \notin mishap
    BY CalmBefore DEF CInv, Kept
  <2> QED
    BY <2>1
<1>6. Free(s)'
  BY <1>2 DEF Free
<1>7. mishap' # {}
  BY DEF Calm
<1> QED
  BY <1>2, <1>3, <1>4, <1>5, <1>6, <1>7, NamingStep

LEMMA ConflictCounts ==
    ASSUME IInv, IInv', CInv, NEW f \in Flows, Conflict(f)
    PROVE  CInv'
<1>1. /\ TypeOK /\ TypeOK' /\ Shapes /\ flow[f].pc = "compare" /\ InNaming(flow[f])
      /\ flow[f].read.stamp # series[flow[f].obj].stamp
      /\ cached' = cached /\ Moved(f, Idle) /\ Keeps(series)
      /\ Still /\ clashed' = clashed /\ mishap' = mishap
      /\ series \in [Objects -> Series]
  BY DEF IInv, Conflict, Ends, Moved, Still, database, history, InNaming, Naming, TypeOK
<1>2. ~Calm(Jams)'
  <2> SUFFICES ASSUME Calm(Jams)' PROVE FALSE
    OBVIOUS
  <2>1. Calm(Jams) /\ Calm({"overlap", "rollback"})
    BY <1>1 DEF Calm, Jams
  <2>2. OnItsWay(flow[f]) /\ flow[f].read = row
    BY <1>1, <2>1 DEF CInv, Unjammed, Kept
  <2> QED
    BY <1>1, <2>2 DEF OnItsWay
<1> QED
  BY <1>1, <1>2, GivesUpCounts

\* A step of a flow that is not being named, by what it leaves alone.
LEMMA Bystands ==
    ASSUME TypeOK, NEW f \in Flows, NEW s, Moved(f, s), Still, cached' = cached,
           ~InNaming(flow[f]), ~InNaming(s), s.pc # "head",
           clashed' = clashed \/ (flow[f].pc = "head" /\ ~flow[f].ok),
           UNCHANGED memory \/ \E S \in [Objects -> Series] : S = series /\ Keeps(S)
    PROVE  Elsewhere(f, s)
<1>1. flow'[f] = s /\ \A g \in Flows : g # f => flow'[g] = flow[g]
  BY MovedTo
<1>2. CASE UNCHANGED memory
  BY <1>2 DEF Elsewhere, memory
<1>3. CASE \E S \in [Objects -> Series] : S = series /\ Keeps(S)
  <2>1. /\ \A q \in Objects : q = cached' => series'[q] = series[q]
        /\ \A q \in Objects : series'[q] \in {series[q], NoSeries}
        /\ \A g \in Flows, q \in Objects : flow'[g].obj = q => series'[q] = series[q]
    BY <1>3, KeepsHeld
  <2>2. \A g \in Flows \ {f}, q \in Objects : flow[g].obj = q => series'[q] = series[q]
    BY <1>1, <2>1
  <2> QED
    BY <2>1, <2>2 DEF Elsewhere
<1> QED
  BY <1>2, <1>3

\* A write is handed to the logger, or waits in it.
LEMMA LogsOnCounts ==
    ASSUME IInv, IInv', CInv, NEW f \in Flows, NEW what, what \in Write,
           \/ flow[f].pc \in Write /\ what = flow[f].pc /\ flow[f].ok
           \/ flow[f].pc \in Logging /\ what = flow[f].after,
           NEW pc \in Logging, Sends(f, [flow[f] EXCEPT !.pc = pc, !.after = what]),
           UNCHANGED <<memory, heads, row, mishap, clashed>>
    PROVE  CInv'
<1>1. TypeOK /\ TypeOK' /\ Shapes /\ flow[f] \in FlowState /\ Shaped(flow[f])
  BY DEF IInv, TypeOK, Shapes
<1>2. PICK s : s = [flow[f] EXCEPT !.pc = pc, !.after = what]
  OBVIOUS
<1>3. /\ Moved(f, s) /\ s.pc = pc /\ s.after = what /\ s.obj = flow[f].obj
      /\ s.dict = flow[f].dict
  BY <1>1, <1>2 DEF Sends, Moved, FlowState
<1>4. /\ Still /\ cached' = cached /\ series' = series /\ mishap' = mishap /\ heads' = heads
      /\ row' = row /\ clashed' = clashed
  BY DEF Still, memory
<1>5. what = "lines" => flow[f].obj = 0
  BY <1>1 DEF CInv, Clean, Shaped, Write
<1>6. Clean'
  BY <1>1, <1>3, <1>5, CleanKeeps DEF CInv
<1>7. CASE what = "lines"
  <2>1. ~InNaming(flow[f]) /\ ~InNaming(s) /\ s.pc # "head"
    BY <1>3, <1>7 DEF InNaming, Naming, Logging, Write
  <2>2. Elsewhere(f, s)
    BY <1>1, <1>3, <1>4, <2>1, Bystands
  <2> QED
    BY <1>1, <1>4, <1>6, <2>2, ElsewhereStep
<1>8. CASE what # "lines"
  <2>1. /\ InNaming(flow[f]) /\ InNaming(s) /\ Settled(flow[f])
        /\ (Landing(s) <=> Landing(flow[f])) /\ (Landing(s)' <=> Landing(flow[f]))
        /\ s.pc \notin {"taken", "compare", "head", "create", "write", "load", "missing"}
    BY <1>3, <1>8 DEF InNaming, Naming, Logging, Write, Settled, Landing
  <2>2. Covers'
    <3> SUFFICES ASSUME Calm({"rollback", "lost"})' PROVE Covered'
      BY DEF Covers
    <3>1. Covered
      BY <1>4 DEF CInv, Covers, Calm
    <3>2. ~Absent(row') /\ row'.cur >= row.cur /\ Marks(f)
      BY <1>1, <1>4, <2>1, <3>1 DEF Covered, Marks, TypeOK, Row
    <3> QED
      BY <1>1, <1>3, <1>4, <2>1, <3>1, <3>2, CoverStep
  <2>3. Calm({"overlap", "rollback"})' =>
           "lost" \notin mishap' /\ (s.pc = "compare" => s.read = row')
    BY <1>4, <2>1 DEF CInv, Kept, Calm
  <2>4. Calm({"overlap", "rollback"})' /\ ~Pair' => Free(s)'
    <3> SUFFICES ASSUME Calm({"overlap", "rollback"})', ~Pair' PROVE Free(s)'
      OBVIOUS
    <3>1. Free(flow[f])
      BY <1>4 DEF CInv, Unclashed, Calm, Pair
    <3> QED
      BY <1>3, <1>4, <2>1, <3>1 DEF Free, exists
  <2>5. Calm(Jams)' => OnItsWay(s)'
    <3> SUFFICES ASSUME Calm(Jams)' PROVE OnItsWay(s)'
      OBVIOUS
    <3>1. OnItsWay(flow[f])
      BY <1>4, <2>1 DEF CInv, Unjammed, Calm
    <3>2. s.obj = cached /\ ~Absent(row) /\ s.dict = row
      BY <1>3, <1>8, <3>1 DEF OnItsWay, Write
    <3> QED
      BY <1>3, <1>4, <2>1, <3>2 DEF OnItsWay
  <2>6. mishap' = {} /\ (\A h \in heads' : h.doc # NoDoc) =>
           /\ row'.cur = 0 \/ row'.cur >= Start
           /\ ~Landing(s) => Numbered' = Start .. row'.cur
           /\ Tight(s)'
    <3> SUFFICES ASSUME mishap' = {}, \A h \in heads' : h.doc # NoDoc
                 PROVE  /\ row'.cur = 0 \/ row'.cur >= Start
                        /\ ~Landing(s) => Numbered' = Start .. row'.cur
                        /\ Tight(s)'
      OBVIOUS
    <3>1. Lonely(f)
      BY <1>1, <1>3, <1>4, <2>1, SoloStep DEF CInv, Calm
    <3>2. ~Landing(flow[f]) => \A g \in Flows : ~Landing(flow[g])
      BY <3>1, LandingNames DEF Lonely
    <3>3. /\ row.cur = 0 \/ row.cur >= Start
          /\ (\A g \in Flows : ~Landing(flow[g])) => Numbered = Start .. row.cur
          /\ Tight(flow[f])
      BY <1>4 DEF CInv, Gapless
    <3> QED
      BY <1>4, <2>1, <3>2, <3>3 DEF Tight, Numbered
  <2> QED
    BY <1>1, <1>3, <1>4, <1>6, <2>1, <2>2, <2>3, <2>4, <2>5, <2>6, NamingStep
<1> QED
  BY <1>7, <1>8

\* The document's own row goes in under the number of the counter.
LEMMA HeadCounts ==
    ASSUME IInv, IInv', CInv, NEW f \in Flows, Landing(flow[f]), insertHead(f, flow[f]),
           NEW S \in [Objects -> Series], S = Synced(f, flow[f]), Keeps(S), cached' = cached,
           UNCHANGED <<row, mishap, clashed>>
    PROVE  CInv'
<1> DEFINE t == flow[f]
           n == flow[f].dict.cur
<1>1. /\ TypeOK /\ TypeOK' /\ Shapes /\ t \in FlowState /\ Shaped(t) /\ t.doc \in Docs
      /\ InNaming(t) /\ Settled(t) /\ n \in Nat /\ row.cur \in Nat
      /\ t.pc \in {"write"} \cup Logging /\ series \in [Objects -> Series]
      /\ t.obj \in Objects
  BY LandingNames DEF IInv, TypeOK, Shapes, Shaped, Landing, Settled, Logging, FlowState, Row
<1>2. /\ heads' = IF ~exists(n) THEN heads \cup {[num |-> n, doc |-> t.doc]} ELSE heads
      /\ Sends(f, [t EXCEPT !.pc = "head", !.ok = ~exists(n), !.obj = 0,
                            !.dict = [cur |-> n, stamp |-> 0], !.after = NoFlow])
  BY DEF insertHead
<1>3. PICK s : s = [t EXCEPT !.pc = "head", !.ok = ~exists(n), !.obj = 0,
                             !.dict = [cur |-> n, stamp |-> 0], !.after = NoFlow]
  OBVIOUS
<1>4. Moved(f, s) /\ s.pc = "head" /\ (s.ok <=> ~exists(n)) /\ s.obj = 0
  BY <1>1, <1>2, <1>3 DEF Sends, Moved, FlowState
<1>5. /\ ~InNaming(s) /\ ~Landing(s) /\ ~Landing(s)' /\ ~Settled(s) /\ s.pc \notin Logging
      /\ heads \subseteq heads' /\ row' = row /\ mishap' = mishap /\ clashed' = clashed
      /\ Marks(f)
  BY <1>1, <1>2, <1>4 DEF InNaming, Naming, Landing, Logging, Settled, Marks
<1>6. Clean'
  BY <1>1, <1>4, <1>5, CleanKeeps DEF CInv
<1>7. Covers'
  <2> SUFFICES ASSUME Calm({"rollback", "lost"})' PROVE Covered'
    BY DEF Covers
  <2>1. Covered
    BY <1>5 DEF CInv, Covers, Calm
  <2>2. n <= row'.cur
    BY <1>5, <2>1 DEF Covered
  <2>3. \A h \in heads' : h \in heads \/ h.num <= row'.cur
    <3>1. \A h \in heads' : h \in heads \/ h = [num |-> n, doc |-> t.doc]
      BY <1>2
    <3>2. [num |-> n, doc |-> t.doc].num = n
      OBVIOUS
    <3> HIDE DEF n
    <3> QED
      BY <2>2, <3>1, <3>2
  <2>4. row'.cur >= row.cur
    BY <1>1, <1>5
  <2> QED
    BY <1>1, <1>4, <1>5, <2>1, <2>3, <2>4, CoverStep
<1>8. Calm({"overlap", "rollback"})' =>
         "lost" \notin mishap' /\ (s.pc = "compare" => s.read = row')
  BY <1>4, <1>5 DEF CInv, Kept, Calm
<1>9. Calm({"overlap", "rollback"})' /\ ~Pair' => ~exists(n)
  BY <1>5 DEF CInv, Unclashed, Free, Calm, Pair
<1>10. Calm({"overlap", "rollback"})' /\ ~Pair' => Free(s)'
  BY <1>4, <1>5, <1>9 DEF Free
<1>11. Calm(Jams)' => t.dict = row /\ ~Absent(row) /\ t.obj = cached
  BY <1>1, <1>5 DEF CInv, Unjammed, OnItsWay, Calm
<1>12. Calm(Jams)' => InSync(series[cached])'
  <2> SUFFICES ASSUME Calm(Jams)' PROVE InSync(series[cached])'
    OBVIOUS
  <2>1. t.dict = row /\ ~Absent(row) /\ cached \in Objects /\ t.obj = cached
    BY <1>1, <1>11
  <2>2. series'[cached] = S[cached]
    BY <2>1, KeepsHeld
  <2>3. S[cached] = [cur |-> row.cur, stamp |-> row.stamp, inserted |-> TRUE]
    BY <1>1, <2>1 DEF Synced
  <2> QED
    BY <1>5, <2>1, <2>2, <2>3 DEF InSync
<1>13. mishap' = {} /\ (\A h \in heads' : h.doc # NoDoc) =>
          /\ row'.cur = 0 \/ row'.cur >= Start
          /\ Numbered' = Start .. row'.cur
          /\ Tight(s)'
  <2> SUFFICES ASSUME mishap' = {}, \A h \in heads' : h.doc # NoDoc
               PROVE  /\ row'.cur = 0 \/ row'.cur >= Start
                      /\ Numbered' = Start .. row'.cur
                      /\ Tight(s)'
    OBVIOUS
  <2>1. /\ row.cur = 0 \/ row.cur >= Start
        /\ row.cur >= Start /\ Numbered = Start .. row.cur - 1
    BY <1>5 DEF CInv, Gapless, Tight
  <2>2. n = row.cur
    BY <1>11 DEF Calm
  <2>3. n \notin Numbered
    BY <1>1, <2>1, <2>2, StartAssumption
  <2>4. heads' = heads \cup {[num |-> n, doc |-> t.doc]}
    BY <1>2, <2>3 DEF Numbered, exists
  <2>5. Numbered' = Numbered \cup {n}
    <3>1. [num |-> n, doc |-> t.doc].num = n
      OBVIOUS
    <3> HIDE DEF n
    <3> QED
      BY <2>4, <3>1 DEF Numbered
  <2>6. Start .. row.cur = (Start .. row.cur - 1) \cup {row.cur}
    BY <1>1, <2>1, StartAssumption
  <2> QED
    BY <1>4, <1>5, <2>1, <2>2, <2>5, <2>6 DEF Tight
<1> QED
  BY <1>1, <1>4, <1>5, <1>6, <1>7, <1>8, <1>10, <1>12, <1>13, NamingStep

\* What follows a write that landed.
LEMMA ContinueCounts ==
    ASSUME IInv, IInv', CInv, NEW f \in Flows, NEW what, Continue(f, what),
           \/ flow[f].pc \in Write /\ what = flow[f].pc /\ flow[f].ok
           \/ flow[f].pc \in Logging /\ what = flow[f].after,
           UNCHANGED <<row, mishap, clashed>>
    PROVE  CInv'
<1> DEFINE t == flow[f]
           v == [cur |-> t.dict.cur, stamp |-> t.dict.stamp, inserted |-> TRUE]
<1>1. /\ TypeOK /\ TypeOK' /\ Agree /\ Shapes /\ t.pc # "idle"
      /\ t \in FlowState /\ Shaped(t) /\ t.doc \in Docs
      /\ series \in [Objects -> Series] /\ t.dict \in Rows
  BY Waiting DEF IInv, Write, Logging
<1>2. PICK S \in [Objects -> Series] : S = Synced(f, t)
  BY <1>1, SyncedTyped
<1>3. \A q \in Objects : S[q] = IF q = t.obj THEN v ELSE series[q]
  BY <1>1, <1>2 DEF Synced
<1>4. v \in Series /\ Ahead(v)
  BY <1>1, RowAhead
<1> HIDE DEF v
<1>5. CASE what = "create" /\ getDoc(f, t.doc, S) /\ UNCHANGED heads
  <2>1. /\ InNaming(t) /\ Settled(t) /\ ~Landing(t) /\ t.pc \in {"create"} \cup Logging
        /\ t.after = "create" \/ t.pc = "create"
    BY <1>5 DEF InNaming, Naming, Settled, Landing, Logging, Write
  <2>2. \A q \in Objects : Ahead(S[q])
    BY <1>1, <1>3, <1>4, SeriesAhead
  <2>3. /\ \E T \in [Objects -> Series] : Keeps(T)
        /\ \E s : (cached = 0 /\ Asks(f, s)) \/ (cached \in Objects /\ Takes(f, s, S[cached]))
    BY <1>1, <1>5, <2>1, <2>2, GetDocEffect DEF Still
  <2>4. PICK s : (cached = 0 /\ Asks(f, s)) \/ (cached \in Objects /\ Takes(f, s, S[cached]))
    BY <2>3
  <2>5. Clean'
    BY <1>1, <2>3, <2>4, CleanKeeps DEF CInv, Asks, Takes, Logging
  <2>6. CASE cached = 0 /\ Asks(f, s)
    BY <1>1, <2>1, <2>5, <2>6, AsksStep
  <2>7. CASE cached \in Objects /\ Takes(f, s, S[cached])
    <3>1. Calm(Jams)' => InSync(S[cached])
      <4> SUFFICES ASSUME Calm(Jams)' PROVE InSync(S[cached])
        OBVIOUS
      <4>1. t.dict = row /\ ~Absent(row) /\ t.obj = cached
        BY <2>1 DEF CInv, Unjammed, OnItsWay, Calm
      <4>2. S[cached] = v
        BY <1>3, <2>7, <4>1
      <4> QED
        BY <4>1, <4>2 DEF InSync, v
    <3> QED
      BY <1>1, <2>1, <2>5, <2>7, <3>1, TakesStep
  <2> QED
    BY <2>4, <2>6, <2>7
<1>6. CASE what = "write" /\ cached' = cached /\ insertHead(f, t) /\ Keeps(S)
  <2>1. Landing(t)
    BY <1>6 DEF Landing, Write, Logging
  <2> QED
    BY <1>2, <1>6, <2>1, HeadCounts
<1>7. CASE what = "lines" /\ Ends(f) /\ UNCHANGED <<memory, heads>>
  <2>1. ~InNaming(t) /\ t.pc # "head"
    BY <1>7 DEF InNaming, Naming, Write, Logging
  <2>2. PICK s : s = Idle
    OBVIOUS
  <2>3. Moved(f, s) /\ s.pc = "idle" /\ ~InNaming(s) /\ s.obj = 0
    BY <1>7, <2>2, IdleTyped DEF Ends, Moved, InNaming, Naming, Logging
  <2>4. Elsewhere(f, s)
    BY <1>1, <1>7, <2>1, <2>3, Bystands DEF Still, memory
  <2>5. t.obj = 0
    BY <1>1, <1>7 DEF CInv, Clean, Shaped
  <2>6. Clean'
    BY <1>1, <1>7, <2>3, <2>5, CleanKeeps DEF CInv, Logging
  <2> QED
    BY <1>1, <2>4, <2>6, ElsewhereStep
<1> QED
  BY <1>2, <1>5, <1>6, <1>7 DEF Continue

LEMMA WrittenCounts ==
    ASSUME IInv, IInv', CInv, NEW f \in Flows, Written(f)
    PROVE  CInv'
<1>1. /\ TypeOK /\ TypeOK' /\ Shapes /\ flow[f].pc \in Write /\ UNCHANGED <<row, mishap, clashed>>
      /\ series \in [Objects -> Series] /\ Shaped(flow[f])
  BY DEF IInv, Written, TypeOK, Shapes
<1>2. CASE /\ ~flow[f].ok /\ cached' = cached /\ Ends(f) /\ Keeps(series) /\ UNCHANGED heads
  <2>1. flow[f].pc \in {"create", "write"} /\ InNaming(flow[f])
    BY <1>1, <1>2 DEF Shaped, Write, InNaming, Naming
  <2>2. ~Calm(Jams)'
    BY <1>1, <1>2, <2>1 DEF CInv, Unjammed, OnItsWay, Calm
  <2> QED
    BY <1>1, <1>2, <2>1, <2>2, GivesUpCounts DEF Ends, Moved, Still
<1>3. CASE flow[f].ok /\ Continue(f, flow[f].pc)
  BY <1>1, <1>3, ContinueCounts
<1>4. CASE /\ flow[f].ok
           /\ Sends(f, [flow[f] EXCEPT !.pc = "pending", !.after = flow[f].pc])
           /\ UNCHANGED <<memory, heads>>
  <2>1. "pending" \in Logging
    BY DEF Logging
  <2> QED
    BY <1>1, <1>4, <2>1, LogsOnCounts
<1> QED
  BY <1>2, <1>3, <1>4 DEF Written

LEMMA LogsCounts ==
    ASSUME IInv, IInv', CInv, NEW f \in Flows, Logs(f)
    PROVE  CInv'
<1>1. /\ TypeOK /\ Shapes /\ flow[f].pc \in Logging /\ UNCHANGED <<row, mishap, clashed>>
      /\ flow[f] \in FlowState /\ flow[f].after \in Write
  BY DEF IInv, Logs, TypeOK, Shapes, Shaped
<1>2. CASE /\ Sends(f, [flow[f] EXCEPT !.pc = "append"]) /\ UNCHANGED <<memory, heads>>
  <2>1. [flow[f] EXCEPT !.pc = "append"]
        = [flow[f] EXCEPT !.pc = "append", !.after = flow[f].after]
    BY <1>1 DEF FlowState
  <2>2. "append" \in Logging
    BY DEF Logging
  <2> QED
    BY <1>1, <1>2, <2>1, <2>2, LogsOnCounts
<1>3. CASE Continue(f, flow[f].after)
  BY <1>1, <1>3, ContinueCounts
<1> QED
  BY <1>2, <1>3 DEF Logs

LEMMA LogFailsCounts ==
    ASSUME IInv, IInv', CInv, NEW f \in Flows, LogFails(f)
    PROVE  CInv'
<1>1. /\ TypeOK /\ TypeOK' /\ Shapes /\ flow[f].pc \in Logging /\ Still /\ clashed' = clashed
      /\ mishap' = mishap \cup {"unlogged"} /\ cached' = cached /\ Moved(f, Idle)
      /\ Keeps(series) /\ series \in [Objects -> Series]
  BY DEF IInv, LogFails, Ends, Moved, Still, database, TypeOK
<1>2. CASE InNaming(flow[f])
  <2>1. ~Calm(Jams)'
    BY <1>1 DEF Calm, Jams
  <2> QED
    BY <1>1, <1>2, <2>1, GivesUpCounts
<1>3. CASE ~InNaming(flow[f])
  <2>1. PICK s : s = Idle
    OBVIOUS
  <2>2. Moved(f, s) /\ s.pc = "idle" /\ ~InNaming(s)
    BY <1>1, <2>1, IdleTyped DEF InNaming, Naming, Logging
  <2>3. Elsewhere(f, s)
    BY <1>1, <1>3, <2>2, Bystands
  <2>4. Clean'
    BY <1>1, <2>2, CleanKeeps DEF CInv, Logging
  <2> QED
    BY <1>1, <2>3, <2>4, ElsewhereStep
<1> QED
  BY <1>2, <1>3

LEMMA InsertedCounts ==
    ASSUME IInv, IInv', CInv, NEW f \in Flows, Inserted(f)
    PROVE  CInv'
<1>1. /\ TypeOK /\ TypeOK' /\ Shapes /\ flow[f].pc = "head" /\ flow[f].ok /\ ~InNaming(flow[f])
      /\ flow[f] \in FlowState /\ flow[f].obj = 0
      /\ Still /\ UNCHANGED <<memory, mishap, clashed>>
  BY DEF IInv, Inserted, Still, TypeOK, Shapes, Shaped, InNaming, Naming, Logging
<1>2. PICK s : \/ s = [flow[f] EXCEPT !.pc = "lines"] /\ Sends(f, s)
               \/ s = Idle /\ Ends(f)
  BY DEF Inserted
<1>3. Moved(f, s) /\ s.pc \in {"lines", "idle"} /\ ~InNaming(s)
  BY <1>1, <1>2, IdleTyped DEF Sends, Ends, Moved, FlowState, InNaming, Naming, Logging
<1>4. Elsewhere(f, s)
  BY <1>1, <1>3, Bystands DEF memory
<1>5. Clean'
  BY <1>1, <1>3, CleanKeeps DEF CInv, Logging
<1> QED
  BY <1>1, <1>4, <1>5, ElsewhereStep

LEMMA DuplicateCounts ==
    ASSUME IInv, IInv', CInv, NEW f \in Flows, Duplicate(f)
    PROVE  CInv'
<1>1. /\ TypeOK /\ TypeOK' /\ Shapes /\ flow[f].pc = "head" /\ ~flow[f].ok /\ ~InNaming(flow[f])
      /\ flow[f].obj = 0 /\ Still /\ UNCHANGED <<memory, mishap>>
  BY DEF IInv, Duplicate, Still, database, Shapes, Shaped, InNaming, Naming, Logging
<1>2. PICK s : s = Idle
  OBVIOUS
<1>3. Moved(f, s) /\ s.pc = "idle" /\ ~InNaming(s)
  BY <1>2, IdleTyped DEF Duplicate, Ends, Moved, InNaming, Naming, Logging
<1>4. Elsewhere(f, s)
  BY <1>1, <1>3, Bystands DEF memory
<1>5. Clean'
  BY <1>1, <1>3, CleanKeeps DEF CInv, Logging
<1> QED
  BY <1>1, <1>4, <1>5, ElsewhereStep

\* Nobody moves: the transaction begins or ends, or nothing happens.
LEMMA SameCounts ==
    ASSUME CInv, UNCHANGED <<memory, flow, clashed>>, mishap \subseteq mishap',
           "rollback" \in mishap' \/ UNCHANGED <<row, heads, mishap>>
    PROVE  CInv'
<1>1. Clean'
  BY DEF CInv, Clean, memory
<1>2. Solo'
  BY DEF CInv, Solo, Alone, Calm
<1>3. CASE "rollback" \in mishap'
  BY <1>1, <1>2, <1>3 DEF CInv, Kept, Covers, Unclashed, Unjammed, Gapless, Calm, Jams
<1>4. CASE UNCHANGED <<row, heads, mishap>>
  <2>1. UNCHANGED <<row, heads, mishap, clashed, series, cached, flow>>
    BY <1>4 DEF memory
  <2>2. Kept' /\ Covers'
    BY <2>1 DEF CInv, Kept, Covers, Covered, Calm
  <2>3. Unclashed'
    BY <2>1 DEF CInv, Unclashed, Free, Current, Pair, exists, Landing, Calm
  <2>4. Unjammed'
    BY <2>1 DEF CInv, Unjammed, OnItsWay, InSync, Calm
  <2>5. Gapless'
    BY <2>1 DEF CInv, Gapless, Tight, Numbered, Landing
  <2> QED
    BY <1>1, <1>2, <2>2, <2>3, <2>4, <2>5 DEF CInv
<1> QED
  BY <1>3, <1>4

LEMMA SessionCounts ==
    ASSUME CInv, Begin \/ Commit \/ Rollback
    PROVE  CInv'
<1>1. UNCHANGED <<memory, flow, clashed>> /\ mishap \subseteq mishap'
  BY DEF Begin, Commit, Rollback, history
<1>2. "rollback" \in mishap' \/ UNCHANGED <<row, heads, mishap>>
  BY DEF Begin, Commit, Rollback, history
<1> QED
  BY <1>1, <1>2, SameCounts

LEMMA RestartCounts ==
    ASSUME IInv, IInv', CInv, Restart
    PROVE  CInv'
<1>1. /\ \A f \in Flows : flow'[f] = Idle
      /\ cached' = 0 /\ series' = [o \in Objects |-> NoSeries] /\ clashed' = clashed
      /\ "restart" \in mishap' /\ mishap \subseteq mishap'
      /\ "rollback" \in mishap' \/ UNCHANGED <<row, heads>>
      /\ mishap' \subseteq mishap \cup {"restart", "rollback"}
  BY DEF Restart, database
<1>2. PICK i : i = Idle
  OBVIOUS
<1>3. /\ i.pc = "idle" /\ i.obj = 0 /\ ~InNaming(i) /\ ~Landing(i) /\ ~Landing(i)' /\ ~Settled(i)
      /\ \A f \in Flows : flow'[f] = i
  BY <1>1, <1>2, IdleTyped DEF InNaming, Naming, Landing, Logging, Settled
<1>4. Clean'
  BY <1>1, <1>3 DEF Clean, Logging
<1>5. Solo'
  BY <1>3 DEF Solo, Alone
<1>6. \A m : Calm(m)' => Calm(m)
  BY <1>1 DEF Calm
<1>7. Kept'
  <2> SUFFICES ASSUME Calm({"overlap", "rollback"})' PROVE "lost" \notin mishap'
    BY <1>3 DEF Kept
  <2>1. "lost" \notin mishap
    BY <1>6 DEF CInv, Kept
  <2> QED
    BY <1>1, <2>1
<1>8. Covers'
  <2> SUFFICES ASSUME Calm({"rollback", "lost"})' PROVE Covered'
    BY DEF Covers
  <2>1. Covered /\ row' = row /\ heads' = heads
    BY <1>1, <1>6 DEF CInv, Covers, Calm
  <2>2. \A f \in Flows : ~Landing(flow'[f]) /\ ~Settled(flow'[f])
    BY <1>3
  <2>3. \A o \in Objects : ~series'[o].inserted
    BY <1>1 DEF NoSeries
  <2> QED
    BY <2>1, <2>2, <2>3 DEF Covered
<1>9. Unclashed'
  <2> SUFFICES ASSUME Calm({"overlap", "rollback"})', ~Pair'
               PROVE  clashed' = {} /\ \A f \in Flows : Free(flow[f])'
    BY DEF Unclashed
  <2>1. heads' = heads
    BY <1>1 DEF Calm
  <2>2. clashed' = {}
    BY <1>1, <1>6, <2>1 DEF CInv, Unclashed, Pair
  <2>3. Free(i)'
    BY <1>3 DEF Free
  <2> QED
    BY <1>3, <2>2, <2>3 DEF Free, Landing
<1>10. Unjammed'
  BY <1>1, <1>3 DEF Unjammed
<1>11. Gapless'
  BY <1>1 DEF Gapless
<1> QED
  BY <1>4, <1>5, <1>7, <1>8, <1>9, <1>10, <1>11 DEF CInv

LEMMA InitCounts == Init => CInv
<1> SUFFICES ASSUME Init PROVE CInv
  OBVIOUS
<1>1. PICK i : i = Idle
  OBVIOUS
<1>2. /\ i.pc = "idle" /\ i.obj = 0 /\ ~InNaming(i) /\ ~Landing(i) /\ ~Settled(i)
      /\ \A f \in Flows : flow[f] = i
  BY <1>1, IdleTyped DEF InNaming, Naming, Landing, Logging, Settled, Init
<1>3. row.cur = 0 /\ mishap = {} /\ clashed = {} /\ cached = 0
      /\ series = [o \in Objects |-> NoSeries] /\ \A h \in heads : h.doc = NoDoc
  BY DEF Init, NoRow
<1>4. Clean /\ Solo /\ Kept
  BY <1>2, <1>3 DEF Clean, Solo, Alone, Kept, Logging
<1>5. Covers
  BY <1>2, <1>3 DEF Covers, Covered, NoSeries
<1>6. Unclashed
  BY <1>2, <1>3 DEF Unclashed, Free
<1>7. Unjammed
  BY <1>2, <1>3 DEF Unjammed
<1>8. Gapless
  <2> SUFFICES ASSUME \A h \in heads : h.doc # NoDoc
               PROVE  Numbered = Start .. row.cur /\ \A f \in Flows : Tight(flow[f])
    BY <1>3 DEF Gapless
  <2>1. Numbered = {}
    BY <1>3 DEF Numbered
  <2>2. Start .. row.cur = {}
    BY <1>3, StartAssumption
  <2> QED
    BY <1>2, <2>1, <2>2 DEF Tight
<1> QED
  BY <1>4, <1>5, <1>6, <1>7, <1>8 DEF CInv

-----------------------------------------------------------------------------
(* The theorems.                                                            *)

LEMMA NextCounts == IInv /\ IInv' /\ CInv /\ [Next]_vars => CInv'
<1> SUFFICES ASSUME IInv, IInv', CInv, [Next]_vars PROVE CInv'
  OBVIOUS
<1>1. CASE UNCHANGED vars
  <2>1. UNCHANGED <<memory, flow, clashed, row, heads, mishap>>
    BY <1>1 DEF vars, database, history
  <2> QED
    BY <2>1, SameCounts
<1>2. ASSUME NEW f \in Flows, Answer(f) PROVE CInv'
  BY <1>2, LoadedCounts, MissingCounts, TakenCounts, ComparedCounts, ConflictCounts,
     WrittenCounts, LogsCounts, LogFailsCounts, InsertedCounts, DuplicateCounts DEF Answer
<1> QED
  BY <1>1, <1>2, StartSaveCounts, SessionCounts, RestartCounts DEF Next

\* The inductive invariant of the counter holds of every reachable state.
THEOREM SpecCounts == Spec => []CInv
  BY SpecInv, InitCounts, NextCounts, PTL DEF Spec

\* No stored document carries a number the stored counter has not reached, unless
\* a rollback took the counter back or a save overwrote a row it had not read: the
\* purpose of writing `current` before the document (NumberSeries.ts).
THEOREM NumbersAreCovered == Spec => []CounterCovers
<1>1. CInv => CounterCovers
  BY DEF CInv, Covers, Covered, CounterCovers, Calm
<1> QED
  BY SpecCounts, <1>1, PTL

\* A save is refused as a duplicate only after overlapping saves, a rollback, or
\* the import of two neighbouring numbers, of which next skips only the first.
THEOREM DuplicatesAreExplained == Spec => []DuplicateNeedsCause
<1>1. CInv => DuplicateNeedsCause
  BY DEF CInv, Unclashed, Pair, DuplicateNeedsCause, Calm
<1> QED
  BY SpecCounts, <1>1, PTL

\* At rest the cached series is the row, so the next save passes
\* _validateDbNotModified, unless saves overlapped, a rollback, a refused write or
\* a failed log left the object behind the row or ahead of it.
THEOREM JamsAreExplained == Spec => []JamNeedsCause
<1>1. IInv /\ CInv => JamNeedsCause
  <2> SUFFICES ASSUME IInv, CInv, Quiet, cached # 0, Calm(Jams)
               PROVE  series[cached] = [cur |-> row.cur, stamp |-> row.stamp, inserted |-> TRUE]
    BY DEF JamNeedsCause, Calm, Jams
  <2>1. \A f \in Flows : ~InNaming(flow[f])
    BY DEF IInv, TypeOK, Quiet, InNaming, Naming, Logging
  <2>2. InSync(series[cached])
    BY <2>1 DEF CInv, Unjammed
  <2>3. series[cached] \in Series
    BY DEF IInv, TypeOK
  <2> QED
    BY <2>2, <2>3 DEF InSync, Series
<1> QED
  BY SpecInv, SpecCounts, <1>1, PTL

\* When nothing overlapped, failed, restarted or was rolled back, the numbers in
\* use are those from Start to the counter: next and sync waste none.
THEOREM QuietSeriesHasNoGap == Spec => []QuietSeriesIsGapless
<1>1. IInv /\ CInv => QuietSeriesIsGapless
  <2> SUFFICES ASSUME IInv, CInv, Quiet, mishap = {}, \A h \in heads : h.doc # NoDoc
               PROVE  {h.num : h \in heads} = Start .. row.cur
    BY DEF QuietSeriesIsGapless
  <2>1. \A f \in Flows : ~Landing(flow[f])
    BY DEF IInv, TypeOK, Quiet, Landing, Logging
  <2> QED
    BY <2>1 DEF CInv, Gapless, Numbered
<1> QED
  BY SpecInv, SpecCounts, <1>1, PTL
=============================================================================
