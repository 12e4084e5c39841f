------------------------ MODULE BackgroundSyncProofs ------------------------
(***************************************************************************)
(* Proofs about BackgroundSync, for any number of overlapping ticks, any   *)
(* batches, days and events.                                               *)
(***************************************************************************)
EXTENDS BackgroundSync, FiniteSetTheorems, TLAPS

USE SyncAssumption
USE DEF SyncAssumption, loop, feed, cloud, user, Event, scheduleNext, clearTimer, Passes

-----------------------------------------------------------------------------
(* The parts of the type invariant: what the helpers that end a tick or a  *)
(* pass write, and the rest.                                               *)

LoopOK ==
  /\ timer \in {"null", "armed", "spent"}
  /\ delay \in Intervals \cup {0, INITIAL_DELAY}
  /\ tickRunning \in BOOLEAN
  /\ pc \in [Passes -> States]
  /\ resched \in [Tick -> Intervals]

PassOK ==
  /\ got \in [Passes -> SUBSET Batch]
  /\ cur \in [Passes -> Batch \cup {NONE}]

FeedOK ==
  /\ answer \in [Tick -> Replies]
  /\ failures \in 0 .. 3
  /\ etag \in Nat /\ cached \in Nat
  /\ paused \in BOOLEAN /\ catchUp \in BOOLEAN /\ opened \in BOOLEAN

WorldOK ==
  /\ desk \in BOOLEAN /\ hidden \in BOOLEAN
  /\ signedIn \in BOOLEAN /\ verified \in BOOLEAN
  /\ lastApply \in Days \cup {Never}
  /\ pending \in SUBSET Batch
  /\ created \in [Batch -> Days \cup {Never}]
  /\ version \in Nat
  /\ day \in Days
  /\ events \in 0 .. MaxEvents

LEMMA TypeParts == TypeOK <=> LoopOK /\ PassOK /\ FeedOK /\ WorldOK
BY DEF TypeOK, LoopOK, PassOK, FeedOK, WorldOK

LEMMA TypePartsNext == LoopOK' /\ PassOK' /\ FeedOK' /\ WorldOK' => TypeOK'
BY DEF TypeOK, LoopOK, PassOK, FeedOK, WorldOK

\* A handle that has fired belongs to a tick in progress; so while the Desk is
\* open, either the timer is armed or a tick will arm it.
Alive ==
  /\ timer = "spent" => \E t \in Tick : pc[t] # "idle"
  /\ LoopIsAlive

\* The ETags seen are the server's, the current one came with the current list.
CacheOK ==
  /\ etag <= version
  /\ CacheIsTruthful
  /\ \A t \in Tick : answer[t].kind = "items" =>
       /\ answer[t].v <= version
       /\ answer[t].v = version => answer[t].n = Cardinality(pending)

SyncInv == TypeOK /\ Alive /\ CacheOK

-----------------------------------------------------------------------------
(* The helpers.                                                            *)

\* The interval after any number of failures is one of the listed ones.
LEMMA IntervalType ==
  ASSUME NEW n \in Nat, NEW f \in 0 .. 3
  PROVE  nextInterval(n, f) \in Intervals
<1>1. pollInterval(n) \in {30, 90}
  BY DEF pollInterval, PENDING_INTERVAL, IDLE_INTERVAL
<1>2. Factor(f) \in {1, 2, 4, 8}
  BY DEF Factor
<1>3. QED
  BY <1>1, <1>2 DEF nextInterval, Least, MAX_BACKOFF, Intervals

LEMMA FailureType == ASSUME NEW f \in 0 .. 3 PROVE OneMore(f) \in 0 .. 3
BY DEF OneMore, Least

LEMMA PendingCount ==
  ASSUME WorldOK PROVE Cardinality(pending) \in Nat
<1>1. IsFiniteSet(pending)
  BY FS_Subset DEF WorldOK
<1>2. QED
  BY <1>1, FS_CardinalityType

\* Ending a tick leaves the timer armed.
LEMMA FinishAlive ==
  ASSUME LoopOK, NEW t \in Tick, NEW s \in Intervals, Finish(t, s)
  PROVE  LoopOK' /\ Alive'
BY DEF LoopOK, Alive, LoopIsAlive, Finish, States, Intervals, IDLE_INTERVAL

\* Ending a pass arms the timer, or leaves the loop to its ticks.
LEMMA EndPassAlive ==
  ASSUME LoopOK, Alive, NEW p \in Passes, EndPass(p), UNCHANGED desk
  PROVE  LoopOK' /\ Alive'
<1>1. CASE p = Page
  BY <1>1 DEF LoopOK, Alive, LoopIsAlive, EndPass, States
<1>2. CASE p # Page
  <2>1. p \in Tick /\ resched[p] \in Intervals /\ Finish(p, resched[p])
    BY <1>2 DEF LoopOK, EndPass
  <2>2. QED
    BY <2>1, FinishAlive
<1>3. QED
  BY <1>1, <1>2

LEMMA ApplyNextAlive ==
  ASSUME LoopOK, PassOK, Alive, UNCHANGED desk,
         NEW p \in Passes, NEW rest \in SUBSET Batch, ApplyNext(p, rest)
  PROVE  LoopOK' /\ PassOK' /\ Alive'
<1> DEFINE free == rest \ {cur[q] : q \in Passes \ {p}}
<1>1. CASE free = {}
  <2>1. EndPass(p) /\ PassOK'
    BY <1>1 DEF ApplyNext, PassOK
  <2>2. QED
    BY <2>1, EndPassAlive
<1>2. CASE free # {}
  <2>1. PICK b \in free : /\ cur' = [cur EXCEPT ![p] = b]
                          /\ got' = [got EXCEPT ![p] = rest \ {b}]
                          /\ pc' = [pc EXCEPT ![p] = "apply"]
                          /\ UNCHANGED loop
    BY <1>2 DEF ApplyNext
  <2>2. PassOK'
    BY <2>1 DEF PassOK
  <2>3. LoopOK' /\ Alive'
    BY <2>1 DEF LoopOK, Alive, LoopIsAlive, States
  <2>4. QED
    BY <2>2, <2>3
<1>3. QED
  BY <1>1, <1>2

LEMMA RunApplyAlive ==
  ASSUME LoopOK, Alive, UNCHANGED desk, catchUp \in BOOLEAN,
         NEW t \in Tick, NEW n \in Nat, NEW s \in Intervals, RunApplyIfNeeded(t, n, s)
  PROVE  LoopOK' /\ Alive' /\ catchUp' \in BOOLEAN
<1>1. CASE n > 0 /\ inflight = {}
  BY <1>1 DEF RunApplyIfNeeded, LoopOK, Alive, LoopIsAlive, States
<1>2. CASE ~(n > 0 /\ inflight = {})
  <2>1. Finish(t, s) /\ UNCHANGED catchUp
    BY <1>2 DEF RunApplyIfNeeded
  <2>2. QED
    BY <2>1, FinishAlive
<1>3. QED
  BY <1>1, <1>2

-----------------------------------------------------------------------------
(* The invariant holds at first.                                           *)

LEMMA InitSync == Init => SyncInv
<1> SUFFICES ASSUME Init PROVE SyncInv
  OBVIOUS
<1>1. Cardinality({}) = 0
  BY FS_EmptySet
<1>2. NoReply \in Replies /\ NoReply.kind # "items"
  BY DEF NoReply, Replies
<1>3. LoopOK
  BY DEF Init, LoopOK, States, Intervals, IDLE_INTERVAL
<1>4. PassOK
  BY DEF Init, PassOK
<1>5. FeedOK
  <2>1. answer \in [Tick -> Replies]
    BY <1>2 DEF Init
  <2>2. failures \in 0 .. 3 /\ etag \in Nat /\ cached \in Nat
    BY DEF Init
  <2>3. paused \in BOOLEAN /\ catchUp \in BOOLEAN /\ opened \in BOOLEAN
    BY DEF Init
  <2>4. QED
    BY <2>1, <2>2, <2>3 DEF FeedOK
<1>6. WorldOK
  <2>1. /\ desk \in BOOLEAN /\ hidden \in BOOLEAN
        /\ signedIn \in BOOLEAN /\ verified \in BOOLEAN
    BY DEF Init
  <2>2. /\ lastApply \in Days \cup {Never}
        /\ created \in [Batch -> Days \cup {Never}]
        /\ pending \in SUBSET Batch
    BY DEF Init
  <2>3. version \in Nat /\ day \in Days /\ events \in 0 .. MaxEvents
    BY DEF Init, Days
  <2>4. QED
    BY <2>1, <2>2, <2>3 DEF WorldOK
<1>7. TypeOK
  BY <1>3, <1>4, <1>5, <1>6, TypeParts
<1>8. Alive
  BY DEF Init, Alive, LoopIsAlive
<1>9. CacheOK
  BY <1>1, <1>2 DEF Init, CacheOK, CacheIsTruthful
<1>10. QED
  BY <1>7, <1>8, <1>9 DEF SyncInv

-----------------------------------------------------------------------------
(* Every step keeps it.                                                    *)

\* What the steps that touch neither the cloud nor the remembered feed keep.
LEMMA CacheKept ==
  ASSUME TypeOK, CacheOK, UNCHANGED <<feed, cloud>>,
         \A t \in Tick : answer'[t] = answer[t] \/ answer'[t].kind # "items"
  PROVE  CacheOK'
<1>1. \A t \in Tick : answer'[t].kind = "items" => answer'[t] = answer[t]
  OBVIOUS
<1>2. QED
  BY <1>1 DEF CacheOK, CacheIsTruthful

LEMMA FireSync == SyncInv /\ Fire => SyncInv'
<1> SUFFICES ASSUME SyncInv, Fire PROVE SyncInv'
  OBVIOUS
<1>1. LoopOK /\ PassOK /\ FeedOK /\ WorldOK /\ Alive /\ CacheOK
  BY TypeParts DEF SyncInv
<1>2. PassOK' /\ FeedOK' /\ WorldOK'
  BY <1>1 DEF Fire, PassOK, FeedOK, WorldOK
<1>3. LoopOK' /\ Alive'
  <2>1. CASE Skip
    BY <1>1, <2>1 DEF Fire, Skip, LoopOK, Alive, LoopIsAlive, Intervals,
       PENDING_INTERVAL, IDLE_INTERVAL
  <2>2. CASE ~tickRunning /\ ~hidden
    <3>1. \E t \in Tick : pc[t] = "idle"
      BY <2>2 DEF Fire, Skip
    <3>2. PICK t \in Tick : t = CHOOSE u \in Tick : pc[u] = "idle"
      BY <3>1
    <3>3. /\ timer' = "spent" /\ delay' = 0
          /\ pc' = [pc EXCEPT ![t] = "session"]
          /\ UNCHANGED <<tickRunning, resched, desk>>
      BY <2>2, <3>2 DEF Fire, Skip
    <3>4. pc'[t] # "idle"
      BY <1>1, <3>3 DEF LoopOK
    <3>5. QED
      BY <1>1, <3>3, <3>4 DEF LoopOK, Alive, LoopIsAlive, States
  <2>3. QED
    BY <2>1, <2>2 DEF Fire
<1>4. CacheOK'
  BY <1>1, CacheKept, TypeParts DEF Fire
<1>5. QED
  BY <1>2, <1>3, <1>4, TypePartsNext DEF SyncInv

LEMMA SessionKnownSync ==
  ASSUME NEW t \in Tick, SyncInv, SessionKnown(t) PROVE SyncInv'
<1>1. LoopOK /\ PassOK /\ FeedOK /\ WorldOK /\ Alive /\ CacheOK
  BY TypeParts DEF SyncInv
<1>2. PassOK' /\ FeedOK' /\ WorldOK'
  <2>1. PassOK' /\ WorldOK'
    BY <1>1 DEF SessionKnown, PassOK, WorldOK
  <2>2. failures' \in 0 .. 3
    BY <1>1 DEF SessionKnown, FeedOK
  <2>3. paused' \in BOOLEAN
    BY <1>1, Zenon DEF SessionKnown, FeedOK
  <2>4. UNCHANGED <<answer, feed, catchUp, opened>>
    BY DEF SessionKnown
  <2>5. FeedOK'
    BY <1>1, <2>2, <2>3, <2>4 DEF FeedOK
  <2>6. QED
    BY <2>1, <2>5
<1>3. LoopOK' /\ Alive'
  <2>1. CASE pc' = [pc EXCEPT ![t] = "idle"]
    BY <1>1, <2>1 DEF SessionKnown, LoopOK, Alive, LoopIsAlive, States,
       Intervals, IDLE_INTERVAL
  <2>2. CASE pc' = [pc EXCEPT ![t] = "book"]
    <3>1. pc'[t] = "book" /\ UNCHANGED <<timer, delay, resched, desk>> /\ tickRunning' \in BOOLEAN
      BY <1>1, <2>2 DEF SessionKnown, LoopOK
    <3>2. QED
      BY <1>1, <2>2, <3>1 DEF LoopOK, Alive, LoopIsAlive, States
  <2>3. QED
    BY <2>1, <2>2 DEF SessionKnown
<1>4. CacheOK'
  BY <1>1, CacheKept, TypeParts DEF SessionKnown
<1>5. QED
  BY <1>2, <1>3, <1>4, TypePartsNext DEF SyncInv

LEMMA BookMissingSync ==
  ASSUME NEW t \in Tick, SyncInv, BookMissing(t) PROVE SyncInv'
<1>1. LoopOK /\ PassOK /\ FeedOK /\ WorldOK /\ Alive /\ CacheOK
  BY TypeParts DEF SyncInv
<1>2. PassOK' /\ FeedOK' /\ WorldOK'
  BY <1>1 DEF BookMissing, PassOK, FeedOK, WorldOK
<1>3. LoopOK' /\ Alive'
  <2>1. IDLE_INTERVAL \in Intervals /\ Finish(t, IDLE_INTERVAL)
    BY DEF BookMissing, IDLE_INTERVAL, Intervals
  <2>2. QED
    BY <1>1, <2>1, FinishAlive
<1>4. CacheOK'
  BY <1>1, CacheKept, TypeParts DEF BookMissing
<1>5. QED
  BY <1>2, <1>3, <1>4, TypePartsNext DEF SyncInv

LEMMA FeedAnsweredSync ==
  ASSUME NEW t \in Tick, SyncInv, FeedAnswered(t) \/ FeedLost(t) PROVE SyncInv'
<1>1. LoopOK /\ PassOK /\ FeedOK /\ WorldOK /\ Alive /\ CacheOK
  BY TypeParts DEF SyncInv
<1> DEFINE reply == answer'[t]
<1>2. /\ reply \in Replies
      /\ reply.kind = "items" => reply.v = version /\ reply.n = Cardinality(pending)
      /\ answer' = [answer EXCEPT ![t] = reply]
  <2>1. Cardinality(pending) \in Nat
    BY <1>1, PendingCount
  <2>2. QED
    BY <1>1, <2>1 DEF FeedAnswered, FeedLost, NoReply, Replies, FeedOK, WorldOK
<1>3. LoopOK' /\ Alive'
  BY <1>1 DEF FeedAnswered, FeedLost, LoopOK, Alive, LoopIsAlive, States
<1>4. PassOK' /\ WorldOK'
  BY <1>1 DEF FeedAnswered, FeedLost, PassOK, WorldOK
<1>5. FeedOK'
  <2> HIDE DEF reply
  <2> QED BY <1>1, <1>2 DEF FeedAnswered, FeedLost, FeedOK
<1>6. CacheOK'
  <2>1. UNCHANGED <<etag, cached, pending, version>>
    BY DEF FeedAnswered, FeedLost
  <2>2. \A u \in Tick : u # t => answer'[u] = answer[u]
    BY <1>1, <1>2 DEF FeedOK
  <2>3. version \in Nat
    BY <1>1 DEF WorldOK
  <2>4. QED
    BY <1>1, <1>2, <2>1, <2>2, <2>3 DEF CacheOK, CacheIsTruthful
<1>7. QED
  BY <1>3, <1>4, <1>5, <1>6, TypePartsNext DEF SyncInv

LEMMA FeedFailedSync ==
  ASSUME NEW t \in Tick, SyncInv, FeedFailed(t) PROVE SyncInv'
<1>1. LoopOK /\ PassOK /\ FeedOK /\ WorldOK /\ Alive /\ CacheOK
  BY TypeParts DEF SyncInv
<1>2. failures' \in 0 .. 3 /\ cached \in Nat
  BY <1>1, FailureType DEF FeedFailed, FeedOK
<1>3. LoopOK' /\ Alive'
  <2>1. nextInterval(cached, failures') \in Intervals /\ Finish(t, nextInterval(cached, failures'))
    BY <1>2, IntervalType DEF FeedFailed
  <2>2. QED
    BY <1>1, <2>1, FinishAlive
<1>4. PassOK' /\ WorldOK'
  BY <1>1 DEF FeedFailed, PassOK, WorldOK
<1>5. NoReply \in Replies /\ NoReply.kind # "items"
  BY DEF NoReply, Replies
<1>6. FeedOK'
  BY <1>1, <1>2, <1>5 DEF FeedFailed, FeedOK
<1>7. CacheOK'
  <2>1. \A u \in Tick : answer'[u] = answer[u] \/ answer'[u].kind # "items"
    BY <1>1, <1>5 DEF FeedFailed, FeedOK
  <2>2. QED
    BY <1>1, <2>1, CacheKept, TypeParts DEF FeedFailed
<1>8. QED
  BY <1>3, <1>4, <1>6, <1>7, TypePartsNext DEF SyncInv

LEMMA FeedItemsSync ==
  ASSUME NEW t \in Tick, SyncInv, FeedItems(t) PROVE SyncInv'
<1>1. LoopOK /\ PassOK /\ FeedOK /\ WorldOK /\ Alive /\ CacheOK
  BY TypeParts DEF SyncInv
<1>2. answer[t].n \in Nat /\ answer[t].v \in Nat
  BY <1>1 DEF FeedOK, Replies
<1>3. LoopOK' /\ Alive' /\ catchUp' \in BOOLEAN
  <2>1. nextInterval(answer[t].n, 0) \in Intervals
    BY <1>2, IntervalType
  <2>2. RunApplyIfNeeded(t, answer[t].n, nextInterval(answer[t].n, 0)) /\ UNCHANGED desk
    BY DEF FeedItems
  <2>3. catchUp \in BOOLEAN
    BY <1>1 DEF FeedOK
  <2>4. QED
    BY <1>1, <1>2, <2>1, <2>2, <2>3, RunApplyAlive
<1>4. PassOK' /\ WorldOK'
  BY <1>1 DEF FeedItems, PassOK, WorldOK
<1>5. NoReply \in Replies /\ NoReply.kind # "items"
  BY DEF NoReply, Replies
<1>6. FeedOK'
  BY <1>1, <1>2, <1>3, <1>5 DEF FeedItems, FeedOK
<1>7. CacheOK'
  <2>1. UNCHANGED <<pending, version>> /\ etag' = answer[t].v /\ cached' = answer[t].n
    BY DEF FeedItems
  <2>2. answer[t].kind = "items"
    BY DEF FeedItems
  <2>3. \A u \in Tick : answer'[u] = answer[u] \/ answer'[u].kind # "items"
    BY <1>1, <1>5 DEF FeedItems, FeedOK
  <2>4. \A u \in Tick : answer'[u].kind = "items" => answer'[u] = answer[u]
    BY <2>3
  <2>5. QED
    BY <1>1, <2>1, <2>2, <2>4 DEF CacheOK, CacheIsTruthful
<1>8. QED
  BY <1>3, <1>4, <1>6, <1>7, TypePartsNext DEF SyncInv

LEMMA FeedNotModifiedSync ==
  ASSUME NEW t \in Tick, SyncInv, FeedNotModified(t) PROVE SyncInv'
<1>1. LoopOK /\ PassOK /\ FeedOK /\ WorldOK /\ Alive /\ CacheOK
  BY TypeParts DEF SyncInv
<1>2. cached \in Nat /\ catchUp \in BOOLEAN
  BY <1>1 DEF FeedOK
<1>3. LoopOK' /\ Alive' /\ catchUp' \in BOOLEAN
  <2>1. nextInterval(cached, 0) \in Intervals
    BY <1>2, IntervalType
  <2>2. RunApplyIfNeeded(t, cached, nextInterval(cached, 0)) /\ UNCHANGED desk
    BY DEF FeedNotModified
  <2>3. QED
    BY <1>1, <1>2, <2>1, <2>2, RunApplyAlive
<1>4. PassOK' /\ WorldOK'
  BY <1>1 DEF FeedNotModified, PassOK, WorldOK
<1>5. NoReply \in Replies /\ NoReply.kind # "items"
  BY DEF NoReply, Replies
<1>6. FeedOK'
  BY <1>1, <1>3, <1>5 DEF FeedNotModified, FeedOK
<1>7. CacheOK'
  <2>1. \A u \in Tick : answer'[u] = answer[u] \/ answer'[u].kind # "items"
    BY <1>1, <1>5 DEF FeedNotModified, FeedOK
  <2>2. QED
    BY <1>1, <2>1, CacheKept, TypeParts DEF FeedNotModified
<1>8. QED
  BY <1>3, <1>4, <1>6, <1>7, TypePartsNext DEF SyncInv

LEMMA ListRefusedSync ==
  ASSUME NEW t \in Tick, SyncInv, ListRefused(t) PROVE SyncInv'
<1>1. LoopOK /\ PassOK /\ FeedOK /\ WorldOK /\ Alive /\ CacheOK
  BY TypeParts DEF SyncInv
<1>2. LoopOK' /\ Alive'
  BY <1>1, EndPassAlive DEF ListRefused
<1>3. PassOK' /\ WorldOK'
  BY <1>1 DEF ListRefused, PassOK, WorldOK
<1>4. FeedOK'
  BY <1>1 DEF ListRefused, FeedOK
<1>5. CacheOK'
  BY <1>1, CacheKept, TypeParts DEF ListRefused
<1>6. QED
  BY <1>2, <1>3, <1>4, <1>5, TypePartsNext DEF SyncInv

LEMMA ListUselessSync ==
  ASSUME NEW t \in Tick, SyncInv, ListUseless(t) \/ ListBlocked(t) PROVE SyncInv'
<1>1. LoopOK /\ PassOK /\ FeedOK /\ WorldOK /\ Alive /\ CacheOK
  BY TypeParts DEF SyncInv
<1>2. LoopOK' /\ Alive'
  BY <1>1, EndPassAlive DEF ListUseless, ListBlocked
<1>3. PassOK' /\ WorldOK'
  BY <1>1 DEF ListUseless, ListBlocked, PassOK, WorldOK
<1>4. FeedOK'
  BY <1>1 DEF ListUseless, ListBlocked, FeedOK
<1>5. CacheOK'
  BY <1>1, CacheKept, TypeParts DEF ListUseless, ListBlocked
<1>6. QED
  BY <1>2, <1>3, <1>4, <1>5, TypePartsNext DEF SyncInv

LEMMA ListAllowedSync ==
  ASSUME NEW t \in Tick, SyncInv, ListAllowed(t) PROVE SyncInv'
<1>1. LoopOK /\ PassOK /\ FeedOK /\ WorldOK /\ Alive /\ CacheOK
  BY TypeParts DEF SyncInv
<1>2. LoopOK' /\ Alive'
  BY <1>1 DEF ListAllowed, LoopOK, Alive, LoopIsAlive, States
<1>3. PassOK' /\ WorldOK'
  BY <1>1 DEF ListAllowed, PassOK, WorldOK
<1>4. FeedOK'
  BY <1>1 DEF ListAllowed, FeedOK
<1>5. CacheOK'
  BY <1>1, CacheKept, TypeParts DEF ListAllowed
<1>6. QED
  BY <1>2, <1>3, <1>4, <1>5, TypePartsNext DEF SyncInv

LEMMA TickThrowsSync ==
  ASSUME NEW t \in Tick, SyncInv, TickThrows(t) PROVE SyncInv'
<1>1. LoopOK /\ PassOK /\ FeedOK /\ WorldOK /\ Alive /\ CacheOK
  BY TypeParts DEF SyncInv
<1>2. failures' \in 0 .. 3 /\ cached \in Nat
  BY <1>1, FailureType DEF TickThrows, FeedOK
<1>3. LoopOK' /\ Alive'
  <2>1. nextInterval(cached, failures') \in Intervals /\ Finish(t, nextInterval(cached, failures'))
    BY <1>2, IntervalType DEF TickThrows
  <2>2. QED
    BY <1>1, <2>1, FinishAlive
<1>4. PassOK' /\ WorldOK'
  BY <1>1 DEF TickThrows, PassOK, WorldOK
<1>5. FeedOK'
  BY <1>1, <1>2 DEF TickThrows, FeedOK
<1>6. CacheOK'
  BY <1>1, CacheKept, TypeParts DEF TickThrows
<1>7. QED
  BY <1>3, <1>4, <1>5, <1>6, TypePartsNext DEF SyncInv

LEMMA BulkRefusedSync ==
  ASSUME NEW p \in Passes, SyncInv, BulkRefused(p) PROVE SyncInv'
<1>1. LoopOK /\ PassOK /\ FeedOK /\ WorldOK /\ Alive /\ CacheOK
  BY TypeParts DEF SyncInv
<1>2. LoopOK' /\ Alive'
  BY <1>1, EndPassAlive DEF BulkRefused
<1>3. PassOK' /\ WorldOK'
  BY <1>1 DEF BulkRefused, PassOK, WorldOK
<1>4. FeedOK'
  BY <1>1 DEF BulkRefused, FeedOK
<1>5. CacheOK'
  BY <1>1, CacheKept, TypeParts DEF BulkRefused
<1>6. QED
  BY <1>2, <1>3, <1>4, <1>5, TypePartsNext DEF SyncInv

LEMMA ApplyingSync ==
  ASSUME NEW p \in Passes, SyncInv, BulkFetched(p) \/ ApplyFailed(p) PROVE SyncInv'
<1>1. LoopOK /\ PassOK /\ FeedOK /\ WorldOK /\ Alive /\ CacheOK
  BY TypeParts DEF SyncInv
<1>2. LoopOK' /\ PassOK' /\ Alive'
  <2>1. got[p] \in SUBSET Batch
    BY <1>1 DEF PassOK
  <2>2. ApplyNext(p, got[p]) /\ UNCHANGED desk
    BY DEF BulkFetched, ApplyFailed
  <2>3. QED
    BY <1>1, <2>1, <2>2, ApplyNextAlive
<1>3. WorldOK'
  BY <1>1 DEF BulkFetched, ApplyFailed, WorldOK
<1>4. FeedOK'
  BY <1>1 DEF BulkFetched, ApplyFailed, FeedOK
<1>5. CacheOK'
  BY <1>1, CacheKept, TypeParts DEF BulkFetched, ApplyFailed
<1>6. QED
  BY <1>2, <1>3, <1>4, <1>5, TypePartsNext DEF SyncInv

\* A new version of the feed is nobody's ETag yet.
LEMMA CacheOutdated ==
  ASSUME TypeOK, CacheOK, UNCHANGED <<feed, answer>>,
         \/ version' = version + 1
         \/ version' = version /\ pending' = pending
  PROVE  CacheOK'
<1>1. /\ etag \in Nat /\ version \in Nat
      /\ \A t \in Tick : answer[t].v \in Nat
  BY DEF TypeOK, Replies
<1>2. CASE version' = version + 1
  BY <1>1, <1>2 DEF CacheOK, CacheIsTruthful
<1>3. CASE version' = version /\ pending' = pending
  BY <1>3 DEF CacheOK, CacheIsTruthful
<1>4. QED
  BY <1>2, <1>3

LEMMA LandedSync ==
  ASSUME NEW p \in Passes, SyncInv, Landed(p) PROVE SyncInv'
<1>1. LoopOK /\ PassOK /\ FeedOK /\ WorldOK /\ Alive /\ CacheOK
  BY TypeParts DEF SyncInv
<1>2. LoopOK' /\ PassOK' /\ Alive'
  <2>1. got[p] \in SUBSET Batch
    BY <1>1 DEF PassOK
  <2>2. ApplyNext(p, got[p]) /\ UNCHANGED desk
    BY DEF Landed
  <2>3. QED
    BY <1>1, <2>1, <2>2, ApplyNextAlive
<1>3. WorldOK'
  BY <1>1 DEF Landed, WorldOK
<1>4. FeedOK'
  BY <1>1 DEF Landed, FeedOK
<1>5. CacheOK'
  <2>1. \/ version' = version + 1
        \/ version' = version /\ pending' = pending
    BY DEF Landed
  <2>2. QED
    BY <1>1, <2>1, CacheOutdated, TypeParts DEF Landed
<1>6. QED
  BY <1>2, <1>3, <1>4, <1>5, TypePartsNext DEF SyncInv

LEMMA ArriveSync == SyncInv /\ Arrive => SyncInv'
<1> SUFFICES ASSUME SyncInv, Arrive PROVE SyncInv'
  OBVIOUS
<1>1. LoopOK /\ PassOK /\ FeedOK /\ WorldOK /\ Alive /\ CacheOK
  BY TypeParts DEF SyncInv
<1>2. PICK b \in Batch : b = CHOOSE a \in Batch : created[a] = Never
  BY DEF Arrive
<1>3. LoopOK' /\ Alive'
  BY <1>1 DEF Arrive, LoopOK, Alive, LoopIsAlive
<1>4. PassOK' /\ FeedOK'
  BY <1>1 DEF Arrive, PassOK, FeedOK
<1>5. WorldOK'
  <2>1. created' = [created EXCEPT ![b] = day] /\ pending' = pending \cup {b}
    BY <1>2 DEF Arrive
  <2>2. created' \in [Batch -> Days \cup {Never}] /\ pending' \in SUBSET Batch
    BY <1>1, <2>1 DEF WorldOK
  <2>3. QED
    BY <1>1, <2>2 DEF Arrive, WorldOK
<1>6. CacheOK'
  BY <1>1, CacheOutdated, TypeParts DEF Arrive
<1>7. QED
  BY <1>3, <1>4, <1>5, <1>6, TypePartsNext DEF SyncInv

LEMMA DeskSync ==
  SyncInv /\ (OpenDesk \/ CloseDesk \/ RefreshFeedsNow \/ Retry) => SyncInv'
<1> SUFFICES ASSUME SyncInv, OpenDesk \/ CloseDesk \/ RefreshFeedsNow \/ Retry
             PROVE  SyncInv'
  OBVIOUS
<1>1. LoopOK /\ PassOK /\ FeedOK /\ WorldOK /\ Alive /\ CacheOK
  BY TypeParts DEF SyncInv
<1>2. LoopOK' /\ Alive'
  <2>1. CASE OpenDesk
    BY <1>1, <2>1 DEF OpenDesk, LoopOK, Alive, LoopIsAlive
  <2>2. CASE CloseDesk
    BY <1>1, <2>2 DEF CloseDesk, LoopOK, Alive, LoopIsAlive
  <2>3. CASE RefreshFeedsNow \/ Retry
    BY <1>1, <2>3 DEF RefreshFeedsNow, Retry, Nudge, LoopOK, Alive, LoopIsAlive
  <2>4. QED
    BY <2>1, <2>2, <2>3
<1>3. PassOK' /\ FeedOK'
  BY <1>1 DEF OpenDesk, CloseDesk, RefreshFeedsNow, Retry, PassOK, FeedOK
<1>4. WorldOK'
  <2>1. desk' \in BOOLEAN
    BY <1>1, Zenon DEF OpenDesk, CloseDesk, RefreshFeedsNow, Retry, WorldOK
  <2>2. UNCHANGED <<hidden, signedIn, verified, lastApply, cloud, day>>
    BY DEF OpenDesk, CloseDesk, RefreshFeedsNow, Retry
  <2>3. events' \in 0 .. MaxEvents
    BY <1>1 DEF OpenDesk, CloseDesk, RefreshFeedsNow, Retry, WorldOK
  <2>4. QED
    BY <1>1, <2>1, <2>2, <2>3 DEF WorldOK
<1>5. CacheOK'
  BY <1>1, CacheKept, TypeParts DEF OpenDesk, CloseDesk, RefreshFeedsNow, Retry
<1>6. QED
  BY <1>2, <1>3, <1>4, <1>5, TypePartsNext DEF SyncInv

\* The steps of the world that do not touch the loop.
Outside == PagePull \/ Hide \/ Show \/ SignOut \/ SignIn \/ TotpWanted \/ TotpGiven \/ NextDay

LEMMA OutsideSync == SyncInv /\ Outside => SyncInv'
<1> SUFFICES ASSUME SyncInv, Outside PROVE SyncInv'
  OBVIOUS
<1> USE DEF Outside, PagePull, Hide, Show, SignOut, SignIn, TotpWanted, TotpGiven, NextDay
<1>1. LoopOK /\ PassOK /\ FeedOK /\ WorldOK /\ Alive /\ CacheOK
  BY TypeParts DEF SyncInv
<1>2. LoopOK' /\ Alive'
  BY <1>1 DEF LoopOK, Alive, LoopIsAlive, States
<1>3. PassOK'
  BY <1>1 DEF PassOK, WorldOK
<1>4. FeedOK'
  BY <1>1 DEF FeedOK
<1>5. WorldOK'
  <2>1. /\ hidden' \in BOOLEAN /\ signedIn' \in BOOLEAN /\ verified' \in BOOLEAN
    BY <1>1, Zenon DEF WorldOK
  <2>2. UNCHANGED <<desk, lastApply, cloud>>
    OBVIOUS
  <2>3. day' \in Days /\ events' \in 0 .. MaxEvents
    BY <1>1 DEF WorldOK, Days
  <2>4. QED
    BY <1>1, <2>1, <2>2, <2>3 DEF WorldOK
<1>6. CacheOK'
  BY <1>1, CacheKept, TypeParts
<1>7. QED
  BY <1>2, <1>3, <1>4, <1>5, <1>6, TypePartsNext DEF SyncInv

LEMMA StepSync == SyncInv /\ [Next]_vars => SyncInv'
<1> SUFFICES ASSUME SyncInv, [Next]_vars PROVE SyncInv'
  OBVIOUS
<1>1. CASE Fire
  BY <1>1, FireSync
<1>2. ASSUME NEW t \in Tick, TickStep(t) PROVE SyncInv'
  BY <1>2, SessionKnownSync, BookMissingSync, FeedAnsweredSync, FeedFailedSync,
     FeedItemsSync, FeedNotModifiedSync, ListRefusedSync, ListUselessSync,
     ListAllowedSync, TickThrowsSync
     DEF TickStep
<1>3. ASSUME NEW p \in Passes, PassStep(p) PROVE SyncInv'
  BY <1>3, BulkRefusedSync, ApplyingSync, LandedSync DEF PassStep
<1>4. CASE World
  BY <1>4, ArriveSync, DeskSync, OutsideSync DEF World, Outside
<1>5. CASE UNCHANGED vars
  BY <1>5 DEF vars, SyncInv, TypeOK, Alive, LoopIsAlive, CacheOK, CacheIsTruthful
<1>6. QED
  BY <1>1, <1>2, <1>3, <1>4, <1>5 DEF Next

-----------------------------------------------------------------------------
(* The guard: what let a pass through stays true while it has a batch left. *)

Going(p)  == pc[p] \in {"bulk", "apply"}
Listed(p) == got[p] \cup {cur[p]}

GapInv ==
  /\ \A b \in Batch : created[b] <= day
  /\ \A b \in pending : created[b] # Never
  /\ \A p \in Passes : \A b \in Listed(p) \cap Batch : created[b] # Never
  /\ \A t \in Tick : Going(t) /\ Listed(t) \cap pending # {} => ~GapDetected(pending)

\* A list shrinks and a pass goes on or ends; no batch comes or goes.
Shrinks ==
  /\ \A p \in Passes : Listed(p)' \subseteq Listed(p) \cup {NONE}
  /\ \A t \in Tick : Going(t)' => Going(t)

LEMMA GapKept ==
  ASSUME TypeOK, GapInv, Shrinks, UNCHANGED <<cloud, lastApply>>, day' \in Nat, day <= day'
  PROVE  GapInv'
<1>1. /\ created \in [Batch -> Days \cup {Never}] /\ pending \in SUBSET Batch /\ day \in Nat
      /\ Tick \subseteq Passes
  BY DEF TypeOK, Days
<1>2. \A b \in Batch : created'[b] <= day'
  BY <1>1 DEF GapInv, Days, Never
<1>3. \A p \in Passes : \A b \in Listed(p)' \cap Batch : created'[b] # Never
  BY DEF GapInv, Shrinks
<1>4. ASSUME NEW t \in Tick, Going(t)', Listed(t)' \cap pending' # {}
      PROVE  ~GapDetected(pending)'
  <2>1. Going(t) /\ Listed(t) \cap pending # {}
    BY <1>1, <1>4 DEF Shrinks
  <2>2. ~GapDetected(pending)
    BY <2>1 DEF GapInv
  <2>3. QED
    BY <2>2 DEF GapDetected
<1>5. QED
  BY <1>2, <1>3, <1>4 DEF GapInv

\* Ending a pass, and going to the next batch, only shrinks.
LEMMA EndPassShrinks ==
  ASSUME TypeOK, NEW p \in Passes, EndPass(p), got' = [got EXCEPT ![p] = {}] \/ UNCHANGED got,
         cur' = [cur EXCEPT ![p] = NONE] \/ UNCHANGED cur
  PROVE  Shrinks
<1>1. pc' = [pc EXCEPT ![p] = "idle"]
  BY DEF EndPass, Finish
<1>2. \A q \in Passes : got'[q] \subseteq got[q] /\ cur'[q] \in {cur[q], NONE}
  BY DEF TypeOK
<1>3. \A t \in Tick : Going(t)' => Going(t)
  BY <1>1 DEF TypeOK, Going
<1>4. QED
  BY <1>2, <1>3 DEF Shrinks, Listed

LEMMA ApplyNextShrinks ==
  ASSUME TypeOK, NEW p \in Passes, Going(p), ApplyNext(p, got[p])
  PROVE  Shrinks
<1> DEFINE free == got[p] \ {cur[q] : q \in Passes \ {p}}
<1>1. CASE free = {}
  BY <1>1, EndPassShrinks DEF ApplyNext
<1>2. CASE free # {}
  <2>1. PICK b \in free : /\ cur' = [cur EXCEPT ![p] = b]
                          /\ got' = [got EXCEPT ![p] = got[p] \ {b}]
                          /\ pc' = [pc EXCEPT ![p] = "apply"]
    BY <1>2 DEF ApplyNext
  <2>2. b \in got[p]
    BY <2>1
  <2>3. \A q \in Passes : got'[q] \subseteq got[q] /\ cur'[q] \in got[q] \cup {cur[q]}
    BY <2>1, <2>2 DEF TypeOK
  <2>4. \A t \in Tick : Going(t)' => Going(t)
    BY <2>1 DEF TypeOK, Going
  <2>5. QED
    BY <2>3, <2>4 DEF Shrinks, Listed
<1>3. QED
  BY <1>1, <1>2

LEMMA GapLanded ==
  ASSUME TypeOK, GapInv, NEW p \in Passes, Landed(p) PROVE GapInv'
<1>1. Going(p) /\ ApplyNext(p, got[p])
  BY DEF Landed, Going
<1>2. Shrinks
  BY <1>1, ApplyNextShrinks
<1>3. /\ created \in [Batch -> Days \cup {Never}] /\ pending \in SUBSET Batch
      /\ day \in Nat /\ day \in Days /\ Tick \subseteq Passes
  BY DEF TypeOK, Days
<1>4. /\ pending' \subseteq pending /\ created' = created
      /\ day' = day /\ lastApply' = day
  BY DEF Landed
<1>5. \A t \in Tick : Listed(t)' \cap pending' # {} => ~GapDetected(pending)'
  <2>1. \A b \in pending' : ~(created'[b] - lastApply' > 1)
    <3> SUFFICES ASSUME NEW b \in pending' PROVE ~(created[b] - day > 1)
      BY <1>4
    <3>1. b \in Batch /\ created[b] <= day /\ created[b] \in Int
      BY <1>3, <1>4 DEF GapInv, Days, Never
    <3>2. QED
      BY <1>3, <3>1
  <2>2. QED
    BY <2>1 DEF GapDetected
<1>6. \A b \in Batch : created'[b] <= day'
  BY <1>4 DEF GapInv
<1>7. \A b \in pending' : created'[b] # Never
  BY <1>4 DEF GapInv
<1>8. \A q \in Passes : \A b \in Listed(q)' \cap Batch : created'[b] # Never
  BY <1>2, <1>4 DEF GapInv, Shrinks
<1>9. QED
  BY <1>5, <1>6, <1>7, <1>8 DEF GapInv

LEMMA GapArrive ==
  ASSUME TypeOK, GapInv, Arrive PROVE GapInv'
<1>1. PICK b \in Batch : created[b] = Never /\ b = CHOOSE a \in Batch : created[a] = Never
  BY DEF Arrive
<1>2. /\ created' = [created EXCEPT ![b] = day] /\ pending' = pending \cup {b}
      /\ UNCHANGED <<pc, got, cur, lastApply, day>>
  BY <1>1 DEF Arrive
<1>3. /\ created \in [Batch -> Days \cup {Never}] /\ pending \in SUBSET Batch
      /\ day \in Nat /\ Tick \subseteq Passes
  BY DEF TypeOK, Days
<1>4. \A a \in Batch : created'[a] = IF a = b THEN day ELSE created[a]
  BY <1>2, <1>3
<1>5. \A a \in Batch : created'[a] <= day'
  BY <1>2, <1>3, <1>4 DEF GapInv
<1>6. day # Never
  BY <1>3 DEF Never
<1>7. \A a \in pending' : created'[a] # Never
  BY <1>2, <1>3, <1>4, <1>6 DEF GapInv
<1>8. \A p \in Passes : Listed(p)' = Listed(p)
  BY <1>2 DEF Listed
<1>9. \A p \in Passes : \A a \in Listed(p)' \cap Batch : created'[a] # Never
  BY <1>4, <1>6, <1>8 DEF GapInv
<1>10. \A t \in Tick : b \notin Listed(t)
  BY <1>1, <1>3 DEF GapInv
<1>11. ASSUME NEW t \in Tick, Going(t)', Listed(t)' \cap pending' # {}
       PROVE  ~GapDetected(pending)'
  <2>1. Going(t) /\ Listed(t) \cap pending # {}
    BY <1>2, <1>3, <1>8, <1>10, <1>11 DEF Going
  <2>2. ~GapDetected(pending)
    BY <2>1 DEF GapInv
  <2>3. \A a \in pending : created'[a] = created[a]
    BY <1>1, <1>3, <1>4 DEF GapInv
  <2>4. QED
    BY <1>2, <2>2, <2>3 DEF GapDetected
<1>12. QED
  BY <1>5, <1>7, <1>9, <1>11 DEF GapInv

\* The lists a pass starts with: the guard has just let the tick through.
LEMMA GapListed ==
  ASSUME TypeOK, GapInv,
         (\E t \in Tick : ListAllowed(t)) \/ PagePull
  PROVE  GapInv'
<1>1. UNCHANGED <<cloud, lastApply, day, cur>>
  BY DEF ListAllowed, PagePull
<1>2. PICK p \in Passes : /\ got' = [got EXCEPT ![p] = pending]
                          /\ pc' = [pc EXCEPT ![p] = "bulk"]
                          /\ p # Page => ~GapDetected(pending)
  BY DEF ListAllowed, PagePull
<1>3. pending \in SUBSET Batch /\ Tick \subseteq Passes
  BY DEF TypeOK
<1>4. \A q \in Passes : Listed(q)' \subseteq Listed(q) \cup pending
  BY <1>1, <1>2 DEF Listed, TypeOK
<1>5. \A q \in Passes : \A b \in Listed(q)' \cap Batch : created'[b] # Never
  BY <1>1, <1>4 DEF GapInv
<1>6. ASSUME NEW t \in Tick, Going(t)', Listed(t)' \cap pending' # {}
      PROVE  ~GapDetected(pending)'
  <2>1. CASE t = p
    BY <1>1, <1>2, <2>1 DEF GapDetected
  <2>2. CASE t # p
    <3>1. Going(t) /\ Listed(t)' = Listed(t)
      BY <1>1, <1>2, <1>3, <1>6, <2>2 DEF Going, Listed, TypeOK
    <3>2. ~GapDetected(pending)
      BY <1>1, <1>6, <3>1 DEF GapInv
    <3>3. QED
      BY <1>1, <3>2 DEF GapDetected
  <2>3. QED
    BY <2>1, <2>2
<1>7. QED
  BY <1>1, <1>5, <1>6 DEF GapInv

\* The other steps of a tick.
LEMMA GapTick ==
  ASSUME TypeOK, GapInv, NEW t \in Tick, TickStep(t), ~ListAllowed(t)
  PROVE  GapInv'
<1>1. UNCHANGED <<cloud, lastApply, day, got, cur>>
  BY DEF TickStep, SessionKnown, BookMissing, FeedAnswered, FeedLost, FeedFailed,
     FeedItems, FeedNotModified, ListRefused, ListUseless, ListBlocked, TickThrows
<1>2. day \in Nat
  BY DEF TypeOK, Days
<1>3. \E s \in {"idle", "book", "answered", "list"} : pc' = [pc EXCEPT ![t] = s]
  <2>1. t # Page
    OBVIOUS
  <2>2. QED
    BY <2>1 DEF TickStep, SessionKnown, BookMissing, FeedAnswered, FeedLost,
       FeedFailed, FeedItems, FeedNotModified, RunApplyIfNeeded, ListRefused,
       ListUseless, ListBlocked, TickThrows, EndPass, Finish
<1>4. \A u \in Tick : Going(u)' => Going(u)
  BY <1>3 DEF Going, TypeOK
<1>5. Shrinks
  BY <1>1, <1>4 DEF Shrinks, Listed
<1>6. QED
  BY <1>1, <1>2, <1>5, GapKept

LEMMA GapPass ==
  ASSUME TypeOK, GapInv, NEW p \in Passes, PassStep(p) PROVE GapInv'
<1>1. day \in Nat
  BY DEF TypeOK, Days
<1>2. CASE BulkRefused(p)
  <2>1. /\ EndPass(p) /\ got' = [got EXCEPT ![p] = {}]
        /\ UNCHANGED <<cloud, lastApply, day, cur>>
    BY <1>2 DEF BulkRefused
  <2>2. Shrinks
    BY <2>1, EndPassShrinks
  <2>3. QED
    BY <1>1, <2>1, <2>2, GapKept
<1>3. CASE BulkFetched(p) \/ ApplyFailed(p)
  <2>1. Going(p) /\ ApplyNext(p, got[p]) /\ UNCHANGED <<cloud, lastApply, day>>
    BY <1>3 DEF BulkFetched, ApplyFailed, Going
  <2>2. QED
    BY <1>1, <2>1, ApplyNextShrinks, GapKept
<1>4. CASE Landed(p)
  BY <1>4, GapLanded
<1>5. QED
  BY <1>2, <1>3, <1>4 DEF PassStep

LEMMA GapWorld ==
  ASSUME TypeOK, GapInv, World PROVE GapInv'
<1>1. CASE Arrive
  BY <1>1, GapArrive
<1>2. CASE PagePull
  BY <1>2, GapListed
<1>3. CASE ~Arrive /\ ~PagePull
  <2>1. UNCHANGED <<cloud, lastApply, pc, got, cur>> /\ (day' = day \/ day' = day + DayStep)
    BY <1>3 DEF World, OpenDesk, CloseDesk, RefreshFeedsNow, Retry, Hide, Show,
       SignOut, SignIn, TotpWanted, TotpGiven, NextDay
  <2>2. day \in Nat
    BY DEF TypeOK, Days
  <2>3. Shrinks
    BY <2>1 DEF Shrinks, Listed, Going
  <2>4. QED
    BY <2>1, <2>2, <2>3, GapKept
<1>4. QED
  BY <1>1, <1>2, <1>3

LEMMA StepGap == TypeOK /\ GapInv /\ [Next]_vars => GapInv'
<1> SUFFICES ASSUME TypeOK, GapInv, [Next]_vars PROVE GapInv'
  OBVIOUS
<1>1. CASE Fire
  <2>1. /\ UNCHANGED <<cloud, lastApply, day, got, cur>>
        /\ \A t \in Tick : Going(t)' => Going(t)
    BY <1>1 DEF Fire, Skip, Going, TypeOK
  <2>2. day \in Nat
    BY DEF TypeOK, Days
  <2>3. Shrinks
    BY <2>1 DEF Shrinks, Listed
  <2>4. QED
    BY <2>1, <2>2, <2>3, GapKept
<1>2. ASSUME NEW t \in Tick, TickStep(t) PROVE GapInv'
  BY <1>2, GapTick, GapListed
<1>3. ASSUME NEW p \in Passes, PassStep(p) PROVE GapInv'
  BY <1>3, GapPass
<1>4. CASE World
  BY <1>4, GapWorld
<1>5. CASE UNCHANGED vars
  BY <1>5 DEF vars, GapInv, Going, Listed, GapDetected
<1>6. QED
  BY <1>1, <1>2, <1>3, <1>4, <1>5 DEF Next

-----------------------------------------------------------------------------
(* The theorems.                                                           *)

\* Every reachable state satisfies the invariant, whatever overlaps.
THEOREM SpecInv == Spec => []SyncInv
BY InitSync, StepSync, PTL DEF Spec

\* Every variable keeps its type; every interval is one the code can compute.
THEOREM TypeCorrect == Spec => []TypeOK
<1>1. SyncInv => TypeOK
  BY DEF SyncInv
<1>2. QED
  BY <1>1, SpecInv, PTL

\* The poll of an open Desk never dies: scheduleNext is reached on every way
\* out of tick(), and a fired handle never keeps a start from arming it.
THEOREM LoopStaysAlive == Spec => []LoopIsAlive
<1>1. SyncInv => LoopIsAlive
  BY DEF SyncInv, Alive
<1>2. QED
  BY <1>1, SpecInv, PTL

\* feedsEtag and lastFeedItems stay a pair, whatever order answers arrive in.
THEOREM CacheStaysTruthful == Spec => []CacheIsTruthful
<1>1. SyncInv => CacheIsTruthful
  BY DEF SyncInv, CacheOK
<1>2. QED
  BY <1>1, SpecInv, PTL

\* A pass through the catch-up guard stays allowed until it has landed its
\* batches, although the guard read the bookmark before two requests.
THEOREM GuardHolds == Spec => NoGapIsCrossed
<1>1. Init => GapInv
  BY DEF Init, GapInv, Listed, Going, Never
<1>2. TypeOK /\ GapInv =>
        [\A t \in Tick : pc[t] = "apply" /\ cur[t] \in pending \ pending'
           => ~GapDetected(pending)]_vars
  BY DEF GapInv, Going, Listed
<1>3. QED
  BY <1>1, <1>2, StepGap, TypeCorrect, PTL DEF Spec, NoGapIsCrossed

-----------------------------------------------------------------------------
(* Slow polls: a delay above the idle interval comes from a failure.       *)

\* What a tick will arm after its pass never is a backed-off interval.
SlowInv == SlowPollIsExplained /\ \A t \in Tick : resched[t] <= IDLE_INTERVAL

\* No failures, no back-off.
LEMMA UsualInterval ==
  ASSUME NEW n \in Nat
  PROVE  nextInterval(n, 0) \in Intervals /\ nextInterval(n, 0) <= IDLE_INTERVAL
BY IntervalType DEF nextInterval, pollInterval, Factor, Least, PENDING_INTERVAL, IDLE_INTERVAL, MAX_BACKOFF

\* A tick ends soon to be repeated, or after a failure.
LEMMA FinishSlow ==
  ASSUME TypeOK, SlowInv, NEW t \in Tick, NEW s \in Intervals, Finish(t, s),
         s <= IDLE_INTERVAL \/ failures' > 0
  PROVE  SlowInv'
BY DEF SlowInv, SlowPollIsExplained, Finish, IDLE_INTERVAL, TypeOK, Intervals

\* Some tick goes on.
LEMMA GoingSlow ==
  ASSUME SlowInv, UNCHANGED resched, NEW t \in Tick, pc'[t] # "idle"
  PROVE  SlowInv'
BY DEF SlowInv, SlowPollIsExplained

\* The timer and the failures stay, and no tick ends.
LEMMA StillSlow ==
  ASSUME SlowInv, UNCHANGED <<timer, delay, failures, resched>>,
         \A t \in Tick : pc[t] # "idle" => pc'[t] # "idle"
  PROVE  SlowInv'
BY DEF SlowInv, SlowPollIsExplained

\* The timer is cleared or armed for a usual interval.
LEMMA UsualSlow ==
  ASSUME SlowInv, UNCHANGED resched, delay' \in Nat, delay' <= IDLE_INTERVAL
  PROVE  SlowInv'
BY DEF SlowInv, SlowPollIsExplained, IDLE_INTERVAL

LEMMA BackoffSlow ==
  ASSUME TypeOK, SlowInv, NEW t \in Tick, failures' = OneMore(failures),
         Finish(t, nextInterval(cached, failures'))
  PROVE  SlowInv'
<1>1. failures' \in 0 .. 3 /\ failures' > 0
  BY DEF TypeOK, OneMore, Least
<1>2. nextInterval(cached, failures') \in Intervals
  BY <1>1, IntervalType DEF TypeOK
<1> QED BY <1>1, <1>2, FinishSlow

LEMMA RunApplySlow ==
  ASSUME TypeOK, SlowInv, NEW t \in Tick, NEW n \in Nat, NEW k \in Nat,
         RunApplyIfNeeded(t, n, nextInterval(k, 0))
  PROVE  SlowInv'
<1>1. nextInterval(k, 0) \in Intervals /\ nextInterval(k, 0) <= IDLE_INTERVAL
  BY UsualInterval
<1>2. CASE n > 0 /\ inflight = {}
  BY <1>1, <1>2 DEF RunApplyIfNeeded, SlowInv, SlowPollIsExplained, TypeOK
<1>3. CASE ~(n > 0 /\ inflight = {})
  BY <1>1, <1>3, FinishSlow DEF RunApplyIfNeeded
<1> QED BY <1>2, <1>3

LEMMA EndPassSlow ==
  ASSUME TypeOK, SlowInv, UNCHANGED failures, NEW p \in Passes, EndPass(p)
  PROVE  SlowInv'
<1>1. CASE p = Page
  BY <1>1, StillSlow DEF EndPass, TypeOK
<1>2. CASE p # Page
  <2>1. p \in Tick /\ resched[p] \in Intervals /\ resched[p] <= IDLE_INTERVAL /\ Finish(p, resched[p])
    BY <1>2 DEF EndPass, TypeOK, SlowInv
  <2> QED BY <2>1, FinishSlow
<1> QED BY <1>1, <1>2

LEMMA ApplyNextSlow ==
  ASSUME TypeOK, SlowInv, UNCHANGED failures, NEW p \in Passes, NEW rest, ApplyNext(p, rest)
  PROVE  SlowInv'
<1> DEFINE free == rest \ {cur[q] : q \in Passes \ {p}}
<1>1. CASE free = {}
  BY <1>1, EndPassSlow DEF ApplyNext
<1>2. CASE free # {}
  <2>1. pc' = [pc EXCEPT ![p] = "apply"] /\ UNCHANGED loop
    BY <1>2 DEF ApplyNext
  <2> QED BY <2>1, StillSlow DEF TypeOK
<1> QED BY <1>1, <1>2

LEMMA TickSlow ==
  ASSUME TypeOK, SlowInv, NEW t \in Tick, TickStep(t)
  PROVE  SlowInv'
<1>1. CASE SessionKnown(t)
  BY <1>1, UsualSlow, GoingSlow DEF SessionKnown, TypeOK, IDLE_INTERVAL
<1>2. CASE BookMissing(t)
  BY <1>2, FinishSlow DEF BookMissing, IDLE_INTERVAL, Intervals
<1>3. CASE FeedAnswered(t) \/ FeedLost(t) \/ ListAllowed(t)
  BY <1>3, StillSlow DEF FeedAnswered, FeedLost, ListAllowed, TypeOK
<1>4. CASE FeedFailed(t) \/ TickThrows(t)
  BY <1>4, BackoffSlow DEF FeedFailed, TickThrows
<1>5. CASE FeedItems(t)
  <2>1. answer[t].n \in Nat
    BY DEF TypeOK, Replies
  <2> QED BY <1>5, <2>1, RunApplySlow DEF FeedItems
<1>6. CASE FeedNotModified(t)
  BY <1>6, RunApplySlow DEF FeedNotModified, TypeOK
<1>7. CASE ListRefused(t) \/ ListUseless(t) \/ ListBlocked(t)
  BY <1>7, EndPassSlow DEF ListRefused, ListUseless, ListBlocked
<1> QED BY <1>1, <1>2, <1>3, <1>4, <1>5, <1>6, <1>7 DEF TickStep

LEMMA StepSlow ==
  ASSUME TypeOK, SlowInv, [Next]_vars
  PROVE  SlowInv'
<1>1. CASE Fire
  <2>1. CASE Skip
    BY <1>1, <2>1, UsualSlow DEF Fire, Skip, PENDING_INTERVAL, IDLE_INTERVAL
  <2>2. CASE ~Skip
    BY <1>1, <2>2, UsualSlow DEF Fire, IDLE_INTERVAL
  <2> QED BY <2>1, <2>2
<1>2. ASSUME NEW p \in Passes, PassStep(p) PROVE SlowInv'
  BY <1>2, EndPassSlow, ApplyNextSlow DEF PassStep, BulkRefused, BulkFetched, Landed, ApplyFailed
<1>3. CASE World
  <2>1. CASE OpenDesk \/ CloseDesk \/ RefreshFeedsNow \/ Retry
    <3>1. /\ UNCHANGED <<failures, resched, pc>>
          /\ \/ delay' \in Nat /\ delay' <= IDLE_INTERVAL
             \/ UNCHANGED <<timer, delay>>
      BY <2>1 DEF OpenDesk, CloseDesk, RefreshFeedsNow, Retry, Nudge, INITIAL_DELAY, IDLE_INTERVAL
    <3> QED BY <3>1, UsualSlow, StillSlow
  <2>2. CASE ~(OpenDesk \/ CloseDesk \/ RefreshFeedsNow \/ Retry)
    BY <1>3, <2>2, StillSlow DEF World, PagePull, Hide, Show, SignOut, SignIn, TotpWanted, TotpGiven,
                                 Arrive, NextDay, TypeOK
  <2> QED BY <2>1, <2>2
<1>4. CASE UNCHANGED vars
  BY <1>4, StillSlow DEF vars
<1> QED BY <1>1, <1>2, <1>3, <1>4, TickSlow DEF Next

\* A poll slower than the idle interval has a failure to show for it, whatever
\* ticks overlap (nextIntervalMs and the finally of tick(), plaidBackgroundSync.ts).
THEOREM SlowPollsAreExplained == Spec => []SlowPollIsExplained
<1>1. Init => SlowInv
  BY DEF Init, SlowInv, SlowPollIsExplained, IDLE_INTERVAL
<1>2. TypeOK /\ SlowInv /\ [Next]_vars => SlowInv'
  BY StepSlow
<1>3. SlowInv => SlowPollIsExplained
  BY DEF SlowInv
<1> QED BY <1>1, <1>2, <1>3, TypeCorrect, PTL DEF Spec
=============================================================================
