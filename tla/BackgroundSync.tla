--------------------------- MODULE BackgroundSync ---------------------------
(***************************************************************************)
(* The background poll of the bank feed: src/utils/plaidBackgroundSync.ts, *)
(* with the catch-up guard, the MFA gate and the parts of                  *)
(* applyAllPendingForBook that can stop a pass.  PlaidApply has the pass   *)
(* itself; here it lands what it listed or fails.                          *)
(*                                                                         *)
(* One JavaScript thread: an action is the code between two awaits.  Time  *)
(* is not modelled, an armed timer may fire at any moment.  The desktop    *)
(* notifications and the error text shown to the user are left out, and    *)
(* sync_suggested, which asks for a pass as a pending batch does.          *)
(***************************************************************************)
EXTENDS Integers, FiniteSets

CONSTANTS
  Batch,      \* import batches the server may offer
  Tick,       \* bound: calls of tick() in progress at the same time
  Page,       \* the account page's own pass over the feed
  NONE,       \* no batch
  MaxDay,     \* bound on the days that pass ...
  DayStep,    \* ... so many at a time
  MaxEvents   \* bound on what users and failures do to the loop

ASSUME SyncAssumption ==
  /\ IsFiniteSet(Batch)
  /\ Page \notin Tick
  /\ NONE \notin Batch
  /\ MaxDay \in Nat /\ DayStep \in Nat
  /\ MaxEvents \in Nat

VARIABLES
  timer,       \* `timer`: null, the handle of an armed timer, or a fired one
  delay,       \* seconds the armed timer waits
  tickRunning, \* the guard against a second tick
  pc,          \* the await each tick is at
  answer,      \* the server's answer on its way to the tick
  resched,     \* rescheduleMs of a tick that waits for its pass, in seconds
  got,         \* the batches a pass has listed
  failures,    \* consecutiveFailures, which counts up to 3 as far as it matters
  etag,        \* feedsEtag (0: none yet)
  cached,      \* pending batches according to lastFeedItems
  paused,      \* bankSyncMfaPaused
  catchUp,     \* plaidSyncStore.catchUpBlocked
  lastApply,   \* lastSuccessfulPlaidApplyAt, a day, or Never
  cur,         \* the batch each pass is applying, or NONE
  opened,      \* does the browser show the TOTP page a background tick opened?
  desk,        \* is the Desk mounted?
  hidden,      \* document.hidden
  signedIn,    \* the main process holds cloud tokens
  verified,    \* the server asks for no TOTP
  pending,     \* the server's unacknowledged batches
  created,     \* the day each batch was created, or Never
  version,     \* the feed's ETag: new with every change of `pending`
  day,         \* today
  events       \* events so far

loop  == <<timer, delay, tickRunning, resched>>
feed  == <<etag, cached>>
cloud == <<pending, created, version>>
user  == <<desk, hidden, signedIn, verified>>
vars  == <<loop, pc, answer, got, failures, feed, paused, catchUp,
           lastApply, cur, opened, user, cloud, day, events>>

Never   == -1
Passes  == Tick \cup {Page}
\* inflightApplyPublicIds
inflight == {cur[p] : p \in Passes} \ {NONE}

NoReply == [kind |-> "none", v |-> 0, n |-> 0]

PENDING_INTERVAL == 30
IDLE_INTERVAL    == 90
INITIAL_DELAY    == 5
MAX_BACKOFF      == 300

Least(a, b) == IF a < b THEN a ELSE b
Intervals   == {30, 60, 90, 120, 180, 240, 300}

-----------------------------------------------------------------------------
(* The intervals and the catch-up guard.                                   *)

pollInterval(n) == IF n > 0 THEN PENDING_INTERVAL ELSE IDLE_INTERVAL

Factor(f) == <<1, 2, 4, 8>>[f + 1]

\* Mutant: no ceiling.
BrokenInterval(n, f) == pollInterval(n) * Factor(f)

\* nextIntervalMs: the factor 2^f stops at 8, so failures count up to 3 here.
nextInterval(n, f) == Least(pollInterval(n) * Factor(f), MAX_BACKOFF)

OneMore(f) == Least(f + 1, 3)

\* evaluatePlaidCatchUp in days: the oldest pending batch is more than a day
\* younger than the last successful apply, and then they all are.  A pass never
\* asks about an empty list, so extreme_idle cannot be the answer here, and the
\* warning of a large catch-up only adds a text.
GapDetected(batches) ==
  /\ lastApply # Never
  /\ \A b \in batches : created[b] - lastApply > 1

-----------------------------------------------------------------------------
(* The timer.                                                              *)

scheduleNext(s) == timer' = "armed" /\ delay' = s
clearTimer(to)  == timer' = to /\ delay' = 0

\* The finally block of tick(): the flag, then the timer.
Finish(t, s) ==
  /\ pc' = [pc EXCEPT ![t] = "idle"]
  /\ tickRunning' = FALSE
  /\ scheduleNext(s)
  /\ resched' = [resched EXCEPT ![t] = IDLE_INTERVAL]

\* Mutant: a hidden window ends the tick without arming the timer.
BrokenSkip ==
  /\ UNCHANGED <<tickRunning, resched, pc>>
  /\ \/ tickRunning /\ scheduleNext(PENDING_INTERVAL)
     \/ ~tickRunning /\ hidden /\ clearTimer("spent")

\* The two returns in front of the first await.
Skip ==
  /\ UNCHANGED <<tickRunning, resched, pc>>
  /\ \/ tickRunning /\ scheduleNext(PENDING_INTERVAL)
     \/ ~tickRunning /\ hidden /\ scheduleNext(IDLE_INTERVAL)

\* The timer fires and tick() runs to its first await; which name the call
\* gets does not matter.
Fire ==
  /\ timer = "armed"
  /\ \/ Skip
     \/ /\ ~tickRunning /\ ~hidden
        /\ clearTimer("spent")
        /\ \E t \in Tick : pc[t] = "idle"
        /\ pc' = [pc EXCEPT ![CHOOSE t \in Tick : pc[t] = "idle"] = "session"]
        /\ UNCHANGED <<tickRunning, resched>>
  /\ UNCHANGED <<answer, got, failures, feed, paused, catchUp, lastApply,
                 cur, opened, user, cloud, day, events>>

\* getLivebooksCloudSessionSummary has answered.
SessionKnown(t) ==
  /\ pc[t] = "session"
  /\ \/ /\ ~signedIn
        /\ paused' = FALSE
        /\ failures' = 0
        /\ pc' = [pc EXCEPT ![t] = "idle"]
        /\ scheduleNext(IDLE_INTERVAL)
        /\ UNCHANGED <<tickRunning, resched>>
     \/ /\ signedIn /\ paused
        /\ pc' = [pc EXCEPT ![t] = "idle"]
        /\ scheduleNext(IDLE_INTERVAL)
        /\ UNCHANGED <<tickRunning, resched, paused, failures>>
     \/ /\ signedIn /\ ~paused
        /\ tickRunning' = TRUE
        /\ pc' = [pc EXCEPT ![t] = "book"]
        /\ UNCHANGED <<timer, delay, resched, paused, failures>>
  /\ UNCHANGED <<answer, got, feed, catchUp, lastApply, cur, opened,
                 user, cloud, day, events>>

\* Something went wrong in the world: one of the bounded events.
Event == events < MaxEvents /\ events' = events + 1

-----------------------------------------------------------------------------
(* The feed request.                                                       *)

\* ensureLivebooksCloudBookId has answered and the feed is asked for with the
\* remembered ETag.  The server answers; the answer travels.
FeedAnswered(t) ==
  /\ pc[t] = "book"
  /\ signedIn
  /\ answer' = [answer EXCEPT ![t] =
       IF ~verified THEN [NoReply EXCEPT !.kind = "totp"]
       ELSE IF etag = version THEN [NoReply EXCEPT !.kind = "notModified"]
       ELSE [kind |-> "items", v |-> version, n |-> Cardinality(pending)]]
  /\ pc' = [pc EXCEPT ![t] = "answered"]
  /\ UNCHANGED <<loop, got, failures, feed, paused, catchUp, lastApply, cur,
                 opened, user, cloud, day, events>>

\* The request fails on the way.
FeedLost(t) ==
  /\ pc[t] = "book"
  /\ signedIn /\ Event
  /\ answer' = [answer EXCEPT ![t] = [NoReply EXCEPT !.kind = "error"]]
  /\ pc' = [pc EXCEPT ![t] = "answered"]
  /\ UNCHANGED <<loop, got, failures, feed, paused, catchUp, lastApply, cur,
                 opened, user, cloud, day>>

\* ... or there is no book to poll: signed out meanwhile, or no answer.
BookMissing(t) ==
  /\ pc[t] = "book"
  /\ (~signedIn /\ UNCHANGED events) \/ Event
  /\ failures' = 0
  /\ Finish(t, IDLE_INTERVAL)
  /\ UNCHANGED <<answer, got, feed, paused, catchUp, lastApply, cur,
                 opened, user, cloud, day>>

\* feedRes.error: back off, and pause when the server wants a TOTP.  The feed
\* request passes promptTotp: null on, so the pause is silent.
FeedFailed(t) ==
  /\ pc[t] = "answered"
  /\ answer[t].kind \in {"totp", "error"}
  /\ failures' = OneMore(failures)
  /\ paused' = (paused \/ answer[t].kind = "totp")
  /\ Finish(t, nextInterval(cached, failures'))
  /\ answer' = [answer EXCEPT ![t] = NoReply]
  /\ UNCHANGED <<got, feed, catchUp, lastApply, cur, opened, user,
                 cloud, day, events>>

\* runApplyIfNeeded for n pending batches, then the end of the tick; a pass in
\* flight anywhere in the renderer makes it return at once.
RunApplyIfNeeded(t, n, s) ==
  IF n > 0 /\ inflight = {}
    THEN /\ pc' = [pc EXCEPT ![t] = "list"]
         /\ resched' = [resched EXCEPT ![t] = s]
         /\ catchUp' = FALSE
         /\ UNCHANGED <<timer, delay, tickRunning>>
    ELSE Finish(t, s) /\ UNCHANGED catchUp

\* Mutant: the interval is chosen before the failures are forgotten.
BrokenFeedItems(t) ==
  /\ pc[t] = "answered"
  /\ answer[t].kind = "items"
  /\ failures' = 0
  /\ cached' = answer[t].n
  /\ etag' = answer[t].v
  /\ RunApplyIfNeeded(t, answer[t].n, nextInterval(answer[t].n, failures))
  /\ answer' = [answer EXCEPT ![t] = NoReply]
  /\ UNCHANGED <<got, paused, lastApply, cur, opened, user, cloud,
                 day, events>>

\* Mutant: the items are kept only when no pass follows.
ForgetfulFeedItems(t) ==
  /\ pc[t] = "answered"
  /\ answer[t].kind = "items"
  /\ failures' = 0
  /\ cached' = IF answer[t].n = 0 THEN 0 ELSE cached
  /\ etag' = answer[t].v
  /\ RunApplyIfNeeded(t, answer[t].n, nextInterval(answer[t].n, 0))
  /\ answer' = [answer EXCEPT ![t] = NoReply]
  /\ UNCHANGED <<got, paused, lastApply, cur, opened, user, cloud,
                 day, events>>

\* A fresh list of feeds: remembered together with its ETag.
FeedItems(t) ==
  /\ pc[t] = "answered"
  /\ answer[t].kind = "items"
  /\ failures' = 0
  /\ cached' = answer[t].n
  /\ etag' = answer[t].v
  /\ RunApplyIfNeeded(t, answer[t].n, nextInterval(answer[t].n, 0))
  /\ answer' = [answer EXCEPT ![t] = NoReply]
  /\ UNCHANGED <<got, paused, lastApply, cur, opened, user, cloud,
                 day, events>>

\* Mutant: nothing to do on a 304.
BrokenFeedNotModified(t) ==
  /\ pc[t] = "answered"
  /\ answer[t].kind = "notModified"
  /\ failures' = 0
  /\ Finish(t, nextInterval(cached, 0))
  /\ answer' = [answer EXCEPT ![t] = NoReply]
  /\ UNCHANGED <<got, feed, paused, catchUp, lastApply, cur, opened,
                 user, cloud, day, events>>

\* 304: the remembered list decides whether a pass is due.
FeedNotModified(t) ==
  /\ pc[t] = "answered"
  /\ answer[t].kind = "notModified"
  /\ failures' = 0
  /\ RunApplyIfNeeded(t, cached, nextInterval(cached, 0))
  /\ answer' = [answer EXCEPT ![t] = NoReply]
  /\ UNCHANGED <<got, feed, paused, lastApply, cur, opened, user,
                 cloud, day, events>>

-----------------------------------------------------------------------------
(* A pass over the pending batches.                                        *)

\* The pass is over: the page goes idle, a tick runs its finally block.
EndPass(p) ==
  IF p = Page
    THEN pc' = [pc EXCEPT ![p] = "idle"] /\ UNCHANGED loop
    ELSE Finish(p, resched[p])

\* Apply the next listed batch that no other pass is at, or end the pass.
ApplyNext(p, rest) ==
  LET free == rest \ {cur[q] : q \in Passes \ {p}} IN
  IF free = {}
    THEN /\ EndPass(p)
         /\ cur' = [cur EXCEPT ![p] = NONE]
         /\ got' = [got EXCEPT ![p] = {}]
    ELSE \E b \in free : /\ cur' = [cur EXCEPT ![p] = b]
                         /\ got' = [got EXCEPT ![p] = rest \ {b}]
                         /\ pc' = [pc EXCEPT ![p] = "apply"]
                         /\ UNCHANGED loop

\* The list of batches wants a TOTP.  loadPendingBatchesForBook has turned the
\* tick's promptTotp: null into undefined, so ensureMfaStepUp opens the browser.
ListRefused(t) ==
  /\ pc[t] = "list"
  /\ ~verified
  /\ paused' = TRUE
  /\ opened' = TRUE
  /\ EndPass(t)
  /\ UNCHANGED <<answer, got, failures, feed, catchUp, lastApply, cur,
                 user, cloud, day, events>>

\* The list is empty, or the request failed.
ListUseless(t) ==
  /\ pc[t] = "list"
  /\ (verified /\ pending = {} /\ UNCHANGED events) \/ Event
  /\ EndPass(t)
  /\ UNCHANGED <<answer, got, failures, feed, paused, catchUp, lastApply,
                 cur, opened, user, cloud, day>>

\* The guard stops the pass.
ListBlocked(t) ==
  /\ pc[t] = "list"
  /\ verified /\ pending # {}
  /\ GapDetected(pending)
  /\ catchUp' = TRUE
  /\ EndPass(t)
  /\ UNCHANGED <<answer, got, failures, feed, paused, lastApply, cur,
                 opened, user, cloud, day, events>>

\* The guard lets the pass through; the payloads are asked for.
ListAllowed(t) ==
  /\ pc[t] = "list"
  /\ verified /\ pending # {}
  /\ ~GapDetected(pending)
  /\ got' = [got EXCEPT ![t] = pending]
  /\ pc' = [pc EXCEPT ![t] = "bulk"]
  /\ UNCHANGED <<loop, answer, failures, feed, paused, catchUp, lastApply,
                 cur, opened, user, cloud, day, events>>

\* A local read throws: the catch block backs off.
TickThrows(t) ==
  /\ pc[t] \in {"book", "list"}
  /\ Event
  /\ failures' = OneMore(failures)
  /\ Finish(t, nextInterval(cached, failures'))
  /\ UNCHANGED <<answer, got, feed, paused, catchUp, lastApply, cur,
                 opened, user, cloud, day>>

\* The payloads want a TOTP.
BulkRefused(p) ==
  /\ pc[p] = "bulk"
  /\ ~verified
  /\ paused' = TRUE
  /\ got' = [got EXCEPT ![p] = {}]
  /\ EndPass(p)
  /\ UNCHANGED <<answer, failures, feed, catchUp, lastApply, cur, opened,
                 user, cloud, day, events>>

\* The payloads are here: the first batch is applied.
BulkFetched(p) ==
  /\ pc[p] = "bulk"
  /\ verified
  /\ ApplyNext(p, got[p])
  /\ UNCHANGED <<answer, failures, feed, paused, catchUp, lastApply,
                 opened, user, cloud, day, events>>

\* Mutant: the bookmark moves to the day the batch was created.
BrokenLanded(p) ==
  /\ pc[p] = "apply"
  /\ pending' = pending \ {cur[p]}
  /\ version' = IF cur[p] \in pending THEN version + 1 ELSE version
  /\ lastApply' = created[cur[p]]
  /\ ApplyNext(p, got[p])
  /\ UNCHANGED <<answer, failures, feed, paused, catchUp, opened, user,
                 created, day, events>>

\* The batch is in the book and acked; the bookmark moves to today.
Landed(p) ==
  /\ pc[p] = "apply"
  /\ pending' = pending \ {cur[p]}
  /\ version' = IF cur[p] \in pending THEN version + 1 ELSE version
  /\ lastApply' = day
  /\ ApplyNext(p, got[p])
  /\ UNCHANGED <<answer, failures, feed, paused, catchUp, opened, user,
                 created, day, events>>

\* The batch fails; the pass goes on with the next.
ApplyFailed(p) ==
  /\ pc[p] = "apply"
  /\ Event
  /\ ApplyNext(p, got[p])
  /\ UNCHANGED <<answer, failures, feed, paused, catchUp, lastApply,
                 opened, user, cloud, day>>

\* The account page lists the batches; the user may pull over a gap.
PagePull ==
  /\ desk /\ verified /\ signedIn
  /\ pc[Page] = "idle" /\ pending # {} /\ Event
  /\ pc' = [pc EXCEPT ![Page] = "bulk"]
  /\ got' = [got EXCEPT ![Page] = pending]
  /\ UNCHANGED <<loop, answer, failures, feed, paused, catchUp, lastApply,
                 cur, opened, user, cloud, day>>

-----------------------------------------------------------------------------
(* The user, the window and the server.                                    *)

\* startPlaidBackgroundSync does nothing while a handle is there.
OpenDesk ==
  /\ ~desk
  /\ desk' = TRUE
  /\ IF timer = "null" THEN scheduleNext(INITIAL_DELAY) ELSE UNCHANGED <<timer, delay>>
  /\ UNCHANGED <<tickRunning, resched, pc, answer, got, failures, feed,
                 paused, catchUp, lastApply, cur, opened, hidden, signedIn,
                 verified, cloud, day, events>>

\* stopPlaidBackgroundSync: a tick in progress goes on, and arms the timer again.
CloseDesk ==
  /\ desk /\ Event
  /\ desk' = FALSE
  /\ clearTimer("null")
  /\ tickRunning' = FALSE
  /\ UNCHANGED <<resched, pc, answer, got, failures, feed, paused,
                 catchUp, lastApply, cur, opened, hidden, signedIn, verified,
                 cloud, day>>

\* notifyPlaidBackgroundMfaVerified, the same as refreshFeedsNow.
Nudge == IF timer = "null" THEN UNCHANGED <<timer, delay>> ELSE scheduleNext(0)

\* A page asks for the feed now.
RefreshFeedsNow ==
  /\ desk /\ Event
  /\ Nudge
  /\ UNCHANGED <<tickRunning, resched, pc, answer, got, failures, feed,
                 paused, catchUp, lastApply, cur, opened, user, cloud, day>>

\* The banner's retry, by a click or because the window is visible again.
Retry ==
  /\ desk /\ paused /\ signedIn
  /\ paused' = FALSE
  /\ Nudge
  /\ UNCHANGED <<tickRunning, resched, pc, answer, got, failures, feed,
                 catchUp, lastApply, cur, opened, user, cloud, day, events>>

\* The window is hidden or shown.
Hide ==
  /\ Event
  /\ hidden' = TRUE /\ ~hidden
  /\ UNCHANGED <<loop, pc, answer, got, failures, feed, paused, catchUp,
                 lastApply, cur, opened, desk, signedIn, verified, cloud, day>>

Show ==
  /\ hidden
  /\ hidden' = FALSE
  /\ UNCHANGED <<loop, pc, answer, got, failures, feed, paused, catchUp,
                 lastApply, cur, opened, desk, signedIn, verified, cloud, day,
                 events>>

\* Signing out clears the pause (registerIpcRendererListeners.ts).
SignOut ==
  /\ signedIn /\ Event
  /\ signedIn' = FALSE
  /\ paused' = FALSE
  /\ UNCHANGED <<loop, pc, answer, got, failures, feed, catchUp,
                 lastApply, cur, opened, desk, hidden, verified, cloud, day>>

SignIn ==
  /\ ~signedIn
  /\ signedIn' = TRUE
  /\ UNCHANGED <<loop, pc, answer, got, failures, feed, paused, catchUp,
                 lastApply, cur, opened, desk, hidden, verified, cloud, day,
                 events>>

\* The server wants a TOTP; the user gives it in the browser.
TotpWanted ==
  /\ verified /\ Event
  /\ verified' = FALSE
  /\ UNCHANGED <<loop, pc, answer, got, failures, feed, paused, catchUp,
                 lastApply, cur, opened, desk, hidden, signedIn, cloud, day>>

TotpGiven ==
  /\ ~verified
  /\ verified' = TRUE
  /\ opened' = FALSE
  /\ UNCHANGED <<loop, pc, answer, got, failures, feed, paused, catchUp,
                 lastApply, cur, desk, hidden, signedIn, cloud, day, events>>

\* The server has a new batch; which is all the same.
Arrive ==
  /\ \E b \in Batch : created[b] = Never
  /\ LET b == CHOOSE b \in Batch : created[b] = Never IN
       /\ created' = [created EXCEPT ![b] = day]
       /\ pending' = pending \cup {b}
  /\ version' = version + 1
  /\ UNCHANGED <<loop, pc, answer, got, failures, feed, paused, catchUp,
                 lastApply, cur, opened, user, day, events>>

NextDay ==
  /\ day + DayStep <= MaxDay
  /\ day' = day + DayStep
  /\ UNCHANGED <<loop, pc, answer, got, failures, feed, paused, catchUp,
                 lastApply, cur, opened, user, cloud, events>>

-----------------------------------------------------------------------------
Init ==
  /\ timer = "null" /\ delay = 0 /\ tickRunning = FALSE
  /\ pc = [p \in Passes |-> "idle"]
  /\ answer = [t \in Tick |-> NoReply]
  /\ resched = [t \in Tick |-> IDLE_INTERVAL]
  /\ got = [p \in Passes |-> {}]
  /\ cur = [p \in Passes |-> NONE]
  /\ failures = 0 /\ etag = 0 /\ cached = 0
  /\ paused = FALSE /\ catchUp = FALSE /\ opened = FALSE
  /\ lastApply = Never
  /\ desk = FALSE /\ hidden = FALSE /\ signedIn = TRUE /\ verified = TRUE
  /\ pending = {} /\ created = [b \in Batch |-> Never] /\ version = 1
  /\ day = 0 /\ events = 0

\* The steps of a tick after its first await.
TickStep(t) ==
  \/ SessionKnown(t) \/ BookMissing(t)
  \/ FeedAnswered(t) \/ FeedLost(t)
  \/ FeedFailed(t) \/ FeedItems(t) \/ FeedNotModified(t)
  \/ ListRefused(t) \/ ListUseless(t) \/ ListBlocked(t) \/ ListAllowed(t)
  \/ TickThrows(t)

PassStep(p) == BulkRefused(p) \/ BulkFetched(p) \/ Landed(p) \/ ApplyFailed(p)

World ==
  \/ PagePull \/ OpenDesk \/ CloseDesk \/ RefreshFeedsNow \/ Retry
  \/ Hide \/ Show \/ SignOut \/ SignIn \/ TotpWanted \/ TotpGiven
  \/ Arrive \/ NextDay

Next ==
  \/ Fire
  \/ \E t \in Tick : TickStep(t)
  \/ \E p \in Passes : PassStep(p)
  \/ World

\* Timers fire and requests are answered or fail; users owe nothing.
Fairness ==
  /\ WF_vars(Fire)
  /\ \A t \in Tick : WF_vars(TickStep(t))
  /\ \A p \in Passes : WF_vars(PassStep(p))

Spec == Init /\ [][Next]_vars /\ Fairness

-----------------------------------------------------------------------------
(* Properties.                                                             *)

States == {"idle", "session", "book", "answered", "list", "bulk", "apply"}
Replies == [kind : {"none", "error", "totp", "notModified", "items"},
            v : Nat, n : Nat]
Days    == 0 .. MaxDay

\* Every variable keeps its type; the delays are the ones the code can compute.
TypeOK ==
  /\ timer \in {"null", "armed", "spent"}
  /\ delay \in Intervals \cup {0, INITIAL_DELAY}
  /\ tickRunning \in BOOLEAN
  /\ pc \in [Passes -> States]
  /\ answer \in [Tick -> Replies]
  /\ resched \in [Tick -> Intervals]
  /\ got \in [Passes -> SUBSET Batch]
  /\ cur \in [Passes -> Batch \cup {NONE}]
  /\ failures \in 0 .. 3
  /\ etag \in Nat /\ cached \in Nat
  /\ paused \in BOOLEAN /\ catchUp \in BOOLEAN /\ opened \in BOOLEAN
  /\ desk \in BOOLEAN /\ hidden \in BOOLEAN
  /\ signedIn \in BOOLEAN /\ verified \in BOOLEAN
  /\ lastApply \in Days \cup {Never}
  /\ pending \in SUBSET Batch
  /\ created \in [Batch -> Days \cup {Never}]
  /\ version \in Nat
  /\ day \in Days
  /\ events \in 0 .. MaxEvents

\* While the Desk is open the loop never dies: a timer is armed, or a tick is
\* on its way to arm one, whatever stops, starts and nudges came before.
LoopIsAlive ==
  desk => timer = "armed" \/ \E t \in Tick : pc[t] # "idle"

\* As long as the remembered ETag is the server's, the remembered list is too:
\* a 304 never makes the loop act on another list, although the answers of
\* overlapping ticks may arrive out of order.
CacheIsTruthful == etag = version => cached = Cardinality(pending)

\* A poll slower than the idle interval has a failure to show for it, unless a
\* tick that has seen the server answer again is about to arm the timer anew.
SlowPollIsExplained ==
  timer = "armed" /\ delay > IDLE_INTERVAL =>
    failures > 0 \/ \E t \in Tick : pc[t] # "idle"

\* A background pass never lands a batch that the guard would now refuse: what
\* it found before its requests still holds after them, although other passes
\* land batches, days go by and new batches arrive meanwhile.
NoGapIsCrossed ==
  [][\A t \in Tick :
       pc[t] = "apply" /\ cur[t] \in pending \ pending' => ~GapDetected(pending)]_vars

\* While the Desk is open a batch on the server is landed in the end, unless
\* the window is hidden, the user is signed out, the sync is paused for a
\* TOTP, or the user has been told of a gap.
BacklogDrains ==
  (desk /\ pending # {}) ~>
    (pending = {} \/ ~desk \/ hidden \/ ~signedIn \/ paused \/ catchUp)

\* What plaidBankFeedsApi.ts promises of a null prompt: the background pauses
\* silently and never opens the browser.
BackgroundIsSilent == ~opened
=============================================================================
