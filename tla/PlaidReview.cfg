SPECIFICATION LiveSpec
CONSTANTS
  b1 = b1
  b2 = b2
  t1 = t1
  t2 = t2
  t3 = t3
  t4 = t4
  a1 = a1
  a2 = a2
  a3 = a3
  NONE = NONE
  Recovery = recovery
  Batch = {b1}
  Tx = {t1, t2, t4}
  Acct = {a1, a2, a3}
  Mapped = {a1, a2}
  Feeder = {f1}
  AcctOf <- MCAcctOf
  Adds <- MCAddsReview
  Removes <- MCRemoves
  Reviewed = {t2}
  MaxAttempts = 2
  MaxCrashes = 2
  DbMayFail = FALSE
  ServerPurges = TRUE
INVARIANTS
  AtomicLanding
PROPERTIES
  MatchesSurvive
  EventuallyAcked
  MutexIsReleased
CHECK_DEADLOCK FALSE
