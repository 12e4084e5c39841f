CONSTANTS
  Batch = {b1, b2}
  Tick = {t1, t2}
  Page = page
  NONE = NONE
  MaxDay = 2
  DayStep = 2
  MaxEvents = 2
SPECIFICATION Spec
INVARIANTS TypeOK LoopIsAlive CacheIsTruthful SlowPollIsExplained
PROPERTIES NoGapIsCrossed BacklogDrains
