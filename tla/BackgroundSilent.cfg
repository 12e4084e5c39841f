CONSTANTS
  Batch = {b1}
  Tick = {t1}
  Page = page
  NONE = NONE
  MaxDay = 0
  DayStep = 1
  MaxEvents = 1
SPECIFICATION Spec
INVARIANT BackgroundIsSilent
CHECK_DEADLOCK FALSE
