CONSTANTS
    series = series
    methods = methods
    widen = widen
    Early = {series}
    Late = {methods, widen}
    Fragile = {methods}
    Added <- MCAdded
    MaxVersion = 3
    MaxWork = 1
    MaxOpens = 4
    MaxEvents = 2
SPECIFICATION Spec
INVARIANTS
    TypeOK
    DeskIsWhole
    RestorableBackup
    PatchHistoryIsHonest
    NothingForgotten
PROPERTIES
    OpeningSettles
\* The program rests at the company list.
CHECK_DEADLOCK FALSE
