CONSTANTS
    f1 = f1
    f2 = f2
    f3 = f3
    Flows = {f1, f2, f3}
    a = a
    b = b
    Docs = {a, b}
    Imports = {{}, {1}, {1, 2}}
    Start = 1
    MaxSaves = 3
    MaxEvents = 2
SPECIFICATION Spec
INVARIANTS
    TypeOK
    CounterCovers
    DuplicateNeedsCause
    JamNeedsCause
    StoredOnce
    SavedIsStored
    QuietSeriesIsGapless
PROPERTIES
    CounterNeverGoesBack
\* The program rests when nobody saves.
CHECK_DEADLOCK FALSE
SYMMETRY Alike
