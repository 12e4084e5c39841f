CONSTANTS
    w1 = w1
    w2 = w2
    Writers = {w1, w2}
    Cap = 2
    MaxWrites = 3
SPECIFICATION Spec
INVARIANTS
    EveryWriteIsLogged
