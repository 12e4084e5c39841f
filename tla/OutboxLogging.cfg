CONSTANTS
    w1 = w1
    w2 = w2
    w3 = w3
    Writers = {w1, w2, w3}
    Cap = 2
    MaxWrites = 4
SPECIFICATION Spec
INVARIANTS
    TypeOK
    LogIsOrdered
    PendingWithinCap
    PauseFollowsEntitlement
PROPERTIES
    LoggerRecovers
