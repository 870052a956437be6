\* Liveness: one process with two calls of Acquire, either of which may take over from
\* the other, and Close at any time.  The row is new or has one epoch left.
SPECIFICATION FairSpec
CONSTANTS
    s1 = s1
    s2 = s2
    g1 = g1
    g2 = g2
    Stores = {s1}
    Grants = {g1, g2}
    StoreOf <- StoreOfBoth
    NoHolder = NoHolder
    TTL = 2
    RenewInterval = 1
    MaxEpoch = 2
    FirstEpochs = {0, 1}
    MaxPause = 0
    MaxTime = 2
    Closable = {s1}
    Crashable = {}
INVARIANTS
    TypeOK
PROPERTIES
    LossIsLearned
CHECK_DEADLOCK FALSE
