\* One Acquire, renewed and released.
SPECIFICATION Spec
CONSTANTS
    s1 = s1
    s2 = s2
    g1 = g1
    g2 = g2
    Stores = {s1}
    Grants = {g1}
    StoreOf <- StoreOfOne
    NoHolder = NoHolder
    TTL = 2
    RenewInterval = 1
    MaxEpoch = 2
    FirstEpochs = {0}
    MaxPause = 0
    MaxTime = 4
    Closable = {}
    Crashable = {}
INVARIANTS
    ReleasedNoLongerOwns
CHECK_DEADLOCK FALSE
