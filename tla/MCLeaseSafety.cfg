\* Two processes, one Acquire each.  Either may crash at any point, and a goroutine
\* may be suspended for a tick between the two clock readings behind its deadline.
SPECIFICATION Spec
CONSTANTS
    s1 = s1
    s2 = s2
    g1 = g1
    g2 = g2
    Stores = {s1, s2}
    Grants = {g1, g2}
    StoreOf <- StoreOfTwo
    NoHolder = NoHolder
    TTL = 2
    RenewInterval = 1
    MaxEpoch = 2
    FirstEpochs = {0}
    MaxPause = 1
    MaxTime = 4
    Closable = {}
    Crashable = {s1, s2}
SYMMETRY SwapProcesses
INVARIANTS
    MutualExclusion
    FencingToken
    UniqueEpochs
    DeadlineWithinPause
PROPERTIES
    HandOverOnly
    ImplementsLock
    ReleaseIsTrue
CHECK_DEADLOCK FALSE
