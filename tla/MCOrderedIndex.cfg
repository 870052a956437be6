\* Two Creates and two calls of Update or Delete, with two attempts each, on two identities.
SPECIFICATION Spec
CONSTANTS
    Creates = {c1, c2}
    Mutations = {m1, m2}
    Keys = {k1, k2}
    Ids <- KeyIds
    RankScopes = {1}
    Values = {"v", "w"}
    Contents <- OneContent
    None = None
    MaxOrder = 2
    MaxRevision = 3
    MaxAttempts = 2
SYMMETRY Interchangeable
INVARIANTS
    TypeOK
    OrdersDense
    ErrorIsDefinite
    SuccessIsDurable
    OneVersionPerRevision
PROPERTIES
    ImplementsTable
CHECK_DEADLOCK FALSE
