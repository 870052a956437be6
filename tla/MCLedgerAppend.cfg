\* Two calls of Append with two attempts each, two Deletes and a reader.
SPECIFICATION Spec
CONSTANTS
    Appends = {a1, a2}
    Deletes = {d1, d2}
    Readers = {r1}
    Payloads = {p, q}
    NoCall = NoCall
    MaxAttempts = 2
    MaxSeq = 2
SYMMETRY Interchangeable
INVARIANTS
    TypeOK
    Contiguous
    AppendedAtMostOnce
    FailureIsDefinite
    SuccessIsDurable
    ConflictIsDefinite
    CursorGapFree
PROPERTIES
    AppendOnlyLog
    ImplementsLog
CHECK_DEADLOCK FALSE
