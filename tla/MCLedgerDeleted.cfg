\* A Delete between a lost acknowledgement and its resolution.
SPECIFICATION Spec
CONSTANTS
    Appends = {a1, a2}
    Deletes = {d1}
    Readers = {}
    Payloads = {p, q}
    NoCall = NoCall
    MaxAttempts = 2
    MaxSeq = 2
SYMMETRY Interchangeable
INVARIANTS
    ConflictNeverAppended
CHECK_DEADLOCK FALSE
