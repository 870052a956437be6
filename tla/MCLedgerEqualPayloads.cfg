\* Two callers append the same payload.
SPECIFICATION Spec
CONSTANTS
    Appends = {a1, a2}
    Deletes = {}
    Readers = {}
    Payloads = {p}
    NoCall = NoCall
    MaxAttempts = 2
    MaxSeq = 2
SYMMETRY Interchangeable
INVARIANTS
    SuccessIsOwn
CHECK_DEADLOCK FALSE
