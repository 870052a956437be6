\* Two writers that retry until they succeed and a Delete; two statements end in an
\* error and may still be executed.
SPECIFICATION FairSpec
CONSTANTS
    Writers = {w1, w2}
    Deletes = {d1}
    Values = {a, b}
    NoValue = NoValue
    MaxErrors = 2
INVARIANTS
    TypeOK
    SuccessIsDurable
    OneWinnerPerRevision
    NoLostUpdate
    DeleteIsObserved
PROPERTIES
    AnswerIsFinal
    ErrorIsTrueThen
    RetryConverges
CHECK_DEADLOCK FALSE
