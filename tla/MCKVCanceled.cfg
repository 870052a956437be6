\* One create whose statement ends in an error.
CONSTANTS
    Writers = {w1}
    Deletes = {d1}
    Values = {a}
    NoValue = NoValue
    MaxErrors = 1
SPECIFICATION Spec
INVARIANT CanceledCreateDidNotCommit
CHECK_DEADLOCK FALSE
