\* Two builds, versions 2 and 3, open at once in all modes; the database is new or old.
SPECIFICATION FairSpec
CONSTANTS
    oldApply = oldApply
    newApply = newApply
    otherApply = otherApply
    oldValidate = oldValidate
    newValidate = newValidate
    disabled = disabled
    Opens = {oldApply, newApply, otherApply, oldValidate, newValidate, disabled}
    Mode <- Modes
    Build <- Builds
    MaxVersion = 3
    None = None
INVARIANTS
    TypeOK
    OpenedHasSchema
    NeverCollides
PROPERTIES
    MigratesWhole
    EveryOpenReturns
CHECK_DEADLOCK FALSE
