\* Three identities that change between the pages, pages of one or two rows.
SPECIFICATION Spec
CONSTANTS
    Ids <- TiedIds
    RankScopes = {1}
    Values = {"v"}
    Contents <- MixedContents
    None = None
    MaxOrder = 2
    MaxRevision = 2
    Queries <- ThreeQueries
    Limits = {1, 2}
    Followed = 1
INVARIANTS
    ListingComplete
    PagesAdvance
    FollowerMissesNothing
CHECK_DEADLOCK FALSE
