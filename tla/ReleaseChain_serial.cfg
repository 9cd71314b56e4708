SPECIFICATION LiveSpec
CONSTANTS
    Commits = {1, 2, 3, 4, 5}
    Parents <- MergeParents
    Ops = {1, 2, 3}
    Authors <- BranchAuthors
    Changes <- SomeChanges
    Boundary = 2
    Legacy <- LegacyTag
    Threshold = 2
    Strategy = "demote"
    Differ = FALSE
    Claims = {0}
    BlastScores = {"low"}
    ReviewKinds = {"human_distinct"}
    Reviewable = {3}
    Ranks <- InOrder
    Concurrent = FALSE
    MayCrash = TRUE
    MayFail = TRUE
    MayFailDelete = TRUE
INVARIANTS
    TypeOK
    AlwaysReadable
    NoOrphanTag
    DoneIsDurable
    ReportsHold
    AcceptedVersionsAdvance
    IntervalsTile
PROPERTIES
    TagNeverMoves
    BrokenStoreRepaired
    ReleaseLineageTrusted
    ImplementsLedger
CHECK_DEADLOCK FALSE
