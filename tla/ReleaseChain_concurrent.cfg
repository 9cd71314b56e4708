SPECIFICATION Spec
CONSTANTS
    Commits = {1, 2, 3}
    Parents <- LineParents
    Ops = {1, 2, 3}
    Authors <- MixedAuthors
    Changes <- SomeChanges
    Boundary = 0
    Legacy <- NoLegacy
    Threshold = 2
    Strategy = "demote"
    Differ = FALSE
    Claims = {0}
    BlastScores = {"low"}
    ReviewKinds = {}
    Reviewable = {}
    Ranks <- AnyOrder
    Concurrent = TRUE
    MayCrash = TRUE
    MayFail = FALSE
    MayFailDelete = FALSE
INVARIANT AcceptedHistoryKept
CHECK_DEADLOCK FALSE
