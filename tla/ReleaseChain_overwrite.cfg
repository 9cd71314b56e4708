SPECIFICATION Spec
CONSTANTS
    Commits = {1, 2}
    Parents <- LineParents
    Ops = {1, 2, 3}
    Authors <- AgentAuthors
    Changes <- SomeChanges
    Boundary = 0
    Legacy <- NoLegacy
    Threshold = 2
    Strategy = "demote"
    Differ = FALSE
    Claims = {0}
    BlastScores = {"low"}
    ReviewKinds = {"human_distinct"}
    Reviewable = {1, 2}
    Ranks <- InOrder
    Concurrent = TRUE
    MayCrash = FALSE
    MayFail = FALSE
    MayFailDelete = FALSE
PROPERTY TagNeverMoves
CHECK_DEADLOCK FALSE
