SPECIFICATION Spec
CONSTANTS
    Commits = {1, 2, 3}
    Parents <- LineParents
    Ops = {1, 2, 3}
    Authors <- AgentAuthors
    Changes <- SomeChanges
    Boundary = 0
    Legacy <- NoLegacy
    Threshold = 2
    Strategy = "demote"
    Differ = FALSE
    Claims = {0}
    BlastScores = {"low"}
    ReviewKinds = {"human_distinct"}
    Reviewable = {1, 2, 3}
    Ranks <- InOrder
    Concurrent = FALSE
    MayCrash = FALSE
    MayFail = FALSE
    MayFailDelete = FALSE
PROPERTY PromotedLineageTrusted
CHECK_DEADLOCK FALSE
