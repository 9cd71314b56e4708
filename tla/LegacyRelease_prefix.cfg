SPECIFICATION Spec
CONSTANTS
    Commits = {1, 2, 3, 4}
    Parents <- MCParents
    Ops = {1, 2}
    Components <- TwoComponents
    DefaultTarget = "root"
    Touches <- TwoTouches
    Authors <- MCAuthors
    Changes <- MCChanges
    Reviewable = {2}
    Boundary = 0
    Threshold = 2
    Strategy = "demote"
    DifferBumps = {}
    Requests = {"none", "lib"}
    Claims = {0}
    BlastScores = {"low"}
    Iterations = {1}
    MayCrash = FALSE
    MayFail = FALSE
INVARIANT ComponentKept
CHECK_DEADLOCK FALSE
