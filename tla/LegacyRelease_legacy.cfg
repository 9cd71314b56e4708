SPECIFICATION Spec
CONSTANTS
    Commits = {1, 2, 3, 4}
    Parents <- MCParents
    Ops = {1, 2, 3}
    Components <- OneComponent
    DefaultTarget = "root"
    Touches <- OneTouches
    Authors <- MCAuthors
    Changes <- MCChanges
    Reviewable = {2}
    Boundary = 0
    Threshold = 2
    Strategy = "demote"
    DifferBumps = {}
    Requests = {"none"}
    Claims = {0}
    BlastScores = {"low"}
    Iterations = {1}
    MayCrash = TRUE
    MayFail = TRUE
INVARIANTS
    CleanHistoryEarned
    BreakingBumpsMajor
    AttestedIsTagged
CHECK_DEADLOCK FALSE
