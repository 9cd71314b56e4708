SPECIFICATION Spec
CONSTANTS
    Commits = {1, 2, 3}
    Parents <- LineParents
    Keys = {"k1", "k2"}
    Principals = {"alice", "bob"}
    Attesters = {"a1", "a2"}
    Descriptor <- First
    Trees <- AllTrees
    Classes = {"agent"}
    MaxReleases = 3
INVARIANTS
    PolicyPinned
    SignersKnown
    GuardsHeld
    MetaChangesReviewed
    HistoryClassified
CHECK_DEADLOCK FALSE
