SPECIFICATION Spec
CHECK_DEADLOCK FALSE
CONSTANTS
    Procs = {p1, p2}
    SSHKeys = {"k1", "k2", "k3", "k4"}
    GPGKeys = {"g1", "g2"}
    People = {"alice", "bob", "bot", "carol"}
    Remotes = {"origin", "upstream"}
    Concurrent = FALSE
    Unset = ""
    MaxTime = 1
    Never = 2
    MaxEdits = 1
    Clones <- MCClones
    SetupCalls <- MCSetupCalls
    EnrollCalls <- MCEnrollCalls
    TeamLines <- MCTeamLines
    HandSettings <- MCHandSettings
INVARIANTS
    TypeOK
    RerunCompletes
    ReceiptRestores
    CommandsSatisfyDoctor
    KeysApart
    DiagnosisHolds
PROPERTIES
    SigningKeyKept
    EnrollOnlyAppends
