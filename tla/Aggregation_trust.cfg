SPECIFICATION Spec
CONSTANTS
    Dirs <- MCDirs
    Root = 1
    Inside <- MCInside
    ModPaths <- MCModPaths
    Versions = {1, 2}
    Paths <- MCPaths
    DirOf <- MCDirOf
    MetaGlobs <- MCMetaGlobs
    RequiredLevel = 2
    Cases <- MCCases
INVARIANTS
    ScopesRight
    MetaGuarded
    TraversalRight
    LevelsRight
    HeadlineBounded
PROPERTY Terminates
CHECK_DEADLOCK FALSE
