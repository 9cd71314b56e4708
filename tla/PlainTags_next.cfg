SPECIFICATION Spec
CONSTANTS
    Components = {"none", "auth"}
    NoComponent = "none"
    MaxUint = 15
    LevelTexts <- Levels4
    ShapedTexts <- MCShaped
    MaxInt = 3
    TextInts <- MCTextInts
    MinusTexts <- MCMinus
    Names <- MCNames
    Preids <- MCPreids
    MaxTags = 3
CHECK_DEADLOCK FALSE
PROPERTIES
    NextAdvances
    NoTrustByNext
