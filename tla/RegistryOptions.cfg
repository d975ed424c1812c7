CONSTANTS
    Names <- NamesHere
    LowerCase <- Lower
    NoUnderscore <- Plain
    OneLetter <- Letters
    Abbreviations <- Beginnings
    MaxApps = 2
    MaxOptions = 2
    MaxLinks = 0
    MaxChanges = 1
    AppNamesGiven = {"x"}
    EnvironmentGiven = {"x"}
    AliasesGiven = {}
    Declarations <- MixedDeclarations
    Settings <- TwoSettings
    Calls = {"tree", "groups", "options", "renaming", "special", "removal", "settings", "folding"}
SPECIFICATION Spec
INVARIANTS
    NoNameShadowed
    PointersLive
PROPERTIES
    FailedCallsSpareTheRest
CHECK_DEADLOCK FALSE
