CONSTANTS
    Names <- NamesHere
    LowerCase <- Lower
    NoUnderscore <- Plain
    OneLetter <- Letters
    Abbreviations <- Beginnings
    MaxApps = 3
    MaxOptions = 2
    MaxLinks = 1
    MaxChanges = 0
    AppNamesGiven = {"x"}
    EnvironmentGiven = {}
    AliasesGiven = {}
    Declarations <- PlainDeclarations
    Settings <- TwoSettings
    Calls = {"tree", "groups", "options", "removal", "links"}
SPECIFICATION Spec
INVARIANTS
    AppExclusionMutual
    NoLinkToRemoved
CHECK_DEADLOCK FALSE
