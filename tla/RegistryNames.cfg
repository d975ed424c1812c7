CONSTANTS
    Names <- NamesHere
    LowerCase <- Lower
    NoUnderscore <- Plain
    OneLetter <- Letters
    Abbreviations <- Beginnings
    MaxApps = 4
    MaxOptions = 0
    MaxLinks = 0
    MaxChanges = 1
    AppNamesGiven = {"x", "X"}
    EnvironmentGiven = {}
    AliasesGiven = {"x"}
    Declarations <- MixedDeclarations
    Settings <- TwoSettings
    Calls = {"names", "tree", "groups", "aliases", "folding", "startup"}
SPECIFICATION Spec
INVARIANTS
    TypeOK
    LevelNamesDistinct
CHECK_DEADLOCK FALSE
