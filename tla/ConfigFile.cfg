CONSTANTS
    Segments = {"app", "a", "b", "c", "x", "v", "w", "locked"}
    Values = {"", "invalid", "1", "2", "used", "assumed"}
    Apps <- TheApps
    Root = "root"
    NameOf <- TheNames
    SubsOf <- TheSubs
    OptionsOf <- TheOptions
    Flags <- TheFlags
    AtMost <- TheMost
    Gatherers <- TheGatherers
    Fixed <- TheFixed
    FlagWords = {"1"}
    Locked <- TheLocked
    Typists <- TheTypists
    Programs <- AllPrograms
SPECIFICATION Spec
INVARIANTS
    TypeOK
    SectionsNest
    CompletionSeesSection
    WrittenFileReadsBack
    OnlyTheSection
CHECK_DEADLOCK FALSE
