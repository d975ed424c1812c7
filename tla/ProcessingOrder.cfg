SPECIFICATION Spec
CONSTANTS
    NoApp = NoApp
    NoOption = NoOption
    NoValue = NoValue
    Root = "root"
    Apps <- TheApps
    Options <- TheOptions
    AppOf <- TheAppOf
    OptionOf <- TheOptionOf
    Words = {}
    OptionTokens = {}
    TokenOf <- Nothing
    DottedWords = {}
    PathOf <- Nothing
    RulesOf <- TheRulesOf
    OptionRules <- TheOptionRules
    Files <- TheFiles
    MaxUses = 2
INVARIANTS
    TypeOK
    FinalOnce
    EveryOptionDelivered
    CompletionSeesOptions
    RequirementsKept
    HelpComesFirst
    FileErrorComesLast
PROPERTIES
    FinalsLast
CHECK_DEADLOCK FALSE
