SPECIFICATION Spec
CONSTANTS
    NoApp = NoApp
    NoOption = NoOption
    NoValue = NoValue
    Root = "root"
    Apps <- TypicalApps
    Options <- TypicalOptions
    AppOf <- TypicalAppOf
    OptionOf <- TypicalOptionOf
    Words = {"w"}
    OptionTokens = {"--v", "--gx", "--t", "--u", "--sub.t", "--inner.q"}
    TokenOf <- TypicalTokens
    DottedWords = {}
    PathOf <- NoPaths
    Lines <- TypicalLines
    Again <- ShortLines
    MaxLength = 4
INVARIANTS
    TypeOK
    NoHorribleError
    PositionalsFillInOrder
    ListedOnceParsed
PROPERTIES
    OptionsKeepResults
