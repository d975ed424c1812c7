SPECIFICATION FairSpec
CONSTANTS
    NoApp = NoApp
    NoOption = NoOption
    NoValue = NoValue
    Root = "root"
    Apps <- WaitingApps
    Options = {"first-pos"}
    AppOf <- WaitingAppOf
    OptionOf <- WaitingOptionOf
    Words = {"good"}
    OptionTokens = {}
    TokenOf <- NoPaths
    DottedWords = {}
    PathOf <- NoPaths
    Lines <- WaitingLines
    Again <- ShortLines
    MaxLength = 3
PROPERTIES
    Termination
