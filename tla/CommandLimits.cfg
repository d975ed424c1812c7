SPECIFICATION FairSpec
CONSTANTS
    NoApp = NoApp
    NoOption = NoOption
    NoValue = NoValue
    Root = "root"
    Apps <- LimitsApps
    Options = {"other-pos", "third-x"}
    AppOf <- LimitsAppOf
    OptionOf <- LimitsOptionOf
    Words = {"w"}
    OptionTokens = {"--third.xx"}
    TokenOf <- LimitsTokens
    DottedWords = {}
    PathOf <- NoPaths
    Lines <- LimitsLines
    Again <- ShortLines
    MaxLength = 3
INVARIANTS
    MaxRespected
PROPERTIES
    Termination
