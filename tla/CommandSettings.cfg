SPECIFICATION Spec
CONSTANTS
    NoApp = NoApp
    NoOption = NoOption
    NoValue = NoValue
    Root = "root"
    Apps <- SettingsApps
    Options <- SettingsOptions
    AppOf <- SettingsAppOf
    OptionOf <- SettingsOptionOf
    Words = {"good", "bad"}
    OptionTokens = {"--p", "--u"}
    TokenOf <- SettingsTokens
    DottedWords = {}
    PathOf <- NoPaths
    Lines <- SettingsLines
    Again <- ShortLines
    MaxLength = 4
INVARIANTS
    TopLevelNeverBreaks
    NoWordLost
