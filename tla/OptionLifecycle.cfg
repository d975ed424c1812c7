SPECIFICATION Spec
CONSTANTS
    a = a
    b = b
    bad = bad
    Blank = Blank
    EmptyVec = EmptyVec
    EndMark = EndMark
    Values = {a, b, bad}
    Rejected = {bad}
    Unconvertible = {}
    Unlimited = 5
    Declarations <- Lifecycle
    ChosenPolicies = {"Throw", "TakeLast", "TakeFirst", "Join", "TakeAll", "Sum", "Reverse"}
    Defaults = {a}
    Typed = {a, b, bad}
    ClientCalls = {"reads"}
    MaxResults = 2
    MaxArgument = 2
INVARIANTS
    ReadsAfterParseAreCurrent
    ReadsAgreeWithBoundVariable
    CallbackRunsOncePerParse
    EachResultValidatedOnce
PROPERTIES
    KeepsContract
