SPECIFICATION Spec
CONSTANTS
    a = a
    b = b
    bad = bad
    Blank = Blank
    EmptyVec = EmptyVec
    EndMark = EndMark
    Values = {a, b}
    Rejected = {b}
    Unconvertible = {b}
    Unlimited = 5
    Declarations <- Anything
    ChosenPolicies = {"Throw", "TakeLast", "Sum", "Reverse"}
    Defaults = {a, b}
    Typed = {a, EmptyVec}
    ClientCalls = {"reads", "stream", "defaults", "policy", "add"}
    MaxResults = 2
    MaxArgument = 2
INVARIANTS
    TypeOK
    ValidatedMeansReductionThrew
