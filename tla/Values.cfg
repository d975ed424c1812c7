SPECIFICATION Spec
CONSTANTS
    Control = "^"
    Long = 6
    LongBits = 6
    IntBits = 8
    Declarations <- MCDeclarations
    MaxValidators = 2
INVARIANTS
    ConversionExact
    ValueArrives
    StoredIsAccepted
    SameAfterWriting
CHECK_DEADLOCK FALSE
