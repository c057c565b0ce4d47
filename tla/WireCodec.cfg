SPECIFICATION Spec
CONSTANTS
    GroupSize = 32
    MaxGroups = 3
    WordSize = 2048
    Int32Size = 16
    Authorities <- MCAuthorities
    Inputs <- MCInputs
INVARIANTS
    TypeOK
    NeverPanics
    RoundTrip
    AgreesWithGrammar
PROPERTIES
    Returns
CHECK_DEADLOCK FALSE
