\* Three invocations, stopped anywhere, for one to three validators.
SPECIFICATION Spec
CONSTANTS
    MaxNodes = 3
    Sizes = {1, 2, 3}
    StakeFlags <- SomeStakes
    PortLists <- SomePorts
    DefaultStake = 1
    Balance = 5
    Invocations = 3
INVARIANTS
    TypeOK
    Complete
    SameAppState
    GenesisConsistent
    RefusedForAReason
    ListensApart
CHECK_DEADLOCK FALSE
