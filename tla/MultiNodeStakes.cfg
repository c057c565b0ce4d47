\* A list of amounts whose first entry is no number.
SPECIFICATION Spec
CONSTANTS
    MaxNodes = 2
    Sizes = {2}
    StakeFlags <- OneMisread
    PortLists <- NoPorts
    DefaultStake = 1
    Balance = 5
    Invocations = 1
INVARIANTS
    StakesAsGiven
CHECK_DEADLOCK FALSE
