\* A list of well-formed addresses that omits an active validator.
SPECIFICATION Spec
CONSTANTS
    Precision = 100
    Vals = {1, 2}
    Accounts = {1, 2}
    MaxValidators = 1
    PowerReduction = 1
    GenesisTokens <- TwoTokens
    Fees = 4
    Earning = 350
    Commission = 70
    SlashNumerator = 1
    SlashDenominator = 2
    MaxTokens = 3
    MaxHeight = 2
    JailLists <- WellFormedLists
    ZeroHeight = {TRUE}
    ResumedBlocks = 0
INVARIANTS
    PreparesFreshStart
CHECK_DEADLOCK FALSE
