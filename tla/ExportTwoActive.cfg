\* Two active validators of three: lists that omit one of them.
SPECIFICATION Spec
CONSTANTS
    Precision = 100
    Vals = {1, 2, 3}
    Accounts = {1, 2, 3}
    MaxValidators = 2
    PowerReduction = 2
    GenesisTokens <- TwoTokens
    Fees = 4
    Earning = 350
    Commission = 70
    SlashNumerator = 1
    SlashDenominator = 2
    MaxTokens = 3
    MaxHeight = 2
    JailLists <- AllLists
    ZeroHeight = {TRUE}
    ResumedBlocks = 0
INVARIANTS
    PaidAsIfNextBlock
    PanicsOnlyForTheList
CHECK_DEADLOCK FALSE
