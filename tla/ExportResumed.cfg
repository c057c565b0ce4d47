\* Two blocks, an export, and two blocks of the resumed chain.
SPECIFICATION Spec
CONSTANTS
    Precision = 100
    Vals = {1, 2}
    Accounts = {1, 2}
    MaxValidators = 1
    PowerReduction = 2
    GenesisTokens <- TwoTokens
    Fees = 4
    Earning = 350
    Commission = 70
    SlashNumerator = 1
    SlashDenominator = 2
    MaxTokens = 4
    MaxHeight = 2
    JailLists <- TwoLists
    ZeroHeight = {TRUE, FALSE}
    ResumedBlocks = 2
INVARIANTS
    CanWithdraw
    ActiveSetAgrees
PROPERTIES
    KeepsTheLedger
CHECK_DEADLOCK FALSE
