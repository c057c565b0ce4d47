\* Exports of two blocks with an outside delegator, with every list.
SPECIFICATION Spec
CONSTANTS
    Precision = 100
    Vals = {1, 2}
    Accounts = {1, 2, 3}
    MaxValidators = 1
    PowerReduction = 1
    GenesisTokens <- TwoTokens
    Fees = 4
    Earning = 350
    Commission = 70
    SlashNumerator = 1
    SlashDenominator = 2
    MaxTokens = 4
    MaxHeight = 2
    JailLists <- AllLists
    ZeroHeight = {TRUE, FALSE}
    ResumedBlocks = 1
INVARIANTS
    TypeOK
    RefCounts
    Solvent
    FreshLedger
    ImportAccepted
    NothingFromTheFuture
CHECK_DEADLOCK FALSE
