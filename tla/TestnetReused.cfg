\* An operator that the chain already knows.
SPECIFICATION TestnetSpec
CONSTANTS
    Precision = 100
    Vals = {1, 2}
    Accounts = {1, 2, 3}
    MaxValidators = 1
    PowerReduction = 1
    GenesisTokens <- TwoTokens
    Fees = 4
    Earning = 350
    Commission = 70
    SlashNumerator = 1
    SlashDenominator = 2
    MaxTokens = 11
    MaxHeight = 2
    JailLists <- NoList
    ZeroHeight = {}
    ResumedBlocks = 0
    Operators = {1}
    FundFlags <- OneAccount
    VotingPower = 9
    InitialShares = 100
    TestnetBlocks = 1
INVARIANTS
    RecordsInitialized
CHECK_DEADLOCK FALSE
