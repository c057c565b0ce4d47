\* A zero-height export of the testnet.
SPECIFICATION TestnetSpec
CONSTANTS
    Precision = 100
    Vals = {1, 2}
    Accounts = {1, 2, 3}
    MaxValidators = 1
    PowerReduction = 1
    GenesisTokens <- TwoTokens
    Fees = 4
    Earning = 350
    Commission = 70
    SlashNumerator = 1
    SlashDenominator = 2
    MaxTokens = 11
    MaxHeight = 1
    JailLists <- NoList
    ZeroHeight = {TRUE}
    ResumedBlocks = 0
    Operators = {3}
    FundFlags <- OneAccount
    VotingPower = 9
    InitialShares = 100
    TestnetBlocks = 1
INVARIANTS
    BeforeDelegationCreatedReturnsNil
CHECK_DEADLOCK FALSE
