\* Two blocks, the command, three blocks of the testnet, and
\* exports of it, at zero height or not.
SPECIFICATION TestnetSpec
CONSTANTS
    Precision = 100
    Vals = {1, 2}
    Accounts = {1, 2, 3}
    MaxValidators = 1
    PowerReduction = 1
    GenesisTokens <- TwoTokens
    Fees = 4
    Earning = 350
    Commission = 70
    SlashNumerator = 1
    SlashDenominator = 2
    MaxTokens = 11
    MaxHeight = 2
    JailLists <- NoList
    ZeroHeight = {TRUE, FALSE}
    ResumedBlocks = 0
    Operators = {1, 3}
    FundFlags <- SomeFlags
    VotingPower = 6
    InitialShares = 300
    TestnetBlocks = 3
INVARIANTS
    TestnetTypeOK
    OneValidator
    NewRecordsCounted
    NewDelegatorsCanWithdraw
    NewDelegatorsRedeemable
    RewardsBacked
    PanicsOnlyForTheStranded
CHECK_DEADLOCK FALSE
