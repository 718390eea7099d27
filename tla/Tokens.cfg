SPECIFICATION Spec
CONSTANTS
    Alice = Alice
    Alias = Alias
    Bob = Bob
    Shop = Shop
    None = None
    MaxDepth = 2
    MaxOps = 5
    Accounts <- MCAccounts
    AliasedAccounts <- MCAliasedAccounts
    Contracts <- MCContracts
    Owner = Bob
    TokenIds = {"t1", "t2"}
    FungibleIds = {"t1"}
    Operators <- MCOperators
    Implementors <- MCImplementors
    Modulus = 256
    NftBatches <- MCNftBatches
    canonical <- MCcanonical
    MultiBatches <- MCMultiBatches
    Permits <- MCPermits
    Grants <- MCGrants
    mint_airdrop = 254
    BurnAmounts = {1}
    MaxMints = 2
    WccdBatches <- MCWccdBatches
    Amounts = {1, 2}
    MaxCcd = 3
    Cis3Batches <- MCCis3Batches
    Cis3Permits <- MCCis3Permits
    MaxTokenId = 3
    NameBatches <- MCNameBatches
    REGISTRATION_PERIOD_DAYS = 1
    TimeLimit = 4
    MaxNow = 3
    REGISTRATION_FEE = 3
    UPDATE_FEE = 1
    RENEWAL_FEE = 1
    MaxBalance = 8
    DynamicBatches <- MCDynamicBatches
    Lists <- MCLists
    token_amount = 254
    MaxMetadata = 3
    RoyaltyBatches <- MCRoyaltyBatches
    MintAmounts = {2, 254}
    Percentages = {50, 101}
INVARIANTS
    LogTellsState
    OneOwner
    PermitsOnce
    WccdBacked
PROPERTIES
    Frozen
    NamesKept
CHECK_DEADLOCK FALSE
