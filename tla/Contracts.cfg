SPECIFICATION Spec
CONSTANTS
    Alice = Alice
    Bob = Bob
    Carol = Carol
    Shop = Shop
    Self = Self
    Weather = Weather
    None = None
    MaxDepth = 2
    MaxOps = 5
    Accounts <- MCAccounts
    Contracts <- MCContracts
    Owner = Alice
    Wealth = 4
    MaxNow = 2
    Partners <- MCPartners
    Bids = {1, 2, 3, 4}
    minimum_raise = 1
    MicroCcdPerCent = 2
    AuctionEnd = 1
    num_options = 2
    end_time = 1
    Files = {"f1", "f2"}
    account_holders <- MCPartners
    transfer_agreement_threshold = 2
    transfer_request_ttl = 1
    RequestIds = {1, 2}
    Requests <- MCRequests
    Deposits = {2}
    Attached = {0, 2}
    AmountModulus = 32
    validator = Alice
    judge = Bob
    time_to_finality = 1
    settlement_limit = 2
    Transfers <- MCTransfers
    SheetAmounts = {1, 2}
    MaxSettlements = 3
    TokenIds = {"t1", "t2"}
    TokenBids = {1, 2, 3}
    minimum_bid = 1
    ItemTimes <- MCItemTimes
    CounterLimit = 65536
    MaxItems = 2
    Prices = {1, 2}
    Products <- MCProducts
    MaxProducts = 3
    PublicKeys = {"k1", "k2"}
    SignedBatches <- MCSignedBatches
    WalletAmounts = {2}
    AmountLimit = 6
    WalletImplementors <- MCRegistryImplementors
    WalletMaxNow = 1
    Holders = {"h1", "h2"}
    RevocationKeys = {"r1"}
    issuer_account = Alice
    CredentialInfos <- MCCredentialInfos
    Revocations <- MCRevocations
    Urls = {"url1", "url2"}
    RegistryImplementors <- MCRegistryImplementors
    Coins = {1, 2}
INVARIANTS
    FundsAccounted
    FundsSetAside
    RecordsAgree
    SignedOnce
PROPERTIES
    Final
CHECK_DEADLOCK FALSE
