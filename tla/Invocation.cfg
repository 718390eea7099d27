SPECIFICATION Spec
CHECK_DEADLOCK FALSE
CONSTANTS
    a1 = a1
    a1x = a1x
    b1 = b1
    ka = ka
    kb = kb
    c1 = c1
    c2 = c2
    c3 = c3
    m1 = m1
    m2 = m2
    m3 = m3
    m4 = m4
    n1 = n1
    n2 = n2
    receive = receive
    Fallback = Fallback
    s0 = s0
    s1 = s1
    None = None
    AccountAddrs <- MCAccountAddrs
    AccountKeys <- MCAccountKeys
    KeyOf <- MCKeyOf
    ContractAddrs <- MCContractAddrs
    ModuleRefs <- MCModuleRefs
    ContractNames <- MCContractNames
    Entrypoints <- MCEntrypoints
    StateVals <- MCStateVals
    QueryCost <- MCQueryCost
    Chains <- MCChains
    Transactions <- MCTransactions
    MaxAmount = 10
    UpdateBaseCost = 1
    SimpleTransferCost = 1
    InitBaseCost = 1
    InitCreateCost = 1
    KeysBaseCost = 1
    KeysReturnCost = 1
    SignatureCost = 1
    EnergyFactor = 2
    InterruptUses = {2}
    FinalUses = {1}
    Interrupts = {"call", "transfer", "upgrade", "account_balance", "contract_balance", "exchange_rates", "module_reference", "contract_name", "account_keys", "signature"}
    Amounts = {0, 3}
    Energies = {8}
    RootAmounts = {2}
    Senders = {a1x, b1, c2}
INVARIANTS
    TypeOK
    CheckpointsStacked
    TraceCheckpointsOrdered
    ResponseReady
    ContractSeesCurrent
    DeltasApplicable
    ReservedFundsKept
    LayersConserve
    UpgradesKeepContract
PROPERTIES
    LowerLayersKept
    Terminates
