SPECIFICATION ChainSpec
CHECK_DEADLOCK FALSE
CONSTANTS
    a1 = a1
    a1x = a1x
    b1 = b1
    d1 = d1
    ka = ka
    kb = kb
    kc = kc
    m1 = m1
    m2 = m2
    m3 = m3
    n1 = n1
    n2 = n2
    receive = receive
    Fallback = Fallback
    s0 = s0
    s1 = s1
    None = None
    MaxAmount = 100
    AccountAddrs <- MCAccountAddrs
    AccountKeys <- MCAccountKeys
    KeyOf <- MCKeyOf
    ContractAddrs <- MCContractAddrs
    ModuleRefs <- MCModuleRefs
    ContractNames <- MCContractNames
    Entrypoints <- MCEntrypoints
    StateVals <- MCStateVals
    StateSize <- MCStateSize
    QueryCost <- MCQueryCost
    Rates <- MCRates
    Issues <- MCIssues
    Deployable <- MCDeployable
    InitStates <- MCInitStates
    Chains <- MCChains
    Transactions <- MCTransactions
    UpdateBaseCost = 1
    SimpleTransferCost = 1
    InitBaseCost = 1
    InitCreateCost = 1
    KeysBaseCost = 1
    KeysReturnCost = 1
    SignatureCost = 1
    HeaderCost = 1
    DeployCost = 1
    EnergyFactor = 2
    InterruptUses = {3}
    FinalUses = {1}
    Interrupts = {"call", "transfer"}
    Amounts = {1}
    MaxOps = 2
INVARIANTS
    SupplyConserved
    LockedFundsKept
PROPERTIES
    EffectsContained
