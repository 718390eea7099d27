------------------------------- MODULE Chain -------------------------------
(***************************************************************************)
(* The Chain of contract-testing (src/impls.rs): accounts, modules and     *)
(* contracts, and the operations a test performs on them one after         *)
(* another.  A contract update or invocation builds a handler (module      *)
(* Invocation), lets it run, and persists or discards its changeset.       *)
(***************************************************************************)
EXTENDS Invocation

CONSTANTS
    HeaderCost,      \* base_cost of a transaction's header and signatures
    DeployCost,      \* deploy_module
    StateSize,       \* bytes of state the chain stores for each state
    Rates,           \* micro CCD per energy, as [num, den]
    Issues,          \* balances create_account is called with
    Deployable,      \* modules that can be deployed, by reference
    InitStates,      \* states the init functions leave
    MaxOps           \* bound on the operations of a test

ASSUME ChainCosts ==
    /\ {HeaderCost, DeployCost, MaxOps} \subseteq Nat
    /\ StateSize \in [StateVals -> Nat]
    /\ Rates \subseteq [num: Nat, den: Nat \ {0}]
    /\ Issues \subseteq {b \in Account : available(b) >= 0}  \* AccountBalance::new
    /\ Deployable \in [ModuleRefs -> Module \cup {None}]
    /\ InitStates \subseteq StateVals
    /\ None \notin Account \cup Contract \cup Module

(* Addresses are given out from 0 on. *)
ASSUME NumberAssumption ==
    /\ ContractAddrs \subseteq Nat
    /\ \A ch \in Chains : \A c \in ContractAddrs :
          ch.contracts[c] # None =>
            c < Cardinality({b \in ContractAddrs : ch.contracts[b] # None})

VARIABLES
    next_contract_index,
    rate,            \* the product of the two exchange rates
    mode,            \* the operation that is under way
    report,          \* transaction_fee of the last result, and what was charged
    issued,          \* history: CCD that create_account brought in
    fees,            \* history: CCD charged for energy
    ops              \* operations so far

chainVars == <<next_contract_index, rate, mode, report, issued, fees, ops>>

handlerVars == <<tx, changeset, remaining_energy, module_load_energy,
                 next_contract_modification_index, stack, running,
                 invoke_response, trace_elements, status, leaked>>

allVars == <<vars, chainVars>>

(* energy_to_amount rounds up *)
calculate_energy_cost(energy) == (energy * rate.num + rate.den - 1) \div rate.den

NoReport == [fee |-> 0, charged |-> 0]

(* Between operations there is no handler; its variables have any value.   *)
NoTransaction == CHOOSE t \in Transactions : TRUE

(* HandlerInit, as the effect of a step *)
HandlerStarts(t, energy) ==
    /\ tx' = t
    /\ changeset' = <<EmptyLayer>>
    /\ remaining_energy' = energy
    /\ module_load_energy' = 0
    /\ next_contract_modification_index' = 1
    /\ stack' = <<InitialFrame(t.sender, t.address, t.name, t.entrypoint, t.amount, 0)>>
    /\ running' = None
    /\ invoke_response' = None
    /\ trace_elements' = 0
    /\ status' = "pop"
    /\ leaked' = FALSE

(* A test starts with a chain that has the first contracts deployed.       *)
ChainInit ==
    /\ \E ch \in Chains : /\ accounts = ch.accounts
                          /\ contracts = ch.contracts
                          /\ modules = ch.modules
    /\ HandlerInit(NoTransaction, 0)
    /\ next_contract_index = Cardinality({c \in ContractAddrs : contracts[c] # None})
    /\ rate \in Rates
    /\ mode = "idle"
    /\ report = NoReport
    /\ issued = TotalOfAccounts + TotalOfContracts
    /\ fees = 0
    /\ ops = 0

Idle == mode = "idle" /\ ops < MaxOps

(* An operation ends: what it reports as its fee, and what it charged.     *)
Reports(fee, charged) ==
    /\ report' = [fee |-> fee, charged |-> charged]
    /\ fees' = fees + charged
    /\ ops' = ops + 1

-----------------------------------------------------------------------------
(* create_account replaces an account that exists. *)
create_account(a, balance) ==
    LET k == KeyOf[a]
    IN  /\ Idle
        /\ accounts' = [accounts EXCEPT ![k] = balance]
        /\ issued' = issued + balance.total
                        - (IF accounts[k] = None THEN 0 ELSE accounts[k].total)
        /\ Reports(0, 0)
        /\ UNCHANGED <<handlerVars, contracts, modules, next_contract_index, rate, mode>>

set_exchange_rates(r) ==
    /\ Idle
    /\ rate' = r
    /\ Reports(0, 0)
    /\ UNCHANGED <<handlerVars, accounts, contracts, modules, next_contract_index,
                   mode, issued>>

Charge(k, fee) == [accounts EXCEPT ![k].total = @ - fee]

(* module_deploy_v1_debug: a module of version 0 is refused; an invalid or *)
(* duplicate one is paid for like one that is stored.                      *)
module_deploy(a, m, v1) ==
    LET k   == KeyOf[a]
        fee == calculate_energy_cost(HeaderCost + DeployCost)
        can == accounts[k] # None /\ v1 /\ available(accounts[k]) >= fee
    IN  /\ Idle
        /\ \/ ~can /\ UNCHANGED <<accounts, modules>> /\ Reports(0, 0)
           \/ /\ can
              /\ accounts' = Charge(k, fee)
              /\ modules' = IF Deployable[m] = None \/ modules[m] # None THEN modules
                            ELSE [modules EXCEPT ![m] = Deployable[m]]
              /\ Reports(fee, fee)
        /\ UNCHANGED <<handlerVars, contracts, next_contract_index, rate, mode, issued>>

-----------------------------------------------------------------------------
(* contract_init *)

(* The energy of the steps before the init function runs *)
InitPrelude(m) == HeaderCost + InitBaseCost + modules[m].lookup_cost

InitOver(k, spent) ==
    /\ accounts' = Charge(k, calculate_energy_cost(spent))
    /\ Reports(calculate_energy_cost(spent), calculate_energy_cost(spent))
    /\ UNCHANGED <<handlerVars, contracts, modules, rate, mode, issued>>

(* The checks that fail before the init function is run, in their order,   *)
(* with the energy spent by then.  Running out of energy costs only what   *)
(* was charged before.                                                     *)
contract_init_fails(a, m, name, amount, energy, fits) ==
    LET k    == KeyOf[a]
        cost == calculate_energy_cost(energy)
        free == available(accounts[k])
        H    == HeaderCost
        B    == HeaderCost + InitBaseCost
    IN  /\ Idle
        /\ \/ /\ accounts[k] = None
              /\ Reports(0, 0)
              /\ UNCHANGED <<handlerVars, accounts, contracts, modules, rate, mode, issued>>
           \/ /\ accounts[k] # None
              /\ free < cost \/ energy < H
              /\ InitOver(k, 0)
           \/ /\ accounts[k] # None
              /\ free >= cost /\ energy >= H
              /\ ~fits \/ energy < B
              /\ InitOver(k, H)
           \/ /\ accounts[k] # None
              /\ free >= cost /\ energy >= B /\ fits
              /\ \/ free < cost + amount
                 \/ modules[m] = None
                 \/ modules[m] # None /\ energy < InitPrelude(m)
              /\ InitOver(k, B)
           \/ /\ accounts[k] # None
              /\ free >= cost + amount /\ fits
              /\ modules[m] # None
              /\ energy >= InitPrelude(m)
              /\ name \notin modules[m].exports
              /\ InitOver(k, InitPrelude(m))
        /\ UNCHANGED next_contract_index

(* The init function is run. *)
InitRuns(a, m, name, amount, energy) ==
    /\ Idle
    /\ accounts[KeyOf[a]] # None
    /\ available(accounts[KeyOf[a]]) >= calculate_energy_cost(energy) + amount
    /\ modules[m] # None
    /\ name \in modules[m].exports
    /\ energy >= InitPrelude(m)

(* It rejects or traps, exhausts its energy, or returns an invalid code.   *)
contract_init_run_fails(a, m, name, amount, energy, used) ==
    LET spent == InitPrelude(m)
    IN  /\ InitRuns(a, m, name, amount, energy)
        /\ \/ /\ used <= (energy - spent) * EnergyFactor
              /\ InitOver(KeyOf[a], spent + from_interpreter_energy(used))
           \/ InitOver(KeyOf[a], energy)
           \/ InitOver(KeyOf[a], spent)
        /\ UNCHANGED next_contract_index

(* It succeeds, but storing the contract cannot be paid: its address has   *)
(* been taken.                                                             *)
contract_init_unpaid(a, m, name, amount, energy, used, state) ==
    LET spent == InitPrelude(m) + from_interpreter_energy(used)
    IN  /\ InitRuns(a, m, name, amount, energy)
        /\ used <= (energy - InitPrelude(m)) * EnergyFactor
        /\ \/ energy < spent + StateSize[state] /\ InitOver(KeyOf[a], spent)
           \/ /\ energy >= spent + StateSize[state]
              /\ energy < spent + StateSize[state] + InitCreateCost
              /\ InitOver(KeyOf[a], spent + StateSize[state])
        /\ next_contract_index' = next_contract_index + 1

(* The contract is created, and the sender pays its balance and the fee.   *)
contract_init_succeeds(a, m, name, amount, energy, used, state) ==
    LET spent == InitPrelude(m) + from_interpreter_energy(used)
                   + StateSize[state] + InitCreateCost
        fee   == calculate_energy_cost(spent)
    IN  /\ InitRuns(a, m, name, amount, energy)
        /\ used <= (energy - InitPrelude(m)) * EnergyFactor
        /\ energy >= spent
        /\ next_contract_index \in ContractAddrs  \* bound: the addresses of the model
        /\ contracts' = [contracts EXCEPT ![next_contract_index] =
                           [module_reference |-> m, contract_name |-> name,
                            state |-> state, self_balance |-> amount]]
        /\ next_contract_index' = next_contract_index + 1
        /\ accounts' = Charge(KeyOf[a], amount + fee)
        /\ Reports(fee, fee)
        /\ UNCHANGED <<handlerVars, modules, rate, mode, issued>>

-----------------------------------------------------------------------------
(* contract_update and contract_invoke *)

(* The request r with the amount its energy reserves *)
Priced(r) == [r EXCEPT !.reserved_amount = calculate_energy_cost(r.energy_reserved)]

address_exists(address) ==
    IF address \in AccountAddrs THEN accounts[KeyOf[address]] # None
                                ELSE contracts[address] # None

(* Sender and invoker exist, and the energy can be paid for. *)
Payable(r) ==
    /\ address_exists(r.sender)
    /\ address_exists(r.invoker)
    /\ available(accounts[KeyOf[r.invoker]]) >= calculate_energy_cost(r.energy_reserved)

(* contract_update is refused before its worker is called: nothing is      *)
(* charged, though InsufficientFunds reports the fee of the header.        *)
contract_update_refused(r) ==
    LET known == address_exists(r.sender) /\ address_exists(r.invoker)
    IN  /\ Idle
        /\ \/ /\ ~known \/ r.energy_reserved < HeaderCost
              /\ Reports(0, 0)
           \/ /\ known /\ r.energy_reserved >= HeaderCost
              /\ ~Payable(r)
              /\ Reports(calculate_energy_cost(HeaderCost), 0)
        /\ UNCHANGED <<handlerVars, accounts, contracts, modules, next_contract_index,
                       rate, mode, issued>>

(* The worker refuses: contract missing, parameter or amount too large.    *)
contract_update_invalid(r, fits) ==
    LET fee == calculate_energy_cost(HeaderCost)
    IN  /\ Idle
        /\ Payable(r) /\ r.energy_reserved >= HeaderCost
        /\ ~fits \/ ~Admissible(Priced(r))
        /\ accounts' = Charge(KeyOf[r.invoker], fee)
        /\ Reports(fee, fee)
        /\ UNCHANGED <<handlerVars, contracts, modules, next_contract_index, rate,
                       mode, issued>>

contract_update(r) ==
    /\ Idle
    /\ Payable(r) /\ r.energy_reserved >= HeaderCost
    /\ Admissible(Priced(r))
    /\ HandlerStarts(Priced(r), r.energy_reserved - HeaderCost)
    /\ mode' = "update"
    /\ UNCHANGED <<accounts, contracts, modules, next_contract_index, rate, report,
                   issued, fees, ops>>

(* contract_invoke is no transaction: no header, and nobody pays.  When it *)
(* is refused nothing happens.                                             *)
contract_invoke(r) ==
    /\ Idle
    /\ Payable(r)
    /\ Admissible(Priced(r))
    /\ HandlerStarts(Priced(r), r.energy_reserved)
    /\ mode' = "invoke"
    /\ UNCHANGED <<accounts, contracts, modules, next_contract_index, rate, report,
                   issued, fees, ops>>

HandlerStep == mode # "idle" /\ Next /\ UNCHANGED chainVars

(* The energy for the states that persist or collect_energy_for_state      *)
(* would store                                                             *)
StateEnergy ==
    LET sizes == [c \in ContractAddrs |->
                    IF Top.contracts[c] # None /\ Top.contracts[c].state # None
                      THEN StateSize[Top.contracts[c].state] ELSE 0]
    IN  SumOver(sizes, ContractAddrs)

(* Mutant: the balance of a contract is written from the wrong base. *)
PersistedContract_stale(c) ==
    LET entry == Top.contracts[c]
    IN  IF entry = None THEN contracts[c]
        ELSE [contracts[c] EXCEPT
                !.state = IF entry.state = None THEN @ ELSE entry.state,
                !.module_reference = IF entry.module = None THEN @ ELSE entry.module]

(* ChangeSet::persist, for one contract *)
PersistedContract(c) ==
    LET entry == Top.contracts[c]
    IN  IF entry = None THEN contracts[c]
        ELSE [contracts[c] EXCEPT
                !.self_balance = IF is_zero(entry.self_balance_delta) THEN @
                                 ELSE apply_to_balance(entry.self_balance_delta,
                                                       entry.self_balance_original),
                !.state = IF entry.state = None THEN @ ELSE entry.state,
                !.module_reference = IF entry.module = None THEN @ ELSE entry.module]

(* ChangeSet::persist, for one account: the delta applies to the total     *)
PersistedAccount(k) ==
    LET entry == Top.accounts[k]
    IN  IF entry = None THEN accounts[k]
        ELSE [accounts[k] EXCEPT !.total = apply_to_balance(entry.balance_delta, @)]

(* persist expect()s the totals to be amounts: a credit was only checked   *)
(* against what is available.  The panic ends the test.                    *)
Persistable ==
    \A k \in AccountKeys : Top.accounts[k] # None =>
      apply_to_balance(Top.accounts[k].balance_delta, accounts[k].total) \in Amount

EndOperation ==
    /\ mode' = "idle"
    /\ HandlerStarts(NoTransaction, 0)
    /\ UNCHANGED <<modules, next_contract_index, rate, issued>>

(* contract_update: the changes are persisted and the fee is charged.      *)
UpdateSucceeds ==
    LET fee == calculate_energy_cost(tx.energy_reserved - remaining_energy + StateEnergy)
        k   == KeyOf[tx.invoker]
    IN  /\ mode = "update" /\ status = "returned"
        /\ invoke_response.success
        /\ StateEnergy <= remaining_energy
        /\ Persistable
        /\ contracts' = [c \in ContractAddrs |-> PersistedContract(c)]
        /\ accounts' = [[j \in AccountKeys |-> PersistedAccount(j)]
                           EXCEPT ![k].total = @ - fee]
        /\ Reports(fee, fee)
        /\ EndOperation

(* contract_update: the state cannot be paid for.  The early return leaves *)
(* out the charge.                                                         *)
UpdateUnstored ==
    /\ mode = "update" /\ status = "returned"
    /\ invoke_response.success
    /\ StateEnergy > remaining_energy
    /\ Reports(calculate_energy_cost(tx.energy_reserved), 0)
    /\ UNCHANGED <<accounts, contracts>>
    /\ EndOperation

(* Mutant: the changes of a failed update are persisted. *)
UpdateFails_persists ==
    LET left == IF status = "outOfEnergy" THEN 0 ELSE remaining_energy
        fee  == calculate_energy_cost(tx.energy_reserved - left)
        k    == KeyOf[tx.invoker]
    IN  /\ mode = "update"
        /\ \/ status = "returned" /\ ~invoke_response.success
           \/ status \in {"outOfEnergy", "overflow"}
        /\ contracts' = [c \in ContractAddrs |-> PersistedContract(c)]
        /\ accounts' = Charge(k, fee)
        /\ Reports(fee, fee)
        /\ EndOperation

(* Mutant: the reserved energy of a failed update is charged twice. *)
UpdateFails_charges_twice ==
    LET fee == 2 * calculate_energy_cost(tx.energy_reserved)
        k   == KeyOf[tx.invoker]
    IN  /\ mode = "update"
        /\ \/ status = "returned" /\ ~invoke_response.success
           \/ status \in {"outOfEnergy", "overflow"}
        /\ accounts' = Charge(k, fee)
        /\ Reports(fee, fee)
        /\ UNCHANGED contracts
        /\ EndOperation

(* contract_update: the call failed, ran out of energy or overflowed. *)
UpdateFails ==
    LET left == IF status = "outOfEnergy" THEN 0 ELSE remaining_energy
        fee  == calculate_energy_cost(tx.energy_reserved - left)
        k    == KeyOf[tx.invoker]
    IN  /\ mode = "update"
        /\ \/ status = "returned" /\ ~invoke_response.success
           \/ status \in {"outOfEnergy", "overflow"}
        /\ accounts' = Charge(k, fee)
        /\ Reports(fee, fee)
        /\ UNCHANGED contracts
        /\ EndOperation

(* contract_invoke: the changeset is dropped, whatever the result. *)
InvokeEnds ==
    /\ mode = "invoke"
    /\ status \in {"returned", "outOfEnergy", "overflow"}
    /\ Reports(0, 0)
    /\ UNCHANGED <<accounts, contracts>>
    /\ EndOperation

-----------------------------------------------------------------------------

InitAny ==
    \E a \in AccountAddrs, m \in ModuleRefs, name \in ContractNames,
       r \in Transactions, fits \in BOOLEAN :
      \/ contract_init_fails(a, m, name, r.amount, r.energy_reserved, fits)
      \/ \E used \in FinalUses :
           \/ contract_init_run_fails(a, m, name, r.amount, r.energy_reserved, used)
           \/ \E state \in InitStates :
                \/ contract_init_unpaid(a, m, name, r.amount, r.energy_reserved, used, state)
                \/ contract_init_succeeds(a, m, name, r.amount, r.energy_reserved, used, state)

ChainNext ==
    \/ \E a \in AccountAddrs, balance \in Issues : create_account(a, balance)
    \/ \E r \in Rates : set_exchange_rates(r)
    \/ \E a \in AccountAddrs, m \in ModuleRefs, v1 \in BOOLEAN : module_deploy(a, m, v1)
    \/ InitAny
    \/ \E r \in Transactions : \/ contract_update_refused(r)
                               \/ \E fits \in BOOLEAN : contract_update_invalid(r, fits)
                               \/ contract_update(r)
                               \/ contract_invoke(r)
    \/ HandlerStep
    \/ UpdateSucceeds \/ UpdateUnstored \/ UpdateFails \/ InvokeEnds

ChainSpec == ChainInit /\ [][ChainNext]_allVars

-----------------------------------------------------------------------------
(* Properties *)

(* CCD moves between accounts, contracts and fees, and nowhere else: what  *)
(* create_account brought in is all there is, after any sequence of        *)
(* deployments, initialisations, updates and invocations.                  *)
SupplyConserved == TotalOfAccounts + TotalOfContracts + fees = issued

(* No operation spends what an account has staked or locked, nor charges a *)
(* fee the account cannot pay: available() never underflows.               *)
LockedFundsKept ==
    \A k \in AccountKeys : accounts[k] # None =>
      /\ accounts[k].total >= 0
      /\ available(accounts[k]) >= 0

(* An address is given out once: initialising a contract never overwrites  *)
(* another one, also when an earlier initialisation took an address and    *)
(* then failed; outside updates contracts do not change.                   *)
ContractsPersist ==
    mode = "idle" => \A c \in ContractAddrs :
      contracts[c] # None => contracts'[c] = contracts[c]

(* Only the invoker and the sender of an update can lose CCD in it: a      *)
(* contract can pay an account but never take from it.                     *)
OnlyPartiesPay ==
    mode = "update" => \A k \in AccountKeys :
      accounts[k] # None /\ accounts'[k].total < accounts[k].total =>
        \/ k = KeyOf[tx.invoker]
        \/ tx.sender \in AccountAddrs /\ k = KeyOf[tx.sender]

(* An update that fails changes nothing but the balance of its invoker,    *)
(* whatever the contracts did before it failed; a contract_invoke changes  *)
(* nothing at all.                                                         *)
FailureChangesNothing ==
    /\ mode = "invoke" => accounts' = accounts /\ contracts' = contracts
    /\ mode = "update" /\ (status = "outOfEnergy" \/ status = "overflow"
                            \/ (status = "returned" /\ ~invoke_response.success))
         => /\ contracts' = contracts
            /\ \A k \in AccountKeys \ {KeyOf[tx.invoker]} : accounts'[k] = accounts[k]

(* What an operation may change: nothing when it fails, besides the fee,   *)
(* no contract that exists when it creates another, and nobody's CCD but   *)
(* that of the accounts which asked for it.                                *)
EffectsContained ==
    [][ContractsPersist /\ OnlyPartiesPay /\ FailureChangesNothing]_allVars

(* "The transaction fee. For [`Chain::contract_update`], this is the       *)
(* amount charged to the `invoker` account." (contract-testing/src/        *)
(* types.rs:1044)                                                          *)
ReportedFeeCharged == report.fee = report.charged

=============================================================================
