----------------------------- MODULE Invocation -----------------------------
(***************************************************************************)
(* EntrypointInvocationHandler::invoke_entrypoint of contract-testing      *)
(* (src/invocation/impls.rs): one top-level contract call, driven by an    *)
(* explicit stack of things to do.  A turn of its loop pops a frame (an    *)
(* entrypoint to start, or an interrupted one to resume), runs the Wasm    *)
(* interpreter, and handles the result.                                    *)
(*                                                                         *)
(* The contracts are not fixed: a run of the interpreter ends in any of    *)
(* its results, after any write of the contract's state and any use of     *)
(* energy the constants allow.  The chain is only read.                    *)
(***************************************************************************)
EXTENDS ChangeSet

CONSTANTS
    UpdateBaseCost,      \* UPDATE_CONTRACT_INSTANCE_BASE_COST
    SimpleTransferCost,  \* SIMPLE_TRANSFER
    InitBaseCost,        \* INITIALIZE_CONTRACT_INSTANCE_BASE_COST
    InitCreateCost,      \* INITIALIZE_CONTRACT_INSTANCE_CREATE_COST
    QueryCost,           \* CONTRACT_INSTANCE_QUERY_*_COST, by kind of query
    KeysBaseCost,        \* CONTRACT_INSTANCE_QUERY_ACCOUNT_KEYS_BASE_COST
    KeysReturnCost,      \* contract_instance_query_account_keys_return_cost
    SignatureCost,       \* verify_ed25519_energy_cost
    EnergyFactor,        \* interpreter energy per energy (1000)
    InterruptUses,       \* interpreter energy of a run that ends in an interrupt
    FinalUses,           \* interpreter energy of any other run
    Interrupts,          \* the kinds of interrupt the contracts make
    Amounts,             \* amounts the contracts send
    Chains,              \* accounts, contracts and modules to start from
    Transactions         \* root calls

QueryKinds == {"account_balance", "contract_balance", "exchange_rates",
               "module_reference", "contract_name"}

ASSUME CostAssumption ==
    /\ {UpdateBaseCost, SimpleTransferCost, InitBaseCost, InitCreateCost} \subseteq Nat
    /\ {KeysBaseCost, KeysReturnCost, SignatureCost} \subseteq Nat
    /\ QueryCost \in [QueryKinds -> Nat]
    /\ EnergyFactor \in Nat \ {0}
    /\ FinalUses \subseteq Nat
    /\ InterruptUses \subseteq Nat
    /\ \A u \in InterruptUses : u >= EnergyFactor  \* the engine's INVOKE_BASE_COST
    /\ Amounts \subseteq Amount

(* A chain is well formed: modules of contracts are deployed, accounts own *)
(* at least what they have staked or locked.                               *)
WellFormed(ch) ==
    /\ ch.accounts \in [AccountKeys -> Account \cup {None}]
    /\ ch.contracts \in [ContractAddrs -> Contract \cup {None}]
    /\ ch.modules \in [ModuleRefs -> Module \cup {None}]
    /\ \A c \in ContractAddrs : ch.contracts[c] # None =>
          /\ ch.modules[ch.contracts[c].module_reference] # None
          /\ ch.contracts[c].contract_name
                \in ch.modules[ch.contracts[c].module_reference].exports
    /\ \A k \in AccountKeys : ch.accounts[k] # None => available(ch.accounts[k]) >= 0

ASSUME ChainAssumption == \A ch \in Chains : WellFormed(ch)

VARIABLES
    remaining_energy,
    module_load_energy,
    next_contract_modification_index,
    stack,            \* frames still to do, the last one first
    running,          \* InvocationData of the entrypoint in the interpreter
    invoke_response,  \* answer of the call that ended last, until it is taken
    trace_elements,   \* the number of trace elements
    status,
    leaked            \* history: a failed call's changes survived its rollback

(* What the handler only reads: it holds the chain by reference. *)
chain == <<accounts, contracts, modules, tx>>

vars == <<accounts, contracts, modules, tx, changeset, remaining_energy,
          module_load_energy, next_contract_modification_index, stack, running,
          invoke_response, trace_elements, status, leaked>>

Addresses == AccountAddrs \cup ContractAddrs

(* The root call: UpdateContractPayload, its invoker, sender and energy. *)
Transaction == [invoker: AccountAddrs, sender: Addresses, address: ContractAddrs,
                name: ContractNames, entrypoint: Entrypoints, amount: Amount,
                energy_reserved: Nat, reserved_amount: Amount]

ASSUME TransactionAssumption == Transactions \subseteq Transaction

InvocationData == [address: ContractAddrs, contract_name: ContractNames,
                   state: StateVals, self_balance: Int,
                   trace_elements_checkpoint: Nat,
                   next_mod_idx_checkpoint: Nat, mod_idx_before_invoke: Nat]

(* InvokeResponse *)
Response == [success: BOOLEAN, new_balance: Int]

ASSUME NoneAssumption == None \notin Response \cup InvocationData

Success(new_balance) == [success |-> TRUE, new_balance |-> new_balance]

Failure == [success |-> FALSE, new_balance |-> 0]

(* Next::Initial *)
InitialFrame(sender, address, name, entrypoint, amount, checkpoint) ==
    [kind |-> "initial", sender |-> sender, address |-> address, name |-> name,
     entrypoint |-> entrypoint, amount |-> amount,
     trace_elements_checkpoint |-> checkpoint]

(* Next::Resume with a response *)
ResumeFrame(data, response) ==
    [kind |-> "resume", data |-> data, response |-> response]

(* Next::Resume without one: a call has to end first.  `depth' records how *)
(* many layers the changeset had when the call was made.                   *)
AwaitFrame(data, depth) == [kind |-> "await", data |-> data, depth |-> depth]

(* The worker's checks before it builds a handler for the transaction t. *)
Admissible(t) ==
    /\ contracts[t.address] # None
    /\ accounts[KeyOf[t.invoker]] # None
    /\ t.sender \in AccountAddrs => accounts[KeyOf[t.sender]] # None
    /\ t.sender \in ContractAddrs => contracts[t.sender] # None
    /\ available(accounts[KeyOf[t.invoker]]) >= t.reserved_amount + t.amount

(* The handler contract_invocation_worker builds, and its first frame.     *)
HandlerInit(t, energy) ==
    /\ tx = t
    /\ changeset = <<EmptyLayer>>
    /\ remaining_energy = energy
    /\ module_load_energy = 0
    /\ next_contract_modification_index = 1
    /\ stack = <<InitialFrame(t.sender, t.address, t.name, t.entrypoint, t.amount, 0)>>
    /\ running = None
    /\ invoke_response = None
    /\ trace_elements = 0
    /\ status = "pop"
    /\ leaked = FALSE

-----------------------------------------------------------------------------
(* Steps of the loop *)

Frame == stack[Len(stack)]

Popped == SubSeq(stack, 1, Len(stack) - 1)

(* An early return with an error: the handler is dropped with its stack,   *)
(* only the energy outlives it.                                            *)
Exit(s, energy) ==
    /\ status' = s
    /\ remaining_energy' = energy
    /\ UNCHANGED <<chain, changeset, module_load_energy,
                   next_contract_modification_index, stack, running,
                   invoke_response, trace_elements, leaked>>

(* The caller of the handler takes no energy to be left when it runs out.  *)
ExitOutOfEnergy == Exit("outOfEnergy", remaining_energy)

(* from_interpreter_energy: the division rounds down *)
from_interpreter_energy(used) == used \div EnergyFactor

(* run_interpreter and update_energy: the energy left after a run *)
EnergyAfter(used) == remaining_energy - from_interpreter_energy(used)

(* The interpreter is given no more energy than remains. *)
CanUse(used) == used <= remaining_energy * EnergyFactor

(* The Err of a transfer that returns to the caller of the handler *)
Unrecoverable == {"Overflow", "Panic"}

ExitOf(err) == IF err = "Overflow" THEN "overflow" ELSE "panic"

(* The transfer that starts an entrypoint, and the balance it then sees *)
InitialTransfer(f) ==
    IF f.amount = 0
      THEN Result(Top, IF contracts[f.address] = None THEN "ToMissing" ELSE "ok",
                  contract_balance(Top, f.address))
      ELSE IF f.sender \in AccountAddrs
        THEN transfer_from_account_to_contract(Top, f.amount, f.sender, f.address)
        ELSE transfer_from_contract_to_contract(Top, f.amount, f.sender, f.address)

has_entrypoint(module, f) ==
    \/ <<f.name, f.entrypoint>> \in module.entrypoints
    \/ <<f.name, Fallback>> \in module.entrypoints

(* invoke_entrypoint_initial returns a failure, no trace is produced. *)
InitialAnswers(layer) ==
    /\ remaining_energy' = remaining_energy - UpdateBaseCost
    /\ changeset' = WithTop(layer)
    /\ stack' = Popped
    /\ invoke_response' = Failure
    /\ UNCHANGED <<chain, module_load_energy, next_contract_modification_index,
                   running, trace_elements, status, leaked>>

(* Mutant: the failure is not kept for the caller. *)
InitialFails_unanswered ==
    /\ status = "pop" /\ stack # <<>> /\ Frame.kind = "initial"
    /\ \E t \in {InitialTransfer(Frame)} :
        /\ remaining_energy >= UpdateBaseCost
        /\ t.err \notin Unrecoverable
        /\ t.err # "ok"
        /\ stack' = Popped
        /\ remaining_energy' = remaining_energy - UpdateBaseCost
        /\ UNCHANGED <<chain, changeset, module_load_energy,
                       next_contract_modification_index, running,
                       invoke_response, trace_elements, status, leaked>>

(* The call cannot be paid for, or the contract does not exist.  (Binding  *)
(* t with \E rather than LET lets TLC evaluate the transfer once.)         *)
InitialFails ==
    /\ status = "pop" /\ stack # <<>> /\ Frame.kind = "initial"
    /\ \E t \in {InitialTransfer(Frame)} :
        /\ remaining_energy >= UpdateBaseCost
        /\ t.err \notin Unrecoverable
        /\ t.err # "ok"
        /\ InitialAnswers(t.layer)

(* Neither the entrypoint nor a fallback exists; the amount has moved. *)
InitialNoEntrypoint ==
    /\ status = "pop" /\ stack # <<>> /\ Frame.kind = "initial"
    /\ \E t \in {InitialTransfer(Frame)} :
        /\ remaining_energy >= UpdateBaseCost
        /\ t.err = "ok"
        /\ ~has_entrypoint(contract_module(t.layer, Frame.address), Frame)
        /\ InitialAnswers(t.layer)

(* A balance overflow, or running out of energy, ends the invocation. *)
InitialExits ==
    /\ status = "pop" /\ stack # <<>> /\ Frame.kind = "initial"
    /\ \E t \in {InitialTransfer(Frame)} :
        LET m == contract_module(t.layer, Frame.address)
        IN
           \/ remaining_energy < UpdateBaseCost /\ ExitOutOfEnergy
           \/ /\ remaining_energy >= UpdateBaseCost
              /\ t.err \in Unrecoverable
              /\ Exit(ExitOf(t.err), remaining_energy - UpdateBaseCost)
           \/ /\ remaining_energy >= UpdateBaseCost
              /\ t.err = "ok"
              /\ has_entrypoint(m, Frame)
              /\ remaining_energy - UpdateBaseCost < m.lookup_cost
              /\ ExitOutOfEnergy

(* The entrypoint starts with the state of the top layer. *)
InitialRuns ==
    /\ status = "pop" /\ stack # <<>> /\ Frame.kind = "initial"
    /\ \E t \in {InitialTransfer(Frame)} :
        LET m == contract_module(t.layer, Frame.address)
        IN
        /\ remaining_energy >= UpdateBaseCost
        /\ t.err = "ok"
        /\ has_entrypoint(m, Frame)
        /\ remaining_energy - UpdateBaseCost >= m.lookup_cost
        /\ remaining_energy' = remaining_energy - UpdateBaseCost - m.lookup_cost
        /\ module_load_energy' = module_load_energy + m.lookup_cost
        /\ changeset' = WithTop(t.layer)
        /\ stack' = Popped
        /\ running' = [address       |-> Frame.address,
                       contract_name |-> Frame.name,
                       state         |-> contract_state(t.layer, Frame.address),
                       self_balance  |-> t.balance,
                       trace_elements_checkpoint |-> Frame.trace_elements_checkpoint,
                       next_mod_idx_checkpoint   |-> next_contract_modification_index,
                       mod_idx_before_invoke     |-> next_contract_modification_index]
        /\ status' = "exec"
        /\ UNCHANGED <<chain, invoke_response, trace_elements,
                       next_contract_modification_index, leaked>>

(* The engine shows a contract its new balance after a success only. *)
Seen(data, response) ==
    IF response.success THEN [data EXCEPT !.self_balance = response.new_balance]
                        ELSE data

(* Resuming after an interrupt that was answered at once *)
ResumeImmediate ==
    /\ status = "pop" /\ stack # <<>> /\ Frame.kind = "resume"
    /\ running' = Seen(Frame.data, Frame.response)
    /\ stack' = Popped
    /\ status' = "exec"
    /\ UNCHANGED <<chain, changeset, remaining_energy, module_load_energy,
                   next_contract_modification_index, invoke_response,
                   trace_elements, leaked>>

(* Mutant: the caller keeps the state it had. *)
ResumeAfterSuccess_keeps_state ==
    /\ status = "pop" /\ stack # <<>> /\ Frame.kind = "await"
    /\ invoke_response # None
    /\ invoke_response.success
    /\ running' = [Frame.data EXCEPT !.self_balance =
                                         contract_balance(Top, Frame.data.address)]
    /\ invoke_response' = None
    /\ trace_elements' = trace_elements + 1
    /\ stack' = Popped
    /\ status' = "exec"
    /\ UNCHANGED <<chain, changeset, remaining_energy, module_load_energy,
                   next_contract_modification_index, leaked>>

(* Resuming after a call that succeeded: the state is loaded again when    *)
(* the modification index says that a re-entrant call changed it.          *)
ResumeAfterSuccess ==
    LET data  == Frame.data
        index == modification_index(Top, data.address)
    IN  /\ status = "pop" /\ stack # <<>> /\ Frame.kind = "await"
        /\ invoke_response # None
        /\ invoke_response.success
        /\ running' = [data EXCEPT
                         !.self_balance = contract_balance(Top, data.address),
                         !.state = IF index # data.mod_idx_before_invoke
                                     THEN contract_state(Top, data.address) ELSE @]
        /\ invoke_response' = None
        /\ trace_elements' = trace_elements + 1
        /\ stack' = Popped
        /\ status' = "exec"
        /\ UNCHANGED <<chain, changeset, remaining_energy, module_load_energy,
                       next_contract_modification_index, leaked>>

(* Resuming after a call that failed: the top layer is popped, and the     *)
(* caller goes on with the state it had.                                   *)
ResumeAfterFailure ==
    /\ status = "pop" /\ stack # <<>> /\ Frame.kind = "await"
    /\ invoke_response # None
    /\ ~invoke_response.success
    /\ changeset' = RolledBack
    /\ leaked' = (leaked \/ changeset[Len(changeset) - 1] # changeset[Frame.depth])
    /\ running' = Frame.data
    /\ invoke_response' = None
    /\ trace_elements' = trace_elements + 1
    /\ stack' = Popped
    /\ status' = "exec"
    /\ UNCHANGED <<chain, remaining_energy, module_load_energy,
                   next_contract_modification_index>>

-----------------------------------------------------------------------------
(* Results of the interpreter.  `write' is the state the run leaves the    *)
(* contract with, None if it did not change it.                            *)

(* ReceiveResult::Success *)
RunSucceeds(write, used) ==
    LET c     == running.address
        layer == IF write = None THEN Top
                 ELSE save_state_changes(Top, c, write, next_contract_modification_index)
    IN  /\ status = "exec"
        /\ CanUse(used)
        /\ remaining_energy' = EnergyAfter(used)
        /\ changeset' = WithTop(layer)
        /\ next_contract_modification_index' =
              next_contract_modification_index + (IF write = None THEN 0 ELSE 1)
        /\ invoke_response' = Success(contract_balance(layer, c))
        /\ trace_elements' = trace_elements + 1
        /\ running' = None
        /\ status' = "pop"
        /\ UNCHANGED <<chain, module_load_energy, stack, leaked>>

(* Mutant: the trace of the whole transaction is cut off. *)
RunFails_trace_dropped(energy) ==
    /\ status = "exec"
    /\ remaining_energy' = energy
    /\ trace_elements' = 0
    /\ next_contract_modification_index' = running.next_mod_idx_checkpoint
    /\ invoke_response' = Failure
    /\ running' = None
    /\ status' = "pop"
    /\ UNCHANGED <<chain, changeset, module_load_energy, stack, leaked>>

(* ReceiveResult::Reject and ::Trap: the trace elements since the start of *)
(* the entrypoint become one, and its modification indices are given back. *)
RunFails(energy) ==
    /\ status = "exec"
    /\ remaining_energy' = energy
    /\ trace_elements' = running.trace_elements_checkpoint + 1
    /\ next_contract_modification_index' = running.next_mod_idx_checkpoint
    /\ invoke_response' = Failure
    /\ running' = None
    /\ status' = "pop"
    /\ UNCHANGED <<chain, changeset, module_load_energy, stack, leaked>>

RunRejects(used) == CanUse(used) /\ RunFails(EnergyAfter(used))

(* An invalid return code is a trap that leaves no energy. *)
RunReturnsInvalidCode == RunFails(0)

(* ReceiveResult::OutOfEnergy *)
RunExhausts == status = "exec" /\ ExitOutOfEnergy

-----------------------------------------------------------------------------
(* ReceiveResult::Interrupt: the state is saved and the modification index *)
(* remembered, then the interrupt is handled.                              *)

Interrupted(write) ==
    LET c     == running.address
        index == next_contract_modification_index
    IN  IF write = None
          THEN [layer |-> Top,
                index |-> index,
                data  |-> [running EXCEPT !.mod_idx_before_invoke =
                                              modification_index(Top, c)]]
          ELSE [layer |-> save_state_changes(Top, c, write, index),
                index |-> index + 1,
                data  |-> [running EXCEPT !.mod_idx_before_invoke = index,
                                          !.state = write]]

(* The handler answers the interrupt: the run resumes with the response.   *)
Answer(i, layer, energy, response, traces) ==
    /\ changeset' = WithTop(layer)
    /\ remaining_energy' = energy
    /\ next_contract_modification_index' = i.index
    /\ stack' = Append(stack, ResumeFrame(i.data, response))
    /\ trace_elements' = trace_elements + traces
    /\ running' = None
    /\ status' = "pop"
    /\ UNCHANGED <<chain, invoke_response, leaked>>

(* Interrupt::Transfer.  The cost is charged after the transfer. *)
RunTransfers(write, used, to, amount) ==
    LET i      == Interrupted(write)
        t      == transfer_from_contract_to_account(i.layer, amount, running.address, to)
        energy == EnergyAfter(used)
    IN  /\ status = "exec" /\ "transfer" \in Interrupts
        /\ CanUse(used)
        /\ \/ t.err \in Unrecoverable /\ Exit(ExitOf(t.err), energy)
           \/ /\ t.err \notin Unrecoverable
              /\ energy < SimpleTransferCost
              /\ ExitOutOfEnergy
           \/ /\ t.err \notin Unrecoverable
              /\ energy >= SimpleTransferCost
              /\ Answer(i, t.layer, energy - SimpleTransferCost,
                        IF t.err = "ok" THEN Success(t.balance) ELSE Failure,
                        IF t.err = "ok" THEN 3 ELSE 2)
              /\ UNCHANGED module_load_energy

(* Interrupt::Call of a contract that does not exist *)
RunCallsMissing(write, used, to) ==
    LET i == Interrupted(write)
    IN  /\ status = "exec" /\ "call" \in Interrupts
        /\ CanUse(used)
        /\ contracts[to] = None
        /\ Answer(i, i.layer, EnergyAfter(used), Failure, 2)
        /\ UNCHANGED module_load_energy

(* Mutant: no checkpoint is made. *)
RunCalls_no_checkpoint(write, used, to, entrypoint, amount) ==
    LET i == Interrupted(write)
    IN  /\ status = "exec" /\ "call" \in Interrupts
        /\ CanUse(used)
        /\ contracts[to] # None
        /\ changeset' = WithTop(i.layer)
        /\ remaining_energy' = EnergyAfter(used)
        /\ next_contract_modification_index' = i.index
        /\ trace_elements' = trace_elements + 1
        /\ stack' = stack \o
              <<AwaitFrame(i.data, Len(changeset)),
                InitialFrame(running.address, to, contracts[to].contract_name,
                             entrypoint, amount, trace_elements + 1)>>
        /\ running' = None
        /\ status' = "pop"
        /\ UNCHANGED <<chain, module_load_energy, invoke_response, leaked>>

(* Interrupt::Call: a checkpoint, the caller waits, the callee is next. *)
RunCalls(write, used, to, entrypoint, amount) ==
    LET i == Interrupted(write)
    IN  /\ status = "exec" /\ "call" \in Interrupts
        /\ CanUse(used)
        /\ contracts[to] # None
        /\ changeset' = Checkpointed(i.layer)
        /\ remaining_energy' = EnergyAfter(used)
        /\ next_contract_modification_index' = i.index
        /\ trace_elements' = trace_elements + 1
        /\ stack' = stack \o
              <<AwaitFrame(i.data, Len(changeset)),
                InitialFrame(running.address, to, contracts[to].contract_name,
                             entrypoint, amount, trace_elements + 1)>>
        /\ running' = None
        /\ status' = "pop"
        /\ UNCHANGED <<chain, module_load_energy, invoke_response, leaked>>

(* Interrupt::Upgrade to a module that is not deployed, or does not have   *)
(* the contract                                                            *)
RunUpgradeFails(write, used, module_ref) ==
    LET i      == Interrupted(write)
        energy == EnergyAfter(used) - InitBaseCost
        m      == modules[module_ref]
    IN  /\ status = "exec" /\ "upgrade" \in Interrupts
        /\ CanUse(used)
        /\ energy >= 0
        /\ \/ /\ m = None
              /\ Answer(i, i.layer, energy, Failure, 2)
              /\ UNCHANGED module_load_energy
           \/ /\ m # None
              /\ energy >= m.lookup_cost
              /\ running.contract_name \notin m.exports
              /\ Answer(i, i.layer, energy - m.lookup_cost, Failure, 2)
              /\ module_load_energy' = module_load_energy + m.lookup_cost

(* Mutant: any deployed module will do. *)
RunUpgrades_unchecked(write, used, module_ref) ==
    LET i      == Interrupted(write)
        m      == modules[module_ref]
        energy == EnergyAfter(used) - InitBaseCost - m.lookup_cost - InitCreateCost
    IN  /\ status = "exec" /\ "upgrade" \in Interrupts
        /\ CanUse(used)
        /\ m # None
        /\ energy >= 0
        /\ Answer(i, save_module_upgrade(i.layer, running.address, module_ref),
                  energy,
                  Success(contract_balance(i.layer, running.address)), 3)
        /\ module_load_energy' = module_load_energy + m.lookup_cost

(* Interrupt::Upgrade, from the next call on the new module runs *)
RunUpgrades(write, used, module_ref) ==
    LET i      == Interrupted(write)
        m      == modules[module_ref]
        energy == EnergyAfter(used) - InitBaseCost - m.lookup_cost - InitCreateCost
    IN  /\ status = "exec" /\ "upgrade" \in Interrupts
        /\ CanUse(used)
        /\ m # None
        /\ energy >= 0
        /\ running.contract_name \in m.exports
        /\ Answer(i, save_module_upgrade(i.layer, running.address, module_ref),
                  energy,
                  Success(contract_balance(i.layer, running.address)), 3)
        /\ module_load_energy' = module_load_energy + m.lookup_cost

(* Interrupt::Upgrade runs out of energy at one of its three charges. *)
RunUpgradeExits(used, module_ref) ==
    LET m      == modules[module_ref]
        energy == EnergyAfter(used) - InitBaseCost
    IN  /\ status = "exec" /\ "upgrade" \in Interrupts
        /\ CanUse(used)
        /\ \/ energy < 0
           \/ m # None /\ energy < m.lookup_cost
           \/ /\ m # None
              /\ running.contract_name \in m.exports
              /\ energy < m.lookup_cost + InitCreateCost
        /\ ExitOutOfEnergy

(* What a query finds: None makes it fail. *)
Found(layer, kind, a) ==
    CASE kind = "account_balance"  -> account_balance(layer, a)
      [] kind = "contract_balance" -> contract_balance(layer, a)
      [] kind = "module_reference" -> contract_module_reference(layer, a)
      [] kind = "contract_name"    -> contract_name(a)
      [] kind = "exchange_rates"   -> "rates"

QueryTargets(kind) ==
    CASE kind = "account_balance" -> AccountAddrs
      [] kind = "exchange_rates"  -> {"chain"}
      [] OTHER                    -> ContractAddrs

OwnBalance(i) == contract_balance(i.layer, running.address)

(* The five queries that look something up and charge a fixed cost *)
RunQueries(write, used, kind, a) ==
    LET i      == Interrupted(write)
        energy == EnergyAfter(used)
    IN  /\ status = "exec" /\ kind \in Interrupts
        /\ CanUse(used)
        /\ \/ energy < QueryCost[kind] /\ ExitOutOfEnergy
           \/ /\ energy >= QueryCost[kind]
              /\ Answer(i, i.layer, energy - QueryCost[kind],
                        IF Found(i.layer, kind, a) = None THEN Failure
                                                          ELSE Success(OwnBalance(i)),
                        1)
              /\ UNCHANGED module_load_energy

(* Interrupt::QueryAccountKeys charges before and after the lookup.        *)
RunQueriesKeys(write, used, a) ==
    LET i      == Interrupted(write)
        exists == accounts[KeyOf[a]] # None
        cost   == KeysBaseCost + (IF exists THEN KeysReturnCost ELSE 0)
        energy == EnergyAfter(used)
    IN  /\ status = "exec" /\ "account_keys" \in Interrupts
        /\ CanUse(used)
        /\ \/ energy < cost /\ ExitOutOfEnergy
           \/ /\ energy >= cost
              /\ Answer(i, i.layer, energy - cost,
                        IF exists THEN Success(OwnBalance(i))
                                  ELSE Failure, 1)
              /\ UNCHANGED module_load_energy

(* What a contract hands over to have signatures checked: signatures that  *)
(* hold or do not, something that cannot be read, or data said to be       *)
(* longer than the payload, for which the slice panics.                    *)
Payloads == {"valid", "invalid", "malformed", "short"}

(* Interrupt::CheckAccountSignature: the payload is read after the account *)
(* has been found, and paid for when it could be read.                     *)
RunChecksSignature(write, used, a, payload) ==
    LET i      == Interrupted(write)
        exists == accounts[KeyOf[a]] # None
        cost   == KeysBaseCost + (IF exists /\ payload \in {"valid", "invalid"}
                                    THEN SignatureCost ELSE 0)
        energy == EnergyAfter(used)
    IN  /\ status = "exec" /\ "signature" \in Interrupts
        /\ CanUse(used)
        /\ \/ energy < cost /\ ExitOutOfEnergy
           \/ /\ energy >= cost
              /\ exists /\ payload = "short"
              /\ Exit("panic", energy - cost)
           \/ /\ energy >= cost
              /\ ~(exists /\ payload = "short")
              /\ Answer(i, i.layer, energy - cost,
                        IF exists /\ payload = "valid" THEN Success(OwnBalance(i))
                                                       ELSE Failure, 1)
              /\ UNCHANGED module_load_energy

-----------------------------------------------------------------------------

(* The stack is empty: invoke_entrypoint returns the last response. *)
Return ==
    /\ status = "pop" /\ stack = <<>>
    /\ invoke_response # None
    /\ status' = "returned"
    /\ UNCHANGED <<chain, changeset, remaining_energy, module_load_energy,
                   next_contract_modification_index, stack, running,
                   invoke_response, trace_elements, leaked>>

Writes == StateVals \cup {None}

RunInterrupts ==
    \E write \in Writes, used \in InterruptUses :
      \/ \E to \in AccountAddrs, amount \in Amounts : RunTransfers(write, used, to, amount)
      \/ \E to \in ContractAddrs : RunCallsMissing(write, used, to)
      \/ \E to \in ContractAddrs, entrypoint \in Entrypoints, amount \in Amounts :
            RunCalls(write, used, to, entrypoint, amount)
      \/ \E m \in ModuleRefs : \/ RunUpgradeFails(write, used, m)
                               \/ RunUpgrades(write, used, m)
                               \/ RunUpgradeExits(used, m)
      \/ \E kind \in QueryKinds : \E a \in QueryTargets(kind) :
            RunQueries(write, used, kind, a)
      \/ \E a \in AccountAddrs : RunQueriesKeys(write, used, a)
      \/ \E a \in AccountAddrs, payload \in Payloads :
            RunChecksSignature(write, used, a, payload)

RunEnds ==
    \/ \E write \in Writes, used \in FinalUses : RunSucceeds(write, used)
    \/ \E used \in FinalUses : RunRejects(used)
    \/ RunReturnsInvalidCode
    \/ RunExhausts

(* The next frame is popped, or the stack is empty. *)
Pops ==
    \/ ResumeImmediate \/ ResumeAfterSuccess \/ ResumeAfterFailure
    \/ InitialExits \/ InitialRuns \/ InitialFails \/ InitialNoEntrypoint
    \/ Return

Next == Pops \/ RunEnds \/ RunInterrupts

Init ==
    \E ch \in Chains, t \in Transactions :
      /\ accounts = ch.accounts
      /\ contracts = ch.contracts
      /\ modules = ch.modules
      /\ Admissible(t)
      /\ HandlerInit(t, t.energy_reserved)

(* The loop is sequential code: as long as there is something to pop, it   *)
(* goes on, and the interpreter, which counts energy, does not run for     *)
(* ever.                                                                   *)
Spec == Init /\ [][Next]_vars /\ WF_vars(Pops) /\ WF_vars(RunEnds)

-----------------------------------------------------------------------------
(* Properties *)

FrameType ==
    [kind: {"initial"}, sender: Addresses, address: ContractAddrs, name: ContractNames,
     entrypoint: Entrypoints, amount: Amount, trace_elements_checkpoint: Nat]
      \cup [kind: {"resume"}, data: InvocationData, response: Response]
      \cup [kind: {"await"}, data: InvocationData, depth: Nat]

Statuses == {"pop", "exec", "returned", "outOfEnergy", "overflow", "panic"}

(* Every part of the handler has its type; energy, indices and the number  *)
(* of trace elements are unsigned and never go below zero.                 *)
TypeOK ==
    /\ WellFormed([accounts |-> accounts, contracts |-> contracts, modules |-> modules])
    /\ tx \in Transaction
    /\ changeset \in Seq(Changes) /\ changeset # <<>>
    /\ remaining_energy \in Nat
    /\ module_load_energy \in Nat
    /\ next_contract_modification_index \in Nat
    /\ stack \in Seq(FrameType)
    /\ running \in InvocationData \cup {None}
    /\ invoke_response \in Response \cup {None}
    /\ trace_elements \in Nat
    /\ status \in Statuses
    /\ leaked \in BOOLEAN

Awaiting == {n \in DOMAIN stack : stack[n].kind = "await"}

(* Each interrupted caller finds the checkpoint it made below the top of   *)
(* the changeset, at a layer of its own: rollback never pops the layer     *)
(* another caller is waiting to go back to, nor the last one, so the       *)
(* expect()s of ChangeSet ("should never be empty") hold.                  *)
CheckpointsStacked ==
    /\ \A n \in Awaiting : stack[n].depth >= 1 /\ stack[n].depth < Len(changeset)
    /\ \A m, n \in Awaiting : m < n => stack[m].depth < stack[n].depth

(* The trace of a failing call is cut at its checkpoint: split_off panics  *)
(* beyond the end of the trace, and must not cut what callers recorded.    *)
CheckpointOf(frame) ==
    IF frame.kind = "initial" THEN frame.trace_elements_checkpoint
                              ELSE frame.data.trace_elements_checkpoint

TraceCheckpointsOrdered ==
    /\ \A n \in DOMAIN stack : CheckpointOf(stack[n]) <= trace_elements
    /\ \A m, n \in DOMAIN stack : m < n => CheckpointOf(stack[m]) <= CheckpointOf(stack[n])
    /\ running # None =>
         /\ running.trace_elements_checkpoint <= trace_elements
         /\ \A n \in DOMAIN stack :
               CheckpointOf(stack[n]) <= running.trace_elements_checkpoint

(* The response a waiting caller take()s, or the handler returns, is there *)
(* exactly when it is asked for (both expect() it).                        *)
ResponseReady ==
    status = "pop" => (invoke_response # None) = (stack = <<>> \/ Frame.kind = "await")

(* The CCD of the accounts and of the contracts *)
AccountTotals(accts) ==
    [k \in AccountKeys |-> IF accts[k] = None THEN 0 ELSE accts[k].total]

ContractTotals(instances) ==
    [c \in ContractAddrs |-> IF instances[c] = None THEN 0 ELSE instances[c].self_balance]

TotalOfAccounts == SumOver(AccountTotals(accounts), AccountKeys)

TotalOfContracts == SumOver(ContractTotals(contracts), ContractAddrs)

(* Every delta in every layer can be applied, to the balance that          *)
(* current_balance applies it to and to the one that persist does, which   *)
(* for an account is its total, though a credit was only checked against   *)
(* what is available.  All of them stay amounts, but the totals only if    *)
(* all CCD there is fits an amount, as it does on a real chain.            *)
DeltasApplicable ==
    /\ \A n \in DOMAIN changeset :
         /\ \A c \in ContractAddrs :
              LET entry == changeset[n].contracts[c]
              IN  entry # None =>
                    /\ entry.self_balance_original = contracts[c].self_balance
                    /\ apply_to_balance(entry.self_balance_delta,
                                        entry.self_balance_original) \in Amount
         /\ \A k \in AccountKeys :
              LET entry == changeset[n].accounts[k]
              IN  entry # None =>
                    /\ apply_to_balance(entry.balance_delta, entry.original_balance) \in Amount
                    /\ apply_to_balance(entry.balance_delta, accounts[k].total) \in Nat
    /\ TotalOfAccounts + TotalOfContracts <= MaxAmount =>
         \A n \in DOMAIN changeset : \A k \in AccountKeys :
           LET entry == changeset[n].accounts[k]
           IN  entry # None =>
                 apply_to_balance(entry.balance_delta, accounts[k].total) \in Amount

(* What an account has staked or locked, and what the invoker has reserved *)
(* for energy, is never spent by the transaction, whichever alias of the   *)
(* account is used: contract_update can always charge its fee.             *)
ReservedFundsKept ==
    \A n \in DOMAIN changeset : \A k \in AccountKeys :
      LET entry == changeset[n].accounts[k]
      IN  entry # None =>
            available(accounts[k]) + Value(entry.balance_delta)
              >= IF k = KeyOf[tx.invoker] THEN tx.reserved_amount ELSE 0

(* Calls, transfers and rollbacks neither create nor destroy CCD: in every *)
(* layer the changes of all balances add up to zero, also after a failed   *)
(* call (an overflow ends the invocation between debit and credit).        *)
LayersConserve == \A n \in DOMAIN changeset : LayerDelta(changeset[n]) = 0

(* A contract runs with the state and the balance the chain would report   *)
(* for it, however it was re-entered while it waited, as long as no failed *)
(* call has left changes behind.                                           *)
ContractSeesCurrent ==
    status = "exec" /\ ~leaked =>
      /\ running.state = contract_state(Top, running.address)
      /\ running.self_balance = contract_balance(Top, running.address)

(* A contract is only ever upgraded to a deployed module that contains it. *)
UpgradesKeepContract ==
    \A n \in DOMAIN changeset : \A c \in ContractAddrs :
      LET entry == changeset[n].contracts[c]
      IN  entry # None /\ entry.module # None =>
            /\ modules[entry.module] # None
            /\ contracts[c].contract_name \in modules[entry.module].exports

(* A step changes at most the top layer, and the depth by at most one: the *)
(* checkpoints below are what they were when the calls were made.          *)
LowerLayersKept ==
    [][/\ Len(changeset') \in (Len(changeset) - 1) .. (Len(changeset) + 1)
       /\ \A n \in 1 .. (Len(changeset) - 1) :
            n \in DOMAIN changeset' => changeset'[n] = changeset[n]
               \/ n = Len(changeset')]_vars

(* Every invocation ends, with a response, an error or a panic, however    *)
(* the contracts call each other: energy runs out.                         *)
Terminates == <>(status \notin {"pop", "exec"})

(* "When a contract entrypoint execution fails, any changes it has made    *)
(* must be rolled back. That is also the case if a nested contract call    *)
(* fails." (contract-testing/tests/checkpointing.rs:4): after a failed     *)
(* call the caller finds the changes there were when it made the call.      *)
FailedCallRolledBack ==
    [][(status = "pop" /\ stack # <<>> /\ Frame.kind = "await" /\ ~invoke_response.success)
         => changeset'[Len(changeset')] = changeset[Frame.depth]]_vars

=============================================================================
