----------------------------- MODULE ChangeSet -----------------------------
(***************************************************************************)
(* The changeset of one contract invocation (contract-testing/src/         *)
(* invocation): a stack of layers, each the changes made to accounts and   *)
(* contracts since the transaction started, and the methods of             *)
(* EntrypointInvocationHandler that read and change the topmost layer.     *)
(*                                                                         *)
(* A BTreeMap is a function into the values and None.  A method that       *)
(* changes the top layer is an operator from the old layer to a record of  *)
(* the new one, the error ("ok" if none) and the balance it returns.       *)
(***************************************************************************)
EXTENDS Integers, Sequences, FiniteSetsExt

CONSTANTS
    MaxAmount,      \* u64::MAX, the largest amount of micro CCD
    AccountAddrs,   \* account addresses, aliases included
    AccountKeys,    \* AccountAddressEq: the classes of aliases
    KeyOf,          \* the class of each address
    ContractAddrs,
    ModuleRefs,
    ContractNames,
    Entrypoints,
    Fallback,       \* the entrypoint name ""
    StateVals,      \* contract states told apart
    None

ASSUME MaxAmountAssumption == MaxAmount \in Nat

ASSUME AddressAssumption ==
    /\ KeyOf \in [AccountAddrs -> AccountKeys]
    /\ AccountAddrs \cap ContractAddrs = {}
    /\ None \notin StateVals \cup ModuleRefs
    /\ IsFiniteSet(AccountKeys) /\ IsFiniteSet(ContractAddrs)

VARIABLES
    accounts,       \* chain.accounts
    contracts,      \* chain.contracts
    modules,        \* chain.modules
    tx,             \* invoker, reserved_amount and root call of the handler
    changeset       \* ChangeSet.stack

-----------------------------------------------------------------------------
(* AmountDelta: a signed change of an unsigned amount, kept as a sign and  *)
(* a magnitude                                                             *)

Amount == 0 .. MaxAmount

Delta == [neg: BOOLEAN, amount: Nat]

Positive(a) == [neg |-> FALSE, amount |-> a]

Negative(a) == [neg |-> TRUE, amount |-> a]

(* The signed number a delta stands for. *)
Value(d) == IF d.neg THEN -d.amount ELSE d.amount

ZeroDelta == Positive(0)

subtract_amount(d, a) ==
    IF d.neg
      THEN Negative(d.amount + a)
      ELSE IF d.amount >= a THEN Positive(d.amount - a) ELSE Negative(a - d.amount)

add_amount(d, a) ==
    IF d.neg
      THEN IF d.amount >= a THEN Negative(d.amount - a) ELSE Positive(a - d.amount)
      ELSE Positive(d.amount + a)

add_delta(d, e) ==
    IF e.neg THEN subtract_amount(d, e.amount) ELSE add_amount(d, e.amount)

is_zero(d) == d.amount = 0

(* checked_add and checked_sub of the balance: the error, or "ok" *)
balance_error(d, balance) ==
    IF d.neg
      THEN IF d.amount <= balance THEN "ok" ELSE "Insufficient"
      ELSE IF balance + d.amount <= MaxAmount THEN "ok" ELSE "Overflow"

(* The balance after the change, when there is no error. *)
apply_to_balance(d, balance) == balance + Value(d)

-----------------------------------------------------------------------------
(* The chain, which an invocation only reads. *)

Account == [total: Amount, staked: Amount, locked: Amount]

Contract == [module_reference : ModuleRefs,
             contract_name    : ContractNames,
             state            : StateVals,
             self_balance     : Amount]

Module == [exports     : SUBSET ContractNames,                \* init functions
           entrypoints : SUBSET (ContractNames \X Entrypoints),
           lookup_cost : Nat]

(* AccountBalance::available: the total less what is staked or locked *)
available(balance) ==
    balance.total - (IF balance.staked >= balance.locked THEN balance.staked
                                                         ELSE balance.locked)

-----------------------------------------------------------------------------
(* Layers *)

ContractChanges == [modification_index    : Nat,
                    self_balance_delta    : Delta,
                    self_balance_original : Amount,
                    state                 : StateVals \cup {None},
                    module                : ModuleRefs \cup {None}]

AccountChanges == [original_balance : Amount, balance_delta : Delta]

Changes == [contracts : [ContractAddrs -> ContractChanges \cup {None}],
            accounts  : [AccountKeys -> AccountChanges \cup {None}]]

ASSUME ChangesAssumption == None \notin ContractChanges \cup AccountChanges

(* ContractChanges::new *)
NewContractChanges(original_balance) ==
    [modification_index    |-> 0,
     self_balance_delta    |-> ZeroDelta,
     self_balance_original |-> original_balance,
     state                 |-> None,
     module                |-> None]

EmptyLayer == [contracts |-> [c \in ContractAddrs |-> None],
               accounts  |-> [a \in AccountKeys |-> None]]

(* ChangeSet::current *)
Top == changeset[Len(changeset)]

(* Mutant: the changes go to the first layer. *)
WithTop_bottom(layer) == [changeset EXCEPT ![1] = layer]

(* ChangeSet::current_mut: the stack with another top layer *)
WithTop(layer) == [changeset EXCEPT ![Len(changeset)] = layer]

(* ChangeSet::checkpoint: a clone of the (changed) top layer goes on top *)
Checkpointed(layer) == Append(WithTop(layer), layer)

(* Mutant: rollback pops one layer too many. *)
RolledBack_twice == SubSeq(changeset, 1, Len(changeset) - 2)

(* ChangeSet::rollback pops the top layer *)
RolledBack == SubSeq(changeset, 1, Len(changeset) - 1)

-----------------------------------------------------------------------------
(* Lookups: the top layer first, then persistence. *)

contract_balance(layer, c) ==
    IF layer.contracts[c] # None
      THEN apply_to_balance(layer.contracts[c].self_balance_delta,
                            layer.contracts[c].self_balance_original)
      ELSE IF contracts[c] # None THEN contracts[c].self_balance ELSE None

(* An entry of the layer answers, whether or not it holds an upgrade. *)
contract_module_reference(layer, c) ==
    IF layer.contracts[c] # None
      THEN layer.contracts[c].module
      ELSE IF contracts[c] # None THEN contracts[c].module_reference ELSE None

contract_name(c) ==
    IF contracts[c] # None THEN contracts[c].contract_name ELSE None

contract_module(layer, c) ==
    IF layer.contracts[c] # None /\ layer.contracts[c].module # None
      THEN modules[layer.contracts[c].module]
      ELSE modules[contracts[c].module_reference]

contract_state(layer, c) ==
    IF layer.contracts[c] # None /\ layer.contracts[c].state # None
      THEN layer.contracts[c].state
      ELSE contracts[c].state

modification_index(layer, c) ==
    IF layer.contracts[c] # None THEN layer.contracts[c].modification_index ELSE 0

(* The balance of the account of address a, as the query reports it.  The  *)
(* invoker is compared with the address itself, not with its class.        *)
account_balance(layer, a) ==
    LET entry     == layer.accounts[KeyOf[a]]
        persisted == accounts[KeyOf[a]]
    IN  IF persisted = None THEN None
        ELSE IF entry # None
          THEN [persisted EXCEPT !.total = apply_to_balance(entry.balance_delta,
                                                            entry.original_balance)]
          ELSE [persisted EXCEPT !.total = @ - (IF tx.invoker = a THEN tx.reserved_amount
                                                                  ELSE 0)]

-----------------------------------------------------------------------------
(* Changes to the top layer *)

Result(layer, err, balance) == [layer |-> layer, err |-> err, balance |-> balance]

(* Applying new_delta to the original balance: the magnitude of a delta is *)
(* itself a u64 whose addition is unchecked, and panics.                   *)
delta_error(new_delta, original) ==
    IF new_delta.amount > MaxAmount THEN "Panic" ELSE balance_error(new_delta, original)

(* The entry of contract c: BTreeMap's Occupied, or a fresh one for Vacant *)
EntryOrNew(layer, c) ==
    IF layer.contracts[c] = None THEN NewContractChanges(contracts[c].self_balance)
                                 ELSE layer.contracts[c]

(* Mutant: a debit is not checked against the balance. *)
change_contract_balance_unchecked(layer, c, delta) ==
    LET changes   == EntryOrNew(layer, c)
        new_delta == add_delta(changes.self_balance_delta, delta)
    IN  Result([layer EXCEPT !.contracts[c] =
                        [changes EXCEPT !.self_balance_delta = new_delta]],
               "ok",
               apply_to_balance(new_delta, changes.self_balance_original))

change_contract_balance(layer, c, delta) ==
    LET entry     == layer.contracts[c]
        changes   == EntryOrNew(layer, c)
        new_delta == IF entry = None THEN delta
                                     ELSE add_delta(entry.self_balance_delta, delta)
        err       == delta_error(new_delta, changes.self_balance_original)
    IN  IF err # "ok" THEN Result(layer, err, 0)
        ELSE Result([layer EXCEPT !.contracts[c] =
                        [changes EXCEPT !.self_balance_delta = new_delta]],
                    "ok",
                    apply_to_balance(new_delta, changes.self_balance_original))

(* Mutant: what is staked or locked counts as spendable. *)
change_account_balance_total(layer, a, delta) ==
    LET k         == KeyOf[a]
        entry     == layer.accounts[k]
        original  == IF entry = None THEN accounts[k].total ELSE entry.original_balance
        new_delta == IF entry = None THEN delta ELSE add_delta(entry.balance_delta, delta)
        err       == delta_error(new_delta, original)
    IN  IF err # "ok" THEN Result(layer, err, 0)
        ELSE Result([layer EXCEPT !.accounts[k] =
                        [original_balance |-> original, balance_delta |-> new_delta]],
                    "ok",
                    apply_to_balance(new_delta, original))

change_account_balance(layer, a, delta) ==
    LET k         == KeyOf[a]
        entry     == layer.accounts[k]
        reserved  == IF tx.invoker = a THEN tx.reserved_amount ELSE 0
        original  == IF entry = None THEN available(accounts[k]) - reserved
                                     ELSE entry.original_balance
        new_delta == IF entry = None THEN delta ELSE add_delta(entry.balance_delta, delta)
        err       == delta_error(new_delta, original)
    IN  IF err # "ok" THEN Result(layer, err, 0)
        ELSE Result([layer EXCEPT !.accounts[k] =
                        [original_balance |-> original, balance_delta |-> new_delta]],
                    "ok",
                    apply_to_balance(new_delta, original))

transfer_from_contract_to_contract(layer, amount, from, to) ==
    LET debit == change_contract_balance(layer, from, Negative(amount))
    IN  IF contracts[to] = None THEN Result(layer, "ToMissing", 0)
        ELSE IF debit.err # "ok" THEN debit
        ELSE change_contract_balance(debit.layer, to, Positive(amount))

transfer_from_account_to_contract(layer, amount, from, to) ==
    LET debit == change_account_balance(layer, from, Negative(amount))
    IN  IF contracts[to] = None THEN Result(layer, "ToMissing", 0)
        ELSE IF debit.err # "ok" THEN debit
        ELSE change_contract_balance(debit.layer, to, Positive(amount))

(* Mutant: the account is credited before the contract is debited, and a   *)
(* failing debit leaves the credit in place.                               *)
transfer_from_contract_to_account_swapped(layer, amount, from, to) ==
    LET credit == change_account_balance(layer, to, Positive(amount))
    IN  IF accounts[KeyOf[to]] = None THEN Result(layer, "ToMissing", 0)
        ELSE IF credit.err # "ok" THEN Result(credit.layer, "Panic", 0)
        ELSE change_contract_balance(credit.layer, from, Negative(amount))

(* The credit of the account is .expect()ed to succeed: its error panics.  *)
transfer_from_contract_to_account(layer, amount, from, to) ==
    LET debit  == change_contract_balance(layer, from, Negative(amount))
        credit == change_account_balance(debit.layer, to, Positive(amount))
    IN  IF accounts[KeyOf[to]] = None THEN Result(layer, "ToMissing", 0)
        ELSE IF debit.err # "ok" THEN debit
        ELSE IF credit.err # "ok" THEN Result(credit.layer, "Panic", 0)
        ELSE Result(credit.layer, "ok", debit.balance)

(* save_state_changes with the modification index it hands out *)
save_state_changes(layer, c, state, index) ==
    LET changes == EntryOrNew(layer, c)
    IN  [layer EXCEPT !.contracts[c] = [changes EXCEPT !.state = state,
                                                       !.modification_index = index]]

save_module_upgrade(layer, c, module_ref) ==
    LET changes == EntryOrNew(layer, c)
    IN  [layer EXCEPT !.contracts[c] = [changes EXCEPT !.module = module_ref]]

-----------------------------------------------------------------------------
(* The changes of all balances of a layer together *)

SumOver(f, S) == MapThenSumSet(LAMBDA x : f[x], S)

ContractDeltas(layer) ==
    [c \in ContractAddrs |-> IF layer.contracts[c] = None THEN 0
                             ELSE Value(layer.contracts[c].self_balance_delta)]

AccountDeltas(layer) ==
    [k \in AccountKeys |-> IF layer.accounts[k] = None THEN 0
                           ELSE Value(layer.accounts[k].balance_delta)]

LayerDelta(layer) ==
    SumOver(ContractDeltas(layer), ContractAddrs) + SumOver(AccountDeltas(layer), AccountKeys)

=============================================================================
