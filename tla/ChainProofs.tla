---------------------------- MODULE ChainProofs ----------------------------
(***************************************************************************)
(* An invocation and the chain that keeps its effects, for any accounts,   *)
(* modules, contracts, rates and costs, however contracts call each other  *)
(* and whatever a test does.                                               *)
(*                                                                         *)
(* Invocation: the operators on a changeset's layers keep its amounts; the *)
(* bookkeeping is sound (types, the checkpoints that callers go back to,   *)
(* the applicability of every delta); a contract that is resumed has the   *)
(* state and the balance of the topmost layer, however it was re-entered;  *)
(* layers below the topmost stay as they are; no contract spends what an   *)
(* account has reserved, and an upgrade keeps the contract.                *)
(*                                                                         *)
(* Chain: CCD is neither created nor destroyed but by create_account, what *)
(* is staked or locked is never spent, and an operation changes nothing it *)
(* should not.                                                             *)
(***************************************************************************)
EXTENDS Chain, SumProofs

-----------------------------------------------------------------------------
(* What the operators on a layer of the changeset preserve *)

(* Adding to a signed magnitude is adding numbers. *)
LEMMA AddAmount ==
    ASSUME NEW d \in Delta, NEW a \in Nat
    PROVE  /\ add_amount(d, a) \in Delta
           /\ Value(add_amount(d, a)) = Value(d) + a
  BY DEF add_amount, Delta, Value, Positive, Negative

(* Subtracting from a signed magnitude is subtracting numbers. *)
LEMMA SubtractAmount ==
    ASSUME NEW d \in Delta, NEW a \in Nat
    PROVE  /\ subtract_amount(d, a) \in Delta
           /\ Value(subtract_amount(d, a)) = Value(d) - a
  BY DEF subtract_amount, Delta, Value, Positive, Negative

(* The delta of two changes is the sum of their deltas, whatever the signs, *)
(* so the order in which a transaction moves CCD does not matter.           *)
THEOREM DeltasAdd ==
    ASSUME NEW d \in Delta, NEW e \in Delta
    PROVE  /\ add_delta(d, e) \in Delta
           /\ Value(add_delta(d, e)) = Value(d) + Value(e)
<1>1. e.amount \in Nat /\ e.neg \in BOOLEAN
  BY DEF Delta
<1>2. CASE e.neg
  BY <1>1, <1>2, SubtractAmount DEF add_delta, Value, Delta
<1>3. CASE ~e.neg
  BY <1>1, <1>3, AddAmount DEF add_delta, Value, Delta
<1> QED
  BY <1>2, <1>3

(* A delta with no balance error leads to a balance that is an amount. *)
LEMMA NoErrorApplies ==
    ASSUME NEW d \in Delta, NEW original \in Amount,
           delta_error(d, original) = "ok"
    PROVE  apply_to_balance(d, original) \in Amount
  BY MaxAmountAssumption
  DEF delta_error, balance_error, apply_to_balance, Value, Delta, Amount

-----------------------------------------------------------------------------

(* The chain is well formed: contracts run deployed modules, accounts own   *)
(* what they have staked or locked.                                         *)
ChainTyped ==
    /\ accounts \in [AccountKeys -> Account \cup {None}]
    /\ contracts \in [ContractAddrs -> Contract \cup {None}]
    /\ modules \in [ModuleRefs -> Module \cup {None}]
    /\ \A c \in ContractAddrs : contracts[c] # None =>
          modules[contracts[c].module_reference] # None
    /\ \A k \in AccountKeys : accounts[k] # None => available(accounts[k]) >= 0

(* What a transaction may rely on: the invoker can also pay for the energy  *)
(* it reserved.                                                             *)
ChainOK ==
    /\ ChainTyped
    /\ tx.invoker \in AccountAddrs
    /\ tx.reserved_amount \in Amount
    /\ accounts[KeyOf[tx.invoker]] # None
    /\ available(accounts[KeyOf[tx.invoker]]) >= tx.reserved_amount

(* A changed contract exists, its delta is relative to its persisted        *)
(* balance and leads to an amount, and its new module is deployed.          *)
ContractChangeOK(c, e) ==
    /\ contracts[c] # None
    /\ e.self_balance_original = contracts[c].self_balance
    /\ apply_to_balance(e.self_balance_delta, e.self_balance_original) \in Amount
    /\ e.module # None => modules[e.module] # None

(* A changed account exists, and its delta leads to an amount. *)
AccountChangeOK(k, e) ==
    /\ accounts[k] # None
    /\ apply_to_balance(e.balance_delta, e.original_balance) \in Amount

LayerOK(layer) ==
    /\ layer \in Changes
    /\ \A c \in ContractAddrs :
          layer.contracts[c] # None => ContractChangeOK(c, layer.contracts[c])
    /\ \A k \in AccountKeys :
          layer.accounts[k] # None => AccountChangeOK(k, layer.accounts[k])

(* Replacing the entry of a contract by a sound one keeps a layer sound. *)
LEMMA WithContract ==
    ASSUME NEW layer, LayerOK(layer), NEW c \in ContractAddrs,
           NEW e \in ContractChanges, ContractChangeOK(c, e)
    PROVE  /\ LayerOK([layer EXCEPT !.contracts[c] = e])
           /\ [layer EXCEPT !.contracts[c] = e].contracts[c] = e
<1> DEFINE new == [layer EXCEPT !.contracts[c] = e]
<1>1. layer \in Changes
  BY DEF LayerOK
<1>2. /\ new \in Changes
      /\ new.accounts = layer.accounts
      /\ new.contracts = [layer.contracts EXCEPT ![c] = e]
  BY <1>1 DEF Changes
<1>3. \A b \in ContractAddrs : new.contracts[b] = IF b = c THEN e ELSE layer.contracts[b]
  BY <1>1, <1>2 DEF Changes
<1> HIDE DEF new
<1>4. LayerOK(new) /\ new.contracts[c] = e
  BY <1>2, <1>3 DEF LayerOK
<1> QED
  BY <1>4 DEF new

(* The same for the entry of an account. *)
LEMMA WithAccount ==
    ASSUME NEW layer, LayerOK(layer), NEW k \in AccountKeys,
           NEW e \in AccountChanges, AccountChangeOK(k, e)
    PROVE  LayerOK([layer EXCEPT !.accounts[k] = e])
<1> DEFINE new == [layer EXCEPT !.accounts[k] = e]
<1>1. layer \in Changes
  BY DEF LayerOK
<1>2. /\ new \in Changes
      /\ new.contracts = layer.contracts
      /\ new.accounts = [layer.accounts EXCEPT ![k] = e]
  BY <1>1 DEF Changes
<1>3. \A j \in AccountKeys : new.accounts[j] = IF j = k THEN e ELSE layer.accounts[j]
  BY <1>1, <1>2 DEF Changes
<1> HIDE DEF new
<1>4. LayerOK(new)
  BY <1>2, <1>3 DEF LayerOK
<1> QED
  BY <1>4 DEF new

(* The entry of an existing contract, or the fresh one for it, is sound. *)
LEMMA EntryOrNewOK ==
    ASSUME ChainOK, NEW layer, LayerOK(layer),
           NEW c \in ContractAddrs, contracts[c] # None
    PROVE  /\ EntryOrNew(layer, c) \in ContractChanges
           /\ ContractChangeOK(c, EntryOrNew(layer, c))
<1>1. contracts[c] \in Contract
  BY DEF ChainOK, ChainTyped
<1>2. contracts[c].self_balance \in Amount
  BY <1>1 DEF Contract
<1>3. CASE layer.contracts[c] = None
  <2>1. EntryOrNew(layer, c) = NewContractChanges(contracts[c].self_balance)
    BY <1>3 DEF EntryOrNew
  <2>2. NewContractChanges(contracts[c].self_balance) \in ContractChanges
    BY <1>2 DEF NewContractChanges, ContractChanges, ZeroDelta, Positive, Delta
  <2>3. ContractChangeOK(c, NewContractChanges(contracts[c].self_balance))
    BY <1>2, MaxAmountAssumption
    DEF ContractChangeOK, NewContractChanges, ZeroDelta, Positive,
        apply_to_balance, Value, Amount
  <2> QED
    BY <2>1, <2>2, <2>3
<1>4. CASE layer.contracts[c] # None
  <2>1. EntryOrNew(layer, c) = layer.contracts[c]
    BY <1>4 DEF EntryOrNew
  <2>2. layer.contracts[c] \in ContractChanges
    BY <1>4 DEF LayerOK, Changes
  <2> QED
    BY <1>4, <2>1, <2>2 DEF LayerOK
<1> QED
  BY <1>3, <1>4

(* What the changes of a balance return *)
ResultOK(r) == LayerOK(r.layer) /\ r.balance \in Int

(* A change of a contract's balance keeps the layer sound, also when it fails.*)
LEMMA ChangeContractBalance ==
    ASSUME ChainOK, NEW layer, LayerOK(layer),
           NEW c \in ContractAddrs, contracts[c] # None, NEW delta \in Delta
    PROVE  ResultOK(change_contract_balance(layer, c, delta))
<1> DEFINE entry     == layer.contracts[c]
           changes   == EntryOrNew(layer, c)
           new_delta == IF entry = None THEN delta
                        ELSE add_delta(entry.self_balance_delta, delta)
           err       == delta_error(new_delta, changes.self_balance_original)
           new       == [changes EXCEPT !.self_balance_delta = new_delta]
           r         == change_contract_balance(layer, c, delta)
<1>1. changes \in ContractChanges /\ ContractChangeOK(c, changes)
  BY EntryOrNewOK
<1>2. new_delta \in Delta
  <2>1. CASE entry = None
    BY <2>1
  <2>2. CASE entry # None
    <3>1. entry \in ContractChanges
      BY <2>2 DEF LayerOK, Changes
    <3> QED
      BY <2>2, <3>1, DeltasAdd DEF ContractChanges
  <2> QED
    BY <2>1, <2>2
<1>3. r = IF err # "ok" THEN Result(layer, err, 0)
          ELSE Result([layer EXCEPT !.contracts[c] = new], "ok",
                      apply_to_balance(new_delta, changes.self_balance_original))
  BY DEF change_contract_balance
<1> HIDE DEF changes, new_delta
<1>4. CASE err # "ok"
  BY <1>3, <1>4 DEF ResultOK, Result
<1>5. CASE err = "ok"
  <2>1. apply_to_balance(new_delta, changes.self_balance_original) \in Amount
    BY <1>1, <1>2, <1>5, NoErrorApplies DEF ContractChanges
  <2>2. /\ new \in ContractChanges
        /\ new.self_balance_delta = new_delta
        /\ new.self_balance_original = changes.self_balance_original
        /\ new.module = changes.module
    BY <1>1, <1>2 DEF ContractChanges
  <2> HIDE DEF new
  <2>3. ContractChangeOK(c, new)
    BY <1>1, <2>1, <2>2 DEF ContractChangeOK
  <2>4. LayerOK([layer EXCEPT !.contracts[c] = new])
    BY <2>2, <2>3, WithContract
  <2>5. apply_to_balance(new_delta, changes.self_balance_original) \in Int
    BY <2>1, MaxAmountAssumption DEF Amount
  <2> QED
    BY <1>3, <1>5, <2>4, <2>5 DEF ResultOK, Result
<1> QED
  BY <1>4, <1>5

(* What a change of an account's balance starts from, the balance available  *)
(* less what is reserved, is an amount.                                       *)
LEMMA AccountStart ==
    ASSUME ChainOK, NEW layer, LayerOK(layer),
           NEW a \in AccountAddrs, accounts[KeyOf[a]] # None, NEW delta \in Delta
    PROVE  LET entry    == layer.accounts[KeyOf[a]]
               reserved == IF tx.invoker = a THEN tx.reserved_amount ELSE 0
           IN  /\ (IF entry = None THEN available(accounts[KeyOf[a]]) - reserved
                                   ELSE entry.original_balance) \in Amount
               /\ (IF entry = None THEN delta ELSE add_delta(entry.balance_delta, delta))
                     \in Delta
<1> DEFINE k        == KeyOf[a]
           entry    == layer.accounts[k]
           reserved == IF tx.invoker = a THEN tx.reserved_amount ELSE 0
<1>1. k \in AccountKeys
  BY AddressAssumption
<1>2. CASE entry = None
  <2>1. accounts[k] \in Account
    BY <1>1 DEF ChainOK, ChainTyped
  <2>2. available(accounts[k]) \in Amount
    BY <1>1, <2>1, MaxAmountAssumption DEF ChainOK, ChainTyped, Account, available, Amount
  <2>3. reserved \in Amount /\ reserved <= available(accounts[k])
    BY <2>2, MaxAmountAssumption DEF ChainOK, ChainTyped, Amount
  <2> QED
    BY <1>2, <2>2, <2>3, MaxAmountAssumption DEF Amount
<1>3. CASE entry # None
  <2>1. entry \in AccountChanges
    BY <1>1, <1>3 DEF LayerOK, Changes
  <2> QED
    BY <1>3, <2>1, DeltasAdd DEF AccountChanges
<1> QED
  BY <1>2, <1>3

(* So does a change of an account's balance. *)
LEMMA ChangeAccountBalance ==
    ASSUME ChainOK, NEW layer, LayerOK(layer),
           NEW a \in AccountAddrs, accounts[KeyOf[a]] # None, NEW delta \in Delta
    PROVE  ResultOK(change_account_balance(layer, a, delta))
<1> DEFINE k         == KeyOf[a]
           entry     == layer.accounts[k]
           reserved  == IF tx.invoker = a THEN tx.reserved_amount ELSE 0
           original  == IF entry = None THEN available(accounts[k]) - reserved
                                        ELSE entry.original_balance
           new_delta == IF entry = None THEN delta ELSE add_delta(entry.balance_delta, delta)
           err       == delta_error(new_delta, original)
           new       == [original_balance |-> original, balance_delta |-> new_delta]
           r         == change_account_balance(layer, a, delta)
<1>1. k \in AccountKeys
  BY AddressAssumption
<1>2. original \in Amount /\ new_delta \in Delta
  BY AccountStart
<1>3. r = IF err # "ok" THEN Result(layer, err, 0)
          ELSE Result([layer EXCEPT !.accounts[k] = new], "ok",
                      apply_to_balance(new_delta, original))
  BY DEF change_account_balance
<1>4. accounts[k] # None
  OBVIOUS
<1> HIDE DEF k, original, new_delta
<1>5. CASE err # "ok"
  BY <1>3, <1>5 DEF ResultOK, Result
<1>6. CASE err = "ok"
  <2>1. apply_to_balance(new_delta, original) \in Amount
    BY <1>2, <1>6, NoErrorApplies
  <2>2. new \in AccountChanges /\ AccountChangeOK(k, new)
    BY <1>2, <1>4, <2>1 DEF AccountChanges, AccountChangeOK
  <2> HIDE DEF new
  <2>3. LayerOK([layer EXCEPT !.accounts[k] = new])
    BY <1>1, <2>2, WithAccount
  <2>4. apply_to_balance(new_delta, original) \in Int
    BY <2>1, MaxAmountAssumption DEF Amount
  <2> QED
    BY <1>3, <1>6, <2>3, <2>4 DEF ResultOK, Result
<1> QED
  BY <1>5, <1>6

(* Transfers between contracts *)
LEMMA TransferContractContract ==
    ASSUME ChainOK, NEW layer, LayerOK(layer), NEW amount \in Nat,
           NEW from \in ContractAddrs, contracts[from] # None, NEW to \in ContractAddrs
    PROVE  LET r == transfer_from_contract_to_contract(layer, amount, from, to)
           IN  ResultOK(r) /\ (r.err = "ok" => contracts[to] # None)
<1> DEFINE debit  == change_contract_balance(layer, from, Negative(amount))
           credit == change_contract_balance(debit.layer, to, Positive(amount))
           r      == transfer_from_contract_to_contract(layer, amount, from, to)
<1>1. Negative(amount) \in Delta /\ Positive(amount) \in Delta
  BY DEF Negative, Positive, Delta
<1>2. ResultOK(debit)
  BY <1>1, ChangeContractBalance
<1>3. r = IF contracts[to] = None THEN Result(layer, "ToMissing", 0)
          ELSE IF debit.err # "ok" THEN debit ELSE credit
  BY DEF transfer_from_contract_to_contract
<1>4. contracts[to] # None => ResultOK(credit)
  BY <1>1, <1>2, ChangeContractBalance DEF ResultOK
<1> HIDE DEF debit, credit
<1>5. CASE contracts[to] = None
  BY <1>3, <1>5 DEF Result, ResultOK
<1>6. CASE contracts[to] # None
  BY <1>2, <1>3, <1>4, <1>6
<1> QED
  BY <1>5, <1>6

(* Transfers from an account to a contract *)
LEMMA TransferAccountContract ==
    ASSUME ChainOK, NEW layer, LayerOK(layer), NEW amount \in Nat,
           NEW from \in AccountAddrs, accounts[KeyOf[from]] # None, NEW to \in ContractAddrs
    PROVE  LET r == transfer_from_account_to_contract(layer, amount, from, to)
           IN  ResultOK(r) /\ (r.err = "ok" => contracts[to] # None)
<1> DEFINE debit  == change_account_balance(layer, from, Negative(amount))
           credit == change_contract_balance(debit.layer, to, Positive(amount))
           r      == transfer_from_account_to_contract(layer, amount, from, to)
<1>1. Negative(amount) \in Delta /\ Positive(amount) \in Delta
  BY DEF Negative, Positive, Delta
<1>2. ResultOK(debit)
  BY <1>1, ChangeAccountBalance
<1>3. r = IF contracts[to] = None THEN Result(layer, "ToMissing", 0)
          ELSE IF debit.err # "ok" THEN debit ELSE credit
  BY DEF transfer_from_account_to_contract
<1>4. contracts[to] # None => ResultOK(credit)
  BY <1>1, <1>2, ChangeContractBalance DEF ResultOK
<1> HIDE DEF debit, credit
<1>5. CASE contracts[to] = None
  BY <1>3, <1>5 DEF Result, ResultOK
<1>6. CASE contracts[to] # None
  BY <1>2, <1>3, <1>4, <1>6
<1> QED
  BY <1>5, <1>6

(* Transfers from a contract to an account *)
LEMMA TransferContractAccount ==
    ASSUME ChainOK, NEW layer, LayerOK(layer), NEW amount \in Nat,
           NEW from \in ContractAddrs, contracts[from] # None, NEW to \in AccountAddrs
    PROVE  ResultOK(transfer_from_contract_to_account(layer, amount, from, to))
<1> DEFINE debit  == change_contract_balance(layer, from, Negative(amount))
           credit == change_account_balance(debit.layer, to, Positive(amount))
           r      == transfer_from_contract_to_account(layer, amount, from, to)
<1>1. Negative(amount) \in Delta /\ Positive(amount) \in Delta
  BY DEF Negative, Positive, Delta
<1>2. ResultOK(debit)
  BY <1>1, ChangeContractBalance
<1>3. r = IF accounts[KeyOf[to]] = None THEN Result(layer, "ToMissing", 0)
          ELSE IF debit.err # "ok" THEN debit
          ELSE IF credit.err # "ok" THEN Result(credit.layer, "Panic", 0)
          ELSE Result(credit.layer, "ok", debit.balance)
  BY DEF transfer_from_contract_to_account
<1>4. accounts[KeyOf[to]] # None => ResultOK(credit)
  BY <1>1, <1>2, ChangeAccountBalance DEF ResultOK
<1> HIDE DEF debit, credit
<1>5. CASE accounts[KeyOf[to]] = None
  BY <1>3, <1>5 DEF Result, ResultOK
<1>6. CASE accounts[KeyOf[to]] # None /\ debit.err # "ok"
  BY <1>2, <1>3, <1>6
<1>7. CASE accounts[KeyOf[to]] # None /\ debit.err = "ok" /\ credit.err # "ok"
  BY <1>3, <1>4, <1>7 DEF Result, ResultOK
<1>8. CASE accounts[KeyOf[to]] # None /\ debit.err = "ok" /\ credit.err = "ok"
  BY <1>2, <1>3, <1>4, <1>8 DEF Result, ResultOK
<1> QED
  BY <1>5, <1>6, <1>7, <1>8

(* Saving the state of a contract *)
LEMMA SaveState ==
    ASSUME ChainOK, NEW layer, LayerOK(layer),
           NEW c \in ContractAddrs, contracts[c] # None,
           NEW state \in StateVals, NEW index \in Nat
    PROVE  LayerOK(save_state_changes(layer, c, state, index))
<1> DEFINE changes == EntryOrNew(layer, c)
           new     == [changes EXCEPT !.state = state, !.modification_index = index]
<1>1. changes \in ContractChanges /\ ContractChangeOK(c, changes)
  BY EntryOrNewOK
<1>2. save_state_changes(layer, c, state, index) = [layer EXCEPT !.contracts[c] = new]
  BY DEF save_state_changes
<1> HIDE DEF changes
<1>3. /\ new \in ContractChanges
      /\ new.self_balance_delta = changes.self_balance_delta
      /\ new.self_balance_original = changes.self_balance_original
      /\ new.module = changes.module
  BY <1>1 DEF ContractChanges
<1> HIDE DEF new
<1>4. ContractChangeOK(c, new)
  BY <1>1, <1>3 DEF ContractChangeOK
<1> QED
  BY <1>2, <1>3, <1>4, WithContract

(* Saving an upgrade to a deployed module *)
LEMMA SaveUpgrade ==
    ASSUME ChainOK, NEW layer, LayerOK(layer),
           NEW c \in ContractAddrs, contracts[c] # None,
           NEW m \in ModuleRefs, modules[m] # None
    PROVE  LayerOK(save_module_upgrade(layer, c, m))
<1> DEFINE changes == EntryOrNew(layer, c)
           new     == [changes EXCEPT !.module = m]
<1>1. changes \in ContractChanges /\ ContractChangeOK(c, changes)
  BY EntryOrNewOK
<1>2. save_module_upgrade(layer, c, m) = [layer EXCEPT !.contracts[c] = new]
  BY DEF save_module_upgrade
<1> HIDE DEF changes
<1>3. /\ new \in ContractChanges
      /\ new.self_balance_delta = changes.self_balance_delta
      /\ new.self_balance_original = changes.self_balance_original
      /\ new.module = m
  BY <1>1 DEF ContractChanges
<1> HIDE DEF new
<1>4. ContractChangeOK(c, new)
  BY <1>1, <1>3 DEF ContractChangeOK
<1> QED
  BY <1>2, <1>3, <1>4, WithContract

(* Lookups of an existing contract in a sound layer *)
LEMMA Lookups ==
    ASSUME ChainOK, NEW layer, LayerOK(layer),
           NEW c \in ContractAddrs, contracts[c] # None
    PROVE  /\ contract_balance(layer, c) \in Int
           /\ contract_state(layer, c) \in StateVals
           /\ contract_module(layer, c) \in Module
           /\ modification_index(layer, c) \in Nat
<1>1. /\ contracts[c] \in Contract
      /\ layer.contracts[c] # None => /\ layer.contracts[c] \in ContractChanges
                                      /\ ContractChangeOK(c, layer.contracts[c])
  BY DEF ChainOK, ChainTyped, LayerOK, Changes
<1>2. contract_balance(layer, c) \in Int
  BY <1>1, MaxAmountAssumption DEF contract_balance, ContractChangeOK, Contract, Amount
<1>3. contract_state(layer, c) \in StateVals
  BY <1>1 DEF contract_state, ContractChanges, Contract
<1>4. contract_module(layer, c) \in Module
  <2>1. CASE layer.contracts[c] # None /\ layer.contracts[c].module # None
    <3>1. /\ layer.contracts[c].module \in ModuleRefs
          /\ modules[layer.contracts[c].module] # None
      BY <1>1, <2>1 DEF ContractChanges, ContractChangeOK
    <3> QED
      BY <2>1, <3>1 DEF contract_module, ChainOK, ChainTyped
  <2>2. CASE ~(layer.contracts[c] # None /\ layer.contracts[c].module # None)
    <3>1. contracts[c].module_reference \in ModuleRefs
      BY <1>1 DEF Contract
    <3> QED
      BY <2>2, <3>1 DEF contract_module, ChainOK, ChainTyped
  <2> QED
    BY <2>1, <2>2
<1>5. modification_index(layer, c) \in Nat
  BY <1>1 DEF modification_index, ContractChanges
<1> QED
  BY <1>2, <1>3, <1>4, <1>5

-----------------------------------------------------------------------------
(* What the operations do to the sum of all changes of a layer *)

(* SumOver is the sum of the lemmas above. *)
LEMMA SumOverIsSumOf == ASSUME NEW f, NEW S PROVE SumOver(f, S) = SumOf(f, S)
  BY DEF SumOver, MapThenSumSet, MapThenFoldSet, SumOf, Adds

(* The changes are integers, and so is their sum. *)
LEMMA LayerDeltaType ==
    ASSUME NEW layer, LayerOK(layer)
    PROVE  /\ ContractDeltas(layer) \in [ContractAddrs -> Int]
           /\ AccountDeltas(layer) \in [AccountKeys -> Int]
           /\ SumOver(ContractDeltas(layer), ContractAddrs) \in Int
           /\ SumOver(AccountDeltas(layer), AccountKeys) \in Int
           /\ LayerDelta(layer) \in Int
<1>1. \A d \in Delta : Value(d) \in Int
  BY DEF Delta, Value
<1>2. ContractDeltas(layer) \in [ContractAddrs -> Int]
  BY <1>1 DEF ContractDeltas, LayerOK, Changes, ContractChanges
<1>3. AccountDeltas(layer) \in [AccountKeys -> Int]
  BY <1>1 DEF AccountDeltas, LayerOK, Changes, AccountChanges
<1>4. /\ SumOver(ContractDeltas(layer), ContractAddrs) \in Int
      /\ SumOver(AccountDeltas(layer), AccountKeys) \in Int
  BY <1>2, <1>3, SumOverIsSumOf, SumOfType, AddressAssumption
<1> QED
  BY <1>2, <1>3, <1>4 DEF LayerDelta

(* Another entry for one contract moves the sum by the difference. *)
LEMMA ContractEntryMoves ==
    ASSUME NEW layer, LayerOK(layer), NEW new, LayerOK(new), NEW c \in ContractAddrs,
           new.accounts = layer.accounts,
           \A b \in ContractAddrs \ {c} : new.contracts[b] = layer.contracts[b]
    PROVE  LayerDelta(new)
             = LayerDelta(layer) + (ContractDeltas(new)[c] - ContractDeltas(layer)[c])
<1> DEFINE f == ContractDeltas(layer)
           g == ContractDeltas(new)
<1>1. f \in [ContractAddrs -> Int] /\ g \in [ContractAddrs -> Int]
  BY LayerDeltaType
<1>2. \A b \in ContractAddrs : b # c => g[b] = f[b]
  BY DEF ContractDeltas
<1>3. AccountDeltas(new) = AccountDeltas(layer)
  BY DEF AccountDeltas
<1>4. /\ SumOver(f, ContractAddrs) \in Int /\ SumOver(AccountDeltas(layer), AccountKeys) \in Int
      /\ f[c] \in Int /\ g[c] \in Int
  BY LayerDeltaType
<1> HIDE DEF f, g
<1>5. SumOver(g, ContractAddrs) = SumOver(f, ContractAddrs) + (g[c] - f[c])
  BY <1>1, <1>2, SumOverIsSumOf, SumOfChange, AddressAssumption
<1> QED
  BY <1>3, <1>4, <1>5 DEF LayerDelta, f, g

(* The same for one account. *)
LEMMA AccountEntryMoves ==
    ASSUME NEW layer, LayerOK(layer), NEW new, LayerOK(new), NEW k \in AccountKeys,
           new.contracts = layer.contracts,
           \A j \in AccountKeys \ {k} : new.accounts[j] = layer.accounts[j]
    PROVE  LayerDelta(new)
             = LayerDelta(layer) + (AccountDeltas(new)[k] - AccountDeltas(layer)[k])
<1> DEFINE f == AccountDeltas(layer)
           g == AccountDeltas(new)
<1>1. f \in [AccountKeys -> Int] /\ g \in [AccountKeys -> Int]
  BY LayerDeltaType
<1>2. \A j \in AccountKeys : j # k => g[j] = f[j]
  BY DEF AccountDeltas
<1>3. ContractDeltas(new) = ContractDeltas(layer)
  BY DEF ContractDeltas
<1>4. /\ SumOver(f, AccountKeys) \in Int /\ SumOver(ContractDeltas(layer), ContractAddrs) \in Int
      /\ f[k] \in Int /\ g[k] \in Int
  BY LayerDeltaType
<1> HIDE DEF f, g
<1>5. SumOver(g, AccountKeys) = SumOver(f, AccountKeys) + (g[k] - f[k])
  BY <1>1, <1>2, SumOverIsSumOf, SumOfChange, AddressAssumption
<1> QED
  BY <1>3, <1>4, <1>5 DEF LayerDelta, f, g

(* A credit fails only by an overflow: the balance it starts from is there. *)
LEMMA CreditError ==
    ASSUME NEW d \in Delta, NEW a \in Nat, NEW original \in Amount,
           apply_to_balance(d, original) \in Amount
    PROVE  delta_error(add_delta(d, Positive(a)), original) \in {"ok", "Overflow", "Panic"}
  BY MaxAmountAssumption
  DEF delta_error, balance_error, add_delta, add_amount, Positive, Negative, Delta,
      apply_to_balance, Value, Amount

(* A change of a contract's balance moves the sum by as much, or changes    *)
(* nothing.                                                                 *)
LEMMA ContractBalanceMoves ==
    ASSUME ChainOK, NEW layer, LayerOK(layer),
           NEW c \in ContractAddrs, contracts[c] # None, NEW delta \in Delta
    PROVE  LET r == change_contract_balance(layer, c, delta)
           IN  /\ r.err # "ok" => r.layer = layer
               /\ r.err = "ok" => LayerDelta(r.layer) = LayerDelta(layer) + Value(delta)
               /\ \A a \in Nat : delta = Positive(a) => r.err \in {"ok", "Overflow", "Panic"}
<1> DEFINE entry     == layer.contracts[c]
           changes   == EntryOrNew(layer, c)
           new_delta == IF entry = None THEN delta
                        ELSE add_delta(entry.self_balance_delta, delta)
           err       == delta_error(new_delta, changes.self_balance_original)
           e         == [changes EXCEPT !.self_balance_delta = new_delta]
           new       == [layer EXCEPT !.contracts[c] = e]
           r         == change_contract_balance(layer, c, delta)
<1>1. changes \in ContractChanges /\ ContractChangeOK(c, changes)
  BY EntryOrNewOK
<1>2. r = IF err # "ok" THEN Result(layer, err, 0)
          ELSE Result(new, "ok", apply_to_balance(new_delta, changes.self_balance_original))
  BY DEF change_contract_balance
<1>3. /\ new_delta \in Delta
      /\ Value(new_delta) = ContractDeltas(layer)[c] + Value(delta)
  <2>1. CASE entry = None
    <3>1. ContractDeltas(layer)[c] = 0 /\ Value(delta) \in Int
      BY <2>1 DEF ContractDeltas, Value, Delta
    <3> QED
      BY <2>1, <3>1
  <2>2. CASE entry # None
    <3>1. entry.self_balance_delta \in Delta
      BY <2>2 DEF LayerOK, Changes, ContractChanges
    <3>2. ContractDeltas(layer)[c] = Value(entry.self_balance_delta)
      BY <2>2 DEF ContractDeltas
    <3> QED
      BY <2>2, <3>1, <3>2, DeltasAdd
  <2> QED
    BY <2>1, <2>2
<1>4. ASSUME NEW a \in Nat, delta = Positive(a) PROVE err \in {"ok", "Overflow", "Panic"}
  <2>1. CASE entry = None
    BY <1>4, <2>1 DEF delta_error, balance_error, Positive
  <2>2. CASE entry # None
    <3>1. changes = entry /\ entry \in ContractChanges
      BY <2>2 DEF EntryOrNew, LayerOK, Changes
    <3>2. /\ entry.self_balance_delta \in Delta /\ changes.self_balance_original \in Amount
          /\ apply_to_balance(entry.self_balance_delta, changes.self_balance_original) \in Amount
      BY <1>1, <3>1 DEF ContractChanges, ContractChangeOK
    <3> HIDE DEF entry, changes
    <3> QED
      BY <1>4, <2>2, <3>2, CreditError
  <2> QED
    BY <2>1, <2>2
<1>5. CASE err # "ok"
  BY <1>2, <1>4, <1>5 DEF Result
<1>6. CASE err = "ok"
  <2>1. r.layer = new /\ r.err = "ok"
    BY <1>2, <1>6 DEF Result
  <2>2. e \in ContractChanges /\ e.self_balance_delta = new_delta
    BY <1>1, <1>3 DEF ContractChanges
  <2>3. e # None /\ layer \in Changes
    BY <2>2, ChangesAssumption DEF LayerOK
  <2> HIDE DEF e
  <2>4. /\ new.accounts = layer.accounts /\ new.contracts[c] = e
        /\ \A b \in ContractAddrs \ {c} : new.contracts[b] = layer.contracts[b]
    BY <2>2, <2>3 DEF Changes
  <2>5. LayerOK(r.layer)
    BY ChangeContractBalance DEF ResultOK
  <2> HIDE DEF new, r
  <2>6. ContractDeltas(new)[c] = Value(new_delta)
    BY <2>2, <2>3, <2>4 DEF ContractDeltas
  <2>7. LayerDelta(new)
          = LayerDelta(layer) + (ContractDeltas(new)[c] - ContractDeltas(layer)[c])
    BY <2>1, <2>4, <2>5, ContractEntryMoves
  <2>8. /\ LayerDelta(layer) \in Int /\ ContractDeltas(layer)[c] \in Int
        /\ Value(delta) \in Int
    BY LayerDeltaType DEF Delta, Value
  <2>9. LayerDelta(new) = LayerDelta(layer) + Value(delta)
    BY <1>3, <2>6, <2>7, <2>8
  <2> QED
    BY <2>1, <2>9 DEF r
<1> QED
  BY <1>5, <1>6

(* So does a change of an account's balance. *)
LEMMA AccountBalanceMoves ==
    ASSUME ChainOK, NEW layer, LayerOK(layer),
           NEW a \in AccountAddrs, accounts[KeyOf[a]] # None, NEW delta \in Delta
    PROVE  LET r == change_account_balance(layer, a, delta)
           IN  /\ r.err # "ok" => r.layer = layer
               /\ r.err = "ok" => LayerDelta(r.layer) = LayerDelta(layer) + Value(delta)
<1> DEFINE k         == KeyOf[a]
           entry     == layer.accounts[k]
           reserved  == IF tx.invoker = a THEN tx.reserved_amount ELSE 0
           original  == IF entry = None THEN available(accounts[k]) - reserved
                                        ELSE entry.original_balance
           new_delta == IF entry = None THEN delta ELSE add_delta(entry.balance_delta, delta)
           err       == delta_error(new_delta, original)
           e         == [original_balance |-> original, balance_delta |-> new_delta]
           new       == [layer EXCEPT !.accounts[k] = e]
           r         == change_account_balance(layer, a, delta)
<1>1. k \in AccountKeys /\ layer \in Changes
  BY AddressAssumption DEF LayerOK
<1>2. r = IF err # "ok" THEN Result(layer, err, 0)
          ELSE Result(new, "ok", apply_to_balance(new_delta, original))
  BY DEF change_account_balance
<1>3. Value(new_delta) = AccountDeltas(layer)[k] + Value(delta)
  <2>1. CASE entry = None
    <3>1. AccountDeltas(layer)[k] = 0 /\ Value(delta) \in Int
      BY <1>1, <2>1 DEF AccountDeltas, Value, Delta
    <3> QED
      BY <2>1, <3>1
  <2>2. CASE entry # None
    <3>1. entry.balance_delta \in Delta
      BY <1>1, <2>2 DEF LayerOK, Changes, AccountChanges
    <3>2. AccountDeltas(layer)[k] = Value(entry.balance_delta)
      BY <1>1, <2>2 DEF AccountDeltas
    <3> QED
      BY <2>2, <3>1, <3>2, DeltasAdd
  <2> QED
    BY <2>1, <2>2
<1>4. CASE err # "ok"
  BY <1>2, <1>4 DEF Result
<1>5. CASE err = "ok"
  <2>1. r.layer = new /\ r.err = "ok"
    BY <1>2, <1>5 DEF Result
  <2>2. e.balance_delta = new_delta
    OBVIOUS
  <2>3. /\ new.contracts = layer.contracts /\ new.accounts[k] = e
        /\ \A j \in AccountKeys \ {k} : new.accounts[j] = layer.accounts[j]
    BY <1>1 DEF Changes
  <2>4. LayerOK(r.layer)
    BY ChangeAccountBalance DEF ResultOK
  <2>5. original \in Amount /\ new_delta \in Delta
    BY AccountStart
  <2> HIDE DEF original, new_delta
  <2>6. e # None
    <3>1. e \in AccountChanges
      BY <2>5 DEF AccountChanges
    <3> QED
      BY <3>1, ChangesAssumption
  <2> HIDE DEF new, r, e, k
  <2>7. AccountDeltas(new)[k] = Value(new_delta)
    BY <1>1, <2>2, <2>3, <2>6 DEF AccountDeltas
  <2>8. LayerDelta(new)
          = LayerDelta(layer) + (AccountDeltas(new)[k] - AccountDeltas(layer)[k])
    BY <1>1, <2>1, <2>3, <2>4, AccountEntryMoves
  <2>9. /\ LayerDelta(layer) \in Int /\ AccountDeltas(layer)[k] \in Int
        /\ Value(delta) \in Int
    BY <1>1, LayerDeltaType DEF Delta, Value
  <2>10. LayerDelta(new) = LayerDelta(layer) + Value(delta)
    BY <1>3, <2>7, <2>8, <2>9
  <2> QED
    BY <2>1, <2>10 DEF r
<1> QED
  BY <1>4, <1>5

(* A transfer whose error goes back to the contract, if it has one, neither  *)
(* creates nor destroys CCD.                                                 *)
Conserves(layer, r) == r.err \notin {"Overflow", "Panic"} => LayerDelta(r.layer) = LayerDelta(layer)

(* A debit and a credit of the same amount *)
LEMMA DebitCredit ==
    ASSUME NEW x \in Int, NEW amount \in Nat
    PROVE  (x + Value(Negative(amount))) + Value(Positive(amount)) = x
  BY DEF Value, Negative, Positive

(* Transfers between contracts conserve. *)
LEMMA ContractContractConserves ==
    ASSUME ChainOK, NEW layer, LayerOK(layer), NEW amount \in Nat,
           NEW from \in ContractAddrs, contracts[from] # None, NEW to \in ContractAddrs
    PROVE  Conserves(layer, transfer_from_contract_to_contract(layer, amount, from, to))
<1> DEFINE debit  == change_contract_balance(layer, from, Negative(amount))
           credit == change_contract_balance(debit.layer, to, Positive(amount))
           r      == transfer_from_contract_to_contract(layer, amount, from, to)
<1>1. Negative(amount) \in Delta /\ Positive(amount) \in Delta
  BY DEF Negative, Positive, Delta
<1>2. /\ debit.err # "ok" => debit.layer = layer
      /\ debit.err = "ok" => LayerDelta(debit.layer) = LayerDelta(layer) + Value(Negative(amount))
      /\ LayerOK(debit.layer)
  BY <1>1, ContractBalanceMoves, ChangeContractBalance DEF ResultOK
<1>3. r = IF contracts[to] = None THEN Result(layer, "ToMissing", 0)
          ELSE IF debit.err # "ok" THEN debit ELSE credit
  BY DEF transfer_from_contract_to_contract
<1> HIDE DEF debit
<1>4. contracts[to] # None =>
        /\ credit.err \in {"ok", "Overflow", "Panic"}
        /\ credit.err = "ok" =>
             LayerDelta(credit.layer) = LayerDelta(debit.layer) + Value(Positive(amount))
  BY <1>1, <1>2, ContractBalanceMoves
<1>5. LayerDelta(layer) \in Int
  BY LayerDeltaType
<1> HIDE DEF credit, r
<1> SUFFICES Conserves(layer, r)
  BY DEF r
<1>6. CASE contracts[to] = None
  BY <1>3, <1>6 DEF Result, Conserves
<1>7. CASE contracts[to] # None /\ debit.err # "ok"
  BY <1>2, <1>3, <1>7 DEF Conserves
<1>8. CASE contracts[to] # None /\ debit.err = "ok"
  BY <1>2, <1>3, <1>4, <1>5, <1>8, DebitCredit DEF Conserves
<1> QED
  BY <1>6, <1>7, <1>8

(* So do transfers from accounts, *)
LEMMA AccountContractConserves ==
    ASSUME ChainOK, NEW layer, LayerOK(layer), NEW amount \in Nat,
           NEW from \in AccountAddrs, accounts[KeyOf[from]] # None, NEW to \in ContractAddrs
    PROVE  Conserves(layer, transfer_from_account_to_contract(layer, amount, from, to))
<1> DEFINE debit  == change_account_balance(layer, from, Negative(amount))
           credit == change_contract_balance(debit.layer, to, Positive(amount))
           r      == transfer_from_account_to_contract(layer, amount, from, to)
<1>1. Negative(amount) \in Delta /\ Positive(amount) \in Delta
  BY DEF Negative, Positive, Delta
<1>2. /\ debit.err # "ok" => debit.layer = layer
      /\ debit.err = "ok" => LayerDelta(debit.layer) = LayerDelta(layer) + Value(Negative(amount))
      /\ LayerOK(debit.layer)
  BY <1>1, AccountBalanceMoves, ChangeAccountBalance DEF ResultOK
<1>3. r = IF contracts[to] = None THEN Result(layer, "ToMissing", 0)
          ELSE IF debit.err # "ok" THEN debit ELSE credit
  BY DEF transfer_from_account_to_contract
<1> HIDE DEF debit
<1>4. contracts[to] # None =>
        /\ credit.err \in {"ok", "Overflow", "Panic"}
        /\ credit.err = "ok" =>
             LayerDelta(credit.layer) = LayerDelta(debit.layer) + Value(Positive(amount))
  BY <1>1, <1>2, ContractBalanceMoves
<1>5. LayerDelta(layer) \in Int
  BY LayerDeltaType
<1> HIDE DEF credit, r
<1> SUFFICES Conserves(layer, r)
  BY DEF r
<1>6. CASE contracts[to] = None
  BY <1>3, <1>6 DEF Result, Conserves
<1>7. CASE contracts[to] # None /\ debit.err # "ok"
  BY <1>2, <1>3, <1>7 DEF Conserves
<1>8. CASE contracts[to] # None /\ debit.err = "ok"
  BY <1>2, <1>3, <1>4, <1>5, <1>8, DebitCredit DEF Conserves
<1> QED
  BY <1>6, <1>7, <1>8

(* and transfers to accounts. *)
LEMMA ContractAccountConserves ==
    ASSUME ChainOK, NEW layer, LayerOK(layer), NEW amount \in Nat,
           NEW from \in ContractAddrs, contracts[from] # None, NEW to \in AccountAddrs
    PROVE  Conserves(layer, transfer_from_contract_to_account(layer, amount, from, to))
<1> DEFINE debit  == change_contract_balance(layer, from, Negative(amount))
           credit == change_account_balance(debit.layer, to, Positive(amount))
           r      == transfer_from_contract_to_account(layer, amount, from, to)
<1>1. Negative(amount) \in Delta /\ Positive(amount) \in Delta
  BY DEF Negative, Positive, Delta
<1>2. /\ debit.err # "ok" => debit.layer = layer
      /\ debit.err = "ok" => LayerDelta(debit.layer) = LayerDelta(layer) + Value(Negative(amount))
      /\ LayerOK(debit.layer)
  BY <1>1, ContractBalanceMoves, ChangeContractBalance DEF ResultOK
<1>3. r = IF accounts[KeyOf[to]] = None THEN Result(layer, "ToMissing", 0)
          ELSE IF debit.err # "ok" THEN debit
          ELSE IF credit.err # "ok" THEN Result(credit.layer, "Panic", 0)
          ELSE Result(credit.layer, "ok", debit.balance)
  BY DEF transfer_from_contract_to_account
<1> HIDE DEF debit
<1>4. accounts[KeyOf[to]] # None /\ credit.err = "ok" =>
        LayerDelta(credit.layer) = LayerDelta(debit.layer) + Value(Positive(amount))
  BY <1>1, <1>2, AccountBalanceMoves
<1>5. LayerDelta(layer) \in Int
  BY LayerDeltaType
<1> HIDE DEF credit, r
<1> SUFFICES Conserves(layer, r)
  BY DEF r
<1>6. CASE accounts[KeyOf[to]] = None
  BY <1>3, <1>6 DEF Result, Conserves
<1>7. CASE accounts[KeyOf[to]] # None /\ debit.err # "ok"
  BY <1>2, <1>3, <1>7 DEF Conserves
<1>8. CASE accounts[KeyOf[to]] # None /\ debit.err = "ok" /\ credit.err # "ok"
  BY <1>3, <1>8 DEF Result, Conserves
<1>9. CASE accounts[KeyOf[to]] # None /\ debit.err = "ok" /\ credit.err = "ok"
  <2>1. r.layer = credit.layer
    BY <1>3, <1>9 DEF Result
  <2> QED
    BY <1>2, <1>4, <1>5, <1>9, <2>1, DebitCredit DEF Conserves
<1> QED
  BY <1>6, <1>7, <1>8, <1>9

(* An entry with the change that was there leaves the sum alone. *)
LEMMA EntryConserves ==
    ASSUME ChainOK, NEW layer, LayerOK(layer), NEW c \in ContractAddrs, contracts[c] # None,
           NEW e \in ContractChanges, ContractChangeOK(c, e),
           e.self_balance_delta = EntryOrNew(layer, c).self_balance_delta
    PROVE  LayerDelta([layer EXCEPT !.contracts[c] = e]) = LayerDelta(layer)
<1> DEFINE new == [layer EXCEPT !.contracts[c] = e]
<1>1. layer \in Changes /\ e # None
  BY ChangesAssumption DEF LayerOK
<1>2. /\ new.accounts = layer.accounts /\ new.contracts[c] = e
      /\ \A b \in ContractAddrs \ {c} : new.contracts[b] = layer.contracts[b]
  BY <1>1 DEF Changes
<1>3. LayerOK(new)
  BY WithContract
<1> HIDE DEF new
<1>4. ContractDeltas(new)[c] = ContractDeltas(layer)[c]
  BY <1>1, <1>2
  DEF ContractDeltas, EntryOrNew, NewContractChanges, ZeroDelta, Positive, Value
<1>5. LayerDelta(new)
        = LayerDelta(layer) + (ContractDeltas(new)[c] - ContractDeltas(layer)[c])
  BY <1>2, <1>3, ContractEntryMoves
<1>6. LayerDelta(layer) \in Int /\ ContractDeltas(layer)[c] \in Int
  BY LayerDeltaType
<1> QED
  BY <1>4, <1>5, <1>6 DEF new

(* Saving a state or an upgrade moves no CCD. *)
LEMMA SavesConserve ==
    ASSUME ChainOK, NEW layer, LayerOK(layer), NEW c \in ContractAddrs, contracts[c] # None
    PROVE  /\ \A state \in StateVals, index \in Nat :
                LayerDelta(save_state_changes(layer, c, state, index)) = LayerDelta(layer)
           /\ \A m \in ModuleRefs : modules[m] # None =>
                LayerDelta(save_module_upgrade(layer, c, m)) = LayerDelta(layer)
<1> DEFINE changes == EntryOrNew(layer, c)
<1>1. changes \in ContractChanges /\ ContractChangeOK(c, changes)
  BY EntryOrNewOK
<1> HIDE DEF changes
<1>2. ASSUME NEW state \in StateVals, NEW index \in Nat
      PROVE  LayerDelta(save_state_changes(layer, c, state, index)) = LayerDelta(layer)
  <2> DEFINE e == [changes EXCEPT !.state = state, !.modification_index = index]
  <2>1. /\ e \in ContractChanges /\ e.self_balance_delta = changes.self_balance_delta
        /\ e.self_balance_original = changes.self_balance_original
        /\ e.module = changes.module
    BY <1>1 DEF ContractChanges
  <2>2. save_state_changes(layer, c, state, index) = [layer EXCEPT !.contracts[c] = e]
    BY DEF save_state_changes, changes
  <2> HIDE DEF e
  <2>3. ContractChangeOK(c, e)
    BY <1>1, <2>1 DEF ContractChangeOK
  <2> QED
    BY <2>1, <2>2, <2>3, EntryConserves DEF changes
<1>3. ASSUME NEW m \in ModuleRefs, modules[m] # None
      PROVE  LayerDelta(save_module_upgrade(layer, c, m)) = LayerDelta(layer)
  <2> DEFINE e == [changes EXCEPT !.module = m]
  <2>1. /\ e \in ContractChanges /\ e.self_balance_delta = changes.self_balance_delta
        /\ e.self_balance_original = changes.self_balance_original
        /\ e.module = m
    BY <1>1 DEF ContractChanges
  <2>2. save_module_upgrade(layer, c, m) = [layer EXCEPT !.contracts[c] = e]
    BY DEF save_module_upgrade, changes
  <2> HIDE DEF e
  <2>3. ContractChangeOK(c, e)
    BY <1>1, <1>3, <2>1 DEF ContractChangeOK
  <2> QED
    BY <2>1, <2>2, <2>3, EntryConserves DEF changes
<1> QED
  BY <1>2, <1>3

(* Nothing has changed in the layer a transaction starts with. *)
LEMMA EmptyLayerDelta == LayerDelta(EmptyLayer) = 0
<1>1. /\ \A c \in ContractAddrs : ContractDeltas(EmptyLayer)[c] = 0
      /\ \A k \in AccountKeys : AccountDeltas(EmptyLayer)[k] = 0
  BY DEF ContractDeltas, AccountDeltas, EmptyLayer
<1>2. /\ SumOver(ContractDeltas(EmptyLayer), ContractAddrs) = 0
      /\ SumOver(AccountDeltas(EmptyLayer), AccountKeys) = 0
  BY <1>1, SumOverIsSumOf, SumOfZero, AddressAssumption
<1> QED
  BY <1>2 DEF LayerDelta

-----------------------------------------------------------------------------
(* The bookkeeping of an invocation: the inductive invariant, part by part *)

(* A frame names contracts and accounts that exist. *)
FrameOK(f) ==
    /\ f.kind = "initial" =>
         /\ f.sender \in AccountAddrs => accounts[KeyOf[f.sender]] # None
         /\ f.sender \in ContractAddrs => contracts[f.sender] # None
    /\ f.kind # "initial" => contracts[f.data.address] # None

(* The stack s, when the changeset has len layers and the trace tr elements.*)
(* All frames but the topmost are callers that wait.                        *)
StackOK(s, len, tr) ==
    /\ s \in Seq(FrameType)
    /\ \A n \in 1 .. Len(s) : FrameOK(s[n]) /\ CheckpointOf(s[n]) <= tr
    /\ \A m, n \in 1 .. Len(s) : m < n => CheckpointOf(s[m]) <= CheckpointOf(s[n])
    /\ \A n \in 1 .. Len(s) : s[n].kind = "await" => s[n].depth >= 1 /\ s[n].depth < len
    /\ \A m, n \in 1 .. Len(s) :
         s[m].kind = "await" /\ s[n].kind = "await" /\ m < n => s[m].depth < s[n].depth
    /\ \A n \in 1 .. (Len(s) - 1) : s[n].kind = "await"

(* All frames are callers that wait, with checkpoints up to ck. *)
Callers(s, ck) ==
    \A n \in 1 .. Len(s) : s[n].kind = "await" /\ CheckpointOf(s[n]) <= ck

LayersOK(cs) ==
    /\ cs \in Seq(Changes)
    /\ cs # <<>>
    /\ \A n \in 1 .. Len(cs) : LayerOK(cs[n])

(* The entrypoint in the interpreter belongs to a contract that exists,     *)
(* everything on the stack waits for it, and no response is pending.        *)
RunningOK ==
    /\ running # None =>
         /\ contracts[running.address] # None
         /\ running.trace_elements_checkpoint <= trace_elements
         /\ Callers(stack, running.trace_elements_checkpoint)
         /\ invoke_response = None
    /\ status = "exec" => running # None
    /\ status = "pop" => running = None

Inv ==
    /\ tx \in Transaction
    /\ ChainOK
    /\ LayersOK(changeset)
    /\ StackOK(stack, Len(changeset), trace_elements)
    /\ RunningOK
    /\ ResponseReady
    /\ remaining_energy \in Nat
    /\ module_load_energy \in Nat
    /\ next_contract_modification_index \in Nat
    /\ running \in InvocationData \cup {None}
    /\ invoke_response \in Response \cup {None}
    /\ trace_elements \in Nat
    /\ status \in Statuses
    /\ leaked \in BOOLEAN

-----------------------------------------------------------------------------
(* Stacks *)

(* Checkpoints are numbers. *)
LEMMA FrameFacts ==
    ASSUME NEW f \in FrameType
    PROVE  /\ CheckpointOf(f) \in Nat
           /\ f.kind \in {"initial", "resume", "await"}
           /\ f.kind = "await" => f.depth \in Nat
           /\ f.kind # "initial" => f.data \in InvocationData
           /\ f.kind = "resume" => f.response \in Response
           /\ f.kind = "initial" => /\ f.sender \in Addresses
                                    /\ f.address \in ContractAddrs
                                    /\ f.name \in ContractNames
                                    /\ f.amount \in Amount
                                    /\ f.trace_elements_checkpoint \in Nat
  BY DEF FrameType, CheckpointOf, InvocationData

(* What is on the stack stays sound as trace and changeset grow. *)
LEMMA StackGrows ==
    ASSUME NEW s, NEW len \in Nat, NEW tr \in Nat, StackOK(s, len, tr),
           NEW len2 \in Nat, NEW tr2 \in Nat, len <= len2, tr <= tr2
    PROVE  StackOK(s, len2, tr2)
<1>1. \A n \in 1 .. Len(s) : s[n] \in FrameType
  BY ElementOfSeq DEF StackOK
<1>2. \A n \in 1 .. Len(s) : CheckpointOf(s[n]) \in Nat /\ (s[n].kind = "await" => s[n].depth \in Nat)
  BY <1>1, FrameFacts
<1>3. \A n \in 1 .. Len(s) : FrameOK(s[n]) /\ CheckpointOf(s[n]) <= tr2
  BY <1>2 DEF StackOK
<1>4. \A n \in 1 .. Len(s) : s[n].kind = "await" => s[n].depth >= 1 /\ s[n].depth < len2
  BY <1>2 DEF StackOK
<1> QED
  BY <1>3, <1>4 DEF StackOK

(* Cutting the trace at the checkpoint of the callee leaves the callers'.   *)
LEMMA StackCut ==
    ASSUME NEW s, NEW len, NEW tr, StackOK(s, len, tr),
           NEW ck \in Nat, Callers(s, ck)
    PROVE  StackOK(s, len, ck + 1)
<1>1. \A n \in 1 .. Len(s) : s[n] \in FrameType
  BY ElementOfSeq DEF StackOK
<1>2. \A n \in 1 .. Len(s) : CheckpointOf(s[n]) <= ck + 1
  BY <1>1, FrameFacts DEF Callers
<1> QED
  BY <1>2 DEF StackOK

(* Popping the topmost frame *)
LEMMA StackPop ==
    ASSUME NEW s, NEW len \in Nat, NEW tr \in Nat, StackOK(s, len, tr), s # <<>>
    PROVE  LET top == s[Len(s)]
               pop == SubSeq(s, 1, Len(s) - 1)
           IN  /\ StackOK(pop, len, tr)
               /\ Callers(pop, CheckpointOf(top))
               /\ top \in FrameType
               /\ FrameOK(top)
               /\ CheckpointOf(top) <= tr
               /\ top.kind = "await" => len - 1 \in Nat /\ StackOK(pop, len - 1, tr)
               /\ top.kind = "await" => top.depth >= 1 /\ top.depth < len
               /\ \A n \in 1 .. Len(pop) : pop[n].kind = "await"
<1> DEFINE L   == Len(s)
           top == s[L]
           pop == SubSeq(s, 1, L - 1)
<1>1. s \in Seq(FrameType) /\ L \in Nat \ {0}
  BY EmptySeq, LenProperties DEF StackOK
<1>2. \A n \in 1 .. L : s[n] \in FrameType
  BY <1>1, ElementOfSeq
<1>3. /\ pop \in Seq(FrameType)
      /\ Len(pop) = L - 1
      /\ \A n \in 1 .. (L - 1) : pop[n] = s[n]
  <2>1. L - 1 \in Int /\ 1 \in Int /\ \A n \in 1 .. (L - 1) : s[n] \in FrameType
    BY <1>1, <1>2
  <2>2. /\ pop \in Seq(FrameType)
        /\ Len(pop) = IF 1 <= L - 1 THEN (L - 1) - 1 + 1 ELSE 0
        /\ \A i \in 1 .. ((L - 1) - 1 + 1) : pop[i] = s[1 + i - 1]
    BY <2>1, SubSeqProperties
  <2> HIDE DEF L, pop
  <2> QED
    BY <1>1, <2>2
<1> HIDE DEF pop, L
<1>4. L \in 1 .. L /\ \A n \in 1 .. (L - 1) : n \in 1 .. L /\ n < L
  BY <1>1
<1>5. \A n \in 1 .. L : /\ CheckpointOf(s[n]) \in Nat
                        /\ s[n].kind = "await" => s[n].depth \in Nat
  BY <1>2, FrameFacts
<1>6. /\ \A n \in 1 .. L : FrameOK(s[n]) /\ CheckpointOf(s[n]) <= tr
      /\ \A m, n \in 1 .. L : m < n => CheckpointOf(s[m]) <= CheckpointOf(s[n])
      /\ \A n \in 1 .. L : s[n].kind = "await" => s[n].depth >= 1 /\ s[n].depth < len
      /\ \A m, n \in 1 .. L :
           s[m].kind = "await" /\ s[n].kind = "await" /\ m < n => s[m].depth < s[n].depth
      /\ \A n \in 1 .. (L - 1) : s[n].kind = "await"
  BY DEF StackOK, L
<1>7. \A n \in 1 .. Len(pop) : pop[n].kind = "await"
  BY <1>3, <1>6
<1>8. ASSUME NEW l, \A n \in 1 .. (L - 1) : s[n].depth < l
      PROVE  StackOK(pop, l, tr)
  <2>1. \A n \in 1 .. Len(pop) : n \in 1 .. L /\ pop[n] = s[n]
    BY <1>1, <1>3
  <2>2. \A n \in 1 .. Len(pop) : FrameOK(pop[n]) /\ CheckpointOf(pop[n]) <= tr
    BY <1>6, <2>1
  <2>3. \A m, n \in 1 .. Len(pop) : m < n => CheckpointOf(pop[m]) <= CheckpointOf(pop[n])
    BY <1>6, <2>1
  <2>4. \A n \in 1 .. Len(pop) : pop[n].depth >= 1 /\ pop[n].depth < l
    BY <1>3, <1>6, <1>7, <1>8, <2>1
  <2>5. \A m, n \in 1 .. Len(pop) : m < n => pop[m].depth < pop[n].depth
    BY <1>6, <1>7, <2>1
  <2>6. \A n \in 1 .. (Len(pop) - 1) : n \in 1 .. Len(pop)
    BY <1>1, <1>3
  <2> QED
    BY <1>3, <1>7, <2>2, <2>3, <2>4, <2>5, <2>6 DEF StackOK
<1>9. Callers(pop, CheckpointOf(top))
  BY <1>3, <1>4, <1>6 DEF Callers
<1>10. ASSUME top.kind = "await"
       PROVE  len - 1 \in Nat /\ StackOK(pop, len - 1, tr)
  <2>1. top.depth \in Nat /\ top.depth >= 1 /\ top.depth < len
    BY <1>4, <1>5, <1>6, <1>10
  <2>2. \A n \in 1 .. (L - 1) : s[n].depth < len - 1
    BY <1>4, <1>5, <1>6, <1>10, <2>1
  <2> QED
    BY <1>8, <2>1, <2>2
<1>11. top \in FrameType /\ FrameOK(top) /\ CheckpointOf(top) <= tr
       /\ (top.kind = "await" => top.depth >= 1 /\ top.depth < len)
  BY <1>2, <1>4, <1>6
<1>12. StackOK(pop, len, tr)
  BY <1>4, <1>6, <1>8
<1> QED
  BY <1>7, <1>9, <1>10, <1>11, <1>12 DEF pop, L

(* Pushing a frame on top of waiting callers: a caller whose checkpoint is  *)
(* the depth of the changeset needs one more layer on it.                   *)
LEMMA StackPush ==
    ASSUME NEW s, NEW len \in Nat, NEW tr \in Nat, StackOK(s, len, tr),
           NEW f \in FrameType, FrameOK(f), Callers(s, CheckpointOf(f)),
           CheckpointOf(f) <= tr,
           NEW len2 \in Nat, len <= len2,
           f.kind = "await" => len >= 1 /\ f.depth = len /\ len < len2
    PROVE  /\ StackOK(Append(s, f), len2, tr)
           /\ Append(s, f) # <<>>
           /\ Append(s, f)[Len(Append(s, f))] = f
           /\ f.kind = "await" => Callers(Append(s, f), CheckpointOf(f))
<1> DEFINE L == Len(s)
           t == Append(s, f)
<1>1. s \in Seq(FrameType) /\ L \in Nat
  BY LenProperties DEF StackOK
<1>2. /\ t \in Seq(FrameType)
      /\ t # <<>>
      /\ Len(t) = L + 1
      /\ \A n \in 1 .. L : t[n] = s[n]
      /\ t[L + 1] = f
  BY <1>1, AppendProperties
<1>3. /\ \A n \in 1 .. L : FrameOK(s[n]) /\ CheckpointOf(s[n]) <= tr
      /\ \A m, n \in 1 .. L : m < n => CheckpointOf(s[m]) <= CheckpointOf(s[n])
      /\ \A n \in 1 .. L : s[n].kind = "await" => s[n].depth >= 1 /\ s[n].depth < len
      /\ \A m, n \in 1 .. L :
           s[m].kind = "await" /\ s[n].kind = "await" /\ m < n => s[m].depth < s[n].depth
      /\ \A n \in 1 .. L : s[n].kind = "await" /\ CheckpointOf(s[n]) <= CheckpointOf(f)
  BY DEF StackOK, Callers
<1>4. \A n \in 1 .. L : s[n].depth \in Nat /\ CheckpointOf(s[n]) \in Nat
  BY <1>1, <1>3, ElementOfSeq, FrameFacts
<1>5. CheckpointOf(f) \in Nat
  BY FrameFacts
<1> HIDE DEF L, t
<1>6. \A n \in 1 .. Len(t) : n \in 1 .. L \/ n = L + 1
  BY <1>1, <1>2
<1>7. \A n \in 1 .. Len(t) : FrameOK(t[n]) /\ CheckpointOf(t[n]) <= tr
  BY <1>2, <1>3, <1>6
<1>8. \A m, n \in 1 .. Len(t) : m < n => CheckpointOf(t[m]) <= CheckpointOf(t[n])
  <2> SUFFICES ASSUME NEW m \in 1 .. Len(t), NEW n \in 1 .. Len(t), m < n
               PROVE  CheckpointOf(t[m]) <= CheckpointOf(t[n])
    OBVIOUS
  <2>1. m \in 1 .. L
    BY <1>1, <1>2
  <2> QED
    BY <1>2, <1>3, <1>6, <2>1
<1>9. \A n \in 1 .. Len(t) : t[n].kind = "await" => t[n].depth >= 1 /\ t[n].depth < len2
  <2> SUFFICES ASSUME NEW n \in 1 .. Len(t), t[n].kind = "await"
               PROVE  t[n].depth >= 1 /\ t[n].depth < len2
    OBVIOUS
  <2>1. CASE n \in 1 .. L
    BY <1>2, <1>3, <1>4, <2>1
  <2>2. CASE n = L + 1
    BY <1>2, <2>2
  <2> QED
    BY <1>6, <2>1, <2>2
<1>10. \A m, n \in 1 .. Len(t) :
         t[m].kind = "await" /\ t[n].kind = "await" /\ m < n => t[m].depth < t[n].depth
  <2> SUFFICES ASSUME NEW m \in 1 .. Len(t), NEW n \in 1 .. Len(t), m < n,
                      t[m].kind = "await", t[n].kind = "await"
               PROVE  t[m].depth < t[n].depth
    OBVIOUS
  <2>1. m \in 1 .. L
    BY <1>1, <1>2
  <2>2. CASE n \in 1 .. L
    BY <1>2, <1>3, <2>1, <2>2
  <2>3. CASE n = L + 1
    BY <1>2, <1>3, <2>1, <2>3
  <2> QED
    BY <1>6, <2>2, <2>3
<1>11. \A n \in 1 .. (Len(t) - 1) : t[n].kind = "await"
  <2>1. 1 .. (Len(t) - 1) = 1 .. L
    BY <1>1, <1>2
  <2> QED
    BY <1>2, <1>3, <2>1
<1>12. StackOK(t, len2, tr)
  BY <1>2, <1>7, <1>8, <1>9, <1>10, <1>11 DEF StackOK
<1>13. ASSUME f.kind = "await" PROVE Callers(t, CheckpointOf(f))
  <2> SUFFICES ASSUME NEW n \in 1 .. Len(t)
               PROVE  t[n].kind = "await" /\ CheckpointOf(t[n]) <= CheckpointOf(f)
    BY DEF Callers
  <2>1. CASE n \in 1 .. L
    BY <1>2, <1>3, <2>1
  <2>2. CASE n = L + 1
    BY <1>2, <1>5, <1>13, <2>2
  <2> QED
    BY <1>6, <2>1, <2>2
<1> QED
  BY <1>2, <1>12, <1>13 DEF t

-----------------------------------------------------------------------------
(* Changesets *)

(* The top layer, and the effects of current_mut, checkpoint and rollback *)
LEMMA Layers ==
    ASSUME LayersOK(changeset), NEW layer, LayerOK(layer)
    PROVE  /\ Len(changeset) \in Nat \ {0}
           /\ LayerOK(Top)
           /\ LayersOK(WithTop(layer))
           /\ Len(WithTop(layer)) = Len(changeset)
           /\ LayersOK(Checkpointed(layer))
           /\ Len(Checkpointed(layer)) = Len(changeset) + 1
<1> DEFINE L == Len(changeset)
<1>1. changeset \in Seq(Changes) /\ L \in Nat \ {0} /\ layer \in Changes
  BY EmptySeq, LenProperties DEF LayersOK, LayerOK
<1>2. LayerOK(Top)
  BY <1>1 DEF LayersOK, Top
<1>3. L \in 1 .. L
  BY <1>1
<1>4. /\ WithTop(layer) \in Seq(Changes)
      /\ Len(WithTop(layer)) = L
      /\ \A j \in 1 .. L : WithTop(layer)[j] = IF j = L THEN layer ELSE changeset[j]
  BY <1>1, <1>3, ExceptSeq DEF WithTop
<1>5. WithTop(layer) # <<>>
  BY <1>1, <1>4, EmptySeq
<1> HIDE DEF L
<1>6. \A j \in 1 .. L : LayerOK(WithTop(layer)[j])
  BY <1>4 DEF LayersOK, L
<1>7. LayersOK(WithTop(layer))
  BY <1>4, <1>5, <1>6 DEF LayersOK
<1>8. /\ Checkpointed(layer) \in Seq(Changes)
      /\ Checkpointed(layer) # <<>>
      /\ Len(Checkpointed(layer)) = L + 1
      /\ \A j \in 1 .. L : Checkpointed(layer)[j] = WithTop(layer)[j]
      /\ Checkpointed(layer)[L + 1] = layer
  BY <1>1, <1>4, AppendProperties DEF Checkpointed
<1>9. \A j \in 1 .. (L + 1) : j \in 1 .. L \/ j = L + 1
  BY <1>1
<1>10. LayersOK(Checkpointed(layer))
  BY <1>6, <1>8, <1>9 DEF LayersOK
<1> QED
  BY <1>1, <1>2, <1>4, <1>7, <1>8, <1>10 DEF L

(* Rollback, when a checkpoint is left *)
LEMMA LayersPop ==
    ASSUME LayersOK(changeset), Len(changeset) > 1
    PROVE  LayersOK(RolledBack) /\ Len(RolledBack) = Len(changeset) - 1
<1> DEFINE L == Len(changeset)
<1>1. changeset \in Seq(Changes) /\ L \in Nat /\ L > 1
  BY LenProperties DEF LayersOK
<1>2. L - 1 \in Int /\ 1 \in Int /\ \A n \in 1 .. (L - 1) : changeset[n] \in Changes
  BY <1>1, ElementOfSeq
<1>3. /\ RolledBack \in Seq(Changes)
      /\ Len(RolledBack) = IF 1 <= L - 1 THEN (L - 1) - 1 + 1 ELSE 0
      /\ \A i \in 1 .. ((L - 1) - 1 + 1) : RolledBack[i] = changeset[1 + i - 1]
  BY <1>2, SubSeqProperties DEF RolledBack
<1>4. \A n \in 1 .. L : LayerOK(changeset[n])
  BY DEF LayersOK
<1> HIDE DEF L
<1>5. Len(RolledBack) = L - 1 /\ \A i \in 1 .. (L - 1) : RolledBack[i] = changeset[i] /\ i \in 1 .. L
  BY <1>1, <1>3
<1>6. RolledBack # <<>>
  BY <1>1, <1>5, EmptySeq
<1> QED
  BY <1>3, <1>4, <1>5, <1>6 DEF LayersOK, L

-----------------------------------------------------------------------------
(* Steps *)

(* A step that leaves the chain alone and ends in sound layers and a sound  *)
(* stack keeps the invariant.                                               *)
LEMMA StepSafe ==
    ASSUME Inv, UNCHANGED chain,
           NEW cs, changeset' = cs, LayersOK(cs),
           NEW s, stack' = s,
           NEW tr \in Nat, trace_elements' = tr,
           StackOK(s, Len(cs), tr),
           NEW run \in InvocationData \cup {None}, running' = run,
           NEW resp \in Response \cup {None}, invoke_response' = resp,
           NEW st \in Statuses, status' = st,
           run # None => /\ contracts[run.address] # None
                         /\ run.trace_elements_checkpoint <= tr
                         /\ Callers(s, run.trace_elements_checkpoint)
                         /\ resp = None,
           st = "exec" => run # None,
           st = "pop" => run = None,
           st = "pop" => (resp # None) = (s = <<>> \/ s[Len(s)].kind = "await"),
           remaining_energy' \in Nat, module_load_energy' \in Nat,
           next_contract_modification_index' \in Nat, leaked' \in BOOLEAN
    PROVE  Inv'
<1>1. accounts' = accounts /\ contracts' = contracts /\ modules' = modules /\ tx' = tx
  BY DEF chain
<1>2. (tx \in Transaction)' /\ ChainOK'
  BY <1>1 DEF Inv, ChainOK, ChainTyped
<1>3. LayersOK(changeset)'
  BY <1>1 DEF LayersOK, LayerOK, ContractChangeOK, AccountChangeOK
<1>4. StackOK(stack, Len(changeset), trace_elements)'
  BY <1>1 DEF StackOK, FrameOK, CheckpointOf
<1>5. RunningOK'
  BY <1>1 DEF RunningOK, Callers, CheckpointOf
<1>6. ResponseReady'
  BY DEF ResponseReady, Frame
<1> QED
  BY <1>2, <1>3, <1>4, <1>5, <1>6 DEF Inv

(* Responses are values of their type, and not None. *)
LEMMA Answers ==
    /\ Failure \in Response /\ Failure # None
    /\ \A b \in Int : Success(b) \in Response /\ Success(b) # None
<1>1. Failure \in Response /\ \A b \in Int : Success(b) \in Response
  BY DEF Failure, Success, Response
<1> QED
  BY <1>1, NoneAssumption

(* The interpreter cannot use more energy than there is: what is charged    *)
(* for a run is at most what remains.                                       *)
LEMMA EnergyLeft ==
    ASSUME remaining_energy \in Nat, NEW used \in Nat, CanUse(used)
    PROVE  EnergyAfter(used) \in Nat
<1>1. EnergyFactor \in Nat \ {0}
  BY CostAssumption
<1>2. used <= remaining_energy * EnergyFactor
  BY DEF CanUse
<1> DEFINE q == used \div EnergyFactor
<1>3. /\ q \in Nat
      /\ EnergyFactor * q <= used
  BY <1>1
<1> HIDE DEF q
<1>4. EnergyFactor * q <= remaining_energy * EnergyFactor
  BY <1>1, <1>2, <1>3
<1>5. q <= remaining_energy
  BY <1>1, <1>3, <1>4
<1> QED
  BY <1>3, <1>5 DEF EnergyAfter, from_interpreter_energy, q

(* An early return *)
LEMMA ExitSafe ==
    ASSUME Inv, NEW s, s \in Statuses \ {"pop", "exec"},
           NEW energy \in Nat, Exit(s, energy)
    PROVE  Inv'
<1>1. /\ UNCHANGED chain
      /\ changeset' = changeset /\ stack' = stack /\ trace_elements' = trace_elements
      /\ running' = running /\ invoke_response' = invoke_response
      /\ status' = s /\ remaining_energy' = energy
      /\ module_load_energy' = module_load_energy
      /\ next_contract_modification_index' = next_contract_modification_index
      /\ leaked' = leaked
  BY DEF Exit
<1>2. s # "pop" /\ s # "exec" /\ s \in Statuses
  OBVIOUS
<1> QED
  BY <1>1, <1>2, StepSafe DEF Inv, RunningOK

(* What the handler finds when it pops a frame *)
LEMMA PopFacts ==
    ASSUME Inv, stack # <<>>
    PROVE  /\ Len(changeset) \in Nat \ {0}
           /\ LayerOK(Top)
           /\ Frame \in FrameType
           /\ FrameOK(Frame)
           /\ StackOK(Popped, Len(changeset), trace_elements)
           /\ Callers(Popped, CheckpointOf(Frame))
           /\ CheckpointOf(Frame) \in Nat
           /\ CheckpointOf(Frame) <= trace_elements
           /\ Frame.kind = "await" =>
                /\ StackOK(Popped, Len(changeset) - 1, trace_elements)
                /\ Len(changeset) > 1
           /\ Popped = <<>> \/ Popped[Len(Popped)].kind = "await"
<1>1. /\ LayersOK(changeset)
      /\ trace_elements \in Nat
      /\ StackOK(stack, Len(changeset), trace_elements)
  BY DEF Inv
<1>2. changeset \in Seq(Changes) /\ changeset # <<>>
  BY <1>1 DEF LayersOK
<1>3. Len(changeset) \in Nat \ {0}
  BY <1>2, EmptySeq
<1>4. LayerOK(Top)
  BY <1>1, <1>3 DEF LayersOK, Top
<1>5. /\ StackOK(Popped, Len(changeset), trace_elements)
      /\ Callers(Popped, CheckpointOf(Frame))
      /\ Frame \in FrameType
      /\ FrameOK(Frame)
      /\ CheckpointOf(Frame) <= trace_elements
      /\ Frame.kind = "await" =>
           /\ StackOK(Popped, Len(changeset) - 1, trace_elements)
           /\ Frame.depth >= 1 /\ Frame.depth < Len(changeset)
      /\ \A n \in 1 .. Len(Popped) : Popped[n].kind = "await"
  BY <1>1, <1>3, StackPop DEF Popped, Frame
<1>6. CheckpointOf(Frame) \in Nat /\ (Frame.kind = "await" => Frame.depth \in Nat)
  BY <1>5, FrameFacts
<1>7. Popped \in Seq(FrameType)
  BY <1>5 DEF StackOK
<1>8. Popped # <<>> => Len(Popped) \in Nat \ {0}
  BY <1>7, EmptySeq
<1>9. Popped # <<>> => Popped[Len(Popped)].kind = "await"
  BY <1>5, <1>8
<1> QED
  BY <1>3, <1>4, <1>5, <1>6, <1>9

(* The transfer at the start of an entrypoint *)
LEMMA InitialTransferOK ==
    ASSUME Inv, stack # <<>>, Frame.kind = "initial"
    PROVE  /\ LayerOK(InitialTransfer(Frame).layer)
           /\ InitialTransfer(Frame).err = "ok" =>
                /\ contracts[Frame.address] # None
                /\ InitialTransfer(Frame).balance \in Int
<1>1. Frame \in FrameType /\ FrameOK(Frame) /\ LayerOK(Top)
  BY PopFacts
<1>2. /\ Frame.sender \in Addresses
      /\ Frame.address \in ContractAddrs
      /\ Frame.amount \in Amount
  BY <1>1, FrameFacts
<1>3. Frame.amount \in Nat /\ ChainOK
  BY <1>2, MaxAmountAssumption DEF Amount, Inv
<1>4. CASE Frame.amount = 0
  <2>1. InitialTransfer(Frame) =
          Result(Top, IF contracts[Frame.address] = None THEN "ToMissing" ELSE "ok",
                 contract_balance(Top, Frame.address))
    BY <1>4 DEF InitialTransfer
  <2>2. contracts[Frame.address] # None => contract_balance(Top, Frame.address) \in Int
    BY <1>1, <1>2, <1>3, Lookups
  <2> QED
    BY <1>1, <2>1, <2>2 DEF Result
<1>5. CASE Frame.amount # 0 /\ Frame.sender \in AccountAddrs
  <2>1. InitialTransfer(Frame) =
          transfer_from_account_to_contract(Top, Frame.amount, Frame.sender, Frame.address)
    BY <1>5 DEF InitialTransfer
  <2>2. accounts[KeyOf[Frame.sender]] # None
    BY <1>1, <1>5 DEF FrameOK
  <2> QED
    BY <1>1, <1>2, <1>3, <1>5, <2>1, <2>2, TransferAccountContract DEF ResultOK
<1>6. CASE Frame.amount # 0 /\ Frame.sender \notin AccountAddrs
  <2>1. InitialTransfer(Frame) =
          transfer_from_contract_to_contract(Top, Frame.amount, Frame.sender, Frame.address)
    BY <1>6 DEF InitialTransfer
  <2>2. Frame.sender \in ContractAddrs /\ contracts[Frame.sender] # None
    BY <1>1, <1>2, <1>6 DEF FrameOK, Addresses
  <2> QED
    BY <1>1, <1>2, <1>3, <1>6, <2>1, <2>2, TransferContractContract DEF ResultOK
<1> QED
  BY <1>4, <1>5, <1>6

(* invoke_entrypoint_initial answers with a failure *)
LEMMA InitialAnswersSafe ==
    ASSUME Inv, status = "pop", stack # <<>>, Frame.kind = "initial",
           remaining_energy >= UpdateBaseCost,
           NEW layer, LayerOK(layer), InitialAnswers(layer)
    PROVE  Inv'
<1>1. /\ UNCHANGED chain
      /\ changeset' = WithTop(layer) /\ stack' = Popped /\ trace_elements' = trace_elements
      /\ running' = running /\ invoke_response' = Failure /\ status' = "pop"
      /\ remaining_energy' = remaining_energy - UpdateBaseCost
      /\ module_load_energy' = module_load_energy
      /\ next_contract_modification_index' = next_contract_modification_index
      /\ leaked' = leaked
  BY DEF InitialAnswers
<1>2. LayersOK(WithTop(layer)) /\ Len(WithTop(layer)) = Len(changeset)
  BY Layers DEF Inv
<1>3. StackOK(Popped, Len(WithTop(layer)), trace_elements)
  BY <1>2, PopFacts
<1>4. remaining_energy' \in Nat
  BY <1>1, CostAssumption DEF Inv
<1>5. Failure \in Response /\ Failure # None
  BY Answers
<1>6. Popped = <<>> \/ Popped[Len(Popped)].kind = "await"
  BY PopFacts
<1>7. "pop" \in Statuses
  BY DEF Statuses
<1>8. running = None
  BY DEF Inv, RunningOK
<1> QED
  BY <1>1, <1>2, <1>3, <1>4, <1>5, <1>6, <1>7, <1>8, StepSafe DEF Inv

(* The call cannot be paid for, or the contract does not exist *)
LEMMA InitialFailsSafe == ASSUME Inv, InitialFails PROVE Inv'
  BY InitialTransferOK, InitialAnswersSafe DEF InitialFails

(* Neither entrypoint nor fallback *)
LEMMA InitialNoEntrypointSafe == ASSUME Inv, InitialNoEntrypoint PROVE Inv'
  BY InitialTransferOK, InitialAnswersSafe DEF InitialNoEntrypoint

(* Running out of energy, or an overflow, before the entrypoint starts *)
LEMMA InitialExitsSafe == ASSUME Inv, InitialExits PROVE Inv'
<1>1. remaining_energy \in Nat /\ UpdateBaseCost \in Nat
  BY CostAssumption DEF Inv
<1>2. ASSUME ExitOutOfEnergy PROVE Inv'
  BY <1>1, <1>2, ExitSafe DEF ExitOutOfEnergy, Statuses
<1>3. ASSUME NEW err, Exit(ExitOf(err), remaining_energy - UpdateBaseCost),
             remaining_energy >= UpdateBaseCost
      PROVE  Inv'
  <2>1. ExitOf(err) \in Statuses \ {"pop", "exec"}
    BY DEF ExitOf, Statuses
  <2> QED
    BY <1>1, <1>3, <2>1, ExitSafe
<1> QED
  BY <1>2, <1>3 DEF InitialExits

(* The entrypoint starts *)
LEMMA InitialRunsSafe == ASSUME Inv, InitialRuns PROVE Inv'
<1> DEFINE t == InitialTransfer(Frame)
           m == contract_module(t.layer, Frame.address)
           run == [address       |-> Frame.address,
                   contract_name |-> Frame.name,
                   state         |-> contract_state(t.layer, Frame.address),
                   self_balance  |-> t.balance,
                   trace_elements_checkpoint |-> Frame.trace_elements_checkpoint,
                   next_mod_idx_checkpoint   |-> next_contract_modification_index,
                   mod_idx_before_invoke     |-> next_contract_modification_index]
<1>1. status = "pop" /\ stack # <<>> /\ Frame.kind = "initial" /\ t.err = "ok"
  BY DEF InitialRuns
<1>2. /\ UNCHANGED chain
      /\ changeset' = WithTop(t.layer) /\ stack' = Popped
      /\ trace_elements' = trace_elements
      /\ running' = run /\ invoke_response' = invoke_response /\ status' = "exec"
      /\ remaining_energy - UpdateBaseCost >= m.lookup_cost
      /\ remaining_energy' = remaining_energy - UpdateBaseCost - m.lookup_cost
      /\ module_load_energy' = module_load_energy + m.lookup_cost
      /\ next_contract_modification_index' = next_contract_modification_index
      /\ leaked' = leaked
  BY DEF InitialRuns
<1>3. LayerOK(t.layer) /\ contracts[Frame.address] # None /\ t.balance \in Int
  BY <1>1, InitialTransferOK
<1>4. /\ Frame \in FrameType
      /\ StackOK(Popped, Len(changeset), trace_elements)
      /\ Callers(Popped, CheckpointOf(Frame))
      /\ CheckpointOf(Frame) <= trace_elements
  BY <1>1, PopFacts
<1>5. /\ Frame.address \in ContractAddrs /\ Frame.name \in ContractNames
      /\ Frame.trace_elements_checkpoint \in Nat
  BY <1>1, <1>4, FrameFacts
<1>6. m \in Module /\ contract_state(t.layer, Frame.address) \in StateVals
  BY <1>3, <1>5, Lookups DEF Inv
<1>7. m.lookup_cost \in Nat
  BY <1>6 DEF Module
<1> HIDE DEF t, m
<1>8. run \in InvocationData
  BY <1>3, <1>5, <1>6 DEF InvocationData, Inv
<1>9. /\ run.address = Frame.address
      /\ run.trace_elements_checkpoint = CheckpointOf(Frame)
  BY <1>1 DEF CheckpointOf
<1> HIDE DEF run
<1>10. LayersOK(WithTop(t.layer)) /\ Len(WithTop(t.layer)) = Len(changeset)
  BY <1>3, Layers DEF Inv
<1>11. remaining_energy' \in Nat /\ module_load_energy' \in Nat
  <2>1. remaining_energy \in Nat /\ module_load_energy \in Nat /\ UpdateBaseCost \in Nat
    BY CostAssumption DEF Inv
  <2> QED
    BY <1>2, <1>7, <2>1
<1>12. invoke_response = None
  BY <1>1 DEF Inv, ResponseReady
<1>13. run # None /\ "exec" \in Statuses
  BY <1>8, NoneAssumption DEF Statuses
<1> QED
  BY <1>2, <1>3, <1>4, <1>8, <1>9, <1>10, <1>11, <1>12, <1>13, StepSafe DEF Inv

(* Resuming after an interrupt that was answered at once *)
LEMMA ResumeImmediateSafe == ASSUME Inv, ResumeImmediate PROVE Inv'
<1> DEFINE run == Seen(Frame.data, Frame.response)
<1>1. status = "pop" /\ stack # <<>> /\ Frame.kind = "resume"
  BY DEF ResumeImmediate
<1>2. /\ UNCHANGED chain
      /\ changeset' = changeset /\ stack' = Popped /\ trace_elements' = trace_elements
      /\ running' = run /\ invoke_response' = invoke_response /\ status' = "exec"
      /\ remaining_energy' = remaining_energy /\ module_load_energy' = module_load_energy
      /\ next_contract_modification_index' = next_contract_modification_index
      /\ leaked' = leaked
  BY DEF ResumeImmediate
<1>3. /\ Frame \in FrameType /\ FrameOK(Frame)
      /\ StackOK(Popped, Len(changeset), trace_elements)
      /\ Callers(Popped, CheckpointOf(Frame))
      /\ CheckpointOf(Frame) <= trace_elements
  BY <1>1, PopFacts
<1>4. Frame.data \in InvocationData /\ Frame.response \in Response
  BY <1>1, <1>3, FrameFacts
<1>5. /\ run \in InvocationData
      /\ run.address = Frame.data.address
      /\ run.trace_elements_checkpoint = Frame.data.trace_elements_checkpoint
  BY <1>4 DEF Seen, InvocationData, Response
<1>6. /\ CheckpointOf(Frame) = Frame.data.trace_elements_checkpoint
      /\ contracts[Frame.data.address] # None
  BY <1>1, <1>3 DEF CheckpointOf, FrameOK
<1> HIDE DEF run
<1>7. invoke_response = None
  BY <1>1 DEF Inv, ResponseReady
<1>8. run # None /\ "exec" \in Statuses
  BY <1>5, NoneAssumption DEF Statuses
<1> QED
  BY <1>2, <1>3, <1>5, <1>6, <1>7, <1>8, StepSafe DEF Inv

(* A caller that waited goes on: with the changeset cs it has the layers it *)
(* needs, and one more trace element.                                       *)
LEMMA AwaitedSafe ==
    ASSUME Inv, status = "pop", stack # <<>>, Frame.kind = "await",
           NEW cs, LayersOK(cs), changeset' = cs,
           StackOK(Popped, Len(cs), trace_elements),
           NEW run \in InvocationData, running' = run,
           run.address = Frame.data.address,
           run.trace_elements_checkpoint = Frame.data.trace_elements_checkpoint,
           UNCHANGED chain, stack' = Popped, trace_elements' = trace_elements + 1,
           invoke_response' = None, status' = "exec",
           UNCHANGED <<remaining_energy, module_load_energy,
                       next_contract_modification_index>>,
           leaked' \in BOOLEAN
    PROVE  Inv'
<1>1. trace_elements \in Nat /\ trace_elements + 1 \in Nat
  BY DEF Inv
<1>2. /\ FrameOK(Frame) /\ CheckpointOf(Frame) \in Nat
      /\ CheckpointOf(Frame) <= trace_elements
      /\ Callers(Popped, CheckpointOf(Frame))
  BY PopFacts
<1>3. /\ contracts[run.address] # None
      /\ run.trace_elements_checkpoint = CheckpointOf(Frame)
  BY <1>2 DEF FrameOK, CheckpointOf
<1>4. run.trace_elements_checkpoint <= trace_elements + 1
  BY <1>1, <1>2, <1>3
<1>5. Len(cs) \in Nat
  BY LenProperties DEF LayersOK
<1>6. trace_elements <= trace_elements + 1 /\ Len(cs) <= Len(cs)
  BY <1>1, <1>5
<1>7. StackOK(Popped, Len(cs), trace_elements + 1)
  BY <1>1, <1>5, <1>6, StackGrows
<1>8. /\ remaining_energy' \in Nat /\ module_load_energy' \in Nat
      /\ next_contract_modification_index' \in Nat
  BY DEF Inv
<1>9. run # None /\ "exec" \in Statuses
  BY NoneAssumption DEF Statuses
<1> QED
  BY <1>1, <1>2, <1>3, <1>4, <1>7, <1>8, <1>9, StepSafe

(* The call succeeded: the caller sees its new balance and state. *)
LEMMA ResumeAfterSuccessSafe == ASSUME Inv, ResumeAfterSuccess PROVE Inv'
<1> DEFINE data  == Frame.data
           index == modification_index(Top, data.address)
           bal   == contract_balance(Top, data.address)
           sta   == IF index # data.mod_idx_before_invoke
                      THEN contract_state(Top, data.address) ELSE data.state
           run   == [data EXCEPT !.self_balance = bal, !.state = sta]
<1>1. status = "pop" /\ stack # <<>> /\ Frame.kind = "await"
  BY DEF ResumeAfterSuccess
<1>2. /\ UNCHANGED chain
      /\ changeset' = changeset /\ stack' = Popped /\ trace_elements' = trace_elements + 1
      /\ running' = run /\ invoke_response' = None /\ status' = "exec"
      /\ UNCHANGED <<remaining_energy, module_load_energy,
                     next_contract_modification_index>>
      /\ leaked' = leaked
  BY DEF ResumeAfterSuccess
<1>3. /\ Frame \in FrameType /\ FrameOK(Frame) /\ LayerOK(Top)
      /\ StackOK(Popped, Len(changeset), trace_elements)
  BY <1>1, PopFacts
<1>4. data \in InvocationData /\ contracts[data.address] # None
  BY <1>1, <1>3, FrameFacts DEF FrameOK
<1>5. data.address \in ContractAddrs /\ data.state \in StateVals
  BY <1>4 DEF InvocationData
<1>6. bal \in Int /\ sta \in StateVals
  BY <1>3, <1>4, <1>5, Lookups DEF Inv
<1> HIDE DEF data, bal, sta
<1>7. /\ run \in InvocationData
      /\ run.address = data.address
      /\ run.trace_elements_checkpoint = data.trace_elements_checkpoint
  BY <1>4, <1>6 DEF InvocationData
<1> HIDE DEF run
<1>8. LayersOK(changeset) /\ leaked \in BOOLEAN
  BY DEF Inv
<1> QED
  BY <1>1, <1>2, <1>3, <1>7, <1>8, AwaitedSafe DEF data

(* The call failed: the topmost layer is dropped. *)
LEMMA ResumeAfterFailureSafe == ASSUME Inv, ResumeAfterFailure PROVE Inv'
<1>1. status = "pop" /\ stack # <<>> /\ Frame.kind = "await"
  BY DEF ResumeAfterFailure
<1>2. /\ UNCHANGED chain
      /\ changeset' = RolledBack /\ stack' = Popped /\ trace_elements' = trace_elements + 1
      /\ running' = Frame.data /\ invoke_response' = None /\ status' = "exec"
      /\ UNCHANGED <<remaining_energy, module_load_energy,
                     next_contract_modification_index>>
      /\ leaked' \in BOOLEAN
  BY DEF ResumeAfterFailure, Inv
<1>3. /\ Frame \in FrameType
      /\ StackOK(Popped, Len(changeset) - 1, trace_elements)
      /\ Len(changeset) > 1
  BY <1>1, PopFacts
<1>4. Frame.data \in InvocationData
  BY <1>1, <1>3, FrameFacts
<1>5. LayersOK(RolledBack) /\ Len(RolledBack) = Len(changeset) - 1
  BY <1>3, LayersPop DEF Inv
<1> QED
  BY <1>1, <1>2, <1>3, <1>4, <1>5, AwaitedSafe

-----------------------------------------------------------------------------
(* Results of the interpreter *)

(* What the handler knows while the interpreter runs *)
LEMMA RunFacts ==
    ASSUME Inv, status = "exec"
    PROVE  /\ running \in InvocationData
           /\ running.address \in ContractAddrs
           /\ contracts[running.address] # None
           /\ running.trace_elements_checkpoint \in Nat
           /\ running.trace_elements_checkpoint <= trace_elements
           /\ Callers(stack, running.trace_elements_checkpoint)
           /\ invoke_response = None
           /\ LayerOK(Top)
           /\ Len(changeset) \in Nat \ {0}
           /\ StackOK(stack, Len(changeset), trace_elements)
           /\ remaining_energy \in Nat
           /\ trace_elements \in Nat
           /\ next_contract_modification_index \in Nat
           /\ ChainOK
<1>1. running # None /\ running \in InvocationData
  BY DEF Inv, RunningOK
<1>2. /\ contracts[running.address] # None
      /\ running.trace_elements_checkpoint <= trace_elements
      /\ Callers(stack, running.trace_elements_checkpoint)
      /\ invoke_response = None
  BY <1>1 DEF Inv, RunningOK
<1>3. running.address \in ContractAddrs /\ running.trace_elements_checkpoint \in Nat
  BY <1>1 DEF InvocationData
<1>4. LayersOK(changeset)
  BY DEF Inv
<1>5. Len(changeset) \in Nat \ {0}
  BY <1>4, EmptySeq, LenProperties DEF LayersOK
<1>6. LayerOK(Top)
  BY <1>4, <1>5 DEF LayersOK, Top
<1> QED
  BY <1>1, <1>2, <1>3, <1>5, <1>6 DEF Inv

(* With every frame waiting, the topmost one is where the response goes. *)
LEMMA CallersWait ==
    ASSUME NEW s \in Seq(FrameType), NEW ck, Callers(s, ck)
    PROVE  s = <<>> \/ s[Len(s)].kind = "await"
<1>1. s # <<>> => Len(s) \in 1 .. Len(s)
  BY EmptySeq, LenProperties
<1> QED
  BY <1>1 DEF Callers

(* Success: the state is saved, the response is for the caller. *)
LEMMA RunSucceedsSafe ==
    ASSUME Inv, NEW write \in Writes, NEW used \in FinalUses, RunSucceeds(write, used)
    PROVE  Inv'
<1> DEFINE c     == running.address
           next  == next_contract_modification_index
           layer == IF write = None THEN Top ELSE save_state_changes(Top, c, write, next)
           resp  == Success(contract_balance(layer, c))
<1>1. status = "exec" /\ CanUse(used) /\ used \in Nat
  BY CostAssumption DEF RunSucceeds
<1>2. /\ UNCHANGED chain
      /\ changeset' = WithTop(layer) /\ stack' = stack
      /\ trace_elements' = trace_elements + 1
      /\ running' = None /\ invoke_response' = resp /\ status' = "pop"
      /\ remaining_energy' = EnergyAfter(used) /\ module_load_energy' = module_load_energy
      /\ next_contract_modification_index' = next + (IF write = None THEN 0 ELSE 1)
      /\ leaked' = leaked
  BY DEF RunSucceeds
<1>3. /\ c \in ContractAddrs /\ contracts[c] # None /\ LayerOK(Top)
      /\ next \in Nat /\ trace_elements \in Nat /\ remaining_energy \in Nat
      /\ ChainOK
      /\ StackOK(stack, Len(changeset), trace_elements)
      /\ Callers(stack, running.trace_elements_checkpoint)
      /\ Len(changeset) \in Nat
  BY <1>1, RunFacts
<1>4. LayerOK(layer)
  <2>1. CASE write = None
    BY <1>3, <2>1
  <2>2. CASE write # None
    <3>1. write \in StateVals
      BY <2>2 DEF Writes
    <3> QED
      BY <1>3, <2>2, <3>1, SaveState
  <2> QED
    BY <2>1, <2>2
<1> HIDE DEF layer, c, next
<1>5. contract_balance(layer, c) \in Int
  BY <1>3, <1>4, Lookups
<1>6. resp \in Response /\ resp # None
  BY <1>5, Answers
<1> HIDE DEF resp
<1>7. LayersOK(WithTop(layer)) /\ Len(WithTop(layer)) = Len(changeset)
  BY <1>4, Layers DEF Inv
<1>8. trace_elements + 1 \in Nat /\ trace_elements <= trace_elements + 1
      /\ Len(changeset) <= Len(changeset)
  BY <1>3
<1>9. StackOK(stack, Len(WithTop(layer)), trace_elements + 1)
  BY <1>3, <1>7, <1>8, StackGrows
<1>10. EnergyAfter(used) \in Nat
  BY <1>1, <1>3, EnergyLeft
<1>11. next_contract_modification_index' \in Nat
  BY <1>2, <1>3
<1>12. stack = <<>> \/ stack[Len(stack)].kind = "await"
  BY <1>3, CallersWait DEF StackOK
<1>13. module_load_energy' \in Nat /\ leaked' \in BOOLEAN
  BY <1>2 DEF Inv
<1>14. "pop" \in Statuses
  BY DEF Statuses
<1> QED
  BY <1>2, <1>6, <1>7, <1>8, <1>9, <1>10, <1>11, <1>12, <1>13, <1>14, StepSafe

(* Reject and trap: the trace is cut, the failure is for the caller. *)
LEMMA RunFailsSafe ==
    ASSUME Inv, NEW energy \in Nat, RunFails(energy)
    PROVE  Inv'
<1> DEFINE ck == running.trace_elements_checkpoint
<1>1. status = "exec"
  BY DEF RunFails
<1>2. /\ UNCHANGED chain
      /\ changeset' = changeset /\ stack' = stack /\ trace_elements' = ck + 1
      /\ running' = None /\ invoke_response' = Failure /\ status' = "pop"
      /\ remaining_energy' = energy /\ module_load_energy' = module_load_energy
      /\ next_contract_modification_index' = running.next_mod_idx_checkpoint
      /\ leaked' = leaked
  BY DEF RunFails
<1>3. /\ running \in InvocationData
      /\ StackOK(stack, Len(changeset), trace_elements)
      /\ Callers(stack, ck)
  BY <1>1, RunFacts
<1>4. ck \in Nat /\ running.next_mod_idx_checkpoint \in Nat
  BY <1>3 DEF InvocationData
<1>5. StackOK(stack, Len(changeset), ck + 1)
  BY <1>3, <1>4, StackCut
<1>6. stack = <<>> \/ stack[Len(stack)].kind = "await"
  BY <1>3, CallersWait DEF StackOK
<1>7. /\ LayersOK(changeset) /\ module_load_energy' \in Nat /\ leaked' \in BOOLEAN
      /\ next_contract_modification_index' \in Nat
      /\ "pop" \in Statuses
  BY <1>2, <1>4 DEF Inv, Statuses
<1>8. Failure \in Response /\ Failure # None
  BY Answers
<1>9. ck + 1 \in Nat
  BY <1>4
<1> HIDE DEF ck
<1> QED
  BY <1>2, <1>5, <1>6, <1>7, <1>8, <1>9, StepSafe

(* Every way a run ends without an interrupt *)
LEMMA RunEndsSafe == ASSUME Inv, RunEnds PROVE Inv'
<1>1. ASSUME NEW used \in FinalUses, RunRejects(used) PROVE Inv'
  <2>1. used \in Nat /\ CanUse(used) /\ RunFails(EnergyAfter(used))
    BY <1>1, CostAssumption DEF RunRejects
  <2>2. EnergyAfter(used) \in Nat
    BY <2>1, EnergyLeft DEF Inv
  <2> QED
    BY <2>1, <2>2, RunFailsSafe
<1>2. ASSUME RunReturnsInvalidCode PROVE Inv'
  BY <1>2, RunFailsSafe DEF RunReturnsInvalidCode
<1>3. ASSUME RunExhausts PROVE Inv'
  BY <1>3, ExitSafe DEF RunExhausts, ExitOutOfEnergy, Statuses, Inv
<1> QED
  BY <1>1, <1>2, <1>3, RunSucceedsSafe DEF RunEnds

-----------------------------------------------------------------------------
(* Interrupts *)

(* Saving the state before an interrupt is handled *)
LEMMA InterruptedOK ==
    ASSUME Inv, status = "exec", NEW write \in Writes
    PROVE  LET i == Interrupted(write)
           IN  /\ LayerOK(i.layer)
               /\ i.index \in Nat
               /\ i.data \in InvocationData
               /\ i.data.address = running.address
               /\ i.data.trace_elements_checkpoint = running.trace_elements_checkpoint
               /\ contract_balance(i.layer, running.address) \in Int
<1> DEFINE c    == running.address
           next == next_contract_modification_index
           i    == Interrupted(write)
           old  == modification_index(Top, c)
<1>1. /\ running \in InvocationData /\ c \in ContractAddrs /\ contracts[c] # None
      /\ LayerOK(Top) /\ ChainOK /\ next \in Nat
  BY RunFacts
<1>2. old \in Nat
  BY <1>1, Lookups
<1> HIDE DEF old
<1>3. CASE write = None
  <2> DEFINE data == [running EXCEPT !.mod_idx_before_invoke = old]
  <2>1. i = [layer |-> Top, index |-> next, data |-> data]
    BY <1>3 DEF Interrupted, old
  <2>2. /\ data \in InvocationData
        /\ data.address = c
        /\ data.trace_elements_checkpoint = running.trace_elements_checkpoint
    BY <1>1, <1>2 DEF InvocationData
  <2>3. contract_balance(Top, c) \in Int
    BY <1>1, Lookups
  <2> HIDE DEF data
  <2> QED
    BY <1>1, <2>1, <2>2, <2>3
<1>4. CASE write # None
  <2> DEFINE layer == save_state_changes(Top, c, write, next)
             data  == [running EXCEPT !.mod_idx_before_invoke = next, !.state = write]
  <2>1. write \in StateVals
    BY <1>4 DEF Writes
  <2>2. i = [layer |-> layer, index |-> next + 1, data |-> data]
    BY <1>4 DEF Interrupted
  <2>3. LayerOK(layer)
    BY <1>1, <2>1, SaveState
  <2>4. /\ data \in InvocationData
        /\ data.address = c
        /\ data.trace_elements_checkpoint = running.trace_elements_checkpoint
    BY <1>1, <2>1 DEF InvocationData
  <2> HIDE DEF layer, data
  <2>5. contract_balance(layer, c) \in Int
    BY <1>1, <2>3, Lookups
  <2> QED
    BY <1>1, <2>2, <2>3, <2>4, <2>5
<1> QED
  BY <1>3, <1>4

(* An interrupt that is answered at once leaves a frame to resume. *)
LEMMA AnswerSafe ==
    ASSUME Inv, status = "exec", NEW write \in Writes,
           NEW layer, LayerOK(layer), NEW energy \in Nat,
           NEW response \in Response, NEW traces \in Nat,
           Answer(Interrupted(write), layer, energy, response, traces),
           module_load_energy' \in Nat
    PROVE  Inv'
<1> DEFINE i  == Interrupted(write)
           f  == ResumeFrame(i.data, response)
           tr == trace_elements + traces
           s  == Append(stack, f)
           cs == WithTop(layer)
<1>1. /\ UNCHANGED chain
      /\ changeset' = cs /\ stack' = s /\ trace_elements' = tr
      /\ running' = None /\ invoke_response' = invoke_response /\ status' = "pop"
      /\ remaining_energy' = energy
      /\ next_contract_modification_index' = i.index
      /\ leaked' = leaked
  BY DEF Answer
<1>2. /\ i.index \in Nat /\ i.data \in InvocationData
      /\ i.data.address = running.address
      /\ i.data.trace_elements_checkpoint = running.trace_elements_checkpoint
  BY InterruptedOK
<1>3. /\ contracts[running.address] # None
      /\ running.trace_elements_checkpoint \in Nat
      /\ running.trace_elements_checkpoint <= trace_elements
      /\ Callers(stack, running.trace_elements_checkpoint)
      /\ invoke_response = None
      /\ StackOK(stack, Len(changeset), trace_elements)
      /\ trace_elements \in Nat /\ Len(changeset) \in Nat
  BY RunFacts
<1>4. LayersOK(cs) /\ Len(cs) = Len(changeset)
  BY Layers DEF Inv
<1> HIDE DEF i, cs
<1>5. /\ f \in FrameType /\ f.kind = "resume" /\ FrameOK(f)
      /\ CheckpointOf(f) = running.trace_elements_checkpoint
  BY <1>2, <1>3 DEF ResumeFrame, FrameType, FrameOK, CheckpointOf
<1>6. /\ tr \in Nat /\ trace_elements <= tr /\ Len(changeset) <= Len(changeset)
      /\ CheckpointOf(f) <= tr
  BY <1>3, <1>5
<1> HIDE DEF f, tr
<1>7. StackOK(stack, Len(changeset), tr)
  BY <1>3, <1>6, StackGrows
<1>8. /\ StackOK(s, Len(changeset), tr)
      /\ s # <<>>
      /\ s[Len(s)] = f
  BY <1>3, <1>5, <1>6, <1>7, StackPush
<1> HIDE DEF s
<1>9. leaked' \in BOOLEAN /\ "pop" \in Statuses
  BY <1>1 DEF Inv, Statuses
<1> QED
  BY <1>1, <1>2, <1>3, <1>4, <1>5, <1>6, <1>8, <1>9, StepSafe

(* Interrupt::Call: caller and callee are both on the stack, one checkpoint *)
(* above the caller's layer.                                                *)
LEMMA RunCallsSafe ==
    ASSUME Inv, NEW write \in Writes, NEW used \in InterruptUses,
           NEW to \in ContractAddrs, NEW entrypoint \in Entrypoints,
           NEW amount \in Amounts, RunCalls(write, used, to, entrypoint, amount)
    PROVE  Inv'
<1> DEFINE i  == Interrupted(write)
           tr == trace_elements + 1
           L  == Len(changeset)
           a  == AwaitFrame(i.data, L)
           b  == InitialFrame(running.address, to, contracts[to].contract_name,
                              entrypoint, amount, tr)
           s1 == Append(stack, a)
           s2 == Append(s1, b)
           cs == Checkpointed(i.layer)
<1>1. status = "exec" /\ CanUse(used) /\ used \in Nat /\ contracts[to] # None
  BY CostAssumption DEF RunCalls
<1>2. /\ UNCHANGED chain
      /\ changeset' = cs /\ stack' = stack \o <<a, b>> /\ trace_elements' = tr
      /\ running' = None /\ invoke_response' = invoke_response /\ status' = "pop"
      /\ remaining_energy' = EnergyAfter(used) /\ module_load_energy' = module_load_energy
      /\ next_contract_modification_index' = i.index
      /\ leaked' = leaked
  BY DEF RunCalls
<1>3. /\ LayerOK(i.layer) /\ i.index \in Nat /\ i.data \in InvocationData
      /\ i.data.address = running.address
      /\ i.data.trace_elements_checkpoint = running.trace_elements_checkpoint
  BY <1>1, InterruptedOK
<1>4. /\ contracts[running.address] # None
      /\ running.address \in ContractAddrs
      /\ running.trace_elements_checkpoint \in Nat
      /\ running.trace_elements_checkpoint <= trace_elements
      /\ Callers(stack, running.trace_elements_checkpoint)
      /\ invoke_response = None
      /\ StackOK(stack, L, trace_elements)
      /\ trace_elements \in Nat /\ L \in Nat \ {0}
      /\ remaining_energy \in Nat /\ ChainOK
  BY <1>1, RunFacts
<1>5. LayersOK(cs) /\ Len(cs) = L + 1
  BY <1>3, Layers DEF Inv
<1> HIDE DEF i, cs, L
<1>6. /\ a \in FrameType /\ a.kind = "await" /\ a.depth = L /\ FrameOK(a)
      /\ CheckpointOf(a) = running.trace_elements_checkpoint
  BY <1>3, <1>4 DEF AwaitFrame, FrameType, FrameOK, CheckpointOf
<1>7. contracts[to].contract_name \in ContractNames /\ amount \in Amount
  <2>1. contracts[to] \in Contract
    BY <1>1, <1>4 DEF ChainOK, ChainTyped
  <2> QED
    BY <2>1, CostAssumption DEF Contract
<1>8. tr \in Nat /\ L + 1 \in Nat /\ trace_elements <= tr /\ L <= L /\ L <= L + 1
      /\ L < L + 1 /\ L >= 1 /\ L + 1 <= L + 1 /\ tr <= tr
  BY <1>4
<1> HIDE DEF tr
<1>9. /\ b \in FrameType /\ b.kind = "initial" /\ FrameOK(b)
      /\ CheckpointOf(b) = tr
  <2>1. running.address \in Addresses /\ running.address \notin AccountAddrs
    BY <1>4, AddressAssumption DEF Addresses
  <2>2. b \in FrameType /\ b.kind = "initial" /\ b.sender = running.address
        /\ b.trace_elements_checkpoint = tr
    BY <1>7, <1>8, <2>1 DEF InitialFrame, FrameType
  <2> HIDE DEF b
  <2> QED
    BY <1>4, <2>1, <2>2 DEF FrameOK, CheckpointOf
<1> HIDE DEF a, b
<1>10. StackOK(stack, L, tr)
  BY <1>4, <1>8, StackGrows
<1>11. CheckpointOf(a) <= tr /\ CheckpointOf(a) \in Nat
  BY <1>4, <1>6, <1>8
<1>12. StackOK(s1, L + 1, tr) /\ Callers(s1, CheckpointOf(a))
  BY <1>4, <1>6, <1>8, <1>10, <1>11, StackPush
<1>13. s1 \in Seq(FrameType)
  BY <1>12 DEF StackOK
<1>14. stack \o <<a, b>> = s2
  <2>1. stack \in Seq(FrameType)
    BY <1>10 DEF StackOK
  <2>2. <<a>> \in Seq(FrameType) /\ <<b>> \in Seq(FrameType)
    BY <1>6, <1>9
  <2>4. <<a, b>> = Append(<<a>>, b)
    OBVIOUS
  <2>5. <<a, b>> = <<a>> \o <<b>>
    BY <1>9, <2>2, <2>4, AppendIsConcat
  <2>3. s1 = stack \o <<a>> /\ s2 = s1 \o <<b>>
    BY <1>6, <1>9, <1>13, <2>1, AppendIsConcat
  <2> HIDE DEF s1, s2
  <2> QED
    BY <2>1, <2>2, <2>3, <2>5, ConcatAssociative
<1> HIDE DEF s1
<1>15. Callers(s1, CheckpointOf(b))
  <2>1. \A n \in 1 .. Len(s1) : s1[n].kind = "await" /\ CheckpointOf(s1[n]) <= CheckpointOf(a)
    BY <1>12 DEF Callers
  <2>2. \A n \in 1 .. Len(s1) : CheckpointOf(s1[n]) \in Nat
    BY <1>13, ElementOfSeq, FrameFacts
  <2> QED
    BY <1>8, <1>9, <1>11, <2>1, <2>2 DEF Callers
<1>16. StackOK(s2, L + 1, tr) /\ s2 # <<>> /\ s2[Len(s2)] = b
  BY <1>8, <1>9, <1>12, <1>15, StackPush
<1> HIDE DEF s2
<1>17. EnergyAfter(used) \in Nat
  BY <1>1, <1>4, EnergyLeft
<1>18. leaked' \in BOOLEAN /\ module_load_energy' \in Nat /\ "pop" \in Statuses
  BY <1>2 DEF Inv, Statuses
<1>19. stack' = s2 /\ StackOK(s2, Len(cs), tr)
  BY <1>2, <1>5, <1>14, <1>16
<1>20. s2[Len(s2)].kind # "await"
  BY <1>9, <1>16
<1>21. /\ UNCHANGED chain /\ changeset' = cs /\ trace_elements' = tr
       /\ running' = None /\ invoke_response' = None /\ status' = "pop"
       /\ remaining_energy' \in Nat /\ next_contract_modification_index' \in Nat
       /\ tr \in Nat /\ LayersOK(cs)
  BY <1>2, <1>3, <1>4, <1>5, <1>8, <1>17
<1> QED
  BY <1>16, <1>18, <1>19, <1>20, <1>21, StepSafe

(* Facts shared by all interrupts *)
LEMMA InterruptFacts ==
    ASSUME Inv, status = "exec", NEW write \in Writes, NEW used \in InterruptUses,
           CanUse(used)
    PROVE  LET i == Interrupted(write)
           IN  /\ EnergyAfter(used) \in Nat
               /\ remaining_energy \in Nat /\ module_load_energy \in Nat
               /\ running.address \in ContractAddrs
               /\ contracts[running.address] # None
               /\ ChainOK
               /\ LayerOK(i.layer)
               /\ contract_balance(i.layer, running.address) \in Int
               /\ Success(contract_balance(i.layer, running.address)) \in Response
               /\ Failure \in Response
<1>1. used \in Nat /\ remaining_energy \in Nat /\ module_load_energy \in Nat
  BY CostAssumption DEF Inv
<1>2. EnergyAfter(used) \in Nat
  BY <1>1, EnergyLeft
<1>3. /\ running.address \in ContractAddrs
      /\ contracts[running.address] # None
      /\ ChainOK
  BY RunFacts
<1>4. /\ LayerOK(Interrupted(write).layer)
      /\ contract_balance(Interrupted(write).layer, running.address) \in Int
  BY InterruptedOK
<1> QED
  BY <1>1, <1>2, <1>3, <1>4, Answers

(* Any early return while an interrupt is handled *)
LEMMA OutOfEnergySafe == ASSUME Inv, ExitOutOfEnergy PROVE Inv'
  BY ExitSafe DEF ExitOutOfEnergy, Statuses, Inv

(* Interrupt::Transfer *)
LEMMA RunTransfersSafe ==
    ASSUME Inv, NEW write \in Writes, NEW used \in InterruptUses,
           NEW to \in AccountAddrs, NEW amount \in Amounts,
           RunTransfers(write, used, to, amount)
    PROVE  Inv'
<1> DEFINE i      == Interrupted(write)
           t      == transfer_from_contract_to_account(i.layer, amount, running.address, to)
           energy == EnergyAfter(used)
           resp   == IF t.err = "ok" THEN Success(t.balance) ELSE Failure
           traces == IF t.err = "ok" THEN 3 ELSE 2
<1>1. status = "exec" /\ CanUse(used)
  BY DEF RunTransfers
<1>2. /\ energy \in Nat /\ module_load_energy \in Nat
      /\ running.address \in ContractAddrs /\ contracts[running.address] # None
      /\ ChainOK /\ LayerOK(i.layer)
  BY <1>1, InterruptFacts
<1>3. amount \in Nat
  BY CostAssumption, MaxAmountAssumption DEF Amount
<1>4. ResultOK(t)
  BY <1>2, <1>3, TransferContractAccount
<1>5. \/ Exit(ExitOf(t.err), energy)
      \/ ExitOutOfEnergy
      \/ /\ energy >= SimpleTransferCost
         /\ Answer(i, t.layer, energy - SimpleTransferCost, resp, traces)
         /\ UNCHANGED module_load_energy
  BY DEF RunTransfers
<1>6. ExitOf(t.err) \in Statuses \ {"pop", "exec"}
  BY DEF ExitOf, Statuses
<1> HIDE DEF t, energy
<1>7. resp \in Response /\ traces \in Nat /\ LayerOK(t.layer)
  BY <1>4, Answers DEF ResultOK
<1> HIDE DEF resp, traces
<1>8. ASSUME energy >= SimpleTransferCost,
             Answer(i, t.layer, energy - SimpleTransferCost, resp, traces),
             UNCHANGED module_load_energy
      PROVE  Inv'
  <2>1. energy - SimpleTransferCost \in Nat /\ module_load_energy' \in Nat
    BY <1>2, <1>8, CostAssumption
  <2> QED
    BY <1>1, <1>7, <1>8, <2>1, AnswerSafe
<1> QED
  BY <1>2, <1>5, <1>6, <1>8, ExitSafe, OutOfEnergySafe

(* Interrupt::Call of a contract that does not exist *)
LEMMA RunCallsMissingSafe ==
    ASSUME Inv, NEW write \in Writes, NEW used \in InterruptUses,
           NEW to \in ContractAddrs, RunCallsMissing(write, used, to)
    PROVE  Inv'
<1>1. /\ status = "exec" /\ CanUse(used)
      /\ Answer(Interrupted(write), Interrupted(write).layer, EnergyAfter(used), Failure, 2)
      /\ UNCHANGED module_load_energy
  BY DEF RunCallsMissing
<1>2. /\ EnergyAfter(used) \in Nat /\ module_load_energy \in Nat
      /\ LayerOK(Interrupted(write).layer) /\ Failure \in Response
  BY <1>1, InterruptFacts
<1> QED
  BY <1>1, <1>2, AnswerSafe

(* Interrupt::Upgrade that fails *)
LEMMA RunUpgradeFailsSafe ==
    ASSUME Inv, NEW write \in Writes, NEW used \in InterruptUses,
           NEW module_ref \in ModuleRefs, RunUpgradeFails(write, used, module_ref)
    PROVE  Inv'
<1> DEFINE i      == Interrupted(write)
           energy == EnergyAfter(used) - InitBaseCost
           m      == modules[module_ref]
<1>1. /\ status = "exec" /\ CanUse(used) /\ energy >= 0
      /\ \/ /\ m = None
            /\ Answer(i, i.layer, energy, Failure, 2)
            /\ UNCHANGED module_load_energy
         \/ /\ m # None
            /\ energy >= m.lookup_cost
            /\ Answer(i, i.layer, energy - m.lookup_cost, Failure, 2)
            /\ module_load_energy' = module_load_energy + m.lookup_cost
  BY DEF RunUpgradeFails
<1>2. /\ EnergyAfter(used) \in Nat /\ module_load_energy \in Nat
      /\ LayerOK(i.layer) /\ Failure \in Response /\ ChainOK
  BY <1>1, InterruptFacts
<1>3. InitBaseCost \in Nat
  BY CostAssumption
<1>4. energy \in Nat
  BY <1>1, <1>2, <1>3
<1>5. m # None => m.lookup_cost \in Nat
  BY <1>2 DEF ChainOK, ChainTyped, Module
<1> HIDE DEF energy, m
<1>6. CASE m = None
  BY <1>1, <1>2, <1>4, <1>6, AnswerSafe
<1>7. CASE m # None
  <2>1. energy - m.lookup_cost \in Nat /\ module_load_energy' \in Nat
    BY <1>1, <1>2, <1>4, <1>5, <1>7
  <2> QED
    BY <1>1, <1>2, <1>7, <2>1, AnswerSafe
<1> QED
  BY <1>6, <1>7

(* Interrupt::Upgrade that succeeds *)
LEMMA RunUpgradesSafe ==
    ASSUME Inv, NEW write \in Writes, NEW used \in InterruptUses,
           NEW module_ref \in ModuleRefs, RunUpgrades(write, used, module_ref)
    PROVE  Inv'
<1> DEFINE i      == Interrupted(write)
           m      == modules[module_ref]
           energy == EnergyAfter(used) - InitBaseCost - m.lookup_cost - InitCreateCost
           layer  == save_module_upgrade(i.layer, running.address, module_ref)
           resp   == Success(contract_balance(i.layer, running.address))
<1>1. /\ status = "exec" /\ CanUse(used) /\ m # None /\ energy >= 0
      /\ Answer(i, layer, energy, resp, 3)
      /\ module_load_energy' = module_load_energy + m.lookup_cost
  BY DEF RunUpgrades
<1>2. /\ EnergyAfter(used) \in Nat /\ module_load_energy \in Nat
      /\ running.address \in ContractAddrs /\ contracts[running.address] # None
      /\ LayerOK(i.layer) /\ resp \in Response /\ ChainOK
  BY <1>1, InterruptFacts
<1>3. InitBaseCost \in Nat /\ InitCreateCost \in Nat
  BY CostAssumption
<1>4. m.lookup_cost \in Nat
  BY <1>1, <1>2 DEF ChainOK, ChainTyped, Module
<1>5. LayerOK(layer)
  BY <1>1, <1>2, SaveUpgrade
<1> HIDE DEF m, layer, resp
<1>6. energy \in Nat /\ module_load_energy' \in Nat
  BY <1>1, <1>2, <1>3, <1>4
<1> HIDE DEF energy
<1> QED
  BY <1>1, <1>2, <1>5, <1>6, AnswerSafe

(* The queries: a cost is charged, then the contract goes on. *)
LEMMA QuerySafe ==
    ASSUME Inv, status = "exec", NEW write \in Writes, NEW used \in InterruptUses,
           CanUse(used), NEW cost \in Nat, NEW response,
           response \in {Failure, Success(OwnBalance(Interrupted(write)))},
           \/ ExitOutOfEnergy
           \/ /\ EnergyAfter(used) >= cost
              /\ Answer(Interrupted(write), Interrupted(write).layer,
                        EnergyAfter(used) - cost, response, 1)
              /\ UNCHANGED module_load_energy
    PROVE  Inv'
<1>1. /\ EnergyAfter(used) \in Nat /\ module_load_energy \in Nat
      /\ LayerOK(Interrupted(write).layer)
      /\ response \in Response
  BY InterruptFacts DEF OwnBalance
<1>2. ASSUME EnergyAfter(used) >= cost,
             Answer(Interrupted(write), Interrupted(write).layer,
                    EnergyAfter(used) - cost, response, 1),
             UNCHANGED module_load_energy
      PROVE  Inv'
  <2>1. EnergyAfter(used) - cost \in Nat /\ module_load_energy' \in Nat
    BY <1>1, <1>2
  <2> QED
    BY <1>1, <1>2, <2>1, AnswerSafe
<1> QED
  BY <1>2, OutOfEnergySafe

(* The five queries with a fixed cost *)
LEMMA RunQueriesSafe ==
    ASSUME Inv, NEW write \in Writes, NEW used \in InterruptUses,
           NEW kind \in QueryKinds, NEW a, RunQueries(write, used, kind, a)
    PROVE  Inv'
<1> DEFINE i    == Interrupted(write)
           resp == IF Found(i.layer, kind, a) = None THEN Failure
                                                     ELSE Success(OwnBalance(i))
<1>1. status = "exec" /\ CanUse(used)
  BY DEF RunQueries
<1>2. \/ ExitOutOfEnergy
      \/ /\ EnergyAfter(used) >= QueryCost[kind]
         /\ Answer(i, i.layer, EnergyAfter(used) - QueryCost[kind], resp, 1)
         /\ UNCHANGED module_load_energy
  BY DEF RunQueries
<1>3. QueryCost[kind] \in Nat
  BY CostAssumption
<1>4. resp \in {Failure, Success(OwnBalance(i))}
  OBVIOUS
<1> HIDE DEF resp
<1> QED
  BY <1>1, <1>2, <1>3, <1>4, QuerySafe

(* Interrupt::QueryAccountKeys *)
LEMMA RunQueriesKeysSafe ==
    ASSUME Inv, NEW write \in Writes, NEW used \in InterruptUses,
           NEW a \in AccountAddrs, RunQueriesKeys(write, used, a)
    PROVE  Inv'
<1> DEFINE i      == Interrupted(write)
           exists == accounts[KeyOf[a]] # None
           cost   == KeysBaseCost + (IF exists THEN KeysReturnCost ELSE 0)
           resp   == IF exists THEN Success(OwnBalance(i)) ELSE Failure
<1>1. status = "exec" /\ CanUse(used)
  BY DEF RunQueriesKeys
<1>2. \/ ExitOutOfEnergy
      \/ /\ EnergyAfter(used) >= cost
         /\ Answer(i, i.layer, EnergyAfter(used) - cost, resp, 1)
         /\ UNCHANGED module_load_energy
  BY DEF RunQueriesKeys
<1>3. cost \in Nat
  BY CostAssumption
<1>4. resp \in {Failure, Success(OwnBalance(i))}
  OBVIOUS
<1> HIDE DEF resp, cost
<1> QED
  BY <1>1, <1>2, <1>3, <1>4, QuerySafe

(* Interrupt::CheckAccountSignature *)
LEMMA RunChecksSignatureSafe ==
    ASSUME Inv, NEW write \in Writes, NEW used \in InterruptUses,
           NEW a \in AccountAddrs, NEW payload \in Payloads,
           RunChecksSignature(write, used, a, payload)
    PROVE  Inv'
<1> DEFINE i      == Interrupted(write)
           exists == accounts[KeyOf[a]] # None
           cost   == KeysBaseCost + (IF exists /\ payload \in {"valid", "invalid"}
                                       THEN SignatureCost ELSE 0)
           resp   == IF exists /\ payload = "valid" THEN Success(OwnBalance(i)) ELSE Failure
<1>1. status = "exec" /\ CanUse(used)
  BY DEF RunChecksSignature
<1>2. \/ ExitOutOfEnergy
      \/ EnergyAfter(used) >= cost /\ Exit("panic", EnergyAfter(used) - cost)
      \/ /\ EnergyAfter(used) >= cost
         /\ Answer(i, i.layer, EnergyAfter(used) - cost, resp, 1)
         /\ UNCHANGED module_load_energy
  BY DEF RunChecksSignature
<1>3. cost \in Nat
  BY CostAssumption
<1>4. resp \in {Failure, Success(OwnBalance(i))}
  OBVIOUS
<1>5. EnergyAfter(used) \in Nat
  BY <1>1, InterruptFacts
<1> HIDE DEF resp, cost
<1>6. ASSUME EnergyAfter(used) >= cost, Exit("panic", EnergyAfter(used) - cost) PROVE Inv'
  <2>1. EnergyAfter(used) - cost \in Nat
    BY <1>3, <1>5, <1>6
  <2>2. "panic" \in Statuses \ {"pop", "exec"}
    BY DEF Statuses
  <2> QED
    BY <1>6, <2>1, <2>2, ExitSafe
<1> QED
  BY <1>1, <1>2, <1>3, <1>4, <1>6, QuerySafe

(* Every interrupt *)
LEMMA RunInterruptsSafe == ASSUME Inv, RunInterrupts PROVE Inv'
<1> PICK write \in Writes, used \in InterruptUses :
      \/ \E to \in AccountAddrs, amount \in Amounts : RunTransfers(write, used, to, amount)
      \/ \E to \in ContractAddrs : RunCallsMissing(write, used, to)
      \/ \E to \in ContractAddrs, entrypoint \in Entrypoints, amount \in Amounts :
            RunCalls(write, used, to, entrypoint, amount)
      \/ \E m \in ModuleRefs : \/ RunUpgradeFails(write, used, m)
                               \/ RunUpgrades(write, used, m)
                               \/ RunUpgradeExits(used, m)
      \/ \E kind \in QueryKinds : \E a \in QueryTargets(kind) :
            RunQueries(write, used, kind, a)
      \/ \E a \in AccountAddrs : RunQueriesKeys(write, used, a)
      \/ \E a \in AccountAddrs, payload \in Payloads :
            RunChecksSignature(write, used, a, payload)
  BY DEF RunInterrupts
<1>1. ASSUME NEW m \in ModuleRefs, RunUpgradeExits(used, m) PROVE Inv'
  BY <1>1, OutOfEnergySafe DEF RunUpgradeExits
<1> QED
  BY <1>1, RunTransfersSafe, RunCallsMissingSafe, RunCallsSafe, RunUpgradeFailsSafe,
     RunUpgradesSafe, RunQueriesSafe, RunQueriesKeysSafe, RunChecksSignatureSafe

-----------------------------------------------------------------------------
(* Induction *)

(* invoke_entrypoint returns *)
LEMMA ReturnSafe == ASSUME Inv, Return PROVE Inv'
<1>1. /\ UNCHANGED chain
      /\ changeset' = changeset /\ stack' = stack /\ trace_elements' = trace_elements
      /\ running' = running /\ invoke_response' = invoke_response /\ status' = "returned"
      /\ remaining_energy' = remaining_energy /\ module_load_energy' = module_load_energy
      /\ next_contract_modification_index' = next_contract_modification_index
      /\ leaked' = leaked
  BY DEF Return
<1>2. "returned" \in Statuses \ {"pop", "exec"}
  BY DEF Statuses
<1>3. Exit("returned", remaining_energy)
  BY <1>1 DEF Exit
<1> QED
  BY <1>2, <1>3, ExitSafe DEF Inv

(* A handler for a transaction that passed the checks of the worker *)
HandlerStartsSound ==
    \A t \in Transaction, energy \in Nat :
      ChainTyped /\ Admissible(t) /\ HandlerInit(t, energy) => Inv

(* It starts in a state with the invariant. *)
LEMMA HandlerInitInv == HandlerStartsSound
<1> SUFFICES ASSUME NEW t \in Transaction, NEW energy \in Nat,
                    ChainTyped, Admissible(t), HandlerInit(t, energy)
             PROVE  Inv
  BY DEF HandlerStartsSound
<1> DEFINE f == InitialFrame(t.sender, t.address, t.name, t.entrypoint, t.amount, 0)
<1>1. /\ tx = t /\ changeset = <<EmptyLayer>> /\ remaining_energy = energy
      /\ module_load_energy = 0 /\ next_contract_modification_index = 1
      /\ stack = <<f>> /\ running = None /\ invoke_response = None
      /\ trace_elements = 0 /\ status = "pop" /\ leaked = FALSE
  BY DEF HandlerInit
<1>2. /\ accounts \in [AccountKeys -> Account \cup {None}]
      /\ \A k \in AccountKeys : accounts[k] # None => available(accounts[k]) >= 0
  BY DEF ChainTyped
<1>3. /\ t.invoker \in AccountAddrs /\ t.sender \in Addresses /\ t.address \in ContractAddrs
      /\ t.name \in ContractNames /\ t.entrypoint \in Entrypoints /\ t.amount \in Amount
      /\ t.energy_reserved \in Nat /\ t.reserved_amount \in Amount
  BY DEF Transaction
<1>4. ChainOK
  <2>1. KeyOf[t.invoker] \in AccountKeys /\ accounts[KeyOf[t.invoker]] # None
        /\ available(accounts[KeyOf[t.invoker]]) >= t.reserved_amount + t.amount
    BY <1>3, AddressAssumption DEF Admissible
  <2>2. accounts[KeyOf[t.invoker]] \in Account
    BY <1>2, <2>1
  <2>3. available(accounts[KeyOf[t.invoker]]) \in Int
    BY <2>2, MaxAmountAssumption DEF Account, Amount, available
  <2>4. available(accounts[KeyOf[t.invoker]]) >= t.reserved_amount
    BY <1>3, <2>1, <2>3, MaxAmountAssumption DEF Amount
  <2> QED
    BY <1>1, <1>3, <2>1, <2>4 DEF ChainOK
<1>5. LayerOK(EmptyLayer)
  BY DEF LayerOK, EmptyLayer, Changes
<1>6. LayersOK(changeset) /\ Len(changeset) = 1
  <2>1. EmptyLayer \in Changes
    BY <1>5 DEF LayerOK
  <2> HIDE DEF EmptyLayer
  <2> QED
    BY <1>1, <1>5, <2>1 DEF LayersOK
<1>7. /\ f \in FrameType /\ f.kind = "initial" /\ f.sender = t.sender
       /\ f.trace_elements_checkpoint = 0
  BY <1>3 DEF InitialFrame, FrameType
<1> HIDE DEF f
<1>8. FrameOK(f) /\ CheckpointOf(f) = 0
  BY <1>7 DEF FrameOK, Admissible, CheckpointOf
<1>9. /\ stack \in Seq(FrameType) /\ Len(stack) = 1 /\ stack[1] = f /\ stack # <<>>
  BY <1>1, <1>7
<1>10. StackOK(stack, Len(changeset), trace_elements)
  <2>1. \A n \in 1 .. Len(stack) : n = 1
    BY <1>9
  <2>2. \A n \in 1 .. (Len(stack) - 1) : FALSE
    BY <1>9
  <2>3. \A n \in 1 .. Len(stack) : FrameOK(stack[n]) /\ CheckpointOf(stack[n]) <= trace_elements
    BY <1>1, <1>8, <1>9, <2>1
  <2>4. \A m, n \in 1 .. Len(stack) : ~(m < n)
    BY <2>1
  <2>5. \A n \in 1 .. Len(stack) : stack[n].kind # "await"
    BY <1>7, <1>9, <2>1
  <2> QED
    BY <1>9, <2>2, <2>3, <2>4, <2>5 DEF StackOK
<1>11. ResponseReady
  BY <1>1, <1>7, <1>9 DEF ResponseReady, Frame
<1>12. RunningOK
  BY <1>1 DEF RunningOK
<1> QED
  BY <1>1, <1>3, <1>4, <1>6, <1>10, <1>11, <1>12 DEF Inv, Statuses

(* The chains and transactions a test starts with are sound.               *)
LEMMA InitSound ==
    ASSUME Init
    PROVE  /\ WellFormed([accounts |-> accounts, contracts |-> contracts, modules |-> modules])
           /\ ChainTyped
           /\ \E t \in Transaction : Admissible(t) /\ HandlerInit(t, t.energy_reserved)
<1> PICK ch \in Chains, t \in Transactions :
      /\ accounts = ch.accounts /\ contracts = ch.contracts /\ modules = ch.modules
      /\ Admissible(t)
      /\ HandlerInit(t, t.energy_reserved)
  BY DEF Init
<1>1. WellFormed(ch) /\ t \in Transaction
  BY ChainAssumption, TransactionAssumption
<1>2. WellFormed([accounts |-> accounts, contracts |-> contracts, modules |-> modules])
  BY <1>1 DEF WellFormed
<1>3. ChainTyped
  BY <1>1 DEF WellFormed, ChainTyped
<1> QED
  BY <1>1, <1>2, <1>3

(* Initially the invariant holds. *)
LEMMA InitInv == Init => Inv
<1> SUFFICES ASSUME Init PROVE Inv
  OBVIOUS
<1> PICK t \in Transaction : Admissible(t) /\ HandlerInit(t, t.energy_reserved)
  BY InitSound
<1>1. t.energy_reserved \in Nat
  BY DEF Transaction
<1> QED
  BY <1>1, InitSound, HandlerInitInv DEF HandlerStartsSound

(* Every step keeps the invariant, action by action. *)
LEMMA NextInv == Inv /\ [Next]_vars => Inv'
<1> SUFFICES ASSUME Inv, [Next]_vars PROVE Inv'
  OBVIOUS
<1>1. CASE UNCHANGED vars
  <2>1. UNCHANGED <<chain, changeset, remaining_energy, module_load_energy,
                    next_contract_modification_index, stack, running,
                    invoke_response, trace_elements, status, leaked>>
    BY <1>1 DEF vars, chain
  <2> QED
    BY <2>1, StepSafe DEF Inv, RunningOK, ResponseReady, Frame
<1>2. CASE Next
  BY <1>2, InitialFailsSafe, InitialNoEntrypointSafe, InitialExitsSafe, InitialRunsSafe,
     ResumeImmediateSafe, ResumeAfterSuccessSafe, ResumeAfterFailureSafe,
     RunEndsSafe, RunInterruptsSafe, ReturnSafe DEF Next, Pops
<1> QED
  BY <1>1, <1>2

(* The inductive invariant always holds. *)
LEMMA InvAlways == Spec => []Inv
  BY InitInv, NextInv, PTL DEF Spec

-----------------------------------------------------------------------------

(* The chain is only read. *)
LEMMA ChainRead == ASSUME Next PROVE UNCHANGED chain
<1>1. InitialFails \/ InitialNoEntrypoint \/ InitialExits \/ InitialRuns => UNCHANGED chain
  BY DEF InitialFails, InitialNoEntrypoint, InitialExits, InitialRuns, InitialAnswers,
         ExitOutOfEnergy, Exit
<1>2. ResumeImmediate \/ ResumeAfterSuccess \/ ResumeAfterFailure \/ Return => UNCHANGED chain
  BY DEF ResumeImmediate, ResumeAfterSuccess, ResumeAfterFailure, Return
<1>3. RunEnds => UNCHANGED chain
  BY DEF RunEnds, RunSucceeds, RunRejects, RunReturnsInvalidCode, RunFails, RunExhausts,
         ExitOutOfEnergy, Exit
<1>4. \A i, layer, energy, response, traces :
        Answer(i, layer, energy, response, traces) => UNCHANGED chain
  BY DEF Answer
<1>5. \A st, energy : Exit(st, energy) => UNCHANGED chain
  BY DEF Exit
<1>6. ASSUME NEW write, NEW used
      PROVE  /\ \A to, amount : RunTransfers(write, used, to, amount) => UNCHANGED chain
             /\ \A to : RunCallsMissing(write, used, to) => UNCHANGED chain
             /\ \A to, entrypoint, amount :
                  RunCalls(write, used, to, entrypoint, amount) => UNCHANGED chain
             /\ \A m : RunUpgradeFails(write, used, m) \/ RunUpgrades(write, used, m)
                         \/ RunUpgradeExits(used, m) => UNCHANGED chain
             /\ \A kind, a : RunQueries(write, used, kind, a) => UNCHANGED chain
             /\ \A a : RunQueriesKeys(write, used, a) => UNCHANGED chain
             /\ \A a, payload :
                  RunChecksSignature(write, used, a, payload) => UNCHANGED chain
  BY <1>4, <1>5 DEF RunTransfers, RunCallsMissing, RunCalls, RunUpgradeFails, RunUpgrades,
     RunUpgradeExits, RunQueries, RunQueriesKeys, RunChecksSignature, ExitOutOfEnergy
<1>7. RunInterrupts => UNCHANGED chain
  BY <1>6 DEF RunInterrupts
<1> QED
  BY <1>1, <1>2, <1>3, <1>7 DEF Next, Pops

(* No step gives energy back. *)
LEMMA EnergyFalls == ASSUME Inv, Next PROVE remaining_energy' <= remaining_energy
<1>1. remaining_energy \in Nat /\ ChainOK /\ LayersOK(changeset)
  BY DEF Inv
<1>2. ExitOutOfEnergy => remaining_energy' <= remaining_energy
  BY <1>1 DEF ExitOutOfEnergy, Exit
<1>3. ASSUME NEW used \in FinalUses \cup InterruptUses, CanUse(used)
      PROVE  EnergyAfter(used) \in Nat /\ EnergyAfter(used) <= remaining_energy
  <2>1. used \in Nat
    BY CostAssumption
  <2>2. EnergyAfter(used) \in Nat
    BY <1>1, <1>3, <2>1, EnergyLeft
  <2>3. from_interpreter_energy(used) \in Nat
    BY <2>1, CostAssumption DEF from_interpreter_energy
  <2> QED
    BY <1>1, <2>2, <2>3 DEF EnergyAfter
<1>4. \A m \in ModuleRefs : modules[m] # None => modules[m].lookup_cost \in Nat
  BY <1>1 DEF ChainOK, ChainTyped, Module
<1>5. \A i, layer, energy, response, traces :
        Answer(i, layer, energy, response, traces) => remaining_energy' = energy
  BY DEF Answer
<1>6. \A st, energy : Exit(st, energy) => remaining_energy' = energy
  BY DEF Exit
<1>7. ASSUME InitialFails \/ InitialNoEntrypoint \/ InitialExits
      PROVE  remaining_energy' <= remaining_energy
  BY <1>1, <1>2, <1>6, <1>7, CostAssumption
     DEF InitialFails, InitialNoEntrypoint, InitialExits, InitialAnswers
<1>8. ASSUME InitialRuns PROVE remaining_energy' <= remaining_energy
  <2> DEFINE m == contract_module(InitialTransfer(Frame).layer, Frame.address)
  <2>1. m \in Module
    BY <1>8, InitialTransferOK, PopFacts, FrameFacts, Lookups, <1>1 DEF InitialRuns
  <2> HIDE DEF m
  <2>2. m.lookup_cost \in Nat
    BY <2>1 DEF Module
  <2>3. remaining_energy' = remaining_energy - UpdateBaseCost - m.lookup_cost
    BY <1>8 DEF InitialRuns, m
  <2> QED
    BY <1>1, <2>2, <2>3, CostAssumption
<1>9. ASSUME ResumeImmediate \/ ResumeAfterSuccess \/ ResumeAfterFailure \/ Return
      PROVE  remaining_energy' <= remaining_energy
  BY <1>1, <1>9 DEF ResumeImmediate, ResumeAfterSuccess, ResumeAfterFailure, Return
<1>10. ASSUME RunEnds PROVE remaining_energy' <= remaining_energy
  <2>1. ASSUME NEW write \in Writes, NEW used \in FinalUses, RunSucceeds(write, used)
        PROVE  remaining_energy' <= remaining_energy
    BY <1>3, <2>1 DEF RunSucceeds
  <2>2. ASSUME NEW used \in FinalUses, RunRejects(used)
        PROVE  remaining_energy' <= remaining_energy
    BY <1>3, <2>2 DEF RunRejects, RunFails
  <2>3. RunReturnsInvalidCode => remaining_energy' <= remaining_energy
    BY <1>1 DEF RunReturnsInvalidCode, RunFails
  <2>4. RunExhausts => remaining_energy' <= remaining_energy
    BY <1>2 DEF RunExhausts
  <2> QED
    BY <1>10, <2>1, <2>2, <2>3, <2>4 DEF RunEnds
<1>11. ASSUME RunInterrupts PROVE remaining_energy' <= remaining_energy
  <2> PICK write \in Writes, used \in InterruptUses :
        \/ \E to \in AccountAddrs, amount \in Amounts : RunTransfers(write, used, to, amount)
        \/ \E to \in ContractAddrs : RunCallsMissing(write, used, to)
        \/ \E to \in ContractAddrs, entrypoint \in Entrypoints, amount \in Amounts :
              RunCalls(write, used, to, entrypoint, amount)
        \/ \E m \in ModuleRefs : \/ RunUpgradeFails(write, used, m)
                                 \/ RunUpgrades(write, used, m)
                                 \/ RunUpgradeExits(used, m)
        \/ \E kind \in QueryKinds : \E a \in QueryTargets(kind) :
              RunQueries(write, used, kind, a)
        \/ \E a \in AccountAddrs : RunQueriesKeys(write, used, a)
        \/ \E a \in AccountAddrs, payload \in Payloads :
              RunChecksSignature(write, used, a, payload)
    BY <1>11 DEF RunInterrupts
  <2> DEFINE e == EnergyAfter(used)
  <2>1. CanUse(used) => e \in Nat /\ e <= remaining_energy
    BY <1>3
  <2> HIDE DEF e
  <2>2. ASSUME NEW to, NEW amount, RunTransfers(write, used, to, amount)
        PROVE  remaining_energy' <= remaining_energy
    BY <1>1, <1>2, <1>5, <1>6, <2>1, <2>2, CostAssumption DEF RunTransfers, e
  <2>3. ASSUME NEW to, RunCallsMissing(write, used, to)
        PROVE  remaining_energy' <= remaining_energy
    BY <1>5, <2>1, <2>3 DEF RunCallsMissing, e
  <2>4. ASSUME NEW to, NEW entrypoint, NEW amount, RunCalls(write, used, to, entrypoint, amount)
        PROVE  remaining_energy' <= remaining_energy
    BY <2>1, <2>4 DEF RunCalls, e
  <2>5. ASSUME NEW m \in ModuleRefs, RunUpgradeFails(write, used, m)
        PROVE  remaining_energy' <= remaining_energy
    <3>1. CanUse(used) /\ (remaining_energy' = e - InitBaseCost \/
            (modules[m] # None /\ remaining_energy' = e - InitBaseCost - modules[m].lookup_cost))
      BY <1>5, <2>5 DEF RunUpgradeFails, e
    <3> QED
      BY <1>1, <1>4, <2>1, <3>1, CostAssumption
  <2>6. ASSUME NEW m \in ModuleRefs, RunUpgrades(write, used, m)
        PROVE  remaining_energy' <= remaining_energy
    <3>1. /\ CanUse(used) /\ modules[m] # None
          /\ remaining_energy' = e - InitBaseCost - modules[m].lookup_cost - InitCreateCost
      BY <1>5, <2>6 DEF RunUpgrades, e
    <3> QED
      BY <1>1, <1>4, <2>1, <3>1, CostAssumption
  <2>7. ASSUME NEW m, RunUpgradeExits(used, m) PROVE remaining_energy' <= remaining_energy
    BY <1>2, <2>7 DEF RunUpgradeExits
  <2>8. ASSUME NEW kind \in QueryKinds, NEW a, RunQueries(write, used, kind, a)
        PROVE  remaining_energy' <= remaining_energy
    <3>1. QueryCost[kind] \in Nat
      BY CostAssumption
    <3>2. \/ ExitOutOfEnergy
          \/ CanUse(used) /\ remaining_energy' = e - QueryCost[kind]
      BY <1>5, <2>8 DEF RunQueries, e
    <3> QED
      BY <1>1, <1>2, <2>1, <3>1, <3>2
  <2>9. ASSUME NEW a, RunQueriesKeys(write, used, a) PROVE remaining_energy' <= remaining_energy
    <3>1. \/ ExitOutOfEnergy
          \/ /\ CanUse(used)
             /\ remaining_energy'
                  = e - (KeysBaseCost + (IF accounts[KeyOf[a]] # None THEN KeysReturnCost ELSE 0))
      BY <1>5, <2>9 DEF RunQueriesKeys, e
    <3> QED
      BY <1>1, <1>2, <2>1, <3>1, CostAssumption
  <2>10. ASSUME NEW a, NEW payload \in Payloads,
                RunChecksSignature(write, used, a, payload)
         PROVE  remaining_energy' <= remaining_energy
    <3>1. \/ ExitOutOfEnergy
          \/ /\ CanUse(used)
             /\ \E cost \in {KeysBaseCost, KeysBaseCost + SignatureCost} :
                  remaining_energy' = e - cost
      <4> DEFINE cost == KeysBaseCost + (IF accounts[KeyOf[a]] # None
                                               /\ payload \in {"valid", "invalid"}
                                           THEN SignatureCost ELSE 0)
      <4>1. cost \in {KeysBaseCost, KeysBaseCost + SignatureCost}
        BY CostAssumption
      <4>2. /\ CanUse(used)
            /\ \/ ExitOutOfEnergy
               \/ Exit("panic", e - cost)
               \/ \E i, layer, response, traces : Answer(i, layer, e - cost, response, traces)
        BY <2>10 DEF RunChecksSignature, e
      <4> HIDE DEF cost
      <4>3. ExitOutOfEnergy \/ remaining_energy' = e - cost
        BY <1>5, <4>2 DEF Exit
      <4> QED
        BY <4>1, <4>2, <4>3
    <3> QED
      BY <1>1, <1>2, <2>1, <3>1, CostAssumption
  <2> QED
    BY <2>2, <2>3, <2>4, <2>5, <2>6, <2>7, <2>8, <2>9, <2>10
<1> QED
  BY <1>7, <1>8, <1>9, <1>10, <1>11 DEF Next, Pops

(* Whatever the contracts do, every part of the handler keeps its type: in  *)
(* particular update_energy never takes more energy than there is, and the  *)
(* changeset is never empty, as ChangeSet's expect()s rely on.              *)
THEOREM HandlerTyped == Spec => []TypeOK
<1> DEFINE W == WellFormed([accounts |-> accounts, contracts |-> contracts, modules |-> modules])
<1>1. Inv /\ W => TypeOK
  BY DEF Inv, TypeOK, LayersOK, StackOK
<1>2. Init => W
  BY InitSound
<1>3. W /\ [Next]_vars => W'
  <2> SUFFICES ASSUME W, [Next]_vars PROVE W'
    OBVIOUS
  <2>1. accounts' = accounts /\ contracts' = contracts /\ modules' = modules
    BY ChainRead DEF chain, vars
  <2> QED
    BY <2>1 DEF WellFormed
<1> QED
  BY <1>1, <1>2, <1>3, InvAlways, PTL DEF Spec

(* Nested calls of any depth: each caller that waits has a checkpoint of    *)
(* its own below the top, which no callee's rollback has popped.            *)
THEOREM CallersKeepCheckpoints == Spec => []CheckpointsStacked
<1>1. Inv => CheckpointsStacked
  <2> SUFFICES ASSUME Inv PROVE CheckpointsStacked
    OBVIOUS
  <2>1. StackOK(stack, Len(changeset), trace_elements)
    BY DEF Inv
  <2>2. DOMAIN stack = 1 .. Len(stack)
    BY <2>1, LenProperties DEF StackOK
  <2> QED
    BY <2>1, <2>2 DEF StackOK, CheckpointsStacked, Awaiting
<1> QED
  BY <1>1, InvAlways, PTL

(* The trace is never cut beyond its end, nor below what a caller recorded. *)
THEOREM TracesNested == Spec => []TraceCheckpointsOrdered
<1>1. Inv => TraceCheckpointsOrdered
  <2> SUFFICES ASSUME Inv PROVE TraceCheckpointsOrdered
    OBVIOUS
  <2>1. StackOK(stack, Len(changeset), trace_elements) /\ RunningOK
    BY DEF Inv
  <2>2. DOMAIN stack = 1 .. Len(stack)
    BY <2>1, LenProperties DEF StackOK
  <2>3. running # None =>
          /\ running.trace_elements_checkpoint <= trace_elements
          /\ Callers(stack, running.trace_elements_checkpoint)
    BY <2>1 DEF RunningOK
  <2> QED
    BY <2>1, <2>2, <2>3 DEF StackOK, Callers, TraceCheckpointsOrdered
<1> QED
  BY <1>1, InvAlways, PTL

(* The expect() of a waiting caller, and of the end of the loop, finds the  *)
(* response of the call that ended, and never an older one.                 *)
THEOREM ResponsesReady == Spec => []ResponseReady
  BY InvAlways, PTL DEF Inv

-----------------------------------------------------------------------------
(* What the contracts see and may change: the inductive invariant, part by part *)

(* Every modification index of the layer was handed out before `index'.    *)
Below(layer, index) == \A c \in ContractAddrs : modification_index(layer, c) < index

(* The indices tell the states of two layers apart. *)
Agree(l1, l2) ==
    \A c \in ContractAddrs :
      contracts[c] # None /\ modification_index(l1, c) = modification_index(l2, c)
        => contract_state(l1, c) = contract_state(l2, c)

(* An entrypoint has the state and the balance of its contract. *)
Current(data, layer) ==
    /\ data.state = contract_state(layer, data.address)
    /\ data.self_balance = contract_balance(layer, data.address)

Awaits(s, n) == s[n].kind = "await"

(* The layer that the caller at n goes back to when its call fails. *)
LayerOf(s, cs, n) == cs[s[n].depth]

(* Callers remember their layer, with its modification index; layers of    *)
(* callers further up differ from it in their indices if in their states,  *)
(* and all that started later gives back later indices when it fails.      *)
CallersOK(s, cs) ==
    /\ \A n \in 1 .. Len(s) : Awaits(s, n) =>
         /\ Current(s[n].data, LayerOf(s, cs, n))
         /\ s[n].data.mod_idx_before_invoke
              = modification_index(LayerOf(s, cs, n), s[n].data.address)
    /\ \A m, n \in 1 .. Len(s) : m < n =>
         /\ Awaits(s, n) => Agree(LayerOf(s, cs, n), LayerOf(s, cs, m))
         /\ s[n].kind # "initial" =>
              Below(LayerOf(s, cs, m), s[n].data.next_mod_idx_checkpoint)

CallersBelow(s, cs, index) ==
    \A n \in 1 .. Len(s) : Awaits(s, n) => Below(LayerOf(s, cs, n), index)

CallersAgree(s, cs, layer) ==
    \A n \in 1 .. Len(s) : Awaits(s, n) => Agree(layer, LayerOf(s, cs, n))

(* The handler with these layers, frames, entrypoint, response, status and *)
(* next index.  The index is above all of the topmost layer, unless a call *)
(* has failed whose changes are still there.                               *)
ViewOf(cs, s, run, resp, st, index) ==
    /\ CallersOK(s, cs)
    /\ CallersBelow(s, cs, index)
    /\ CallersAgree(s, cs, cs[Len(cs)])
    /\ run # None => CallersBelow(s, cs, run.next_mod_idx_checkpoint)
    /\ st \in {"pop", "exec"} /\ (resp # None => resp.success)
         => Below(cs[Len(cs)], index)
    /\ st = "pop" /\ s # <<>> /\ s[Len(s)].kind = "resume"
         => Current(Seen(s[Len(s)].data, s[Len(s)].response), cs[Len(cs)])
    /\ st = "exec" => Current(run, cs[Len(cs)])

ViewOK == ViewOf(changeset, stack, running, invoke_response, status,
                 next_contract_modification_index)

ViewInv == ~leaked => ViewOK

(* The name of the contract is that of its instance. *)
Named(data) == data.contract_name = contracts[data.address].contract_name

NamesInv ==
    /\ \A n \in 1 .. Len(stack) :
         IF stack[n].kind = "initial"
           THEN contracts[stack[n].address] # None
                  => stack[n].name = contracts[stack[n].address].contract_name
           ELSE Named(stack[n].data)
    /\ running # None => Named(running)
    /\ UpgradesKeepContract

(* What account k has to keep of what is available to it *)
Reserve(k) == IF k = KeyOf[tx.invoker] THEN tx.reserved_amount ELSE 0

(* Accounts keep that, and none but the sender's has paid anything. *)
FundsKept(layer) ==
    \A k \in AccountKeys : layer.accounts[k] # None =>
      /\ available(accounts[k]) + Value(layer.accounts[k].balance_delta) >= Reserve(k)
      /\ Value(layer.accounts[k].balance_delta) < 0
           => tx.sender \in AccountAddrs /\ k = KeyOf[tx.sender]

(* Only the first frame takes from an account, and that is before anything *)
(* has changed.                                                            *)
FundsInv ==
    /\ available(accounts[KeyOf[tx.invoker]]) >= tx.reserved_amount + tx.amount
    /\ \A n \in 1 .. Len(changeset) : FundsKept(changeset[n])
    /\ \A n \in 1 .. Len(stack) :
         stack[n].kind = "initial" /\ stack[n].sender \in AccountAddrs =>
           /\ Top = EmptyLayer
           /\ stack[n].sender = tx.sender
           /\ stack[n].amount = tx.amount

-----------------------------------------------------------------------------
(* What the operations on a layer do to the lookups *)

(* The states, with their indices, and the upgrades are as they were. *)
StatesKept(old, new) ==
    \A c \in ContractAddrs :
      /\ contract_state(new, c) = contract_state(old, c)
      /\ modification_index(new, c) = modification_index(old, c)

(* The module that a contract is upgraded to, if it is *)
UpgradeOf(layer, c) ==
    IF layer.contracts[c] = None THEN None ELSE layer.contracts[c].module

ModulesKept(old, new) ==
    \A c \in ContractAddrs : UpgradeOf(new, c) = UpgradeOf(old, c)

(* Another entry for a contract, and what the lookups then find *)
LEMMA EntryReplaced ==
    ASSUME ChainOK, NEW layer, LayerOK(layer), NEW c \in ContractAddrs,
           NEW e \in ContractChanges
    PROVE  LET new == [layer EXCEPT !.contracts[c] = e]
           IN  /\ new.accounts = layer.accounts
               /\ new.contracts[c] = e /\ e # None
               /\ \A b \in ContractAddrs \ {c} : new.contracts[b] = layer.contracts[b]
<1>1. layer \in Changes
  BY DEF LayerOK
<1>2. e # None
  BY ChangesAssumption
<1> QED
  BY <1>1, <1>2 DEF Changes

(* A fresh entry answers as no entry does. *)
LEMMA FreshEntry ==
    ASSUME NEW layer, NEW c \in ContractAddrs
    PROVE  LET changes == EntryOrNew(layer, c)
           IN  /\ changes.modification_index = modification_index(layer, c)
               /\ (IF changes.state # None THEN changes.state ELSE contracts[c].state)
                     = contract_state(layer, c)
               /\ changes.module = UpgradeOf(layer, c)
  BY DEF EntryOrNew, UpgradeOf, NewContractChanges, modification_index, contract_state

(* So it does about the balance. *)
LEMMA FreshBalance ==
    ASSUME ChainOK, NEW layer, NEW c \in ContractAddrs, contracts[c] # None
    PROVE  LET changes == EntryOrNew(layer, c)
           IN  contract_balance(layer, c)
                 = apply_to_balance(changes.self_balance_delta, changes.self_balance_original)
<1>1. CASE layer.contracts[c] = None
  <2>1. /\ EntryOrNew(layer, c).self_balance_delta = ZeroDelta
        /\ EntryOrNew(layer, c).self_balance_original = contracts[c].self_balance
    BY <1>1 DEF EntryOrNew, NewContractChanges
  <2>2. contracts[c].self_balance \in Int
    BY MaxAmountAssumption DEF ChainOK, ChainTyped, Contract, Amount
  <2>3. Value(ZeroDelta) = 0
    BY DEF ZeroDelta, Positive, Value
  <2> QED
    BY <1>1, <2>1, <2>2, <2>3 DEF contract_balance, apply_to_balance
<1>2. CASE layer.contracts[c] # None
  BY <1>2 DEF EntryOrNew, contract_balance
<1> QED
  BY <1>1, <1>2

(* A change of a contract's balance leaves all states alone. *)
LEMMA ContractBalanceView ==
    ASSUME ChainOK, NEW layer, LayerOK(layer),
           NEW c \in ContractAddrs, contracts[c] # None, NEW delta \in Delta
    PROVE  LET r == change_contract_balance(layer, c, delta)
           IN  /\ StatesKept(layer, r.layer)
               /\ ModulesKept(layer, r.layer)
               /\ r.layer.accounts = layer.accounts
               /\ r.err # "ok" => r.layer = layer
               /\ r.err = "ok" => contract_balance(r.layer, c) = r.balance
<1> DEFINE entry     == layer.contracts[c]
           changes   == EntryOrNew(layer, c)
           new_delta == IF entry = None THEN delta
                        ELSE add_delta(entry.self_balance_delta, delta)
           err       == delta_error(new_delta, changes.self_balance_original)
           e         == [changes EXCEPT !.self_balance_delta = new_delta]
           new       == [layer EXCEPT !.contracts[c] = e]
           r         == change_contract_balance(layer, c, delta)
<1>1. changes \in ContractChanges
  BY EntryOrNewOK
<1>2. r = IF err # "ok" THEN Result(layer, err, 0)
          ELSE Result(new, "ok", apply_to_balance(new_delta, changes.self_balance_original))
  BY DEF change_contract_balance
<1>3. new_delta \in Delta
  <2>1. entry # None => entry \in ContractChanges
    BY DEF LayerOK, Changes
  <2> QED
    BY <2>1, DeltasAdd DEF ContractChanges
<1>4. CASE err # "ok"
  <2>1. r.layer = layer /\ r.err # "ok"
    BY <1>2, <1>4 DEF Result
  <2> QED
    BY <2>1 DEF StatesKept, ModulesKept
<1>5. CASE err = "ok"
  <2>1. /\ e \in ContractChanges
        /\ e.self_balance_delta = new_delta
        /\ e.self_balance_original = changes.self_balance_original
        /\ e.state = changes.state /\ e.module = changes.module
        /\ e.modification_index = changes.modification_index
    BY <1>1, <1>3 DEF ContractChanges
  <2>2. /\ r.layer = new /\ r.err = "ok"
        /\ r.balance = apply_to_balance(new_delta, changes.self_balance_original)
    BY <1>2, <1>5 DEF Result
  <2>3. /\ changes.modification_index = modification_index(layer, c)
        /\ (IF changes.state # None THEN changes.state ELSE contracts[c].state)
              = contract_state(layer, c)
        /\ changes.module = UpgradeOf(layer, c)
    BY FreshEntry
  <2> HIDE DEF changes, new_delta, e
  <2>4. /\ new.accounts = layer.accounts
        /\ new.contracts[c] = e /\ e # None
        /\ \A b \in ContractAddrs \ {c} : new.contracts[b] = layer.contracts[b]
    BY <2>1, EntryReplaced
  <2> HIDE DEF new
  <2>5. contract_balance(new, c) = r.balance
    BY <2>1, <2>2, <2>4 DEF contract_balance
  <2>6. StatesKept(layer, new) /\ ModulesKept(layer, new)
    BY <2>1, <2>3, <2>4 DEF StatesKept, ModulesKept, UpgradeOf, contract_state, modification_index
  <2> QED
    BY <2>2, <2>4, <2>5, <2>6
<1> QED
  BY <1>4, <1>5

(* A change of an account's balance leaves contracts alone. *)
LEMMA AccountBalanceView ==
    ASSUME ChainOK, NEW layer, LayerOK(layer),
           NEW a \in AccountAddrs, accounts[KeyOf[a]] # None, NEW delta \in Delta
    PROVE  LET r   == change_account_balance(layer, a, delta)
               k   == KeyOf[a]
               old == layer.accounts[k]
               new == r.layer.accounts[k]
           IN  /\ r.layer.contracts = layer.contracts
               /\ \A j \in AccountKeys \ {k} : r.layer.accounts[j] = layer.accounts[j]
               /\ r.err # "ok" => r.layer = layer
               /\ r.err = "ok" /\ old = None =>
                     /\ new.balance_delta = delta
                     /\ delta_error(delta, available(accounts[k])
                          - (IF tx.invoker = a THEN tx.reserved_amount ELSE 0)) = "ok"
               /\ r.err = "ok" /\ old # None =>
                     Value(new.balance_delta) = Value(old.balance_delta) + Value(delta)
<1> DEFINE k         == KeyOf[a]
           entry     == layer.accounts[k]
           reserved  == IF tx.invoker = a THEN tx.reserved_amount ELSE 0
           original  == IF entry = None THEN available(accounts[k]) - reserved
                                        ELSE entry.original_balance
           new_delta == IF entry = None THEN delta ELSE add_delta(entry.balance_delta, delta)
           err       == delta_error(new_delta, original)
           e         == [original_balance |-> original, balance_delta |-> new_delta]
           r         == change_account_balance(layer, a, delta)
<1>1. k \in AccountKeys /\ layer \in Changes
  BY AddressAssumption DEF LayerOK
<1>2. r = IF err # "ok" THEN Result(layer, err, 0)
          ELSE Result([layer EXCEPT !.accounts[k] = e], "ok",
                      apply_to_balance(new_delta, original))
  BY DEF change_account_balance
<1>3. entry # None => Value(new_delta) = Value(entry.balance_delta) + Value(delta)
  <2>1. entry # None => entry \in AccountChanges
    BY <1>1 DEF Changes
  <2> QED
    BY <2>1, DeltasAdd DEF AccountChanges
<1>4. entry = None => new_delta = delta /\ original = available(accounts[k]) - reserved
  OBVIOUS
<1>5. e.balance_delta = new_delta
  OBVIOUS
<1> HIDE DEF k, new_delta, original, e
<1>6. CASE err # "ok"
  BY <1>2, <1>6 DEF Result, k
<1>7. CASE err = "ok"
  <2>1. r.layer = [layer EXCEPT !.accounts[k] = e] /\ r.err = "ok"
    BY <1>2, <1>7 DEF Result
  <2>2. /\ r.layer.contracts = layer.contracts
        /\ r.layer.accounts[k] = e
        /\ \A j \in AccountKeys \ {k} : r.layer.accounts[j] = layer.accounts[j]
    BY <1>1, <2>1 DEF Changes
  <2> QED
    BY <1>3, <1>4, <1>5, <1>7, <2>1, <2>2 DEF k
<1> QED
  BY <1>6, <1>7

(* Two changes after each other *)
LEMMA KeptTwice ==
    ASSUME NEW l1, NEW l2, NEW l3, StatesKept(l1, l2), StatesKept(l2, l3)
    PROVE  StatesKept(l1, l3)
  BY DEF StatesKept

(* Two steps that keep the modules keep them.                              *)
LEMMA ModulesKeptTwice ==
    ASSUME NEW l1, NEW l2, NEW l3, ModulesKept(l1, l2), ModulesKept(l2, l3)
    PROVE  ModulesKept(l1, l3)
  BY DEF ModulesKept

(* The lookups of contracts depend on the contracts of a layer only. *)
LEMMA SameContracts ==
    ASSUME NEW l1, NEW l2, l2.contracts = l1.contracts
    PROVE  /\ StatesKept(l1, l2) /\ ModulesKept(l1, l2)
           /\ \A c \in ContractAddrs : contract_balance(l2, c) = contract_balance(l1, c)
  BY DEF StatesKept, ModulesKept, UpgradeOf, contract_balance, contract_state, modification_index

(* A credit keeps the funds that were there.                                *)
LEMMA CreditKeepsFunds ==
    ASSUME ChainOK, NEW layer, LayerOK(layer), FundsKept(layer),
           NEW a \in AccountAddrs, accounts[KeyOf[a]] # None, NEW amount \in Nat
    PROVE  FundsKept(change_account_balance(layer, a, Positive(amount)).layer)
<1> DEFINE r == change_account_balance(layer, a, Positive(amount))
           k == KeyOf[a]
<1>1. Positive(amount) \in Delta /\ Value(Positive(amount)) = amount
  BY DEF Positive, Delta, Value
<1>2. k \in AccountKeys
  BY AddressAssumption
<1>3. /\ \A j \in AccountKeys \ {k} : r.layer.accounts[j] = layer.accounts[j]
      /\ r.err # "ok" => r.layer = layer
      /\ r.err = "ok" /\ layer.accounts[k] = None
            => r.layer.accounts[k].balance_delta = Positive(amount)
      /\ r.err = "ok" /\ layer.accounts[k] # None
            => Value(r.layer.accounts[k].balance_delta)
                 = Value(layer.accounts[k].balance_delta) + Value(Positive(amount))
  BY <1>1, AccountBalanceView
<1>4. layer.accounts[k] # None => Value(layer.accounts[k].balance_delta) \in Int
  <2>1. layer.accounts[k] # None => layer.accounts[k] \in AccountChanges
    BY <1>2 DEF LayerOK, Changes
  <2> QED
    BY <2>1 DEF AccountChanges, Delta, Value
<1>5. /\ accounts[k] \in Account /\ available(accounts[k]) \in Int
      /\ available(accounts[k]) >= Reserve(k) /\ Reserve(k) \in Int
  <2>1. accounts[k] \in Account
    BY <1>2 DEF ChainOK, ChainTyped
  <2>2. available(accounts[k]) \in Int
    BY <2>1, MaxAmountAssumption DEF Account, available, Amount
  <2> QED
    BY <1>2, <2>1, <2>2, MaxAmountAssumption DEF ChainOK, ChainTyped, Reserve, Amount
<1> HIDE DEF r, k
<1>6. r.err = "ok" => available(accounts[k]) + Value(r.layer.accounts[k].balance_delta) >= Reserve(k)
  BY <1>1, <1>2, <1>3, <1>4, <1>5 DEF FundsKept
<1>7. r.err = "ok" /\ Value(r.layer.accounts[k].balance_delta) < 0
        => tx.sender \in AccountAddrs /\ k = KeyOf[tx.sender]
  BY <1>1, <1>2, <1>3, <1>4 DEF FundsKept
<1>8. FundsKept(r.layer)
  BY <1>3, <1>6, <1>7 DEF FundsKept
<1> QED
  BY <1>8 DEF r

(* Transfers between contracts *)
LEMMA ContractContractView ==
    ASSUME ChainOK, NEW layer, LayerOK(layer), NEW amount \in Nat,
           NEW from \in ContractAddrs, contracts[from] # None, NEW to \in ContractAddrs
    PROVE  LET r == transfer_from_contract_to_contract(layer, amount, from, to)
           IN  /\ StatesKept(layer, r.layer) /\ ModulesKept(layer, r.layer)
               /\ r.layer.accounts = layer.accounts
               /\ r.err = "ok" => contract_balance(r.layer, to) = r.balance
<1> DEFINE debit  == change_contract_balance(layer, from, Negative(amount))
           credit == change_contract_balance(debit.layer, to, Positive(amount))
           r      == transfer_from_contract_to_contract(layer, amount, from, to)
<1>1. Negative(amount) \in Delta /\ Positive(amount) \in Delta
  BY DEF Negative, Positive, Delta
<1>2. /\ StatesKept(layer, debit.layer) /\ ModulesKept(layer, debit.layer)
      /\ debit.layer.accounts = layer.accounts
      /\ LayerOK(debit.layer)
  BY <1>1, ContractBalanceView, ChangeContractBalance DEF ResultOK
<1>3. r = IF contracts[to] = None THEN Result(layer, "ToMissing", 0)
          ELSE IF debit.err # "ok" THEN debit ELSE credit
  BY DEF transfer_from_contract_to_contract
<1> HIDE DEF debit
<1>4. contracts[to] # None =>
        /\ StatesKept(debit.layer, credit.layer) /\ ModulesKept(debit.layer, credit.layer)
        /\ credit.layer.accounts = debit.layer.accounts
        /\ credit.err = "ok" => contract_balance(credit.layer, to) = credit.balance
  BY <1>1, <1>2, ContractBalanceView
<1> HIDE DEF credit
<1>5. CASE contracts[to] = None
  <2>1. r.layer = layer /\ r.err # "ok"
    BY <1>3, <1>5 DEF Result
  <2> QED
    BY <2>1 DEF StatesKept, ModulesKept
<1>6. CASE contracts[to] # None /\ debit.err # "ok"
  BY <1>2, <1>3, <1>6
<1>7. CASE contracts[to] # None /\ debit.err = "ok"
  BY <1>2, <1>3, <1>4, <1>7, KeptTwice, ModulesKeptTwice
<1> QED
  BY <1>5, <1>6, <1>7

(* Transfers from accounts *)
LEMMA AccountContractView ==
    ASSUME ChainOK, NEW layer, LayerOK(layer), NEW amount \in Nat,
           NEW from \in AccountAddrs, accounts[KeyOf[from]] # None, NEW to \in ContractAddrs
    PROVE  LET debit == change_account_balance(layer, from, Negative(amount))
               r     == transfer_from_account_to_contract(layer, amount, from, to)
           IN  /\ StatesKept(layer, r.layer) /\ ModulesKept(layer, r.layer)
               /\ r.layer.accounts \in {layer.accounts, debit.layer.accounts}
               /\ r.err = "ok" => contract_balance(r.layer, to) = r.balance
<1> DEFINE debit  == change_account_balance(layer, from, Negative(amount))
           credit == change_contract_balance(debit.layer, to, Positive(amount))
           r      == transfer_from_account_to_contract(layer, amount, from, to)
<1>1. Negative(amount) \in Delta /\ Positive(amount) \in Delta
  BY DEF Negative, Positive, Delta
<1>2. /\ debit.layer.contracts = layer.contracts
      /\ LayerOK(debit.layer)
  BY <1>1, AccountBalanceView, ChangeAccountBalance DEF ResultOK
<1>3. r = IF contracts[to] = None THEN Result(layer, "ToMissing", 0)
          ELSE IF debit.err # "ok" THEN debit ELSE credit
  BY DEF transfer_from_account_to_contract
<1> HIDE DEF debit
<1>4. contracts[to] # None =>
        /\ StatesKept(debit.layer, credit.layer) /\ ModulesKept(debit.layer, credit.layer)
        /\ credit.layer.accounts = debit.layer.accounts
        /\ credit.err = "ok" => contract_balance(credit.layer, to) = credit.balance
  BY <1>1, <1>2, ContractBalanceView
<1>5. StatesKept(layer, debit.layer) /\ ModulesKept(layer, debit.layer)
  BY <1>2, SameContracts
<1> HIDE DEF credit
<1>6. CASE contracts[to] = None
  <2>1. r.layer = layer /\ r.err # "ok"
    BY <1>3, <1>6 DEF Result
  <2> QED
    BY <2>1 DEF StatesKept, ModulesKept
<1>7. CASE contracts[to] # None /\ debit.err # "ok"
  BY <1>3, <1>5, <1>7 DEF debit
<1>8. CASE contracts[to] # None /\ debit.err = "ok"
  BY <1>3, <1>4, <1>5, <1>8, KeptTwice, ModulesKeptTwice DEF debit
<1> QED
  BY <1>6, <1>7, <1>8 DEF debit

(* Transfers to accounts: what fails and returns to the contract has        *)
(* changed nothing.                                                         *)
LEMMA ContractAccountView ==
    ASSUME ChainOK, NEW layer, LayerOK(layer), NEW amount \in Nat,
           NEW from \in ContractAddrs, contracts[from] # None, NEW to \in AccountAddrs
    PROVE  LET r == transfer_from_contract_to_account(layer, amount, from, to)
           IN  /\ StatesKept(layer, r.layer) /\ ModulesKept(layer, r.layer)
               /\ r.err \notin Unrecoverable =>
                     IF r.err = "ok" THEN contract_balance(r.layer, from) = r.balance
                                     ELSE r.layer = layer
               /\ FundsKept(layer) => FundsKept(r.layer)
<1> DEFINE debit  == change_contract_balance(layer, from, Negative(amount))
           credit == change_account_balance(debit.layer, to, Positive(amount))
           r      == transfer_from_contract_to_account(layer, amount, from, to)
<1>1. Negative(amount) \in Delta /\ Positive(amount) \in Delta
  BY DEF Negative, Positive, Delta
<1>2. /\ StatesKept(layer, debit.layer) /\ ModulesKept(layer, debit.layer)
      /\ debit.layer.accounts = layer.accounts
      /\ debit.err # "ok" => debit.layer = layer
      /\ debit.err = "ok" => contract_balance(debit.layer, from) = debit.balance
      /\ LayerOK(debit.layer)
  BY <1>1, ContractBalanceView, ChangeContractBalance DEF ResultOK
<1>3. r = IF accounts[KeyOf[to]] = None THEN Result(layer, "ToMissing", 0)
          ELSE IF debit.err # "ok" THEN debit
          ELSE IF credit.err # "ok" THEN Result(credit.layer, "Panic", 0)
          ELSE Result(credit.layer, "ok", debit.balance)
  BY DEF transfer_from_contract_to_account
<1> HIDE DEF debit
<1>4. accounts[KeyOf[to]] # None => credit.layer.contracts = debit.layer.contracts
  BY <1>1, <1>2, AccountBalanceView
<1>5. FundsKept(layer) => FundsKept(debit.layer)
  BY <1>2 DEF FundsKept
<1>6. accounts[KeyOf[to]] # None /\ FundsKept(debit.layer) => FundsKept(credit.layer)
  BY <1>1, <1>2, CreditKeepsFunds
<1> HIDE DEF credit
<1>7. CASE accounts[KeyOf[to]] = None
  <2>1. r.layer = layer /\ r.err # "ok"
    BY <1>3, <1>7 DEF Result
  <2> QED
    BY <2>1 DEF StatesKept, ModulesKept
<1>8. CASE accounts[KeyOf[to]] # None /\ debit.err # "ok"
  BY <1>2, <1>3, <1>5, <1>8
<1>9. CASE accounts[KeyOf[to]] # None /\ debit.err = "ok"
  <2>1. /\ r.layer = credit.layer
        /\ r.err = "ok" => r.balance = debit.balance
        /\ r.err \notin Unrecoverable => r.err = "ok"
    BY <1>3, <1>9 DEF Result, Unrecoverable
  <2>2. /\ StatesKept(debit.layer, credit.layer) /\ ModulesKept(debit.layer, credit.layer)
        /\ contract_balance(credit.layer, from) = contract_balance(debit.layer, from)
    BY <1>4, <1>9, SameContracts
  <2> QED
    BY <1>2, <1>5, <1>6, <1>9, <2>1, <2>2, KeptTwice, ModulesKeptTwice
<1> QED
  BY <1>7, <1>8, <1>9

(* save_state_changes: one contract gets the state and the index. *)
LEMMA SaveStateView ==
    ASSUME ChainOK, NEW layer, LayerOK(layer),
           NEW c \in ContractAddrs, contracts[c] # None,
           NEW state \in StateVals, NEW index \in Nat
    PROVE  LET new == save_state_changes(layer, c, state, index)
           IN  /\ contract_state(new, c) = state
               /\ modification_index(new, c) = index
               /\ \A b \in ContractAddrs \ {c} :
                     /\ contract_state(new, b) = contract_state(layer, b)
                     /\ modification_index(new, b) = modification_index(layer, b)
               /\ \A b \in ContractAddrs : contract_balance(new, b) = contract_balance(layer, b)
               /\ ModulesKept(layer, new)
               /\ new.accounts = layer.accounts
<1> DEFINE changes == EntryOrNew(layer, c)
           e       == [changes EXCEPT !.state = state, !.modification_index = index]
           new     == save_state_changes(layer, c, state, index)
<1>1. changes \in ContractChanges /\ ContractChangeOK(c, changes)
  BY EntryOrNewOK
<1>2. changes.module = UpgradeOf(layer, c)
  BY FreshEntry
<1>3. contract_balance(layer, c)
        = apply_to_balance(changes.self_balance_delta, changes.self_balance_original)
  BY FreshBalance
<1>4. new = [layer EXCEPT !.contracts[c] = e]
  BY DEF save_state_changes
<1> HIDE DEF changes
<1>5. /\ e \in ContractChanges
      /\ e.state = state /\ e.modification_index = index
      /\ e.self_balance_delta = changes.self_balance_delta
      /\ e.self_balance_original = changes.self_balance_original
      /\ e.module = changes.module
  BY <1>1 DEF ContractChanges
<1> HIDE DEF e
<1>6. /\ new.accounts = layer.accounts
      /\ new.contracts[c] = e /\ e # None
      /\ \A b \in ContractAddrs \ {c} : new.contracts[b] = layer.contracts[b]
  BY <1>4, <1>5, EntryReplaced
<1> HIDE DEF new
<1>7. state # None
  BY AddressAssumption
<1>8. contract_state(new, c) = state /\ modification_index(new, c) = index
  BY <1>5, <1>6, <1>7 DEF contract_state, modification_index
<1>9. contract_balance(new, c) = contract_balance(layer, c)
  BY <1>3, <1>5, <1>6 DEF contract_balance
<1>10. \A b \in ContractAddrs \ {c} :
         /\ contract_state(new, b) = contract_state(layer, b)
         /\ modification_index(new, b) = modification_index(layer, b)
         /\ contract_balance(new, b) = contract_balance(layer, b)
  BY <1>6 DEF contract_state, modification_index, contract_balance
<1>11. ModulesKept(layer, new)
  BY <1>2, <1>5, <1>6 DEF ModulesKept, UpgradeOf
<1> QED
  BY <1>6, <1>8, <1>9, <1>10, <1>11 DEF new

(* save_module_upgrade: one contract gets the module. *)
LEMMA UpgradeView ==
    ASSUME ChainOK, NEW layer, LayerOK(layer),
           NEW c \in ContractAddrs, contracts[c] # None,
           NEW m \in ModuleRefs
    PROVE  LET new == save_module_upgrade(layer, c, m)
           IN  /\ StatesKept(layer, new)
               /\ \A b \in ContractAddrs : contract_balance(new, b) = contract_balance(layer, b)
               /\ UpgradeOf(new, c) = m
               /\ \A b \in ContractAddrs \ {c} : UpgradeOf(new, b) = UpgradeOf(layer, b)
               /\ new.accounts = layer.accounts
<1> DEFINE changes == EntryOrNew(layer, c)
           e       == [changes EXCEPT !.module = m]
           new     == save_module_upgrade(layer, c, m)
<1>1. changes \in ContractChanges /\ ContractChangeOK(c, changes)
  BY EntryOrNewOK
<1>2. /\ changes.modification_index = modification_index(layer, c)
      /\ (IF changes.state # None THEN changes.state ELSE contracts[c].state)
            = contract_state(layer, c)
  BY FreshEntry
<1>3. contract_balance(layer, c)
        = apply_to_balance(changes.self_balance_delta, changes.self_balance_original)
  BY FreshBalance
<1>4. new = [layer EXCEPT !.contracts[c] = e]
  BY DEF save_module_upgrade
<1> HIDE DEF changes
<1>5. /\ e \in ContractChanges
      /\ e.state = changes.state /\ e.modification_index = changes.modification_index
      /\ e.self_balance_delta = changes.self_balance_delta
      /\ e.self_balance_original = changes.self_balance_original
      /\ e.module = m
  BY <1>1 DEF ContractChanges
<1> HIDE DEF e
<1>6. /\ new.accounts = layer.accounts
      /\ new.contracts[c] = e /\ e # None
      /\ \A b \in ContractAddrs \ {c} : new.contracts[b] = layer.contracts[b]
  BY <1>4, <1>5, EntryReplaced
<1> HIDE DEF new
<1>7. contract_balance(new, c) = contract_balance(layer, c)
  BY <1>3, <1>5, <1>6 DEF contract_balance
<1>8. StatesKept(layer, new)
  BY <1>2, <1>5, <1>6 DEF StatesKept, contract_state, modification_index
<1>9. /\ \A b \in ContractAddrs \ {c} : contract_balance(new, b) = contract_balance(layer, b)
      /\ UpgradeOf(new, c) = m
      /\ \A b \in ContractAddrs \ {c} : UpgradeOf(new, b) = UpgradeOf(layer, b)
  BY <1>5, <1>6 DEF contract_balance, UpgradeOf
<1> QED
  BY <1>6, <1>7, <1>8, <1>9 DEF new

(* What an interrupted entrypoint leaves, and remembers *)
LEMMA InterruptedView ==
    ASSUME Inv, status = "exec", NEW write \in Writes
    PROVE  LET i    == Interrupted(write)
               next == next_contract_modification_index
           IN  /\ i.data.address = running.address
               /\ i.data.contract_name = running.contract_name
               /\ i.data.next_mod_idx_checkpoint = running.next_mod_idx_checkpoint
               /\ i.data.mod_idx_before_invoke
                    = modification_index(i.layer, running.address)
               /\ Current(running, Top) => Current(i.data, i.layer)
               /\ i.index \in Nat /\ next \in Nat /\ i.index >= next
               /\ Below(Top, next) => Below(i.layer, i.index)
               /\ \A l : Below(l, next) /\ Agree(Top, l) => Agree(i.layer, l)
               /\ ModulesKept(Top, i.layer)
               /\ i.layer.accounts = Top.accounts
               /\ LayerDelta(i.layer) = LayerDelta(Top)
<1> DEFINE c    == running.address
           next == next_contract_modification_index
           i    == Interrupted(write)
           new  == save_state_changes(Top, c, write, next)
<1>1. /\ c \in ContractAddrs /\ contracts[c] # None /\ running \in InvocationData
      /\ ChainOK /\ LayerOK(Top) /\ next \in Nat
  BY RunFacts DEF Inv
<1>2. CASE write = None
  <2>1. /\ i.layer = Top /\ i.index = next
        /\ i.data = [running EXCEPT !.mod_idx_before_invoke = modification_index(Top, c)]
    BY <1>2 DEF Interrupted
  <2>2. /\ i.data.address = c /\ i.data.contract_name = running.contract_name
        /\ i.data.next_mod_idx_checkpoint = running.next_mod_idx_checkpoint
        /\ i.data.mod_idx_before_invoke = modification_index(Top, c)
        /\ i.data.state = running.state /\ i.data.self_balance = running.self_balance
    BY <1>1, <2>1 DEF InvocationData
  <2> QED
    BY <1>1, <2>1, <2>2 DEF Current, ModulesKept
<1>3. CASE write # None
  <2>1. write \in StateVals
    BY <1>3 DEF Writes
  <2>2. /\ i.layer = new /\ i.index = next + 1
        /\ i.data = [running EXCEPT !.mod_idx_before_invoke = next, !.state = write]
    BY <1>3 DEF Interrupted
  <2>3. /\ i.data.address = c /\ i.data.contract_name = running.contract_name
        /\ i.data.next_mod_idx_checkpoint = running.next_mod_idx_checkpoint
        /\ i.data.mod_idx_before_invoke = next
        /\ i.data.state = write /\ i.data.self_balance = running.self_balance
    BY <1>1, <2>2 DEF InvocationData
  <2>4. /\ contract_state(new, c) = write
        /\ modification_index(new, c) = next
        /\ \A b \in ContractAddrs \ {c} :
              /\ contract_state(new, b) = contract_state(Top, b)
              /\ modification_index(new, b) = modification_index(Top, b)
        /\ \A b \in ContractAddrs : contract_balance(new, b) = contract_balance(Top, b)
        /\ ModulesKept(Top, new)
        /\ new.accounts = Top.accounts
    BY <1>1, <2>1, SaveStateView
  <2>8. LayerDelta(new) = LayerDelta(Top)
    BY <1>1, <2>1, SavesConserve
  <2> HIDE DEF new, c
  <2>5. Below(Top, next) => Below(new, next + 1)
    <3> SUFFICES ASSUME Below(Top, next), NEW b \in ContractAddrs
                 PROVE  modification_index(new, b) < next + 1
      BY DEF Below
    <3>1. CASE b = c
      BY <1>1, <2>4, <3>1
    <3>2. CASE b # c
      <4>1. modification_index(new, b) = modification_index(Top, b)
        BY <2>4, <3>2
      <4>2. modification_index(Top, b) < next /\ modification_index(Top, b) \in Nat
        BY <1>1 DEF Below, modification_index, LayerOK, Changes, ContractChanges
      <4> QED
        BY <1>1, <4>1, <4>2
    <3> QED
      BY <3>1, <3>2
  <2>6. \A l : Below(l, next) /\ Agree(Top, l) => Agree(new, l)
    <3> SUFFICES ASSUME NEW l, Below(l, next), Agree(Top, l),
                        NEW b \in ContractAddrs, contracts[b] # None,
                        modification_index(new, b) = modification_index(l, b)
                 PROVE  contract_state(new, b) = contract_state(l, b)
      BY DEF Agree
    <3>1. b # c
      BY <1>1, <2>4 DEF Below
    <3> QED
      BY <2>4, <3>1 DEF Agree
  <2>7. Current(running, Top) => Current(i.data, new)
    BY <1>1, <2>3, <2>4 DEF Current, c
  <2> QED
    BY <1>1, <2>2, <2>3, <2>4, <2>5, <2>6, <2>7, <2>8 DEF c
<1> QED
  BY <1>2, <1>3

-----------------------------------------------------------------------------
(* Callers, as layers and frames come and go *)

(* Layers with the same states agree and lie below the same indices. *)
LEMMA KeptViews ==
    ASSUME NEW l1, NEW l2, StatesKept(l1, l2)
    PROVE  /\ \A l : Agree(l1, l) => Agree(l2, l)
           /\ \A i : Below(l1, i) => Below(l2, i)
  BY DEF StatesKept, Agree, Below

(* Callers only look at layers below the topmost one. *)
LEMMA CallersMoved ==
    ASSUME NEW s, NEW cs, NEW cs2, NEW len \in Nat, NEW tr, StackOK(s, len, tr),
           \A d \in 1 .. (len - 1) : cs2[d] = cs[d]
    PROVE  /\ CallersOK(s, cs) => CallersOK(s, cs2)
           /\ \A i : CallersBelow(s, cs, i) => CallersBelow(s, cs2, i)
           /\ \A l : CallersAgree(s, cs, l) => CallersAgree(s, cs2, l)
<1>1. s \in Seq(FrameType) /\ Len(s) \in Nat
  BY LenProperties DEF StackOK
<1>2. \A n \in 1 .. Len(s) : Awaits(s, n) => s[n].depth \in Nat
  BY <1>1, ElementOfSeq, FrameFacts DEF Awaits
<1>3. \A n \in 1 .. Len(s) : Awaits(s, n) => s[n].depth >= 1 /\ s[n].depth < len
  BY DEF StackOK, Awaits
<1>4. \A n \in 1 .. Len(s) : Awaits(s, n) => LayerOf(s, cs2, n) = LayerOf(s, cs, n)
  BY <1>2, <1>3 DEF LayerOf
<1>5. \A m, n \in 1 .. Len(s) : m < n => Awaits(s, m)
  BY <1>1 DEF StackOK, Awaits
<1> QED
  BY <1>4, <1>5 DEF CallersOK, CallersBelow, CallersAgree

(* The frames below the topmost one *)
LEMMA CallersPopped ==
    ASSUME NEW s, NEW cs, NEW len, NEW tr, StackOK(s, len, tr), s # <<>>
    PROVE  LET top == s[Len(s)]
               pop == SubSeq(s, 1, Len(s) - 1)
           IN  /\ CallersOK(s, cs) =>
                    /\ CallersOK(pop, cs)
                    /\ top.kind = "await" =>
                         /\ CallersAgree(pop, cs, cs[top.depth])
                         /\ Current(top.data, cs[top.depth])
                         /\ top.data.mod_idx_before_invoke
                              = modification_index(cs[top.depth], top.data.address)
                    /\ top.kind # "initial" =>
                         CallersBelow(pop, cs, top.data.next_mod_idx_checkpoint)
               /\ \A i : CallersBelow(s, cs, i) =>
                    /\ CallersBelow(pop, cs, i)
                    /\ top.kind = "await" => Below(cs[top.depth], i)
               /\ \A l : CallersAgree(s, cs, l) =>
                    /\ CallersAgree(pop, cs, l)
                    /\ top.kind = "await" => Agree(l, cs[top.depth])
<1> DEFINE L   == Len(s)
           top == s[L]
           pop == SubSeq(s, 1, L - 1)
<1>1. s \in Seq(FrameType) /\ L \in Nat \ {0}
  BY EmptySeq, LenProperties DEF StackOK
<1>2. /\ Len(pop) = L - 1
      /\ \A n \in 1 .. (L - 1) : pop[n] = s[n]
  <2>1. L - 1 \in Int /\ 1 \in Int /\ \A n \in 1 .. (L - 1) : s[n] \in FrameType
    BY <1>1, ElementOfSeq
  <2>2. /\ Len(pop) = IF 1 <= L - 1 THEN (L - 1) - 1 + 1 ELSE 0
        /\ \A i \in 1 .. ((L - 1) - 1 + 1) : pop[i] = s[1 + i - 1]
    BY <2>1, SubSeqProperties
  <2> HIDE DEF L, pop
  <2> QED
    BY <1>1, <2>2
<1> HIDE DEF L, pop
<1>3. \A n \in 1 .. Len(pop) : n \in 1 .. L /\ n < L /\ n # L /\ pop[n] = s[n]
  BY <1>1, <1>2
<1>4. L \in 1 .. L
  BY <1>1
<1>5. \A n \in 1 .. Len(pop) : /\ Awaits(pop, n) = Awaits(s, n)
                               /\ LayerOf(pop, cs, n) = LayerOf(s, cs, n)
  BY <1>3 DEF Awaits, LayerOf
<1>6. CallersOK(s, cs) =>
        /\ CallersOK(pop, cs)
        /\ top.kind = "await" =>
             /\ CallersAgree(pop, cs, cs[top.depth])
             /\ Current(top.data, cs[top.depth])
             /\ top.data.mod_idx_before_invoke
                  = modification_index(cs[top.depth], top.data.address)
        /\ top.kind # "initial" =>
             CallersBelow(pop, cs, top.data.next_mod_idx_checkpoint)
  <2> SUFFICES ASSUME CallersOK(s, cs)
               PROVE  /\ CallersOK(pop, cs)
                      /\ top.kind = "await" =>
                           /\ CallersAgree(pop, cs, cs[top.depth])
                           /\ Current(top.data, cs[top.depth])
                           /\ top.data.mod_idx_before_invoke
                                = modification_index(cs[top.depth], top.data.address)
                      /\ top.kind # "initial" =>
                           CallersBelow(pop, cs, top.data.next_mod_idx_checkpoint)
    OBVIOUS
  <2>1. /\ \A n \in 1 .. L : Awaits(s, n) =>
             /\ Current(s[n].data, LayerOf(s, cs, n))
             /\ s[n].data.mod_idx_before_invoke
                  = modification_index(LayerOf(s, cs, n), s[n].data.address)
        /\ \A m, n \in 1 .. L : m < n =>
             /\ Awaits(s, n) => Agree(LayerOf(s, cs, n), LayerOf(s, cs, m))
             /\ s[n].kind # "initial" =>
                  Below(LayerOf(s, cs, m), s[n].data.next_mod_idx_checkpoint)
    BY DEF CallersOK, L
  <2>2. CallersOK(pop, cs)
    BY <1>3, <1>5, <2>1 DEF CallersOK
  <2>3. ASSUME top.kind = "await"
        PROVE  /\ CallersAgree(pop, cs, cs[top.depth])
               /\ Current(top.data, cs[top.depth])
               /\ top.data.mod_idx_before_invoke
                    = modification_index(cs[top.depth], top.data.address)
    <3>1. Awaits(s, L) /\ LayerOf(s, cs, L) = cs[top.depth]
      BY <2>3 DEF Awaits, LayerOf
    <3>2. \A m \in 1 .. Len(pop) : Agree(cs[top.depth], LayerOf(s, cs, m))
      BY <1>3, <1>4, <2>1, <3>1
    <3> QED
      BY <1>4, <1>5, <2>1, <3>1, <3>2 DEF CallersAgree
  <2>4. ASSUME top.kind # "initial"
        PROVE  CallersBelow(pop, cs, top.data.next_mod_idx_checkpoint)
    <3>1. \A m \in 1 .. Len(pop) : Below(LayerOf(s, cs, m), top.data.next_mod_idx_checkpoint)
      BY <1>3, <1>4, <2>1, <2>4
    <3> QED
      BY <1>5, <3>1 DEF CallersBelow
  <2> QED
    BY <2>2, <2>3, <2>4
<1>7. \A i : CallersBelow(s, cs, i) =>
        /\ CallersBelow(pop, cs, i)
        /\ top.kind = "await" => Below(cs[top.depth], i)
  BY <1>3, <1>4, <1>5 DEF CallersBelow, Awaits, LayerOf, L
<1>8. \A l : CallersAgree(s, cs, l) =>
        /\ CallersAgree(pop, cs, l)
        /\ top.kind = "await" => Agree(l, cs[top.depth])
  BY <1>3, <1>4, <1>5 DEF CallersAgree, Awaits, LayerOf, L
<1> QED
  BY <1>6, <1>7, <1>8 DEF L, pop

(* One more frame on top of callers that wait *)
LEMMA CallersPushed ==
    ASSUME NEW s \in Seq(FrameType), NEW cs, NEW f, CallersOK(s, cs),
           f.kind # "initial" => CallersBelow(s, cs, f.data.next_mod_idx_checkpoint),
           f.kind = "await" => /\ Current(f.data, cs[f.depth])
                               /\ f.data.mod_idx_before_invoke
                                    = modification_index(cs[f.depth], f.data.address)
                               /\ CallersAgree(s, cs, cs[f.depth]),
           \A n \in 1 .. Len(s) : s[n].kind = "await"
    PROVE  LET t == Append(s, f)
           IN  /\ CallersOK(t, cs)
               /\ \A i : CallersBelow(s, cs, i) /\ (f.kind = "await" => Below(cs[f.depth], i))
                    => CallersBelow(t, cs, i)
               /\ \A l : CallersAgree(s, cs, l) /\ (f.kind = "await" => Agree(l, cs[f.depth]))
                    => CallersAgree(t, cs, l)
<1> DEFINE L == Len(s)
           t == Append(s, f)
<1>1. /\ L \in Nat /\ Len(t) = L + 1
      /\ \A n \in 1 .. L : t[n] = s[n]
      /\ t[L + 1] = f
  BY LenProperties
<1>2. \A n \in 1 .. L : /\ Awaits(t, n) /\ Awaits(s, n)
                        /\ LayerOf(t, cs, n) = LayerOf(s, cs, n)
  BY <1>1 DEF Awaits, LayerOf
<1>3. /\ Awaits(t, L + 1) = (f.kind = "await")
      /\ LayerOf(t, cs, L + 1) = cs[f.depth]
  BY <1>1 DEF Awaits, LayerOf
<1> HIDE DEF t, L
<1>4. \A n \in 1 .. Len(t) : n \in 1 .. L \/ n = L + 1
  BY <1>1
<1>5. \A m, n \in 1 .. Len(t) : m < n => m \in 1 .. L
  BY <1>1
<1>6. \A n \in 1 .. Len(t) : Awaits(t, n) =>
         /\ Current(t[n].data, LayerOf(t, cs, n))
         /\ t[n].data.mod_idx_before_invoke
              = modification_index(LayerOf(t, cs, n), t[n].data.address)
  <2> SUFFICES ASSUME NEW n \in 1 .. Len(t), Awaits(t, n)
               PROVE  /\ Current(t[n].data, LayerOf(t, cs, n))
                      /\ t[n].data.mod_idx_before_invoke
                           = modification_index(LayerOf(t, cs, n), t[n].data.address)
    OBVIOUS
  <2>1. CASE n \in 1 .. L
    BY <1>1, <1>2, <2>1 DEF CallersOK, L
  <2>2. CASE n = L + 1
    BY <1>1, <1>3, <2>2
  <2> QED
    BY <1>4, <2>1, <2>2
<1>7. \A m, n \in 1 .. Len(t) : m < n =>
         /\ Awaits(t, n) => Agree(LayerOf(t, cs, n), LayerOf(t, cs, m))
         /\ t[n].kind # "initial" =>
              Below(LayerOf(t, cs, m), t[n].data.next_mod_idx_checkpoint)
  <2> SUFFICES ASSUME NEW m \in 1 .. Len(t), NEW n \in 1 .. Len(t), m < n
               PROVE  /\ Awaits(t, n) => Agree(LayerOf(t, cs, n), LayerOf(t, cs, m))
                      /\ t[n].kind # "initial" =>
                           Below(LayerOf(t, cs, m), t[n].data.next_mod_idx_checkpoint)
    OBVIOUS
  <2>1. m \in 1 .. L
    BY <1>5
  <2>2. CASE n \in 1 .. L
    BY <1>1, <1>2, <2>1, <2>2 DEF CallersOK, L
  <2>3. CASE n = L + 1
    BY <1>1, <1>2, <1>3, <2>1, <2>3 DEF CallersBelow, CallersAgree, L
  <2> QED
    BY <1>4, <2>2, <2>3
<1>8. CallersOK(t, cs)
  BY <1>6, <1>7 DEF CallersOK
<1>9. \A i : CallersBelow(s, cs, i) /\ (f.kind = "await" => Below(cs[f.depth], i))
        => CallersBelow(t, cs, i)
  BY <1>2, <1>3, <1>4 DEF CallersBelow, L
<1>10. \A l : CallersAgree(s, cs, l) /\ (f.kind = "await" => Agree(l, cs[f.depth]))
        => CallersAgree(t, cs, l)
  BY <1>2, <1>3, <1>4 DEF CallersAgree, L
<1> QED
  BY <1>8, <1>9, <1>10 DEF t

(* The layers after current_mut, checkpoint and rollback *)
LEMMA LayersMoved ==
    ASSUME LayersOK(changeset), NEW layer, LayerOK(layer)
    PROVE  LET L == Len(changeset)
           IN  /\ L \in Nat \ {0}
               /\ WithTop(layer)[L] = layer
               /\ \A d \in 1 .. (L - 1) : WithTop(layer)[d] = changeset[d]
               /\ Checkpointed(layer)[L + 1] = layer /\ Checkpointed(layer)[L] = layer
               /\ \A d \in 1 .. (L - 1) : Checkpointed(layer)[d] = changeset[d]
               /\ \A d \in 1 .. (L - 1) : RolledBack[d] = changeset[d]
<1> DEFINE L == Len(changeset)
<1>1. changeset \in Seq(Changes) /\ L \in Nat \ {0} /\ layer \in Changes /\ L \in 1 .. L
  BY EmptySeq, LenProperties DEF LayersOK, LayerOK
<1>2. /\ WithTop(layer) \in Seq(Changes)
      /\ Len(WithTop(layer)) = L
      /\ \A j \in 1 .. L : WithTop(layer)[j] = IF j = L THEN layer ELSE changeset[j]
  BY <1>1, ExceptSeq DEF WithTop
<1>3. /\ \A j \in 1 .. L : Checkpointed(layer)[j] = WithTop(layer)[j]
      /\ Checkpointed(layer)[L + 1] = layer
  BY <1>1, <1>2, AppendProperties DEF Checkpointed
<1>4. \A d \in 1 .. (L - 1) : RolledBack[d] = changeset[d]
  <2>1. L - 1 \in Int /\ 1 \in Int /\ \A n \in 1 .. (L - 1) : changeset[n] \in Changes
    BY <1>1, ElementOfSeq
  <2>2. \A i \in 1 .. ((L - 1) - 1 + 1) : RolledBack[i] = changeset[1 + i - 1]
    BY <2>1, SubSeqProperties DEF RolledBack
  <2> HIDE DEF L
  <2> QED
    BY <1>1, <2>2
<1> HIDE DEF L
<1>5. \A d \in 1 .. (L - 1) : d \in 1 .. L /\ d # L
  BY <1>1
<1> QED
  BY <1>1, <1>2, <1>3, <1>4, <1>5 DEF L

-----------------------------------------------------------------------------
(* What contracts see, step by step *)

(* A step ends in a sound view. *)
LEMMA StepView ==
    ASSUME UNCHANGED chain,
           NEW cs, changeset' = cs, NEW s, stack' = s, NEW run, running' = run,
           NEW resp, invoke_response' = resp, NEW st, status' = st,
           NEW index, next_contract_modification_index' = index,
           ~leaked' => ViewOf(cs, s, run, resp, st, index)
    PROVE  ViewInv'
<1>1. contracts' = contracts
  BY DEF chain
<1>2. \A l, c : /\ contract_state(l, c)' = contract_state(l, c)
                /\ modification_index(l, c)' = modification_index(l, c)
                /\ contract_balance(l, c)' = contract_balance(l, c)
  BY <1>1 DEF contract_state, modification_index, contract_balance
<1>3. \A l1, l2, i : (Agree(l1, l2)' <=> Agree(l1, l2)) /\ (Below(l1, i)' <=> Below(l1, i))
  BY <1>1, <1>2 DEF Agree, Below
<1>4. \A d, l : Current(d, l)' <=> Current(d, l)
  BY <1>2 DEF Current
<1>5. /\ CallersOK(s, cs)' <=> CallersOK(s, cs)
      /\ CallersBelow(s, cs, index)' <=> CallersBelow(s, cs, index)
      /\ CallersAgree(s, cs, cs[Len(cs)])' <=> CallersAgree(s, cs, cs[Len(cs)])
      /\ CallersBelow(s, cs, run.next_mod_idx_checkpoint)'
           <=> CallersBelow(s, cs, run.next_mod_idx_checkpoint)
  BY <1>2, <1>3, <1>4 DEF CallersOK, CallersBelow, CallersAgree, LayerOf, Awaits
<1>6. ViewOf(cs, s, run, resp, st, index)' <=> ViewOf(cs, s, run, resp, st, index)
  BY <1>3, <1>4, <1>5 DEF ViewOf, Seen
<1>7. ViewOK' <=> ViewOf(cs, s, run, resp, st, index)'
  BY DEF ViewOK
<1> QED
  BY <1>6, <1>7 DEF ViewInv

(* The view before a step, in parts *)
LEMMA ViewFacts ==
    ASSUME Inv, ViewInv, ~leaked
    PROVE  /\ CallersOK(stack, changeset)
           /\ CallersBelow(stack, changeset, next_contract_modification_index)
           /\ CallersAgree(stack, changeset, Top)
           /\ running # None =>
                CallersBelow(stack, changeset, running.next_mod_idx_checkpoint)
           /\ status \in {"pop", "exec"} /\ (invoke_response # None => invoke_response.success)
                => Below(Top, next_contract_modification_index)
           /\ status = "pop" /\ stack # <<>> /\ Frame.kind = "resume"
                => Current(Seen(Frame.data, Frame.response), Top)
           /\ status = "exec" => Current(running, Top)
  BY DEF ViewInv, ViewOK, ViewOf, Top, Frame

(* Ending the invocation *)
LEMMA ExitView ==
    ASSUME ViewInv, NEW s, s \notin {"pop", "exec"}, NEW energy, Exit(s, energy)
    PROVE  ViewInv'
<1>1. /\ UNCHANGED chain
      /\ changeset' = changeset /\ stack' = stack /\ running' = running
      /\ invoke_response' = invoke_response /\ status' = s
      /\ next_contract_modification_index' = next_contract_modification_index
      /\ leaked' = leaked
  BY DEF Exit
<1>2. ~leaked' => ViewOf(changeset, stack, running, invoke_response, s,
                         next_contract_modification_index)
  BY <1>1 DEF ViewInv, ViewOK, ViewOf
<1> QED
  BY <1>1, <1>2, StepView

(* The topmost layer is replaced while s waits. *)
LEMMA TopReplaced ==
    ASSUME LayersOK(changeset), NEW layer, LayerOK(layer),
           NEW s, NEW tr, StackOK(s, Len(changeset), tr), CallersOK(s, changeset)
    PROVE  LET cs == WithTop(layer)
           IN  /\ cs[Len(cs)] = layer
               /\ CallersOK(s, cs)
               /\ \A i : CallersBelow(s, changeset, i) => CallersBelow(s, cs, i)
               /\ \A l : CallersAgree(s, changeset, l) => CallersAgree(s, cs, l)
<1>1. /\ Len(changeset) \in Nat
      /\ Len(WithTop(layer)) = Len(changeset)
      /\ WithTop(layer)[Len(changeset)] = layer
      /\ \A d \in 1 .. (Len(changeset) - 1) : WithTop(layer)[d] = changeset[d]
  BY Layers, LayersMoved
<1> QED
  BY <1>1, CallersMoved

(* A topmost layer with the same states *)
LEMMA TopKept ==
    ASSUME Inv, ViewInv, ~leaked, NEW layer, LayerOK(layer), StatesKept(Top, layer)
    PROVE  LET cs == WithTop(layer)
           IN  /\ cs[Len(cs)] = layer
               /\ CallersOK(stack, cs)
               /\ CallersBelow(stack, cs, next_contract_modification_index)
               /\ CallersAgree(stack, cs, layer)
               /\ status \in {"pop", "exec"} /\ (invoke_response # None => invoke_response.success)
                    => Below(layer, next_contract_modification_index)
<1>1. /\ LayersOK(changeset)
      /\ StackOK(stack, Len(changeset), trace_elements)
  BY DEF Inv
<1>2. CallersOK(stack, changeset) /\ CallersAgree(stack, changeset, Top)
  BY ViewFacts
<1>3. CallersAgree(stack, changeset, layer)
  BY <1>2, KeptViews DEF CallersAgree
<1> QED
  BY <1>1, <1>2, <1>3, TopReplaced, ViewFacts, KeptViews

(* An entrypoint that could not be started *)
LEMMA InitialAnswersView ==
    ASSUME Inv, ViewInv, status = "pop", stack # <<>>, Frame.kind = "initial",
           NEW layer, LayerOK(layer), StatesKept(Top, layer), InitialAnswers(layer)
    PROVE  ViewInv'
<1> DEFINE cs == WithTop(layer)
<1>1. /\ UNCHANGED chain /\ changeset' = cs /\ stack' = Popped
      /\ running' = running /\ invoke_response' = Failure /\ status' = "pop"
      /\ next_contract_modification_index' = next_contract_modification_index
      /\ leaked' = leaked
  BY DEF InitialAnswers
<1>2. running = None
  BY DEF Inv, RunningOK
<1>3. StackOK(stack, Len(changeset), trace_elements)
  BY DEF Inv
<1>4. Popped = <<>> \/ Popped[Len(Popped)].kind = "await"
  BY PopFacts
<1>5. Failure # None /\ ~Failure.success
  BY Answers DEF Failure
<1>6. ASSUME ~leaked
      PROVE  ViewOf(cs, Popped, running, Failure, "pop", next_contract_modification_index)
  <2>1. /\ cs[Len(cs)] = layer
        /\ CallersOK(stack, cs)
        /\ CallersBelow(stack, cs, next_contract_modification_index)
        /\ CallersAgree(stack, cs, layer)
    BY <1>6, TopKept
  <2>2. /\ CallersOK(Popped, cs)
        /\ CallersBelow(Popped, cs, next_contract_modification_index)
        /\ CallersAgree(Popped, cs, layer)
    BY <1>3, <2>1, CallersPopped DEF Popped
  <2> QED
    BY <1>2, <1>4, <1>5, <2>1, <2>2 DEF ViewOf
<1> QED
  BY <1>1, <1>6, StepView

(* The transfer that starts an entrypoint *)
LEMMA InitialTransferView ==
    ASSUME Inv, status = "pop", stack # <<>>, Frame.kind = "initial"
    PROVE  LET t == InitialTransfer(Frame)
           IN  /\ LayerOK(t.layer)
               /\ StatesKept(Top, t.layer) /\ ModulesKept(Top, t.layer)
               /\ t.err = "ok" => contract_balance(t.layer, Frame.address) = t.balance
<1> DEFINE f == Frame
           t == InitialTransfer(f)
<1>1. f \in FrameType /\ FrameOK(f) /\ LayerOK(Top) /\ ChainOK
  BY PopFacts DEF Inv
<1>2. f.sender \in Addresses /\ f.address \in ContractAddrs /\ f.amount \in Amount
  BY <1>1, FrameFacts
<1>3. f.amount \in Nat
  BY <1>2, MaxAmountAssumption DEF Amount
<1>4. LayerOK(t.layer)
  BY InitialTransferOK
<1>5. CASE f.amount = 0
  <2>1. /\ t.layer = Top
        /\ t.balance = contract_balance(Top, f.address)
    BY <1>5 DEF InitialTransfer, Result
  <2> QED
    BY <1>4, <2>1 DEF StatesKept, ModulesKept
<1>6. CASE f.amount # 0 /\ f.sender \in AccountAddrs
  <2>1. t = transfer_from_account_to_contract(Top, f.amount, f.sender, f.address)
    BY <1>6 DEF InitialTransfer
  <2>2. accounts[KeyOf[f.sender]] # None
    BY <1>1, <1>6 DEF FrameOK
  <2> QED
    BY <1>1, <1>2, <1>3, <1>4, <1>6, <2>1, <2>2, AccountContractView
<1>7. CASE f.amount # 0 /\ f.sender \notin AccountAddrs
  <2>1. t = transfer_from_contract_to_contract(Top, f.amount, f.sender, f.address)
    BY <1>7 DEF InitialTransfer
  <2>2. f.sender \in ContractAddrs /\ contracts[f.sender] # None
    BY <1>1, <1>2, <1>7 DEF FrameOK, Addresses
  <2> QED
    BY <1>1, <1>2, <1>3, <1>4, <2>1, <2>2, ContractContractView
<1> QED
  BY <1>5, <1>6, <1>7

(* An entrypoint starts with the topmost layer. *)
LEMMA InitialRunsView == ASSUME Inv, ViewInv, InitialRuns PROVE ViewInv'
<1> DEFINE t     == InitialTransfer(Frame)
           cs    == WithTop(t.layer)
           index == next_contract_modification_index
           run   == [address       |-> Frame.address,
                     contract_name |-> Frame.name,
                     state         |-> contract_state(t.layer, Frame.address),
                     self_balance  |-> t.balance,
                     trace_elements_checkpoint |-> Frame.trace_elements_checkpoint,
                     next_mod_idx_checkpoint   |-> index,
                     mod_idx_before_invoke     |-> index]
<1>1. /\ status = "pop" /\ stack # <<>> /\ Frame.kind = "initial" /\ t.err = "ok"
      /\ UNCHANGED chain /\ changeset' = cs /\ stack' = Popped
      /\ running' = run /\ invoke_response' = invoke_response /\ status' = "exec"
      /\ next_contract_modification_index' = index
      /\ leaked' = leaked
  BY DEF InitialRuns
<1>2. StackOK(stack, Len(changeset), trace_elements)
  BY DEF Inv
<1>3. invoke_response = None
  BY <1>1 DEF Inv, ResponseReady
<1>4. /\ LayerOK(t.layer) /\ StatesKept(Top, t.layer)
      /\ contract_balance(t.layer, Frame.address) = t.balance
  BY <1>1, InitialTransferView
<1>5. /\ run.next_mod_idx_checkpoint = index /\ run.address = Frame.address
      /\ run.state = contract_state(t.layer, Frame.address)
      /\ run.self_balance = t.balance
  OBVIOUS
<1> HIDE DEF t, run
<1>6. ASSUME ~leaked
      PROVE  ViewOf(cs, Popped, run, invoke_response, "exec", index)
  <2>1. /\ cs[Len(cs)] = t.layer
        /\ CallersOK(stack, cs)
        /\ CallersBelow(stack, cs, index)
        /\ CallersAgree(stack, cs, t.layer)
        /\ Below(t.layer, index)
    BY <1>1, <1>3, <1>4, <1>6, TopKept
  <2>2. /\ CallersOK(Popped, cs)
        /\ CallersBelow(Popped, cs, index)
        /\ CallersAgree(Popped, cs, t.layer)
    BY <1>1, <1>2, <2>1, CallersPopped DEF Popped
  <2>3. Current(run, t.layer)
    BY <1>4, <1>5 DEF Current
  <2> QED
    BY <1>5, <2>1, <2>2, <2>3 DEF ViewOf
<1> QED
  BY <1>1, <1>6, StepView

(* Resuming after an interrupt that was answered at once *)
LEMMA ResumeImmediateView == ASSUME Inv, ViewInv, ResumeImmediate PROVE ViewInv'
<1> DEFINE run   == Seen(Frame.data, Frame.response)
           index == next_contract_modification_index
<1>1. /\ status = "pop" /\ stack # <<>> /\ Frame.kind = "resume"
      /\ UNCHANGED chain /\ changeset' = changeset /\ stack' = Popped
      /\ running' = run /\ invoke_response' = invoke_response /\ status' = "exec"
      /\ next_contract_modification_index' = index
      /\ leaked' = leaked
  BY DEF ResumeImmediate
<1>2. StackOK(stack, Len(changeset), trace_elements)
  BY DEF Inv
<1>3. invoke_response = None
  BY <1>1 DEF Inv, ResponseReady
<1>4. run.next_mod_idx_checkpoint = Frame.data.next_mod_idx_checkpoint
  <2>1. Frame \in FrameType
    BY <1>1, PopFacts
  <2>2. Frame.data \in InvocationData
    BY <1>1, <2>1, FrameFacts
  <2> QED
    BY <2>2 DEF Seen, InvocationData
<1> HIDE DEF run
<1>5. ASSUME ~leaked
      PROVE  ViewOf(changeset, Popped, run, invoke_response, "exec", index)
  <2>1. /\ CallersOK(stack, changeset)
        /\ CallersBelow(stack, changeset, index)
        /\ CallersAgree(stack, changeset, Top)
        /\ Below(Top, index)
        /\ Current(run, Top)
    BY <1>1, <1>3, <1>5, ViewFacts DEF run
  <2>2. /\ CallersOK(Popped, changeset)
        /\ CallersBelow(Popped, changeset, index)
        /\ CallersAgree(Popped, changeset, Top)
        /\ CallersBelow(Popped, changeset, Frame.data.next_mod_idx_checkpoint)
    BY <1>1, <1>2, <2>1, CallersPopped DEF Popped, Frame
  <2> QED
    BY <1>4, <2>1, <2>2 DEF ViewOf, Top
<1> QED
  BY <1>1, <1>5, StepView

(* Resuming after a call that succeeded: the index tells whether the state  *)
(* that the caller remembers is that of the topmost layer.                  *)
LEMMA ResumeAfterSuccessView == ASSUME Inv, ViewInv, ResumeAfterSuccess PROVE ViewInv'
<1> DEFINE data  == Frame.data
           old   == changeset[Frame.depth]
           mod   == modification_index(Top, data.address)
           run   == [data EXCEPT !.self_balance = contract_balance(Top, data.address),
                                 !.state = IF mod # data.mod_idx_before_invoke
                                             THEN contract_state(Top, data.address) ELSE @]
           index == next_contract_modification_index
<1>1. /\ status = "pop" /\ stack # <<>> /\ Frame.kind = "await"
      /\ invoke_response # None /\ invoke_response.success
      /\ UNCHANGED chain /\ changeset' = changeset /\ stack' = Popped
      /\ running' = run /\ invoke_response' = None /\ status' = "exec"
      /\ next_contract_modification_index' = index
      /\ leaked' = leaked
  BY DEF ResumeAfterSuccess
<1>2. StackOK(stack, Len(changeset), trace_elements)
  BY DEF Inv
<1>3. data \in InvocationData /\ contracts[data.address] # None /\ data.address \in ContractAddrs
  <2>1. Frame \in FrameType /\ FrameOK(Frame)
    BY <1>1, PopFacts
  <2>2. data \in InvocationData
    BY <1>1, <2>1, FrameFacts
  <2> QED
    BY <1>1, <2>1, <2>2 DEF FrameOK, InvocationData
<1>4. /\ run.next_mod_idx_checkpoint = data.next_mod_idx_checkpoint
      /\ run.address = data.address
      /\ run.self_balance = contract_balance(Top, data.address)
      /\ run.state = IF mod # data.mod_idx_before_invoke
                       THEN contract_state(Top, data.address) ELSE data.state
  BY <1>3 DEF InvocationData
<1> HIDE DEF run
<1>5. ASSUME ~leaked
      PROVE  ViewOf(changeset, Popped, run, None, "exec", index)
  <2>1. /\ CallersOK(stack, changeset)
        /\ CallersBelow(stack, changeset, index)
        /\ CallersAgree(stack, changeset, Top)
        /\ Below(Top, index)
    BY <1>1, <1>5, ViewFacts
  <2>2. /\ CallersOK(Popped, changeset)
        /\ CallersBelow(Popped, changeset, index)
        /\ CallersAgree(Popped, changeset, Top)
        /\ CallersBelow(Popped, changeset, data.next_mod_idx_checkpoint)
        /\ Current(data, old)
        /\ data.mod_idx_before_invoke = modification_index(old, data.address)
        /\ Agree(Top, old)
    BY <1>1, <1>2, <2>1, CallersPopped DEF Popped, Frame
  <2>3. mod = data.mod_idx_before_invoke => contract_state(Top, data.address) = data.state
    BY <1>3, <2>2 DEF Agree, Current
  <2>4. Current(run, Top)
    BY <1>4, <2>3 DEF Current
  <2> QED
    BY <1>4, <2>1, <2>2, <2>4 DEF ViewOf, Top
<1> QED
  BY <1>1, <1>5, StepView

(* Resuming after a call that failed: if nothing of it is left, the topmost *)
(* layer is again what the caller had.                                      *)
LEMMA ResumeAfterFailureView == ASSUME Inv, ViewInv, ResumeAfterFailure PROVE ViewInv'
<1> DEFINE data  == Frame.data
           old   == changeset[Frame.depth]
           L     == Len(changeset)
           index == next_contract_modification_index
<1>1. /\ status = "pop" /\ stack # <<>> /\ Frame.kind = "await"
      /\ UNCHANGED chain /\ changeset' = RolledBack /\ stack' = Popped
      /\ running' = data /\ invoke_response' = None /\ status' = "exec"
      /\ next_contract_modification_index' = index
      /\ leaked' = (leaked \/ changeset[L - 1] # old)
  BY DEF ResumeAfterFailure
<1>2. /\ StackOK(stack, L, trace_elements) /\ LayersOK(changeset)
  BY DEF Inv
<1>3. /\ StackOK(Popped, L - 1, trace_elements) /\ L > 1 /\ L \in Nat \ {0}
  BY <1>1, PopFacts
<1>4. Len(RolledBack) = L - 1
  BY <1>2, <1>3, LayersPop
<1>5. \A d \in 1 .. (L - 1) : RolledBack[d] = changeset[d]
  <2>1. LayerOK(Top)
    BY <1>1, PopFacts
  <2> QED
    BY <1>2, <2>1, LayersMoved
<1> HIDE DEF L
<1>6. ASSUME ~leaked'
      PROVE  ViewOf(RolledBack, Popped, data, None, "exec", index)
  <2>1. ~leaked /\ changeset[L - 1] = old
    BY <1>1, <1>6
  <2>2. /\ CallersOK(stack, changeset)
        /\ CallersBelow(stack, changeset, index)
    BY <1>1, <2>1, ViewFacts
  <2>3. /\ CallersOK(Popped, changeset)
        /\ CallersBelow(Popped, changeset, index)
        /\ Below(old, index)
        /\ CallersAgree(Popped, changeset, old)
        /\ CallersBelow(Popped, changeset, data.next_mod_idx_checkpoint)
        /\ Current(data, old)
    BY <1>1, <1>2, <2>2, CallersPopped DEF Popped, Frame
  <2>4. L - 1 \in Nat /\ L - 1 \in 1 .. (L - 1)
    BY <1>3
  <2>5. RolledBack[Len(RolledBack)] = old
    BY <1>4, <1>5, <2>1, <2>4
  <2>6. \A d \in 1 .. ((L - 1) - 1) : RolledBack[d] = changeset[d]
    BY <1>3, <1>5
  <2>7. /\ CallersOK(Popped, RolledBack)
        /\ CallersBelow(Popped, RolledBack, index)
        /\ CallersAgree(Popped, RolledBack, old)
        /\ CallersBelow(Popped, RolledBack, data.next_mod_idx_checkpoint)
    BY <1>3, <2>3, <2>4, <2>6, CallersMoved
  <2> QED
    BY <2>3, <2>5, <2>7 DEF ViewOf
<1> QED
  BY <1>1, <1>6, StepView

-----------------------------------------------------------------------------
(* How an interrupt ends *)

(* The layer and the response that the contract goes on with *)
Answered(write, layer, response) ==
    LET i == Interrupted(write)
    IN  /\ LayerOK(layer)
        /\ StatesKept(i.layer, layer)
        /\ Current(i.data, i.layer) => Current(Seen(i.data, response), layer)
        /\ FundsKept(i.layer) => FundsKept(layer)
        /\ LayerDelta(layer) = LayerDelta(i.layer)
        /\ \A c \in ContractAddrs :
             \/ UpgradeOf(layer, c) = UpgradeOf(i.layer, c)
             \/ /\ c = running.address
                /\ modules[UpgradeOf(layer, c)] # None
                /\ running.contract_name \in modules[UpgradeOf(layer, c)].exports

(* A failure is answered with what the interrupt left. *)
LEMMA FailureAnswered ==
    ASSUME NEW write, LayerOK(Interrupted(write).layer)
    PROVE  Answered(write, Interrupted(write).layer, Failure)
<1>1. Seen(Interrupted(write).data, Failure) = Interrupted(write).data
  BY DEF Seen, Failure
<1> HIDE DEF Failure
<1> QED
  BY <1>1 DEF Answered, StatesKept

(* A success shows the contract its balance. *)
LEMMA SuccessCurrent ==
    ASSUME NEW data \in InvocationData, NEW l1, NEW l2, StatesKept(l1, l2),
           Current(data, l1), NEW balance, balance = contract_balance(l2, data.address)
    PROVE  Current(Seen(data, Success(balance)), l2)
<1> DEFINE seen == Seen(data, Success(balance))
<1>1. /\ seen.state = data.state /\ seen.address = data.address
      /\ seen.self_balance = balance
  BY DEF Seen, Success, InvocationData
<1>2. data.address \in ContractAddrs
  BY DEF InvocationData
<1> QED
  BY <1>1, <1>2 DEF Current, StatesKept

(* A query only looks. *)
LEMMA QueryAnswered ==
    ASSUME Inv, status = "exec", NEW write \in Writes, NEW response,
           response \in {Failure, Success(OwnBalance(Interrupted(write)))}
    PROVE  Answered(write, Interrupted(write).layer, response)
<1> DEFINE i == Interrupted(write)
<1>1. LayerOK(i.layer) /\ i.data \in InvocationData /\ i.data.address = running.address
  BY InterruptedOK
<1>2. CASE response = Failure
  BY <1>1, <1>2, FailureAnswered
<1>3. CASE response = Success(contract_balance(i.layer, running.address))
  <2>1. StatesKept(i.layer, i.layer)
    BY DEF StatesKept
  <2>2. Current(i.data, i.layer) => Current(Seen(i.data, response), i.layer)
    BY <1>1, <1>3, <2>1, SuccessCurrent
  <2> QED
    BY <1>1, <2>1, <2>2 DEF Answered
<1> QED
  BY <1>2, <1>3 DEF OwnBalance

(* A transfer pays from the contract, or changes nothing. *)
LEMMA TransferAnswered ==
    ASSUME Inv, status = "exec", NEW write \in Writes,
           NEW to \in AccountAddrs, NEW amount \in Amounts
    PROVE  LET i == Interrupted(write)
               t == transfer_from_contract_to_account(i.layer, amount, running.address, to)
           IN  t.err \notin Unrecoverable =>
                 Answered(write, t.layer, IF t.err = "ok" THEN Success(t.balance) ELSE Failure)
<1> DEFINE i    == Interrupted(write)
           t    == transfer_from_contract_to_account(i.layer, amount, running.address, to)
           resp == IF t.err = "ok" THEN Success(t.balance) ELSE Failure
<1>1. LayerOK(i.layer) /\ i.data \in InvocationData /\ i.data.address = running.address
  BY InterruptedOK
<1>2. running.address \in ContractAddrs /\ contracts[running.address] # None /\ ChainOK
  BY RunFacts
<1>3. amount \in Nat
  BY CostAssumption, MaxAmountAssumption DEF Amount
<1>4. LayerOK(t.layer)
  BY <1>1, <1>2, <1>3, TransferContractAccount DEF ResultOK
<1>5. /\ StatesKept(i.layer, t.layer) /\ ModulesKept(i.layer, t.layer)
      /\ t.err \notin Unrecoverable =>
           IF t.err = "ok" THEN contract_balance(t.layer, running.address) = t.balance
                           ELSE t.layer = i.layer
      /\ FundsKept(i.layer) => FundsKept(t.layer)
  BY <1>1, <1>2, <1>3, ContractAccountView
<1>8. t.err \notin Unrecoverable => LayerDelta(t.layer) = LayerDelta(i.layer)
  BY <1>1, <1>2, <1>3, ContractAccountConserves DEF Conserves, Unrecoverable
<1> HIDE DEF t
<1> SUFFICES ASSUME t.err \notin Unrecoverable PROVE Answered(write, t.layer, resp)
  BY DEF t
<1>6. CASE t.err # "ok"
  BY <1>1, <1>5, <1>6, FailureAnswered
<1>7. CASE t.err = "ok"
  <2>1. Current(i.data, i.layer) => Current(Seen(i.data, resp), t.layer)
    BY <1>1, <1>5, <1>7, SuccessCurrent
  <2> QED
    BY <1>4, <1>5, <1>8, <2>1 DEF Answered, ModulesKept
<1> QED
  BY <1>6, <1>7

(* An upgrade changes the module of the contract that asks for it. *)
LEMMA UpgradeAnswered ==
    ASSUME Inv, status = "exec", NEW write \in Writes,
           NEW m \in ModuleRefs, modules[m] # None,
           running.contract_name \in modules[m].exports
    PROVE  LET i == Interrupted(write)
           IN  Answered(write, save_module_upgrade(i.layer, running.address, m),
                        Success(contract_balance(i.layer, running.address)))
<1> DEFINE i     == Interrupted(write)
           layer == save_module_upgrade(i.layer, running.address, m)
           resp  == Success(contract_balance(i.layer, running.address))
<1>1. LayerOK(i.layer) /\ i.data \in InvocationData /\ i.data.address = running.address
  BY InterruptedOK
<1>2. running.address \in ContractAddrs /\ contracts[running.address] # None /\ ChainOK
  BY RunFacts
<1>3. LayerOK(layer)
  BY <1>1, <1>2, SaveUpgrade
<1>4. /\ StatesKept(i.layer, layer)
      /\ \A b \in ContractAddrs : contract_balance(layer, b) = contract_balance(i.layer, b)
      /\ UpgradeOf(layer, running.address) = m
      /\ \A b \in ContractAddrs \ {running.address} : UpgradeOf(layer, b) = UpgradeOf(i.layer, b)
      /\ layer.accounts = i.layer.accounts
  BY <1>1, <1>2, UpgradeView
<1>9. LayerDelta(layer) = LayerDelta(i.layer)
  BY <1>1, <1>2, SavesConserve
<1> HIDE DEF layer
<1>5. Current(i.data, i.layer) => Current(Seen(i.data, resp), layer)
  BY <1>1, <1>2, <1>4, SuccessCurrent
<1>6. FundsKept(i.layer) => FundsKept(layer)
  BY <1>4 DEF FundsKept
<1>7. \A c \in ContractAddrs :
         \/ UpgradeOf(layer, c) = UpgradeOf(i.layer, c)
         \/ /\ c = running.address
            /\ modules[UpgradeOf(layer, c)] # None
            /\ running.contract_name \in modules[UpgradeOf(layer, c)].exports
  BY <1>4
<1>8. Answered(write, layer, resp)
  BY <1>3, <1>4, <1>5, <1>6, <1>7, <1>9 DEF Answered
<1> QED
  BY <1>8 DEF layer

(* The three ways: the invocation ends, the contract is answered, or another *)
(* one is called.                                                          *)
Exits == \E s \in Statuses \ {"pop", "exec"} : \E energy : Exit(s, energy)

Answering ==
    \E write \in Writes : \E layer, energy, response, traces :
      /\ Answered(write, layer, response)
      /\ Answer(Interrupted(write), layer, energy, response, traces)

Calling ==
    \E write \in Writes, used \in InterruptUses, to \in ContractAddrs,
       entrypoint \in Entrypoints, amount \in Amounts :
      RunCalls(write, used, to, entrypoint, amount)

(* Every interrupt ends in one of the three ways. *)
LEMMA InterruptEnds ==
    ASSUME Inv, RunInterrupts
    PROVE  status = "exec" /\ (Exits \/ Answering \/ Calling)
<1> PICK write \in Writes, used \in InterruptUses :
      \/ \E to \in AccountAddrs, amount \in Amounts : RunTransfers(write, used, to, amount)
      \/ \E to \in ContractAddrs : RunCallsMissing(write, used, to)
      \/ \E to \in ContractAddrs, entrypoint \in Entrypoints, amount \in Amounts :
            RunCalls(write, used, to, entrypoint, amount)
      \/ \E m \in ModuleRefs : \/ RunUpgradeFails(write, used, m)
                               \/ RunUpgrades(write, used, m)
                               \/ RunUpgradeExits(used, m)
      \/ \E kind \in QueryKinds : \E a \in QueryTargets(kind) :
            RunQueries(write, used, kind, a)
      \/ \E a \in AccountAddrs : RunQueriesKeys(write, used, a)
      \/ \E a \in AccountAddrs, payload \in Payloads :
            RunChecksSignature(write, used, a, payload)
  BY DEF RunInterrupts
<1> DEFINE i == Interrupted(write)
<1>1. status = "exec"
  BY DEF RunTransfers, RunCallsMissing, RunCalls, RunUpgradeFails, RunUpgrades,
         RunUpgradeExits, RunQueries, RunQueriesKeys, RunChecksSignature
<1>2. LayerOK(i.layer)
  BY <1>1, InterruptedOK
<1>3. ExitOutOfEnergy => Exits
  BY DEF ExitOutOfEnergy, Exits, Statuses
<1>4. Answered(write, i.layer, Failure) /\ Answered(write, i.layer, Success(OwnBalance(i)))
  BY <1>1, QueryAnswered
<1>5. \A energy, response, traces :
        response \in {Failure, Success(OwnBalance(i))}
          /\ Answer(i, i.layer, energy, response, traces) => Answering
  BY <1>4 DEF Answering
<1>6. ASSUME NEW to \in AccountAddrs, NEW amount \in Amounts, RunTransfers(write, used, to, amount)
      PROVE  Exits \/ Answering
  <2> DEFINE t      == transfer_from_contract_to_account(i.layer, amount, running.address, to)
             resp   == IF t.err = "ok" THEN Success(t.balance) ELSE Failure
  <2>1. \/ t.err \in Unrecoverable /\ Exit(ExitOf(t.err), EnergyAfter(used))
        \/ ExitOutOfEnergy
        \/ /\ t.err \notin Unrecoverable
           /\ Answer(i, t.layer, EnergyAfter(used) - SimpleTransferCost, resp,
                     IF t.err = "ok" THEN 3 ELSE 2)
    BY <1>6 DEF RunTransfers
  <2>2. t.err \notin Unrecoverable => Answered(write, t.layer, resp)
    BY <1>1, TransferAnswered
  <2>3. ExitOf(t.err) \in Statuses \ {"pop", "exec"}
    BY DEF ExitOf, Statuses
  <2> HIDE DEF t, resp, i
  <2>4. Exit(ExitOf(t.err), EnergyAfter(used)) => Exits
    BY <2>3 DEF Exits
  <2>5. /\ t.err \notin Unrecoverable
        /\ Answer(i, t.layer, EnergyAfter(used) - SimpleTransferCost, resp,
                  IF t.err = "ok" THEN 3 ELSE 2)
        => Answering
    BY <2>2 DEF Answering, i
  <2> QED
    BY <1>3, <2>1, <2>4, <2>5
<1>7. ASSUME NEW to \in ContractAddrs, RunCallsMissing(write, used, to) PROVE Answering
  BY <1>5, <1>7 DEF RunCallsMissing
<1>8. ASSUME NEW m \in ModuleRefs, RunUpgradeFails(write, used, m) PROVE Answering
  BY <1>5, <1>8 DEF RunUpgradeFails
<1>9. ASSUME NEW m \in ModuleRefs, RunUpgrades(write, used, m) PROVE Answering
  <2> DEFINE layer == save_module_upgrade(i.layer, running.address, m)
             resp  == Success(contract_balance(i.layer, running.address))
  <2>1. /\ modules[m] # None /\ running.contract_name \in modules[m].exports
        /\ \E energy : Answer(i, layer, energy, resp, 3)
    BY <1>9 DEF RunUpgrades
  <2>2. Answered(write, layer, resp)
    BY <1>1, <2>1, UpgradeAnswered
  <2> QED
    BY <2>1, <2>2 DEF Answering
<1>10. ASSUME NEW m \in ModuleRefs, RunUpgradeExits(used, m) PROVE Exits
  BY <1>3, <1>10 DEF RunUpgradeExits
<1>11. ASSUME NEW kind \in QueryKinds, NEW a, RunQueries(write, used, kind, a)
       PROVE  Exits \/ Answering
  BY <1>3, <1>5, <1>11 DEF RunQueries
<1>12. ASSUME NEW a \in AccountAddrs, RunQueriesKeys(write, used, a)
       PROVE  Exits \/ Answering
  BY <1>3, <1>5, <1>12 DEF RunQueriesKeys
<1>13. ASSUME NEW a \in AccountAddrs, NEW payload \in Payloads,
              RunChecksSignature(write, used, a, payload)
       PROVE  Exits \/ Answering
  <2>1. \A energy : Exit("panic", energy) => Exits
    BY DEF Exits, Statuses
  <2> HIDE DEF Exits
  <2> QED
    BY <1>3, <1>5, <1>13, <2>1 DEF RunChecksSignature
<1>14. ASSUME NEW to \in ContractAddrs, NEW entrypoint \in Entrypoints, NEW amount \in Amounts,
              RunCalls(write, used, to, entrypoint, amount)
       PROVE  Calling
  BY <1>14 DEF Calling
<1> HIDE DEF Exits, Answering, Calling
<1> QED
  BY <1>1, <1>6, <1>7, <1>8, <1>9, <1>10, <1>11, <1>12, <1>13, <1>14

(* Indices that were handed out stay below a larger one. *)
LEMMA CallersStayBelow ==
    ASSUME LayersOK(changeset), NEW s, NEW tr, StackOK(s, Len(changeset), tr),
           NEW i \in Nat, NEW j \in Nat, i <= j, CallersBelow(s, changeset, i)
    PROVE  CallersBelow(s, changeset, j)
<1>1. s \in Seq(FrameType) /\ changeset \in Seq(Changes) /\ Len(changeset) \in Nat
  BY LenProperties DEF StackOK, LayersOK
<1> SUFFICES ASSUME NEW n \in 1 .. Len(s), Awaits(s, n), NEW c \in ContractAddrs
             PROVE  modification_index(LayerOf(s, changeset, n), c) < j
  BY DEF CallersBelow, Below
<1>2. s[n].depth \in Nat /\ s[n].depth >= 1 /\ s[n].depth < Len(changeset)
  BY <1>1, ElementOfSeq, FrameFacts DEF StackOK, Awaits
<1>3. LayerOf(s, changeset, n) \in Changes
  BY <1>1, <1>2, ElementOfSeq DEF LayerOf
<1>4. modification_index(LayerOf(s, changeset, n), c) \in Nat
  BY <1>3 DEF Changes, ContractChanges, modification_index
<1>5. modification_index(LayerOf(s, changeset, n), c) < i
  BY DEF CallersBelow, Below
<1> QED
  BY <1>4, <1>5

(* What the callers of an interrupted or finished entrypoint find, whatever *)
(* becomes of the topmost layer                                             *)
LEMMA InterruptedCallers ==
    ASSUME Inv, ViewInv, ~leaked, status = "exec", NEW write \in Writes,
           NEW cs, \A d \in 1 .. (Len(changeset) - 1) : cs[d] = changeset[d],
           NEW layer, StatesKept(Interrupted(write).layer, layer)
    PROVE  LET i == Interrupted(write)
           IN  /\ CallersOK(stack, cs)
               /\ CallersBelow(stack, cs, i.index)
               /\ CallersBelow(stack, cs, i.data.next_mod_idx_checkpoint)
               /\ CallersAgree(stack, cs, layer)
               /\ Below(layer, i.index)
               /\ Current(i.data, i.layer)
               /\ stack \in Seq(FrameType)
               /\ \A n \in 1 .. Len(stack) : stack[n].kind = "await"
<1> DEFINE i    == Interrupted(write)
           next == next_contract_modification_index
<1>1. /\ StackOK(stack, Len(changeset), trace_elements)
      /\ Callers(stack, running.trace_elements_checkpoint)
      /\ invoke_response = None /\ Len(changeset) \in Nat
      /\ running # None /\ LayersOK(changeset)
  BY RunFacts, NoneAssumption DEF Inv
<1>2. /\ CallersOK(stack, changeset)
      /\ CallersBelow(stack, changeset, next)
      /\ CallersAgree(stack, changeset, Top)
      /\ CallersBelow(stack, changeset, running.next_mod_idx_checkpoint)
      /\ Below(Top, next)
      /\ Current(running, Top)
  BY <1>1, ViewFacts
<1>3. /\ i.data.next_mod_idx_checkpoint = running.next_mod_idx_checkpoint
      /\ Current(i.data, i.layer)
      /\ i.index \in Nat /\ next \in Nat /\ i.index >= next
      /\ Below(i.layer, i.index)
      /\ \A l : Below(l, next) /\ Agree(Top, l) => Agree(i.layer, l)
  BY <1>2, InterruptedView
<1> HIDE DEF i
<1>4. CallersBelow(stack, changeset, i.index)
  BY <1>1, <1>2, <1>3, CallersStayBelow
<1>5. CallersAgree(stack, changeset, layer)
  <2>1. CallersAgree(stack, changeset, i.layer)
    BY <1>2, <1>3 DEF CallersAgree, CallersBelow
  <2> QED
    BY <2>1, KeptViews DEF CallersAgree, i
<1>6. Below(layer, i.index)
  BY <1>3, KeptViews DEF i
<1>7. stack \in Seq(FrameType) /\ \A n \in 1 .. Len(stack) : stack[n].kind = "await"
  BY <1>1 DEF StackOK, Callers
<1> QED
  BY <1>1, <1>2, <1>3, <1>4, <1>5, <1>6, <1>7, CallersMoved DEF i

(* An entrypoint that succeeds *)
LEMMA RunSucceedsView ==
    ASSUME Inv, ViewInv, NEW write \in Writes, NEW used, RunSucceeds(write, used)
    PROVE  ViewInv'
<1> DEFINE i    == Interrupted(write)
           cs   == WithTop(i.layer)
           resp == Success(contract_balance(i.layer, running.address))
<1>1. /\ status = "exec" /\ UNCHANGED chain /\ changeset' = cs /\ stack' = stack
      /\ running' = None /\ invoke_response' = resp /\ status' = "pop"
      /\ leaked' = leaked
  BY DEF RunSucceeds, Interrupted
<1>2. next_contract_modification_index' = i.index
  <2>1. next_contract_modification_index \in Nat
    BY DEF Inv
  <2> QED
    BY <2>1 DEF RunSucceeds, Interrupted
<1>3. LayerOK(i.layer)
  BY <1>1, InterruptedOK
<1>4. cs[Len(cs)] = i.layer /\ \A d \in 1 .. (Len(changeset) - 1) : cs[d] = changeset[d]
  BY <1>3, Layers, LayersMoved DEF Inv
<1>5. StatesKept(i.layer, i.layer)
  BY DEF StatesKept
<1>6. stack = <<>> \/ stack[Len(stack)].kind = "await"
  BY <1>1, RunFacts, CallersWait DEF StackOK
<1> HIDE DEF cs, i, resp
<1>7. ASSUME ~leaked PROVE ViewOf(cs, stack, None, resp, "pop", i.index)
  <2>1. /\ CallersOK(stack, cs)
        /\ CallersBelow(stack, cs, i.index)
        /\ CallersAgree(stack, cs, i.layer)
        /\ Below(i.layer, i.index)
    BY <1>1, <1>4, <1>5, <1>7, InterruptedCallers DEF i
  <2> QED
    BY <1>4, <1>6, <2>1 DEF ViewOf
<1> QED
  BY <1>1, <1>2, <1>7, StepView

(* An entrypoint that fails gives its indices back; nothing below it has    *)
(* them.                                                                    *)
LEMMA RunFailsView ==
    ASSUME Inv, ViewInv, NEW energy, RunFails(energy)
    PROVE  ViewInv'
<1>1. /\ status = "exec" /\ UNCHANGED chain /\ changeset' = changeset /\ stack' = stack
      /\ running' = None /\ invoke_response' = Failure /\ status' = "pop"
      /\ next_contract_modification_index' = running.next_mod_idx_checkpoint
      /\ leaked' = leaked
  BY DEF RunFails
<1>2. Failure # None /\ ~Failure.success
  BY Answers DEF Failure
<1>3. stack = <<>> \/ stack[Len(stack)].kind = "await"
  BY <1>1, RunFacts, CallersWait DEF StackOK
<1>4. running # None
  BY <1>1, RunFacts, NoneAssumption
<1> HIDE DEF Failure
<1>5. ASSUME ~leaked
      PROVE  ViewOf(changeset, stack, None, Failure, "pop", running.next_mod_idx_checkpoint)
  <2>1. /\ CallersOK(stack, changeset)
        /\ CallersBelow(stack, changeset, running.next_mod_idx_checkpoint)
        /\ CallersAgree(stack, changeset, Top)
    BY <1>4, <1>5, ViewFacts
  <2> QED
    BY <1>2, <1>3, <2>1 DEF ViewOf, Top
<1> QED
  BY <1>1, <1>5, StepView

(* An interrupt that is answered at once *)
LEMMA AnswerView ==
    ASSUME Inv, ViewInv, status = "exec", Answering
    PROVE  ViewInv'
<1> PICK write \in Writes : \E layer, energy, response, traces :
      /\ Answered(write, layer, response)
      /\ Answer(Interrupted(write), layer, energy, response, traces)
  BY DEF Answering
<1> PICK layer, energy, response, traces :
      /\ Answered(write, layer, response)
      /\ Answer(Interrupted(write), layer, energy, response, traces)
  OBVIOUS
<1> DEFINE i  == Interrupted(write)
           cs == WithTop(layer)
           f  == ResumeFrame(i.data, response)
           s  == Append(stack, f)
<1>1. /\ UNCHANGED chain /\ changeset' = cs /\ stack' = s
      /\ running' = None /\ invoke_response' = invoke_response /\ status' = "pop"
      /\ next_contract_modification_index' = i.index
      /\ leaked' = leaked
  BY DEF Answer
<1>2. /\ LayerOK(layer) /\ StatesKept(i.layer, layer)
      /\ Current(i.data, i.layer) => Current(Seen(i.data, response), layer)
  BY DEF Answered
<1>3. cs[Len(cs)] = layer /\ \A d \in 1 .. (Len(changeset) - 1) : cs[d] = changeset[d]
  BY <1>2, Layers, LayersMoved DEF Inv
<1>4. f.kind = "resume" /\ f.data = i.data /\ f.response = response
  BY DEF ResumeFrame
<1>5. s[Len(s)] = f
  BY RunFacts, LenProperties DEF StackOK
<1> HIDE DEF cs, i, f, s
<1>6. ASSUME ~leaked PROVE ViewOf(cs, s, None, invoke_response, "pop", i.index)
  <2>1. /\ CallersOK(stack, cs)
        /\ CallersBelow(stack, cs, i.index)
        /\ CallersBelow(stack, cs, i.data.next_mod_idx_checkpoint)
        /\ CallersAgree(stack, cs, layer)
        /\ Below(layer, i.index)
        /\ Current(i.data, i.layer)
        /\ stack \in Seq(FrameType)
        /\ \A n \in 1 .. Len(stack) : stack[n].kind = "await"
    BY <1>2, <1>3, <1>6, InterruptedCallers DEF i
  <2>2. /\ CallersOK(s, cs)
        /\ CallersBelow(s, cs, i.index)
        /\ CallersAgree(s, cs, layer)
    BY <1>4, <2>1, CallersPushed DEF s
  <2> QED
    BY <1>2, <1>3, <1>4, <1>5, <2>1, <2>2 DEF ViewOf
<1> QED
  BY <1>1, <1>6, StepView

(* A call: the caller waits at its layer, the callee starts from a copy. *)
LEMMA CallView ==
    ASSUME Inv, ViewInv, Calling
    PROVE  ViewInv'
<1> PICK write \in Writes, used \in InterruptUses, to \in ContractAddrs,
         entrypoint \in Entrypoints, amount \in Amounts :
           RunCalls(write, used, to, entrypoint, amount)
  BY DEF Calling
<1> DEFINE i  == Interrupted(write)
           L  == Len(changeset)
           cs == Checkpointed(i.layer)
           a  == AwaitFrame(i.data, L)
           b  == InitialFrame(running.address, to, contracts[to].contract_name,
                              entrypoint, amount, trace_elements + 1)
           s1 == Append(stack, a)
           s2 == Append(s1, b)
<1>1. /\ status = "exec" /\ UNCHANGED chain /\ changeset' = cs /\ stack' = stack \o <<a, b>>
      /\ running' = None /\ invoke_response' = invoke_response /\ status' = "pop"
      /\ next_contract_modification_index' = i.index
      /\ leaked' = leaked
  BY DEF RunCalls
<1>2. LayerOK(i.layer) /\ i.data \in InvocationData /\ i.data.address = running.address
  BY <1>1, InterruptedOK
<1>3. /\ L \in Nat \ {0} /\ Len(cs) = L + 1 /\ cs[L + 1] = i.layer /\ cs[L] = i.layer
      /\ \A d \in 1 .. (L - 1) : cs[d] = changeset[d]
  BY <1>2, Layers, LayersMoved DEF Inv
<1>4. /\ a.kind = "await" /\ a.data = i.data /\ a.depth = L
      /\ b.kind = "initial"
      /\ a \in FrameType
  BY <1>2, <1>3 DEF AwaitFrame, InitialFrame, FrameType
<1>5. stack \in Seq(FrameType)
  BY <1>1, RunFacts DEF StackOK
<1>6. i.data.mod_idx_before_invoke = modification_index(i.layer, i.data.address)
  BY <1>1, <1>2, InterruptedView
<1>7. StatesKept(i.layer, i.layer)
  BY DEF StatesKept
<1> HIDE DEF cs, i, L, a, b
<1>8. stack \o <<a, b>> = s2
  BY <1>5
<1>9. s1 \in Seq(FrameType) /\ s2[Len(s2)] = b
  BY <1>4, <1>5
<1>10. ASSUME ~leaked PROVE ViewOf(cs, s2, None, invoke_response, "pop", i.index)
  <2>1. /\ CallersOK(stack, cs)
        /\ CallersBelow(stack, cs, i.index)
        /\ CallersBelow(stack, cs, i.data.next_mod_idx_checkpoint)
        /\ CallersAgree(stack, cs, i.layer)
        /\ Below(i.layer, i.index)
        /\ Current(i.data, i.layer)
        /\ \A n \in 1 .. Len(stack) : stack[n].kind = "await"
    BY <1>1, <1>3, <1>7, <1>10, InterruptedCallers DEF i, L
  <2>2. Agree(i.layer, i.layer)
    BY DEF Agree
  <2>3. /\ CallersOK(s1, cs)
        /\ CallersBelow(s1, cs, i.index)
        /\ CallersAgree(s1, cs, i.layer)
    BY <1>3, <1>4, <1>5, <1>6, <2>1, <2>2, CallersPushed
  <2>4. \A n \in 1 .. Len(s1) : s1[n].kind = "await"
    BY <1>4, <1>5, <2>1
  <2> HIDE DEF s1
  <2>5. /\ CallersOK(s2, cs)
        /\ CallersBelow(s2, cs, i.index)
        /\ CallersAgree(s2, cs, i.layer)
    BY <1>4, <1>9, <2>3, <2>4, CallersPushed
  <2> HIDE DEF s2
  <2> QED
    BY <1>3, <1>4, <1>9, <2>1, <2>5 DEF ViewOf
<1> HIDE DEF s2
<1> QED
  BY <1>1, <1>8, <1>10, StepView

-----------------------------------------------------------------------------
(* Induction *)

(* An entrypoint is not started, after the transfer to its contract. *)
InitialAnswering ==
    /\ status = "pop" /\ stack # <<>> /\ Frame.kind = "initial"
    /\ InitialTransfer(Frame).err \notin Unrecoverable
    /\ InitialAnswers(InitialTransfer(Frame).layer)

Succeeding == \E write \in Writes, used \in FinalUses : RunSucceeds(write, used)

Failing == \E energy : RunFails(energy)

(* The ways a turn of the loop can end *)
LEMMA StepKinds ==
    ASSUME Inv, Next
    PROVE  \/ Exits
           \/ InitialAnswering
           \/ InitialRuns
           \/ ResumeImmediate \/ ResumeAfterSuccess \/ ResumeAfterFailure
           \/ Succeeding \/ Failing
           \/ status = "exec" /\ Answering
           \/ Calling
<1>1. ExitOutOfEnergy => Exits
  BY DEF ExitOutOfEnergy, Exits, Statuses
<1>2. InitialExits => Exits
  <2> SUFFICES ASSUME InitialExits PROVE Exits
    OBVIOUS
  <2>1. \/ ExitOutOfEnergy
        \/ Exit(ExitOf(InitialTransfer(Frame).err), remaining_energy - UpdateBaseCost)
    BY DEF InitialExits
  <2>2. ExitOf(InitialTransfer(Frame).err) \in Statuses \ {"pop", "exec"}
    BY DEF ExitOf, Statuses
  <2>3. Exit(ExitOf(InitialTransfer(Frame).err), remaining_energy - UpdateBaseCost) => Exits
    BY <2>2 DEF Exits
  <2> QED
    BY <1>1, <2>1, <2>3
<1>3. InitialFails \/ InitialNoEntrypoint => InitialAnswering
  BY DEF InitialFails, InitialNoEntrypoint, InitialAnswering, Unrecoverable
<1>4. RunEnds => Succeeding \/ Failing \/ Exits
  BY <1>1 DEF RunEnds, RunRejects, RunReturnsInvalidCode, RunExhausts, Succeeding, Failing
<1>5. Return => Exits
  <2>1. Return => Exit("returned", remaining_energy)
    BY DEF Return, Exit
  <2> QED
    BY <2>1 DEF Exits, Statuses
<1>6. RunInterrupts => Exits \/ (status = "exec" /\ Answering) \/ Calling
  BY InterruptEnds
<1> QED
  BY <1>2, <1>3, <1>4, <1>5, <1>6 DEF Next, Pops

(* Every step keeps the view sound. *)
LEMMA NextView == Inv /\ ViewInv /\ [Next]_vars => ViewInv'
<1> SUFFICES ASSUME Inv, ViewInv, [Next]_vars PROVE ViewInv'
  OBVIOUS
<1>1. CASE UNCHANGED vars
  <2>1. UNCHANGED chain /\ changeset' = changeset /\ stack' = stack /\ running' = running
        /\ invoke_response' = invoke_response /\ status' = status /\ leaked' = leaked
        /\ next_contract_modification_index' = next_contract_modification_index
    BY <1>1 DEF vars, chain
  <2>2. ~leaked' => ViewOf(changeset, stack, running, invoke_response, status,
                           next_contract_modification_index)
    BY <2>1 DEF ViewInv, ViewOK
  <2> QED
    BY <2>1, <2>2, StepView
<1>2. CASE Next
  <2>1. ASSUME Exits PROVE ViewInv'
    BY <2>1, ExitView DEF Exits
  <2>2. ASSUME InitialAnswering PROVE ViewInv'
    BY <2>2, InitialTransferView, InitialAnswersView DEF InitialAnswering
  <2>3. ASSUME Succeeding PROVE ViewInv'
    BY <2>3, RunSucceedsView DEF Succeeding
  <2>4. ASSUME Failing PROVE ViewInv'
    BY <2>4, RunFailsView DEF Failing
  <2> QED
    BY <1>2, <2>1, <2>2, <2>3, <2>4, StepKinds, InitialRunsView, ResumeImmediateView,
       ResumeAfterSuccessView, ResumeAfterFailureView, AnswerView, CallView
<1> QED
  BY <1>1, <1>2

(* The first frame alone, nothing changed *)
LEMMA HandlerFacts ==
    ASSUME NEW t, NEW energy, Admissible(t), HandlerInit(t, energy)
    PROVE  /\ changeset = <<EmptyLayer>> /\ Len(changeset) = 1 /\ changeset[1] = EmptyLayer
           /\ Len(stack) = 1 /\ stack[1].kind = "initial"
           /\ stack[1].sender = tx.sender /\ stack[1].amount = tx.amount
           /\ stack[1].address = tx.address /\ stack[1].name = tx.name
           /\ running = None /\ status = "pop"
           /\ next_contract_modification_index = 1
           /\ Admissible(tx)
<1> DEFINE f == InitialFrame(t.sender, t.address, t.name, t.entrypoint, t.amount, 0)
<1>1. /\ tx = t /\ changeset = <<EmptyLayer>> /\ next_contract_modification_index = 1
      /\ stack = <<f>> /\ running = None /\ status = "pop"
  BY DEF HandlerInit
<1>2. /\ f.kind = "initial" /\ f.sender = t.sender /\ f.amount = t.amount
      /\ f.address = t.address /\ f.name = t.name
  BY DEF InitialFrame
<1> HIDE DEF f
<1>3. Len(stack) = 1 /\ stack[1] = f
  BY <1>1
<1>4. Len(changeset) = 1 /\ changeset[1] = EmptyLayer
  BY <1>1 DEF EmptyLayer
<1> QED
  BY <1>1, <1>2, <1>3, <1>4

(* So it is for the transactions a test starts with.                       *)
LEMMA InitFacts ==
    ASSUME Init
    PROVE  /\ changeset = <<EmptyLayer>> /\ Len(changeset) = 1 /\ changeset[1] = EmptyLayer
           /\ Len(stack) = 1 /\ stack[1].kind = "initial"
           /\ stack[1].sender = tx.sender /\ stack[1].amount = tx.amount
           /\ stack[1].address = tx.address /\ stack[1].name = tx.name
           /\ running = None /\ status = "pop"
           /\ next_contract_modification_index = 1
           /\ Admissible(tx)
  BY HandlerFacts DEF Init

(* No activation has a view before the first.                              *)
LEMMA InitView == Init => ViewInv
<1> SUFFICES ASSUME Init PROVE ViewOK
  BY DEF ViewInv
<1>1. /\ Len(changeset) = 1 /\ changeset[1] = EmptyLayer
      /\ Len(stack) = 1 /\ stack[1].kind = "initial"
      /\ running = None /\ status = "pop" /\ next_contract_modification_index = 1
  BY InitFacts
<1>2. \A n \in 1 .. Len(stack) : n = 1
  BY <1>1
<1>3. \A m, n \in 1 .. Len(stack) : ~(m < n)
  BY <1>2
<1>4. \A n \in 1 .. Len(stack) : ~Awaits(stack, n)
  BY <1>1, <1>2 DEF Awaits
<1>5. Below(EmptyLayer, 1)
  BY DEF Below, EmptyLayer, modification_index
<1> HIDE DEF EmptyLayer
<1> QED
  BY <1>1, <1>3, <1>4, <1>5
     DEF ViewOK, ViewOf, CallersOK, CallersBelow, CallersAgree

(* Whatever contracts call each other, and however deep, a contract that    *)
(* runs or goes on after an interrupt has the state and the balance that    *)
(* the changeset has for it: mod_idx_before_invoke against the current      *)
(* modification index is enough to tell whether the state must be loaded    *)
(* again, although failed calls give indices back that are then used anew.  *)
THEOREM ContractsSeeCurrent == Spec => []ContractSeesCurrent
<1>1. Inv /\ ViewInv => ContractSeesCurrent
  BY ViewFacts DEF ContractSeesCurrent, Current
<1>2. Init => Inv /\ ViewInv
  BY InitInv, InitView
<1>3. Inv /\ ViewInv /\ [Next]_vars => (Inv /\ ViewInv)'
  BY NextInv, NextView
<1> QED
  BY <1>1, <1>2, <1>3, PTL DEF Spec

-----------------------------------------------------------------------------
(* What a step does to layers and frames *)

(* Every upgrade of the layer is to a deployed module with the contract. *)
UpgradesNamed(layer) ==
    \A c \in ContractAddrs : UpgradeOf(layer, c) # None =>
      /\ modules[UpgradeOf(layer, c)] # None
      /\ contracts[c].contract_name \in modules[UpgradeOf(layer, c)].exports

(* The transfer that starts an entrypoint takes from an account what is     *)
(* free: not what is reserved, by whichever alias the sender is named.      *)
LEMMA InitialTransferFunds ==
    ASSUME Inv, FundsInv, status = "pop", stack # <<>>, Frame.kind = "initial"
    PROVE  FundsKept(InitialTransfer(Frame).layer)
<1> DEFINE f == Frame
           t == InitialTransfer(f)
<1>1. f \in FrameType /\ FrameOK(f) /\ LayerOK(Top) /\ ChainOK
  BY PopFacts DEF Inv
<1>2. f.sender \in Addresses /\ f.address \in ContractAddrs /\ f.amount \in Amount
  BY <1>1, FrameFacts
<1>3. f.amount \in Nat
  BY <1>2, MaxAmountAssumption DEF Amount
<1>4. Len(changeset) \in 1 .. Len(changeset) /\ Len(stack) \in 1 .. Len(stack)
  <2>1. changeset \in Seq(Changes) /\ changeset # <<>> /\ stack \in Seq(FrameType)
    BY DEF Inv, LayersOK, StackOK
  <2> QED
    BY <2>1, EmptySeq, LenProperties
<1>5. FundsKept(Top)
  BY <1>4 DEF FundsInv, Top
<1>6. CASE f.amount = 0
  <2>1. t.layer = Top
    BY <1>6 DEF InitialTransfer, Result
  <2> QED
    BY <1>5, <2>1
<1>7. CASE f.amount # 0 /\ f.sender \notin AccountAddrs
  <2>1. t = transfer_from_contract_to_contract(Top, f.amount, f.sender, f.address)
    BY <1>7 DEF InitialTransfer
  <2>2. f.sender \in ContractAddrs /\ contracts[f.sender] # None
    BY <1>1, <1>2, <1>7 DEF FrameOK, Addresses
  <2>3. t.layer.accounts = Top.accounts
    BY <1>1, <1>2, <1>3, <2>1, <2>2, ContractContractView
  <2> QED
    BY <1>5, <2>3 DEF FundsKept
<1>8. CASE f.amount # 0 /\ f.sender \in AccountAddrs
  <2> DEFINE k     == KeyOf[f.sender]
             debit == change_account_balance(Top, f.sender, Negative(f.amount))
  <2>1. t = transfer_from_account_to_contract(Top, f.amount, f.sender, f.address)
    BY <1>8 DEF InitialTransfer
  <2>2. accounts[k] # None /\ k \in AccountKeys /\ f.sender \in AccountAddrs
    BY <1>1, <1>8, AddressAssumption DEF FrameOK
  <2>3. t.layer.accounts \in {Top.accounts, debit.layer.accounts}
    BY <1>1, <1>2, <1>3, <2>1, <2>2, AccountContractView
  <2>4. /\ Top = EmptyLayer /\ f.amount = tx.amount /\ f.sender = tx.sender
        /\ available(accounts[KeyOf[tx.invoker]]) >= tx.reserved_amount + tx.amount
    BY <1>4, <1>8 DEF FundsInv, Frame
  <2>5. \A j \in AccountKeys : Top.accounts[j] = None
    BY <2>4 DEF EmptyLayer
  <2>6. Negative(f.amount) \in Delta /\ Value(Negative(f.amount)) = -f.amount
    BY <1>3 DEF Negative, Delta, Value
  <2>7. /\ \A j \in AccountKeys \ {k} : debit.layer.accounts[j] = Top.accounts[j]
        /\ debit.err # "ok" => debit.layer = Top
        /\ debit.err = "ok" =>
             /\ debit.layer.accounts[k].balance_delta = Negative(f.amount)
             /\ delta_error(Negative(f.amount), available(accounts[k])
                  - (IF tx.invoker = f.sender THEN tx.reserved_amount ELSE 0)) = "ok"
    BY <1>1, <2>2, <2>5, <2>6, AccountBalanceView
  <2>8. available(accounts[k]) \in Int /\ tx.reserved_amount \in Nat
    <3>1. accounts[k] \in Account
      BY <1>1, <2>2 DEF ChainOK, ChainTyped
    <3> QED
      BY <1>1, <3>1, MaxAmountAssumption DEF ChainOK, ChainTyped, Account, available, Amount
  <2>9. debit.err = "ok" => available(accounts[k]) - f.amount >= Reserve(k)
    <3>1. CASE k = KeyOf[tx.invoker]
      BY <1>3, <2>4, <2>8, <3>1 DEF Reserve
    <3>2. CASE k # KeyOf[tx.invoker]
      <4>1. tx.invoker # f.sender /\ Reserve(k) = 0
        BY <3>2 DEF Reserve
      <4>2. debit.err = "ok" => delta_error(Negative(f.amount), available(accounts[k]) - 0) = "ok"
        BY <2>7, <4>1
      <4> HIDE DEF debit, k
      <4>3. debit.err = "ok" => f.amount <= available(accounts[k])
        BY <1>3, <1>8, <2>8, <4>2 DEF delta_error, balance_error, Negative
      <4> QED
        BY <1>3, <2>8, <4>1, <4>3
    <3> QED
      BY <3>1, <3>2
  <2> HIDE DEF debit, k
  <2>10. debit.err = "ok" => FundsKept(debit.layer)
    <3>1. tx.sender \in AccountAddrs /\ k = KeyOf[tx.sender]
      BY <2>2, <2>4 DEF k
    <3> QED
      BY <2>5, <2>6, <2>7, <2>8, <2>9, <1>3, <3>1 DEF FundsKept
  <2>11. FundsKept(debit.layer)
    BY <1>5, <2>7, <2>10
  <2> QED
    BY <1>5, <2>3, <2>11 DEF FundsKept
<1> QED
  BY <1>6, <1>7, <1>8

(* The transfer that starts an entrypoint neither creates nor destroys CCD, *)
(* unless it ends the invocation.                                           *)
LEMMA InitialTransferConserves ==
    ASSUME Inv, status = "pop", stack # <<>>, Frame.kind = "initial",
           InitialTransfer(Frame).err \notin Unrecoverable
    PROVE  LayerDelta(InitialTransfer(Frame).layer) = LayerDelta(Top)
<1> DEFINE f == Frame
           t == InitialTransfer(f)
<1>1. f \in FrameType /\ FrameOK(f) /\ LayerOK(Top) /\ ChainOK
  BY PopFacts DEF Inv
<1>2. f.sender \in Addresses /\ f.address \in ContractAddrs /\ f.amount \in Amount
  BY <1>1, FrameFacts
<1>3. f.amount \in Nat
  BY <1>2, MaxAmountAssumption DEF Amount
<1>4. CASE f.amount = 0
  BY <1>4 DEF InitialTransfer, Result
<1>5. CASE f.amount # 0 /\ f.sender \notin AccountAddrs
  <2>1. t = transfer_from_contract_to_contract(Top, f.amount, f.sender, f.address)
    BY <1>5 DEF InitialTransfer
  <2>2. f.sender \in ContractAddrs /\ contracts[f.sender] # None
    BY <1>1, <1>2, <1>5 DEF FrameOK, Addresses
  <2> QED
    BY <1>1, <1>2, <1>3, <2>1, <2>2, ContractContractConserves DEF Conserves, Unrecoverable
<1>6. CASE f.amount # 0 /\ f.sender \in AccountAddrs
  <2>1. t = transfer_from_account_to_contract(Top, f.amount, f.sender, f.address)
    BY <1>6 DEF InitialTransfer
  <2>2. accounts[KeyOf[f.sender]] # None
    BY <1>1, <1>6 DEF FrameOK
  <2> QED
    BY <1>1, <1>2, <1>3, <1>6, <2>1, <2>2, AccountContractConserves DEF Conserves, Unrecoverable
<1> QED
  BY <1>4, <1>5, <1>6

(* A step leaves the layers below the topmost one alone, and adds at most   *)
(* one layer, a copy of the topmost one, or takes it away.                  *)
LEMMA LayerSteps ==
    ASSUME Inv, Next
    PROVE  \/ changeset' = changeset
           \/ Len(changeset) > 1 /\ changeset' = RolledBack
           \/ \E layer :
                /\ LayerOK(layer)
                /\ changeset' \in {WithTop(layer), Checkpointed(layer)}
                /\ FundsInv => FundsKept(layer)
                /\ NamesInv /\ UpgradesNamed(Top) => UpgradesNamed(layer)
                /\ LayerDelta(layer) = LayerDelta(Top)
<1>1. Len(changeset) \in 1 .. Len(changeset)
  <2>1. changeset \in Seq(Changes) /\ changeset # <<>>
    BY DEF Inv, LayersOK
  <2> QED
    BY <2>1, EmptySeq, LenProperties
<1>2. FundsInv => FundsKept(Top)
  BY <1>1 DEF FundsInv, Top
<1>3. \A l1, l2 : ModulesKept(l1, l2) /\ UpgradesNamed(l1) => UpgradesNamed(l2)
  BY DEF ModulesKept, UpgradesNamed
<1> DEFINE Good(layer) ==
             /\ LayerOK(layer)
             /\ FundsInv => FundsKept(layer)
             /\ NamesInv /\ UpgradesNamed(Top) => UpgradesNamed(layer)
             /\ LayerDelta(layer) = LayerDelta(Top)
<1>4. ASSUME status = "pop", stack # <<>>, Frame.kind = "initial",
             InitialTransfer(Frame).err \notin Unrecoverable
      PROVE  Good(InitialTransfer(Frame).layer)
  BY <1>3, <1>4, InitialTransferView, InitialTransferFunds, InitialTransferConserves
<1>5. ASSUME NEW write \in Writes, status = "exec" PROVE Good(Interrupted(write).layer)
  <2>1. /\ ModulesKept(Top, Interrupted(write).layer)
        /\ Interrupted(write).layer.accounts = Top.accounts
        /\ LayerDelta(Interrupted(write).layer) = LayerDelta(Top)
    BY <1>5, InterruptedView
  <2> QED
    BY <1>2, <1>3, <1>5, <2>1, InterruptedOK DEF FundsKept
<1>6. ASSUME NEW write \in Writes, NEW layer, NEW response, status = "exec",
             Answered(write, layer, response)
      PROVE  Good(layer)
  <2>1. Good(Interrupted(write).layer)
    BY <1>5, <1>6
  <2>2. /\ LayerOK(layer) /\ (FundsInv => FundsKept(layer))
        /\ LayerDelta(layer) = LayerDelta(Top)
    BY <1>6, <2>1 DEF Answered
  <2>3. NamesInv => running.contract_name = contracts[running.address].contract_name
    BY <1>6, RunFacts, NoneAssumption DEF NamesInv, Named
  <2>4. NamesInv /\ UpgradesNamed(Interrupted(write).layer) => UpgradesNamed(layer)
    BY <1>6, <2>3 DEF Answered, UpgradesNamed
  <2> QED
    BY <2>1, <2>2, <2>4
<1> HIDE DEF Good
<1>7. Exits => changeset' = changeset
  BY DEF Exits, Exit
<1>8. InitialAnswering => \E layer : Good(layer) /\ changeset' = WithTop(layer)
  BY <1>4 DEF InitialAnswering, InitialAnswers
<1>9. InitialRuns => \E layer : Good(layer) /\ changeset' = WithTop(layer)
  BY <1>4 DEF InitialRuns, Unrecoverable
<1>10. ResumeImmediate \/ ResumeAfterSuccess => changeset' = changeset
  BY DEF ResumeImmediate, ResumeAfterSuccess
<1>11. ResumeAfterFailure => Len(changeset) > 1 /\ changeset' = RolledBack
  BY PopFacts DEF ResumeAfterFailure
<1>12. Succeeding => \E layer : Good(layer) /\ changeset' = WithTop(layer)
  <2> SUFFICES ASSUME NEW write \in Writes, NEW used \in FinalUses, RunSucceeds(write, used)
               PROVE  \E layer : Good(layer) /\ changeset' = WithTop(layer)
    BY DEF Succeeding
  <2>1. changeset' = WithTop(Interrupted(write).layer) /\ status = "exec"
    BY DEF RunSucceeds, Interrupted
  <2> QED
    BY <1>5, <2>1
<1>13. Failing => changeset' = changeset
  BY DEF Failing, RunFails
<1>14. status = "exec" /\ Answering => \E layer : Good(layer) /\ changeset' = WithTop(layer)
  BY <1>6 DEF Answering, Answer
<1>15. Calling => \E layer : Good(layer) /\ changeset' = Checkpointed(layer)
  BY <1>5 DEF Calling, RunCalls
<1>16. \/ changeset' = changeset
       \/ Len(changeset) > 1 /\ changeset' = RolledBack
       \/ \E layer : Good(layer) /\ changeset' \in {WithTop(layer), Checkpointed(layer)}
  BY <1>7, <1>8, <1>9, <1>10, <1>11, <1>12, <1>13, <1>14, <1>15, StepKinds
<1> QED
  BY <1>16 DEF Good

(* The layers after a step: new ones come from the topmost *)
LEMMA LayersKeep ==
    ASSUME Inv, Next
    PROVE  LET L == Len(changeset)
               K == Len(changeset')
           IN  /\ K \in (L - 1) .. (L + 1) /\ L \in Nat \ {0} /\ K \in Nat \ {0}
               /\ \A n \in 1 .. K :
                    \/ n \in 1 .. L /\ changeset'[n] = changeset[n]
                    \/ /\ n >= L
                       /\ FundsInv => FundsKept(changeset'[n])
                       /\ NamesInv /\ UpgradesNamed(Top) => UpgradesNamed(changeset'[n])
                       /\ LayerDelta(changeset'[n]) = LayerDelta(Top)
<1> DEFINE L == Len(changeset)
           K == Len(changeset')
           Good(l) == /\ FundsInv => FundsKept(l)
                      /\ NamesInv /\ UpgradesNamed(Top) => UpgradesNamed(l)
                      /\ LayerDelta(l) = LayerDelta(Top)
<1>1. LayersOK(changeset) /\ L \in Nat \ {0} /\ LayerOK(Top)
  <2>1. LayersOK(changeset)
    BY DEF Inv
  <2>2. changeset \in Seq(Changes) /\ changeset # <<>>
    BY <2>1 DEF LayersOK
  <2>3. L \in Nat \ {0}
    BY <2>2, EmptySeq, LenProperties
  <2> QED
    BY <2>1, <2>3 DEF LayersOK, Top
<1> HIDE DEF Good
<1> SUFFICES /\ K \in (L - 1) .. (L + 1) /\ K \in Nat \ {0}
             /\ \A n \in 1 .. K : \/ n \in 1 .. L /\ changeset'[n] = changeset[n]
                                  \/ n >= L /\ Good(changeset'[n])
  BY <1>1 DEF Good
<1>2. CASE changeset' = changeset
  BY <1>1, <1>2
<1>3. CASE L > 1 /\ changeset' = RolledBack
  <2>1. K = L - 1 /\ \A d \in 1 .. (L - 1) : RolledBack[d] = changeset[d]
    BY <1>1, <1>3, LayersPop, LayersMoved
  <2> HIDE DEF K, L
  <2> QED
    BY <1>1, <1>3, <2>1
<1>4. ASSUME NEW layer, LayerOK(layer), Good(layer), changeset' = WithTop(layer)
      PROVE  /\ K \in (L - 1) .. (L + 1) /\ K \in Nat \ {0}
             /\ \A n \in 1 .. K : \/ n \in 1 .. L /\ changeset'[n] = changeset[n]
                                  \/ n >= L /\ Good(changeset'[n])
  <2>1. /\ K = L /\ WithTop(layer)[L] = layer
        /\ \A d \in 1 .. (L - 1) : WithTop(layer)[d] = changeset[d]
    BY <1>1, <1>4, Layers, LayersMoved
  <2>2. \A n \in 1 .. L : n \in 1 .. (L - 1) \/ n = L
    BY <1>1
  <2> HIDE DEF K, L
  <2> QED
    BY <1>1, <1>4, <2>1, <2>2
<1>5. ASSUME NEW layer, LayerOK(layer), Good(layer), changeset' = Checkpointed(layer)
      PROVE  /\ K \in (L - 1) .. (L + 1) /\ K \in Nat \ {0}
             /\ \A n \in 1 .. K : \/ n \in 1 .. L /\ changeset'[n] = changeset[n]
                                  \/ n >= L /\ Good(changeset'[n])
  <2>1. /\ K = L + 1 /\ Checkpointed(layer)[L + 1] = layer /\ Checkpointed(layer)[L] = layer
        /\ \A d \in 1 .. (L - 1) : Checkpointed(layer)[d] = changeset[d]
    BY <1>1, <1>5, Layers, LayersMoved
  <2> HIDE DEF K, L
  <2>2. \A n \in 1 .. K : n \in 1 .. (L - 1) \/ n = L \/ n = L + 1
    BY <1>1, <2>1
  <2> QED
    BY <1>1, <1>5, <2>1, <2>2
<1>6. \/ changeset' = changeset
      \/ L > 1 /\ changeset' = RolledBack
      \/ \E layer : LayerOK(layer) /\ Good(layer)
                      /\ changeset' \in {WithTop(layer), Checkpointed(layer)}
  BY LayerSteps DEF Good
<1> QED
  BY <1>2, <1>3, <1>4, <1>5, <1>6

(* A step of any kind touches the topmost layer only: what a caller goes    *)
(* back to is what was there when it called, however deep the calls nest.   *)
THEOREM LowerLayersStay == Spec => LowerLayersKept
<1>1. Inv /\ [Next]_vars =>
        [/\ Len(changeset') \in (Len(changeset) - 1) .. (Len(changeset) + 1)
         /\ \A n \in 1 .. (Len(changeset) - 1) :
              n \in DOMAIN changeset' => changeset'[n] = changeset[n]
                 \/ n = Len(changeset')]_vars
  <2> SUFFICES ASSUME Inv, Next
               PROVE  /\ Len(changeset') \in (Len(changeset) - 1) .. (Len(changeset) + 1)
                      /\ \A n \in 1 .. (Len(changeset) - 1) :
                           n \in DOMAIN changeset' => changeset'[n] = changeset[n]
    OBVIOUS
  <2>1. Inv'
    BY NextInv
  <2>2. DOMAIN changeset' = 1 .. Len(changeset')
    BY <2>1, LenProperties DEF Inv, LayersOK
  <2>3. /\ Len(changeset') \in (Len(changeset) - 1) .. (Len(changeset) + 1)
        /\ Len(changeset) \in Nat
        /\ \A n \in 1 .. Len(changeset') :
             changeset'[n] = changeset[n] \/ n >= Len(changeset)
    BY LayersKeep
  <2> QED
    BY <2>2, <2>3
<1> QED
  BY <1>1, InvAlways, PTL DEF Spec, LowerLayersKept

(* The changes of the layers after a step add up to what they did before. *)
LEMMA NextConserves == Inv /\ LayersConserve /\ [Next]_vars => LayersConserve'
<1> SUFFICES ASSUME Inv, LayersConserve, [Next]_vars PROVE LayersConserve'
  OBVIOUS
<1>1. CASE UNCHANGED vars
  BY <1>1 DEF vars, LayersConserve
<1>2. CASE Next
  <2>1. /\ Len(changeset) \in Nat \ {0} /\ Len(changeset') \in Nat \ {0}
        /\ \A n \in 1 .. Len(changeset') :
             \/ n \in 1 .. Len(changeset) /\ changeset'[n] = changeset[n]
             \/ LayerDelta(changeset'[n]) = LayerDelta(Top)
    BY <1>2, LayersKeep
  <2>2. DOMAIN changeset = 1 .. Len(changeset)
    BY LenProperties DEF Inv, LayersOK
  <2>3. Inv'
    BY <1>2, NextInv
  <2>4. DOMAIN changeset' = 1 .. Len(changeset')
    BY <2>3, LenProperties DEF Inv, LayersOK
  <2>5. LayerDelta(Top) = 0
    <3>1. Len(changeset) \in DOMAIN changeset
      BY <2>1, <2>2
    <3> QED
      BY <3>1 DEF LayersConserve, Top
  <2>6. \A n \in DOMAIN changeset' : LayerDelta(changeset'[n]) = 0
    BY <2>1, <2>2, <2>4, <2>5 DEF LayersConserve
  <2>7. \A n : LayerDelta(changeset'[n]) = LayerDelta(changeset[n])'
    BY DEF LayerDelta
  <2> QED
    BY <2>6, <2>7 DEF LayersConserve
<1> QED
  BY <1>1, <1>2

(* Whatever the contracts do, no CCD is created or destroyed: in every      *)
(* layer what some balances lost the others gained, whichever calls failed  *)
(* and were rolled back.                                                    *)
THEOREM CcdConserved == Spec => []LayersConserve
<1>1. Init => LayersConserve
  <2> SUFFICES ASSUME Init PROVE LayersConserve
    OBVIOUS
  <2>1. changeset = <<EmptyLayer>>
    BY DEF Init, HandlerInit
  <2>2. \A n \in DOMAIN changeset : changeset[n] = EmptyLayer
    BY <2>1
  <2> QED
    BY <2>2, EmptyLayerDelta DEF LayersConserve
<1> QED
  BY <1>1, NextConserves, InvAlways, PTL DEF Spec

(* A frame for the running contract, or for one that it calls *)
FrameMade(f) ==
    \/ /\ f.kind # "initial"
       /\ f.data.address = running.address
       /\ f.data.contract_name = running.contract_name
    \/ /\ f.kind = "initial"
       /\ f.sender = running.address
       /\ f.name = contracts[f.address].contract_name

(* The frames after a step: those that were there, which start nothing      *)
(* unless the layers are untouched, and those made by the running contract. *)
LEMMA FramesKeep ==
    ASSUME Inv, Next
    PROVE  \A n \in 1 .. Len(stack') :
             \/ /\ n \in 1 .. Len(stack) /\ stack'[n] = stack[n]
                /\ stack[n].kind = "initial" => changeset' = changeset
             \/ status = "exec" /\ FrameMade(stack'[n])
<1> DEFINE L == Len(stack)
           Kept(n) == /\ n \in 1 .. L /\ stack'[n] = stack[n]
                      /\ stack[n].kind = "initial" => changeset' = changeset
           Made(n) == status = "exec" /\ FrameMade(stack'[n])
<1>1. stack \in Seq(FrameType) /\ L \in Nat
  BY LenProperties DEF Inv, StackOK
<1>2. ASSUME status = "exec" PROVE \A n \in 1 .. L : stack[n].kind = "await"
  BY <1>2, RunFacts DEF Callers
<1>3. ASSUME stack # <<>>, stack' = Popped PROVE \A n \in 1 .. Len(stack') : Kept(n)
  <2>1. L \in Nat \ {0}
    BY <1>1, <1>3, EmptySeq
  <2>2. L - 1 \in Int /\ 1 \in Int /\ \A n \in 1 .. (L - 1) : stack[n] \in FrameType
    BY <1>1, ElementOfSeq
  <2>3. /\ Len(Popped) = IF 1 <= L - 1 THEN (L - 1) - 1 + 1 ELSE 0
        /\ \A i \in 1 .. ((L - 1) - 1 + 1) : Popped[i] = stack[1 + i - 1]
    BY <2>2, SubSeqProperties DEF Popped
  <2>4. \A n \in 1 .. (L - 1) : stack[n].kind = "await"
    BY DEF Inv, StackOK
  <2> HIDE DEF L
  <2>5. Len(Popped) = L - 1 /\ \A n \in 1 .. (L - 1) : Popped[n] = stack[n] /\ n \in 1 .. L
    BY <2>1, <2>3
  <2> QED
    BY <1>3, <2>4, <2>5
<1>4. ASSUME stack' = stack, changeset' = changeset \/ status = "exec"
      PROVE  \A n \in 1 .. Len(stack') : Kept(n)
  BY <1>2, <1>4
<1>5. Exits => stack' = stack /\ changeset' = changeset
  BY DEF Exits, Exit
<1>6. InitialAnswering \/ InitialRuns \/ ResumeImmediate \/ ResumeAfterSuccess
        \/ ResumeAfterFailure => stack # <<>> /\ stack' = Popped
  BY DEF InitialAnswering, InitialAnswers, InitialRuns, ResumeImmediate,
         ResumeAfterSuccess, ResumeAfterFailure
<1>7. Succeeding \/ Failing => stack' = stack /\ status = "exec"
  BY DEF Succeeding, RunSucceeds, Failing, RunFails
<1>8. ASSUME status = "exec", Answering PROVE \A n \in 1 .. Len(stack') : Kept(n) \/ Made(n)
  <2> PICK write \in Writes : \E layer, energy, response, traces :
             Answer(Interrupted(write), layer, energy, response, traces)
    BY <1>8 DEF Answering
  <2> PICK response : stack' = Append(stack, ResumeFrame(Interrupted(write).data, response))
    BY DEF Answer
  <2> DEFINE f == ResumeFrame(Interrupted(write).data, response)
  <2>1. FrameMade(f)
    BY <1>8, InterruptedView DEF ResumeFrame, FrameMade
  <2> HIDE DEF f
  <2>2. /\ Len(stack') = L + 1 /\ stack'[L + 1] = f
        /\ \A n \in 1 .. L : stack'[n] = stack[n]
    BY <1>1 DEF f
  <2>3. \A n \in 1 .. Len(stack') : n \in 1 .. L \/ n = L + 1
    BY <1>1, <2>2
  <2> QED
    BY <1>2, <1>8, <2>1, <2>2, <2>3
<1>9. ASSUME Calling PROVE \A n \in 1 .. Len(stack') : Kept(n) \/ Made(n)
  <2> PICK write \in Writes, used \in InterruptUses, to \in ContractAddrs,
           entrypoint \in Entrypoints, amount \in Amounts :
             RunCalls(write, used, to, entrypoint, amount)
    BY <1>9 DEF Calling
  <2> DEFINE a == AwaitFrame(Interrupted(write).data, Len(changeset))
             b == InitialFrame(running.address, to, contracts[to].contract_name,
                               entrypoint, amount, trace_elements + 1)
  <2>1. status = "exec" /\ stack' = stack \o <<a, b>>
    BY DEF RunCalls
  <2>2. FrameMade(a)
    BY <2>1, InterruptedView DEF AwaitFrame, FrameMade
  <2>3. FrameMade(b)
    BY DEF InitialFrame, FrameMade
  <2> HIDE DEF a, b
  <2>4. /\ Len(stack') = L + 2 /\ stack'[L + 1] = a /\ stack'[L + 2] = b
        /\ \A n \in 1 .. L : stack'[n] = stack[n]
    BY <1>1, <2>1
  <2>5. \A n \in 1 .. Len(stack') : n \in 1 .. L \/ n = L + 1 \/ n = L + 2
    BY <1>1, <2>4
  <2> QED
    BY <1>2, <2>1, <2>2, <2>3, <2>4, <2>5
<1> HIDE DEF Kept, Made
<1>10. \A n \in 1 .. Len(stack') : Kept(n) \/ Made(n)
  BY <1>3, <1>4, <1>5, <1>6, <1>7, <1>8, <1>9, StepKinds
<1> QED
  BY <1>10 DEF Kept, Made

-----------------------------------------------------------------------------
(* Funds that are reserved *)

(* A handler that starts has spent nothing.                                *)
HandlerStartsFunded ==
    \A t \in Transaction, energy \in Nat :
      Admissible(t) /\ HandlerInit(t, energy) => FundsInv /\ LayersConserve

(* The only layer is empty, the only frame that of the transaction.        *)
LEMMA HandlerInitFunds == HandlerStartsFunded
<1> SUFFICES ASSUME NEW t \in Transaction, NEW energy \in Nat,
                    Admissible(t), HandlerInit(t, energy)
             PROVE  FundsInv /\ LayersConserve
  BY DEF HandlerStartsFunded
<1>1. /\ changeset = <<EmptyLayer>> /\ Len(changeset) = 1 /\ changeset[1] = EmptyLayer
      /\ Len(stack) = 1 /\ stack[1].sender = tx.sender /\ stack[1].amount = tx.amount
      /\ Admissible(tx)
  BY HandlerFacts
<1>2. \A n \in 1 .. 1 : n = 1
  OBVIOUS
<1>3. FundsKept(EmptyLayer)
  BY DEF FundsKept, EmptyLayer
<1>4. Top = EmptyLayer
  BY <1>1 DEF Top
<1> HIDE DEF EmptyLayer
<1>5. available(accounts[KeyOf[tx.invoker]]) >= tx.reserved_amount + tx.amount
  BY <1>1 DEF Admissible
<1>6. FundsInv
  BY <1>1, <1>2, <1>3, <1>4, <1>5 DEF FundsInv
<1>7. \A n \in DOMAIN changeset : changeset[n] = EmptyLayer
  BY <1>1
<1> QED
  BY <1>6, <1>7, EmptyLayerDelta DEF LayersConserve

(* Initially nothing is spent.                                             *)
LEMMA InitFunds == Init => FundsInv /\ LayersConserve
<1> SUFFICES ASSUME Init PROVE FundsInv /\ LayersConserve
  OBVIOUS
<1> PICK t \in Transaction : Admissible(t) /\ HandlerInit(t, t.energy_reserved)
  BY InitSound
<1>1. t.energy_reserved \in Nat
  BY DEF Transaction
<1> QED
  BY <1>1, HandlerInitFunds DEF HandlerStartsFunded

(* Every step of the handler keeps the funds invariant.                    *)
LEMMA NextFunds == Inv /\ FundsInv /\ [Next]_vars => FundsInv'
<1> SUFFICES ASSUME Inv, FundsInv, [Next]_vars PROVE FundsInv'
  OBVIOUS
<1>1. CASE UNCHANGED vars
  BY <1>1 DEF vars, FundsInv, FundsKept, Reserve, Top
<1>2. CASE Next
  <2>1. accounts' = accounts /\ tx' = tx
    BY <1>2, ChainRead DEF chain
  <2>2. \A l : FundsKept(l)' <=> FundsKept(l)
    BY <2>1 DEF FundsKept, Reserve
  <2>3. \A n \in 1 .. Len(changeset') : FundsKept(changeset'[n])
    BY <1>2, LayersKeep DEF FundsInv
  <2>4. \A n \in 1 .. Len(changeset') : FundsKept(changeset[n])'
    BY <2>2, <2>3
  <2>5. ASSUME NEW n \in 1 .. Len(stack'), stack'[n].kind = "initial",
               stack'[n].sender \in AccountAddrs
        PROVE  /\ Top' = EmptyLayer
               /\ stack'[n].sender = tx.sender
               /\ stack'[n].amount = tx.amount
    <3>1. status = "exec" => running.address \in ContractAddrs
      BY RunFacts
    <3>2. ~(status = "exec" /\ FrameMade(stack'[n]))
      BY <2>5, <3>1, AddressAssumption DEF FrameMade
    <3>3. n \in 1 .. Len(stack) /\ stack'[n] = stack[n] /\ changeset' = changeset
      BY <1>2, <2>5, <3>2, FramesKeep
    <3> QED
      BY <2>5, <3>3 DEF FundsInv, Top
  <2>6. available(accounts[KeyOf[tx.invoker]]) >= tx.reserved_amount + tx.amount
    BY DEF FundsInv
  <2>7. EmptyLayer' = EmptyLayer
    BY DEF EmptyLayer
  <2> HIDE DEF EmptyLayer
  <2> QED
    BY <2>1, <2>4, <2>5, <2>6, <2>7 DEF FundsInv
<1> QED
  BY <1>1, <1>2

(* No contract, and no alias of an account, spends what the account has     *)
(* staked or locked, or what the invoker reserved for energy: whatever the  *)
(* invocation did, contract_update can still charge its fee.                *)
THEOREM ReservesStay == Spec => []ReservedFundsKept
<1>1. Inv /\ FundsInv => ReservedFundsKept
  <2> SUFFICES ASSUME Inv, FundsInv, NEW n \in DOMAIN changeset, NEW k \in AccountKeys,
                      changeset[n].accounts[k] # None
               PROVE  available(accounts[k]) + Value(changeset[n].accounts[k].balance_delta)
                        >= IF k = KeyOf[tx.invoker] THEN tx.reserved_amount ELSE 0
    BY DEF ReservedFundsKept
  <2>1. n \in 1 .. Len(changeset)
    BY LenProperties DEF Inv, LayersOK
  <2> QED
    BY <2>1 DEF FundsInv, FundsKept, Reserve
<1>2. Init => Inv /\ FundsInv
  BY InitInv, InitFunds
<1>3. Inv /\ FundsInv /\ [Next]_vars => (Inv /\ FundsInv)'
  BY NextInv, NextFunds
<1> QED
  BY <1>1, <1>2, <1>3, PTL DEF Spec

-----------------------------------------------------------------------------
(* Upgrades *)

(* Root calls name the contract of the instance they are for: the handler   *)
(* takes the name from the payload of the transaction.                      *)
NamesMatch ==
    \A ch \in Chains, t \in Transactions :
      ch.contracts[t.address] # None => t.name = ch.contracts[t.address].contract_name

(* What UpgradesKeepContract says, layer by layer *)
LEMMA UpgradesByLayer ==
    ASSUME Inv
    PROVE  UpgradesKeepContract <=> \A n \in 1 .. Len(changeset) : UpgradesNamed(changeset[n])
<1>1. DOMAIN changeset = 1 .. Len(changeset)
  BY LenProperties DEF Inv, LayersOK
<1> QED
  BY <1>1 DEF UpgradesKeepContract, UpgradesNamed, UpgradeOf

(* Initially each root call names its contract.                            *)
LEMMA InitNames == ASSUME NamesMatch, Init PROVE NamesInv
<1>1. /\ Len(changeset) = 1 /\ changeset[1] = EmptyLayer
      /\ Len(stack) = 1 /\ stack[1].kind = "initial" /\ running = None
      /\ stack[1].address = tx.address /\ stack[1].name = tx.name
  BY InitFacts
<1>2. contracts[tx.address] # None => tx.name = contracts[tx.address].contract_name
  BY DEF Init, HandlerInit, NamesMatch
<1>3. \A n \in 1 .. 1 : n = 1
  OBVIOUS
<1>4. UpgradesNamed(EmptyLayer)
  BY DEF UpgradesNamed, UpgradeOf, EmptyLayer
<1> HIDE DEF EmptyLayer
<1>5. UpgradesKeepContract
  BY <1>1, <1>3, <1>4, InitInv, UpgradesByLayer
<1> QED
  BY <1>1, <1>2, <1>3, <1>5 DEF NamesInv

(* The entrypoint that runs after a step *)
LEMMA RunningNamed ==
    ASSUME Inv, NamesInv, Next, running' # None
    PROVE  Named(running')
<1>1. ASSUME stack # <<>>
      PROVE  /\ Len(stack) \in 1 .. Len(stack)
             /\ Frame \in FrameType
             /\ Frame.kind # "initial" => Named(Frame.data) /\ Frame.data \in InvocationData
             /\ Frame.kind = "initial" /\ contracts[Frame.address] # None
                  => Frame.name = contracts[Frame.address].contract_name
  <2>1. stack \in Seq(FrameType)
    BY DEF Inv, StackOK
  <2>2. Len(stack) \in 1 .. Len(stack)
    BY <1>1, <2>1, EmptySeq, LenProperties
  <2>3. Frame \in FrameType
    BY <1>1, PopFacts
  <2> QED
    BY <2>2, <2>3, FrameFacts DEF NamesInv, Frame
<1>2. ASSUME NEW data \in InvocationData, Named(data), NEW response
      PROVE  Named(Seen(data, response))
  BY <1>2 DEF Named, Seen, InvocationData
<1>3. Exits => Named(running')
  BY DEF Exits, Exit, NamesInv
<1>4. InitialRuns => Named(running')
  <2> SUFFICES ASSUME InitialRuns PROVE Named(running')
    OBVIOUS
  <2>1. /\ stack # <<>> /\ Frame.kind = "initial" /\ InitialTransfer(Frame).err = "ok"
        /\ running'.address = Frame.address /\ running'.contract_name = Frame.name
    BY DEF InitialRuns
  <2>2. contracts[Frame.address] # None
    BY <2>1, InitialTransferOK
  <2> QED
    BY <1>1, <2>1, <2>2 DEF Named
<1>5. ResumeImmediate => Named(running')
  BY <1>1, <1>2 DEF ResumeImmediate
<1>6. ResumeAfterSuccess => Named(running')
  <2> SUFFICES ASSUME ResumeAfterSuccess PROVE Named(running')
    OBVIOUS
  <2>1. stack # <<>> /\ Frame.kind = "await"
    BY DEF ResumeAfterSuccess
  <2>2. Frame.data \in InvocationData /\ Named(Frame.data)
    BY <1>1, <2>1
  <2>3. running'.address = Frame.data.address /\ running'.contract_name = Frame.data.contract_name
    BY <2>2 DEF ResumeAfterSuccess, InvocationData
  <2> QED
    BY <2>2, <2>3 DEF Named
<1>7. ResumeAfterFailure => Named(running')
  BY <1>1 DEF ResumeAfterFailure
<1>8. InitialAnswering => Named(running')
  BY DEF InitialAnswering, InitialAnswers, NamesInv
<1>9. ~Succeeding /\ ~Failing /\ ~Answering /\ ~Calling
  BY DEF Succeeding, RunSucceeds, Failing, RunFails, Answering, Answer, Calling, RunCalls
<1> QED
  BY <1>3, <1>4, <1>5, <1>6, <1>7, <1>8, <1>9, StepKinds

(* Every step of the handler keeps the names.                              *)
LEMMA NextNames == Inv /\ NamesInv /\ [Next]_vars => NamesInv'
<1> SUFFICES ASSUME Inv, NamesInv, [Next]_vars PROVE NamesInv'
  OBVIOUS
<1>1. CASE UNCHANGED vars
  BY <1>1 DEF vars, NamesInv, Named, UpgradesKeepContract
<1>2. CASE Next
  <2>1. contracts' = contracts /\ modules' = modules
    BY <1>2, ChainRead DEF chain
  <2>2. Inv'
    BY NextInv
  <2>3. Len(changeset) \in 1 .. Len(changeset)
    BY <1>2, LayersKeep
  <2>4. \A n \in 1 .. Len(changeset) : UpgradesNamed(changeset[n])
    BY UpgradesByLayer DEF NamesInv
  <2>5. UpgradesNamed(Top)
    BY <2>3, <2>4 DEF Top
  <2>6. \A n \in 1 .. Len(changeset') : UpgradesNamed(changeset'[n])
    BY <1>2, <2>4, <2>5, LayersKeep
  <2>7. DOMAIN changeset' = 1 .. Len(changeset')
    BY <2>2, LenProperties DEF Inv, LayersOK
  <2>8. UpgradesKeepContract'
    BY <2>1, <2>6, <2>7 DEF UpgradesKeepContract, UpgradesNamed, UpgradeOf
  <2>9. ASSUME NEW n \in 1 .. Len(stack')
        PROVE  IF stack'[n].kind = "initial"
                 THEN contracts[stack'[n].address] # None
                        => stack'[n].name = contracts[stack'[n].address].contract_name
                 ELSE Named(stack'[n].data)
    <3>1. status = "exec" => Named(running)
      BY RunFacts, NoneAssumption DEF NamesInv
    <3>2. CASE n \in 1 .. Len(stack) /\ stack'[n] = stack[n]
      BY <3>2 DEF NamesInv
    <3>3. CASE status = "exec" /\ FrameMade(stack'[n])
      BY <3>1, <3>3 DEF FrameMade, Named
    <3> QED
      BY <1>2, <3>2, <3>3, FramesKeep
  <2>10. running' # None => Named(running')
    BY <1>2, RunningNamed
  <2>11. \A d : Named(d)' <=> Named(d)
    BY <2>1 DEF Named
  <2> QED
    BY <2>1, <2>8, <2>9, <2>10, <2>11 DEF NamesInv
<1> QED
  BY <1>1, <1>2

(* When the root call names the contract it is for, no sequence of nested   *)
(* calls, rollbacks and upgrades moves an instance to a module that is not  *)
(* deployed or lacks its contract.                                          *)
THEOREM UpgradesKeep == NamesMatch => (Spec => []UpgradesKeepContract)
<1> SUFFICES ASSUME NamesMatch PROVE Spec => []UpgradesKeepContract
  OBVIOUS
<1>1. NamesInv => UpgradesKeepContract
  BY DEF NamesInv
<1>2. Init => Inv /\ NamesInv
  BY InitInv, InitNames
<1>3. Inv /\ NamesInv /\ [Next]_vars => (Inv /\ NamesInv)'
  BY NextInv, NextNames
<1> QED
  BY <1>1, <1>2, <1>3, PTL DEF Spec

-----------------------------------------------------------------------------
(* The books of a chain: the inductive invariant, part by part *)

(* Only addresses that were given out are in use. *)
IndexInv ==
    /\ next_contract_index \in Nat
    /\ \A c \in ContractAddrs : contracts[c] # None => c < next_contract_index

LedgerInv == issued \in Int /\ fees \in Int /\ SupplyConserved

(* A handler works for a transaction that can be paid for. *)
HandlerInv ==
    /\ Inv /\ FundsInv /\ LayersConserve
    /\ tx.reserved_amount = calculate_energy_cost(tx.energy_reserved)
    /\ remaining_energy <= tx.energy_reserved

ChainInv ==
    /\ ChainTyped
    /\ IndexInv
    /\ LedgerInv
    /\ rate \in Rates
    /\ mode # "idle" => HandlerInv

-----------------------------------------------------------------------------
(* Energy and its price *)

(* The price of energy is an amount of CCD, rises with the energy, and is  *)
(* nothing for none.                                                       *)
LEMMA EnergyCost ==
    ASSUME rate \in Rates, NEW e \in Nat
    PROVE  /\ calculate_energy_cost(e) \in Nat
           /\ calculate_energy_cost(0) = 0
           /\ \A d \in Nat : d <= e => calculate_energy_cost(d) <= calculate_energy_cost(e)
<1> DEFINE n == rate.num
           m == rate.den
<1>1. n \in Nat /\ m \in Nat \ {0}
  BY ChainCosts
<1> HIDE DEF n, m
<1>2. ASSUME NEW d \in Nat PROVE d * n \in Nat /\ d * n + m - 1 \in Nat
  BY <1>1
<1>3. \A d \in Nat : d <= e => d * n <= e * n
  BY <1>1
<1>4. \A a, b \in Nat : a <= b => a \div m <= b \div m
  BY <1>1
<1>5. \A a \in Nat : a \div m \in Nat
  BY <1>1
<1>6. ASSUME NEW d \in Nat, d <= e
      PROVE  (d * n + m - 1) \div m <= (e * n + m - 1) \div m
  BY <1>1, <1>2, <1>3, <1>4, <1>6
<1>7. (0 * n + m - 1) \div m = 0
  BY <1>1
<1> QED
  BY <1>2, <1>5, <1>6, <1>7 DEF calculate_energy_cost, n, m

-----------------------------------------------------------------------------
(* Balances *)

(* What an account can spend is part of what it has. *)
LEMMA AvailableType ==
    ASSUME NEW b \in Account
    PROVE  /\ available(b) \in Int /\ available(b) <= b.total
           /\ b.total \in Nat /\ b.total <= MaxAmount
  BY MaxAmountAssumption DEF Account, Amount, available

(* Accounts that are charged what they can spend stay in order. *)
AccountsOK(accts) ==
    /\ accts \in [AccountKeys -> Account \cup {None}]
    /\ \A k \in AccountKeys : accts[k] # None => available(accts[k]) >= 0

(* The totals are numbers, and so are their sums.                          *)
LEMMA TotalsType ==
    /\ \A accts \in [AccountKeys -> Account \cup {None}] :
         /\ AccountTotals(accts) \in [AccountKeys -> Int]
         /\ SumOver(AccountTotals(accts), AccountKeys) \in Int
    /\ \A instances \in [ContractAddrs -> Contract \cup {None}] :
         /\ ContractTotals(instances) \in [ContractAddrs -> Int]
         /\ SumOver(ContractTotals(instances), ContractAddrs) \in Int
<1>1. ASSUME NEW accts \in [AccountKeys -> Account \cup {None}]
      PROVE  AccountTotals(accts) \in [AccountKeys -> Int]
  BY MaxAmountAssumption DEF AccountTotals, Account, Amount
<1>2. ASSUME NEW instances \in [ContractAddrs -> Contract \cup {None}]
      PROVE  ContractTotals(instances) \in [ContractAddrs -> Int]
  BY MaxAmountAssumption DEF ContractTotals, Contract, Amount
<1> QED
  BY <1>1, <1>2, SumOfType, SumOverIsSumOf, AddressAssumption

(* The totals that persist would write for a layer: none is below zero,    *)
(* and as what one account gained others lost, none exceeds all CCD there  *)
(* is.                                                                     *)
LEMMA TotalsFit ==
    ASSUME Inv, NEW layer, LayerOK(layer), FundsKept(layer), LayerDelta(layer) = 0,
           NEW k \in AccountKeys, layer.accounts[k] # None
    PROVE  LET total == apply_to_balance(layer.accounts[k].balance_delta, accounts[k].total)
           IN  total \in Nat /\ total <= TotalOfAccounts + TotalOfContracts
<1> DEFINE dc == ContractDeltas(layer)
           da == AccountDeltas(layer)
           fc == ContractTotals(contracts)
           fa == AccountTotals(accounts)
           hc == [c \in ContractAddrs |-> fc[c] + dc[c]]
           ha == [j \in AccountKeys |-> fa[j] + da[j]]
<1>1. /\ dc \in [ContractAddrs -> Int] /\ da \in [AccountKeys -> Int]
      /\ SumOver(dc, ContractAddrs) \in Int /\ SumOver(da, AccountKeys) \in Int
  BY LayerDeltaType
<1>2. /\ accounts \in [AccountKeys -> Account \cup {None}]
      /\ contracts \in [ContractAddrs -> Contract \cup {None}]
      /\ \A j \in AccountKeys : accounts[j] # None => available(accounts[j]) >= 0
  BY DEF Inv, ChainOK, ChainTyped
<1>3. /\ fc \in [ContractAddrs -> Int] /\ fa \in [AccountKeys -> Int]
      /\ SumOver(fc, ContractAddrs) \in Int /\ SumOver(fa, AccountKeys) \in Int
  BY <1>2, TotalsType
<1>4. hc \in [ContractAddrs -> Int] /\ ha \in [AccountKeys -> Int]
  <2> HIDE DEF dc, da, fc, fa
  <2> QED
    BY <1>1, <1>3
<1>5. ASSUME NEW c \in ContractAddrs PROVE fc[c] + dc[c] >= 0
  <2> DEFINE e == layer.contracts[c]
  <2>1. CASE e = None
    <3>1. dc[c] = 0
      BY <2>1 DEF ContractDeltas
    <3>2. fc[c] >= 0
      BY <1>2, MaxAmountAssumption DEF ContractTotals, Contract, Amount
    <3> HIDE DEF dc, fc
    <3> QED
      BY <1>3, <3>1, <3>2
  <2>2. CASE e # None
    <3>1. ContractChangeOK(c, e)
      BY <2>2 DEF LayerOK
    <3>2. dc[c] = Value(e.self_balance_delta) /\ fc[c] = e.self_balance_original
      BY <2>2, <3>1 DEF ContractDeltas, ContractTotals, ContractChangeOK
    <3>3. e.self_balance_original + Value(e.self_balance_delta) >= 0
      BY <3>1, MaxAmountAssumption DEF ContractChangeOK, apply_to_balance, Amount
    <3> HIDE DEF dc, fc, e
    <3> QED
      BY <3>2, <3>3
  <2> QED
    BY <2>1, <2>2
<1>6. ASSUME NEW j \in AccountKeys PROVE fa[j] + da[j] >= 0
  <2> DEFINE e == layer.accounts[j]
  <2>1. CASE e = None
    <3>1. da[j] = 0
      BY <2>1 DEF AccountDeltas
    <3>2. fa[j] >= 0
      BY <1>2, MaxAmountAssumption DEF AccountTotals, Account, Amount
    <3> HIDE DEF da, fa
    <3> QED
      BY <1>3, <3>1, <3>2
  <2>2. CASE e # None
    <3>1. accounts[j] \in Account /\ accounts[j] # None
      BY <1>2, <2>2 DEF LayerOK, AccountChangeOK
    <3>2. da[j] = Value(e.balance_delta) /\ fa[j] = accounts[j].total
      BY <2>2, <3>1 DEF AccountDeltas, AccountTotals
    <3>3. available(accounts[j]) + Value(e.balance_delta) >= Reserve(j) /\ Reserve(j) >= 0
          /\ Reserve(j) \in Int
      BY <2>2, MaxAmountAssumption DEF FundsKept, Reserve, Inv, ChainOK, Amount
    <3>4. /\ available(accounts[j]) \in Int /\ available(accounts[j]) <= accounts[j].total
          /\ accounts[j].total \in Nat
      BY <3>1, AvailableType
    <3>5. da[j] \in Int
      BY <1>1
    <3> HIDE DEF da, fa, e, Reserve
    <3> QED
      BY <3>2, <3>3, <3>4, <3>5
  <2> QED
    BY <2>1, <2>2
<1>7. apply_to_balance(layer.accounts[k].balance_delta, accounts[k].total) = ha[k]
  <2>1. accounts[k] # None
    BY DEF LayerOK, AccountChangeOK
  <2> QED
    BY <2>1 DEF apply_to_balance, AccountTotals, AccountDeltas
<1>8. (\A c \in ContractAddrs : hc[c] = fc[c] + dc[c]) /\ \A j \in AccountKeys : ha[j] = fa[j] + da[j]
  OBVIOUS
<1>9. SumOver(dc, ContractAddrs) + SumOver(da, AccountKeys) = 0
  BY DEF LayerDelta
<1> HIDE DEF dc, da, fc, fa, hc, ha
<1>10. SumOf(hc, ContractAddrs) = SumOf(fc, ContractAddrs) + SumOf(dc, ContractAddrs)
  BY <1>1, <1>3, <1>4, <1>8, SumOfSums, AddressAssumption
<1>11. SumOf(ha, AccountKeys) = SumOf(fa, AccountKeys) + SumOf(da, AccountKeys)
  BY <1>1, <1>3, <1>4, <1>8, SumOfSums, AddressAssumption
<1>12. SumOf(hc, ContractAddrs) \in Nat
  <2>1. hc \in [ContractAddrs -> Nat]
    BY <1>4, <1>5, <1>8
  <2> QED
    BY <2>1, SumOfNat, AddressAssumption
<1>13. ha[k] <= SumOf(ha, AccountKeys) /\ ha[k] \in Nat
  <2>1. \A j \in AccountKeys : ha[j] >= 0
    BY <1>6, <1>8
  <2> QED
    BY <1>4, <2>1, PartOfSum, AddressAssumption
<1>14. SumOf(ha, AccountKeys) \in Int
  BY <1>4, SumOfType, AddressAssumption
<1>15. SumOf(ha, AccountKeys) + SumOf(hc, ContractAddrs)
         = SumOver(fa, AccountKeys) + SumOver(fc, ContractAddrs)
  BY <1>1, <1>3, <1>9, <1>10, <1>11, SumOverIsSumOf
<1>16. ha[k] <= SumOver(fa, AccountKeys) + SumOver(fc, ContractAddrs)
  BY <1>12, <1>13, <1>14, <1>15
<1> QED
  BY <1>7, <1>13, <1>16 DEF TotalOfAccounts, TotalOfContracts, fa, fc

(* The changes of every layer lead to amounts: the balances the contracts  *)
(* are shown, and those that persist would write, of which the totals of   *)
(* accounts need all CCD there is to fit an amount.                        *)
THEOREM BalancesAreAmounts == Spec => []DeltasApplicable
<1> DEFINE TotalIs(n, k, S) == apply_to_balance(changeset[n].accounts[k].balance_delta,
                                                accounts[k].total) \in S
<1>1. Inv /\ FundsInv /\ LayersConserve => DeltasApplicable
  <2> SUFFICES ASSUME Inv, FundsInv, LayersConserve, NEW n \in DOMAIN changeset
               PROVE  /\ \A c \in ContractAddrs : changeset[n].contracts[c] # None =>
                            ContractChangeOK(c, changeset[n].contracts[c])
                      /\ \A k \in AccountKeys : changeset[n].accounts[k] # None =>
                            /\ AccountChangeOK(k, changeset[n].accounts[k])
                            /\ TotalIs(n, k, Nat)
                            /\ TotalOfAccounts + TotalOfContracts <= MaxAmount
                                 => TotalIs(n, k, Amount)
    BY DEF DeltasApplicable, ContractChangeOK, AccountChangeOK
  <2>1. LayersOK(changeset)
    BY DEF Inv
  <2>2. n \in 1 .. Len(changeset)
    BY <2>1, LenProperties DEF LayersOK
  <2>3. LayerOK(changeset[n]) /\ FundsKept(changeset[n]) /\ LayerDelta(changeset[n]) = 0
    BY <2>1, <2>2 DEF LayersOK, FundsInv, LayersConserve
  <2>4. ASSUME NEW k \in AccountKeys, changeset[n].accounts[k] # None
        PROVE  /\ TotalIs(n, k, Nat)
               /\ TotalOfAccounts + TotalOfContracts <= MaxAmount => TotalIs(n, k, Amount)
    <3> DEFINE total == apply_to_balance(changeset[n].accounts[k].balance_delta,
                                         accounts[k].total)
    <3>1. total \in Nat /\ total <= TotalOfAccounts + TotalOfContracts
      BY <2>3, <2>4, TotalsFit
    <3>2. TotalOfAccounts + TotalOfContracts \in Int
      BY TotalsType DEF TotalOfAccounts, TotalOfContracts, Inv, ChainOK, ChainTyped
    <3> HIDE DEF total
    <3>3. TotalOfAccounts + TotalOfContracts <= MaxAmount => total \in Amount
      BY <3>1, <3>2, MaxAmountAssumption DEF Amount
    <3> QED
      BY <3>1, <3>3 DEF total
  <2> QED
    BY <2>3, <2>4 DEF LayerOK
<1>2. Init => Inv /\ FundsInv /\ LayersConserve
  BY InitInv, InitFunds
<1>3. Inv /\ FundsInv /\ LayersConserve /\ [Next]_vars => (Inv /\ FundsInv /\ LayersConserve)'
  BY NextInv, NextFunds, NextConserves
<1> QED
  BY <1>1, <1>2, <1>3, PTL DEF Spec

(* Replacing one account changes the sum by as much as its total.          *)
LEMMA AccountReplaced ==
    ASSUME NEW accts \in [AccountKeys -> Account \cup {None}],
           NEW k \in AccountKeys, NEW b \in Account
    PROVE  SumOver(AccountTotals([accts EXCEPT ![k] = b]), AccountKeys)
             = SumOver(AccountTotals(accts), AccountKeys)
                 + (b.total - (IF accts[k] = None THEN 0 ELSE accts[k].total))
<1> DEFINE new == [accts EXCEPT ![k] = b]
           f   == AccountTotals(accts)
           g   == AccountTotals(new)
<1>1. new \in [AccountKeys -> Account \cup {None}] /\ b # None
  BY ChainCosts
<1>2. f \in [AccountKeys -> Int] /\ g \in [AccountKeys -> Int]
  BY <1>1, TotalsType
<1>3. \A j \in AccountKeys : j # k => g[j] = f[j]
  BY DEF AccountTotals
<1>4. g[k] = b.total /\ f[k] = IF accts[k] = None THEN 0 ELSE accts[k].total
  BY <1>1 DEF AccountTotals
<1> HIDE DEF f, g
<1>5. SumOf(g, AccountKeys) = SumOf(f, AccountKeys) + (g[k] - f[k])
  BY <1>2, <1>3, SumOfChange, AddressAssumption
<1> QED
  BY <1>4, <1>5, SumOverIsSumOf DEF f, g

(* A charge that the account can pay.                                      *)
LEMMA Charged ==
    ASSUME NEW accts, AccountsOK(accts), NEW k \in AccountKeys, accts[k] # None,
           NEW fee \in Nat, fee <= available(accts[k])
    PROVE  LET new == [accts EXCEPT ![k].total = @ - fee]
           IN  /\ AccountsOK(new)
               /\ SumOver(AccountTotals(new), AccountKeys)
                    = SumOver(AccountTotals(accts), AccountKeys) - fee
               /\ \A j \in AccountKeys : (new[j] = None) = (accts[j] = None)
               /\ \A j \in AccountKeys \ {k} : new[j] = accts[j]
               /\ new[k].total = accts[k].total - fee
<1> DEFINE b   == [accts[k] EXCEPT !.total = @ - fee]
           new == [accts EXCEPT ![k] = b]
<1>1. accts[k] \in Account
  BY DEF AccountsOK
<1>2. /\ available(accts[k]) \in Int /\ available(accts[k]) <= accts[k].total
      /\ accts[k].total \in Nat /\ accts[k].total <= MaxAmount
  BY <1>1, AvailableType
<1>3. /\ b \in [total: Int, staked: Amount, locked: Amount]
      /\ b.total = accts[k].total - fee
      /\ b.staked = accts[k].staked /\ b.locked = accts[k].locked
  BY <1>1, <1>2 DEF Account
<1>4. b.total \in Amount
  BY <1>2, <1>3, MaxAmountAssumption DEF Amount
<1>5. b \in Account
  BY <1>3, <1>4 DEF Account
<1>6. available(b) = available(accts[k]) - fee
  BY <1>1, <1>3, MaxAmountAssumption DEF available, Account, Amount
<1> HIDE DEF b
<1>7. available(b) >= 0
  BY <1>2, <1>6
<1>8. AccountsOK(new)
  BY <1>5, <1>7 DEF AccountsOK
<1>9. SumOver(AccountTotals(new), AccountKeys)
        = SumOver(AccountTotals(accts), AccountKeys) + (b.total - accts[k].total)
  BY <1>5, AccountReplaced DEF AccountsOK
<1>10. SumOver(AccountTotals(accts), AccountKeys) \in Int
  BY TotalsType DEF AccountsOK
<1>11. SumOver(AccountTotals(new), AccountKeys)
         = SumOver(AccountTotals(accts), AccountKeys) - fee
  BY <1>2, <1>3, <1>9, <1>10
<1>12. /\ \A j \in AccountKeys : (new[j] = None) = (accts[j] = None)
       /\ \A j \in AccountKeys \ {k} : new[j] = accts[j]
       /\ new[k] = b
  BY <1>5, ChainCosts DEF AccountsOK
<1>13. new = [accts EXCEPT ![k].total = @ - fee]
  BY DEF b
<1> QED
  BY <1>3, <1>8, <1>11, <1>12, <1>13

(* Replacing one contract changes the sum by as much as its balance.       *)
LEMMA ContractReplaced ==
    ASSUME NEW instances \in [ContractAddrs -> Contract \cup {None}],
           NEW c \in ContractAddrs, NEW i \in Contract, instances[c] = None
    PROVE  SumOver(ContractTotals([instances EXCEPT ![c] = i]), ContractAddrs)
             = SumOver(ContractTotals(instances), ContractAddrs) + i.self_balance
<1> DEFINE new == [instances EXCEPT ![c] = i]
           f   == ContractTotals(instances)
           g   == ContractTotals(new)
<1>1. new \in [ContractAddrs -> Contract \cup {None}] /\ i # None
  BY ChainCosts
<1>2. f \in [ContractAddrs -> Int] /\ g \in [ContractAddrs -> Int]
  BY <1>1, TotalsType
<1>3. \A b \in ContractAddrs : b # c => g[b] = f[b]
  BY DEF ContractTotals
<1>4. g[c] = i.self_balance /\ f[c] = 0
  BY <1>1 DEF ContractTotals
<1> HIDE DEF f, g
<1>5. SumOf(g, ContractAddrs) = SumOf(f, ContractAddrs) + (g[c] - f[c])
  BY <1>2, <1>3, SumOfChange, AddressAssumption
<1>6. SumOf(f, ContractAddrs) \in Int /\ g[c] \in Int
  BY <1>2, SumOfType, AddressAssumption
<1>7. SumOf(g, ContractAddrs) = SumOf(f, ContractAddrs) + i.self_balance
  BY <1>4, <1>5, <1>6
<1> QED
  BY <1>7, SumOverIsSumOf DEF f, g

-----------------------------------------------------------------------------
(* Operations that are no contract calls *)

(* A step that ends without a handler, with its books in order             *)
LEMMA StepIdle ==
    ASSUME NEW accts, accounts' = accts, AccountsOK(accts),
           NEW instances \in [ContractAddrs -> Contract \cup {None}], contracts' = instances,
           NEW mods \in [ModuleRefs -> Module \cup {None}], modules' = mods,
           \A c \in ContractAddrs : instances[c] # None =>
             mods[instances[c].module_reference] # None,
           NEW index \in Nat, next_contract_index' = index,
           \A c \in ContractAddrs : instances[c] # None => c < index,
           rate' \in Rates, mode' = "idle",
           NEW out \in Int, fees' = out, NEW in \in Int, issued' = in,
           SumOver(AccountTotals(accts), AccountKeys)
             + SumOver(ContractTotals(instances), ContractAddrs) + out = in
    PROVE  ChainInv'
<1>1. ChainTyped'
  BY DEF ChainTyped, AccountsOK
<1>2. IndexInv'
  BY DEF IndexInv
<1>3. /\ (SumOver(AccountTotals(accounts), AccountKeys))' = SumOver(AccountTotals(accts), AccountKeys)
      /\ (SumOver(ContractTotals(contracts), ContractAddrs))'
            = SumOver(ContractTotals(instances), ContractAddrs)
  OBVIOUS
<1>4. LedgerInv'
  BY <1>3 DEF LedgerInv, SupplyConserved, TotalOfAccounts, TotalOfContracts
<1> QED
  BY <1>1, <1>2, <1>4 DEF ChainInv

(* What the invariant says of the chain *)
LEMMA ChainFacts ==
    ASSUME ChainInv
    PROVE  /\ AccountsOK(accounts)
           /\ contracts \in [ContractAddrs -> Contract \cup {None}]
           /\ modules \in [ModuleRefs -> Module \cup {None}]
           /\ \A c \in ContractAddrs : contracts[c] # None =>
                modules[contracts[c].module_reference] # None
           /\ next_contract_index \in Nat
           /\ \A c \in ContractAddrs : contracts[c] # None => c < next_contract_index
           /\ rate \in Rates /\ fees \in Int /\ issued \in Int
           /\ SumOver(AccountTotals(accounts), AccountKeys) \in Int
           /\ SumOver(ContractTotals(contracts), ContractAddrs) \in Int
           /\ SumOver(AccountTotals(accounts), AccountKeys)
                + SumOver(ContractTotals(contracts), ContractAddrs) + fees = issued
<1>1. /\ AccountsOK(accounts)
      /\ contracts \in [ContractAddrs -> Contract \cup {None}]
      /\ modules \in [ModuleRefs -> Module \cup {None}]
      /\ \A c \in ContractAddrs : contracts[c] # None =>
           modules[contracts[c].module_reference] # None
  BY DEF ChainInv, ChainTyped, AccountsOK
<1>2. /\ SumOver(AccountTotals(accounts), AccountKeys) \in Int
      /\ SumOver(ContractTotals(contracts), ContractAddrs) \in Int
  BY <1>1, TotalsType DEF AccountsOK
<1> QED
  BY <1>1, <1>2 DEF ChainInv, IndexInv, LedgerInv, SupplyConserved, TotalOfAccounts,
     TotalOfContracts

(* An account pays a fee, and nothing else of value changes.               *)
LEMMA FeeCharged ==
    ASSUME ChainInv, NEW k \in AccountKeys, accounts[k] # None,
           NEW fee \in Nat, fee <= available(accounts[k]),
           accounts' = Charge(k, fee), contracts' = contracts,
           NEW mods \in [ModuleRefs -> Module \cup {None}], modules' = mods,
           \A m \in ModuleRefs : modules[m] # None => mods[m] # None,
           next_contract_index' \in {next_contract_index, next_contract_index + 1},
           rate' = rate, mode' = "idle", fees' = fees + fee, issued' = issued
    PROVE  ChainInv'
<1> DEFINE new == [accounts EXCEPT ![k].total = @ - fee]
<1>1. accounts' = new
  BY DEF Charge
<1>2. /\ AccountsOK(new)
      /\ SumOver(AccountTotals(new), AccountKeys)
           = SumOver(AccountTotals(accounts), AccountKeys) - fee
  BY ChainFacts, Charged
<1> HIDE DEF new
<1>3. \A c \in ContractAddrs : contracts[c] # None => mods[contracts[c].module_reference] # None
  <2>1. \A c \in ContractAddrs : contracts[c] # None => contracts[c].module_reference \in ModuleRefs
    BY ChainFacts DEF Contract
  <2> QED
    BY <2>1, ChainFacts
<1>4. /\ next_contract_index' \in Nat
      /\ \A c \in ContractAddrs : contracts[c] # None => c < next_contract_index'
  <2>1. ContractAddrs \subseteq Nat
    BY NumberAssumption
  <2> QED
    BY <2>1, ChainFacts
<1>5. /\ fees + fee \in Int
      /\ SumOver(AccountTotals(new), AccountKeys)
           + SumOver(ContractTotals(contracts), ContractAddrs) + (fees + fee) = issued
  BY <1>2, ChainFacts
<1> QED
  BY <1>1, <1>2, <1>3, <1>4, <1>5, ChainFacts, StepIdle

(* Nothing of value changes. *)
LEMMA NothingCharged ==
    ASSUME ChainInv, accounts' = accounts, contracts' = contracts, modules' = modules,
           next_contract_index' = next_contract_index, rate' \in Rates, mode' = "idle",
           fees' = fees + 0, issued' = issued
    PROVE  ChainInv'
<1>1. fees' = fees
  BY ChainFacts
<1> QED
  BY <1>1, ChainFacts, StepIdle

(* Creating an account brings CCD in, replacing one takes CCD out.         *)
LEMMA CreateAccountKeeps ==
    ASSUME ChainInv, NEW a \in AccountAddrs, NEW balance \in Issues, create_account(a, balance)
    PROVE  ChainInv'
<1> DEFINE k   == KeyOf[a]
           new == [accounts EXCEPT ![k] = balance]
           old == IF accounts[k] = None THEN 0 ELSE accounts[k].total
<1>1. /\ k \in AccountKeys /\ balance \in Account /\ available(balance) >= 0
  BY AddressAssumption, ChainCosts
<1>2. /\ accounts' = new /\ contracts' = contracts /\ modules' = modules
      /\ next_contract_index' = next_contract_index /\ rate' = rate /\ mode' = "idle"
      /\ fees' = fees + 0 /\ issued' = issued + balance.total - old
  BY DEF create_account, Reports, Idle
<1>3. AccountsOK(new)
  BY <1>1, ChainFacts DEF AccountsOK
<1>4. SumOver(AccountTotals(new), AccountKeys)
        = SumOver(AccountTotals(accounts), AccountKeys) + (balance.total - old)
  BY <1>1, ChainFacts, AccountReplaced DEF AccountsOK
<1>5. balance.total \in Int /\ old \in Int
  BY <1>1, ChainFacts, AvailableType DEF AccountsOK
<1> HIDE DEF new, old, k
<1>6. /\ fees + 0 \in Int /\ issued + balance.total - old \in Int
      /\ SumOver(AccountTotals(new), AccountKeys)
           + SumOver(ContractTotals(contracts), ContractAddrs) + (fees + 0)
             = issued + balance.total - old
  BY <1>4, <1>5, ChainFacts
<1> QED
  BY <1>2, <1>3, <1>6, ChainFacts, StepIdle

(* New rates change no balance. *)
LEMMA SetRatesKeeps ==
    ASSUME ChainInv, NEW r \in Rates, set_exchange_rates(r) PROVE ChainInv'
  BY NothingCharged DEF set_exchange_rates, Reports, Idle

(* Deploying a module, or failing to *)
LEMMA DeployKeeps ==
    ASSUME ChainInv, NEW a \in AccountAddrs, NEW m \in ModuleRefs, NEW v1 \in BOOLEAN,
           module_deploy(a, m, v1)
    PROVE  ChainInv'
<1> DEFINE k    == KeyOf[a]
           fee  == calculate_energy_cost(HeaderCost + DeployCost)
           mods == IF Deployable[m] = None \/ modules[m] # None THEN modules
                   ELSE [modules EXCEPT ![m] = Deployable[m]]
<1>1. k \in AccountKeys /\ HeaderCost + DeployCost \in Nat
  BY AddressAssumption, ChainCosts
<1>2. fee \in Nat
  BY <1>1, ChainFacts, EnergyCost
<1>3. /\ contracts' = contracts /\ next_contract_index' = next_contract_index
      /\ rate' = rate /\ mode' = "idle" /\ issued' = issued
  BY DEF module_deploy, Idle
<1>4. \/ accounts' = accounts /\ modules' = modules /\ fees' = fees + 0
      \/ /\ accounts[k] # None /\ fee <= available(accounts[k])
         /\ accounts' = Charge(k, fee) /\ modules' = mods /\ fees' = fees + fee
  <2>1. accounts[k] # None => accounts[k] \in Account
    BY <1>1, ChainFacts DEF AccountsOK
  <2>2. accounts[k] # None => available(accounts[k]) \in Int
    BY <2>1, AvailableType
  <2> HIDE DEF mods
  <2> QED
    BY <1>2, <2>2 DEF module_deploy, Reports, mods
<1>5. mods \in [ModuleRefs -> Module \cup {None}] /\ \A n \in ModuleRefs : modules[n] # None => mods[n] # None
  BY ChainFacts, ChainCosts
<1> HIDE DEF mods, fee, k
<1>6. CASE accounts' = accounts /\ modules' = modules /\ fees' = fees + 0
  BY <1>3, <1>6, ChainFacts, NothingCharged
<1>7. CASE /\ accounts[k] # None /\ fee <= available(accounts[k])
           /\ accounts' = Charge(k, fee) /\ modules' = mods /\ fees' = fees + fee
  BY <1>1, <1>2, <1>3, <1>5, <1>7, FeeCharged
<1> QED
  BY <1>4, <1>6, <1>7

-----------------------------------------------------------------------------
(* contract_init *)

(* What the interpreter may use is at most the energy there is. *)
LEMMA InterpreterEnergy ==
    ASSUME NEW used \in Nat, NEW e \in Nat, used <= e * EnergyFactor
    PROVE  from_interpreter_energy(used) \in Nat /\ from_interpreter_energy(used) <= e
<1>1. EnergyFactor \in Nat \ {0}
  BY CostAssumption
<1> DEFINE q == used \div EnergyFactor
<1>2. q \in Nat /\ EnergyFactor * q <= used
  BY <1>1
<1> HIDE DEF q
<1>3. EnergyFactor * q <= e * EnergyFactor
  BY <1>1, <1>2
<1>4. q <= e
  BY <1>1, <1>2, <1>3
<1> QED
  BY <1>2, <1>4 DEF from_interpreter_energy, q

(* An initialisation that ends early is paid for with what was reserved.   *)
LEMMA InitOverKeeps ==
    ASSUME ChainInv, mode = "idle", NEW k \in AccountKeys, accounts[k] # None,
           NEW e \in Nat, calculate_energy_cost(e) <= available(accounts[k]),
           NEW spent \in Nat, spent <= e, InitOver(k, spent),
           next_contract_index' \in {next_contract_index, next_contract_index + 1}
    PROVE  ChainInv'
<1>1. /\ calculate_energy_cost(spent) \in Nat
      /\ calculate_energy_cost(e) \in Nat
      /\ calculate_energy_cost(spent) <= calculate_energy_cost(e)
  BY ChainFacts, EnergyCost
<1>2. accounts[k] \in Account
  BY ChainFacts DEF AccountsOK
<1>3. available(accounts[k]) \in Int
  BY <1>2, AvailableType
<1>4. calculate_energy_cost(spent) <= available(accounts[k])
  BY <1>1, <1>3
<1>5. /\ accounts' = Charge(k, calculate_energy_cost(spent)) /\ contracts' = contracts
      /\ modules' = modules /\ rate' = rate /\ mode' = "idle" /\ issued' = issued
      /\ fees' = fees + calculate_energy_cost(spent)
  BY DEF InitOver, Reports
<1>6. modules \in [ModuleRefs -> Module \cup {None}]
  BY ChainFacts
<1> HIDE DEF ChainInv
<1> QED
  BY <1>1, <1>4, <1>5, <1>6, FeeCharged

(* The costs of the steps before the init function runs are numbers.       *)
LEMMA PreludeType ==
    ASSUME ChainInv, NEW m \in ModuleRefs, modules[m] # None
    PROVE  InitPrelude(m) \in Nat
<1>1. modules[m] \in Module
  BY ChainFacts
<1> QED
  BY <1>1, ChainCosts, CostAssumption DEF InitPrelude, Module

(* An initialisation is refused before its init function runs.             *)
LEMMA InitFailsKeeps ==
    ASSUME ChainInv, NEW a \in AccountAddrs, NEW m \in ModuleRefs, NEW name,
           NEW amount \in Nat, NEW energy \in Nat, NEW fits \in BOOLEAN,
           contract_init_fails(a, m, name, amount, energy, fits)
    PROVE  ChainInv'
<1> DEFINE k    == KeyOf[a]
           cost == calculate_energy_cost(energy)
           free == available(accounts[k])
           B    == HeaderCost + InitBaseCost
<1>1. /\ k \in AccountKeys /\ HeaderCost \in Nat /\ B \in Nat /\ HeaderCost <= B
      /\ mode = "idle" /\ next_contract_index' = next_contract_index
  BY AddressAssumption, ChainCosts, CostAssumption DEF contract_init_fails, Idle
<1>2. cost \in Nat
  BY ChainFacts, EnergyCost
<1>3. accounts[k] # None => free \in Int /\ free >= 0
  <2>1. accounts[k] # None => accounts[k] \in Account /\ available(accounts[k]) >= 0
    BY <1>1, ChainFacts DEF AccountsOK
  <2> QED
    BY <2>1, AvailableType
<1> HIDE DEF k, cost, free, B
<1>4. \/ accounts[k] = None /\ Reports(0, 0)
           /\ UNCHANGED <<handlerVars, accounts, contracts, modules, rate, mode, issued>>
      \/ accounts[k] # None /\ InitOver(k, 0)
      \/ accounts[k] # None /\ free >= cost /\ energy >= HeaderCost /\ InitOver(k, HeaderCost)
      \/ accounts[k] # None /\ free >= cost /\ energy >= B /\ InitOver(k, B)
      \/ /\ accounts[k] # None /\ free >= cost + amount /\ modules[m] # None
         /\ energy >= InitPrelude(m) /\ InitOver(k, InitPrelude(m))
  BY DEF contract_init_fails, k, cost, free, B
<1>5. CASE accounts[k] = None /\ Reports(0, 0)
             /\ UNCHANGED <<handlerVars, accounts, contracts, modules, rate, mode, issued>>
  BY <1>1, <1>5, ChainFacts, NothingCharged DEF Reports
<1>6. CASE accounts[k] # None /\ InitOver(k, 0)
  <2>1. calculate_energy_cost(0) = 0
    BY <1>2, ChainFacts, EnergyCost
  <2>2. calculate_energy_cost(0) <= available(accounts[k])
    BY <1>3, <1>6, <2>1 DEF free
  <2> QED
    BY <1>1, <1>6, <2>2, InitOverKeeps
<1>7. ASSUME accounts[k] # None, free >= cost, NEW spent \in Nat, spent <= energy, InitOver(k, spent)
      PROVE  ChainInv'
  <2>1. calculate_energy_cost(energy) <= available(accounts[k])
    BY <1>2, <1>3, <1>7 DEF free, cost
  <2> QED
    BY <1>1, <1>7, <2>1, InitOverKeeps
<1>8. CASE /\ accounts[k] # None /\ free >= cost + amount /\ modules[m] # None
           /\ energy >= InitPrelude(m) /\ InitOver(k, InitPrelude(m))
  <2>1. InitPrelude(m) \in Nat /\ InitPrelude(m) <= energy /\ free >= cost
    BY <1>2, <1>3, <1>8, PreludeType
  <2> QED
    BY <1>7, <1>8, <2>1
<1> QED
  BY <1>1, <1>4, <1>5, <1>6, <1>7, <1>8

(* When the init function runs, everything up to it is paid for.           *)
LEMMA RunningPaid ==
    ASSUME ChainInv, NEW a \in AccountAddrs, NEW m \in ModuleRefs, NEW name,
           NEW amount \in Nat, NEW energy \in Nat, InitRuns(a, m, name, amount, energy)
    PROVE  /\ mode = "idle" /\ KeyOf[a] \in AccountKeys /\ accounts[KeyOf[a]] # None
           /\ calculate_energy_cost(energy) \in Nat
           /\ available(accounts[KeyOf[a]]) \in Int
           /\ available(accounts[KeyOf[a]]) >= calculate_energy_cost(energy) + amount
           /\ calculate_energy_cost(energy) <= available(accounts[KeyOf[a]])
           /\ modules[m] # None
           /\ InitPrelude(m) \in Nat /\ InitPrelude(m) <= energy
           /\ energy - InitPrelude(m) \in Nat
<1>1. /\ mode = "idle" /\ accounts[KeyOf[a]] # None /\ modules[m] # None
      /\ available(accounts[KeyOf[a]]) >= calculate_energy_cost(energy) + amount
      /\ energy >= InitPrelude(m)
  BY DEF InitRuns, Idle
<1>2. KeyOf[a] \in AccountKeys
  BY AddressAssumption
<1>3. accounts[KeyOf[a]] \in Account
  BY <1>1, <1>2, ChainFacts DEF AccountsOK
<1>4. available(accounts[KeyOf[a]]) \in Int
  BY <1>3, AvailableType
<1>5. calculate_energy_cost(energy) \in Nat
  BY ChainFacts, EnergyCost
<1>6. InitPrelude(m) \in Nat
  BY <1>1, PreludeType
<1> QED
  BY <1>1, <1>2, <1>4, <1>5, <1>6

(* The init function rejects, traps or runs out of energy.                 *)
LEMMA InitRunFailsKeeps ==
    ASSUME ChainInv, NEW a \in AccountAddrs, NEW m \in ModuleRefs, NEW name,
           NEW amount \in Nat, NEW energy \in Nat, NEW used \in Nat,
           contract_init_run_fails(a, m, name, amount, energy, used)
    PROVE  ChainInv'
<1> DEFINE k     == KeyOf[a]
           spent == InitPrelude(m)
<1>1. /\ InitRuns(a, m, name, amount, energy)
      /\ next_contract_index' = next_contract_index
      /\ \/ /\ used <= (energy - spent) * EnergyFactor
            /\ InitOver(k, spent + from_interpreter_energy(used))
         \/ InitOver(k, energy)
         \/ InitOver(k, spent)
  BY DEF contract_init_run_fails
<1>2. /\ mode = "idle" /\ k \in AccountKeys /\ accounts[k] # None
      /\ calculate_energy_cost(energy) <= available(accounts[k])
      /\ spent \in Nat /\ spent <= energy /\ energy - spent \in Nat
  BY <1>1, RunningPaid
<1> HIDE DEF k, spent
<1>3. used <= (energy - spent) * EnergyFactor
        => /\ spent + from_interpreter_energy(used) \in Nat
           /\ spent + from_interpreter_energy(used) <= energy
  BY <1>2, InterpreterEnergy
<1> QED
  BY <1>1, <1>2, <1>3, InitOverKeeps

(* The contract cannot be stored. *)
LEMMA InitUnpaidKeeps ==
    ASSUME ChainInv, NEW a \in AccountAddrs, NEW m \in ModuleRefs, NEW name,
           NEW amount \in Nat, NEW energy \in Nat, NEW used \in Nat, NEW state \in StateVals,
           contract_init_unpaid(a, m, name, amount, energy, used, state)
    PROVE  ChainInv'
<1> DEFINE k     == KeyOf[a]
           spent == InitPrelude(m) + from_interpreter_energy(used)
           size  == StateSize[state]
<1>1. /\ InitRuns(a, m, name, amount, energy)
      /\ next_contract_index' = next_contract_index + 1
      /\ used <= (energy - InitPrelude(m)) * EnergyFactor
      /\ \/ energy < spent + size /\ InitOver(k, spent)
         \/ energy >= spent + size /\ InitOver(k, spent + size)
  BY DEF contract_init_unpaid
<1>2. /\ mode = "idle" /\ k \in AccountKeys /\ accounts[k] # None
      /\ calculate_energy_cost(energy) <= available(accounts[k])
      /\ InitPrelude(m) \in Nat /\ InitPrelude(m) <= energy /\ energy - InitPrelude(m) \in Nat
  BY <1>1, RunningPaid
<1>3. /\ from_interpreter_energy(used) \in Nat
      /\ from_interpreter_energy(used) <= energy - InitPrelude(m)
  BY <1>1, <1>2, InterpreterEnergy
<1>4. spent \in Nat /\ spent <= energy /\ size \in Nat
  BY <1>2, <1>3, ChainCosts
<1> HIDE DEF k, spent, size
<1> QED
  BY <1>1, <1>2, <1>4, InitOverKeeps

(* The contract is created at an address nothing uses.                     *)
LEMMA InitSucceedsKeeps ==
    ASSUME ChainInv, NEW a \in AccountAddrs, NEW m \in ModuleRefs, NEW name \in ContractNames,
           NEW amount \in Amount, NEW energy \in Nat, NEW used \in Nat, NEW state \in StateVals,
           contract_init_succeeds(a, m, name, amount, energy, used, state)
    PROVE  ChainInv' /\ contracts[next_contract_index] = None
<1> DEFINE k     == KeyOf[a]
           n     == next_contract_index
           spent == InitPrelude(m) + from_interpreter_energy(used)
                      + StateSize[state] + InitCreateCost
           fee   == calculate_energy_cost(spent)
           i     == [module_reference |-> m, contract_name |-> name,
                     state |-> state, self_balance |-> amount]
           cs    == [contracts EXCEPT ![n] = i]
           new   == [accounts EXCEPT ![k].total = @ - (amount + fee)]
<1>0. amount \in Nat
  BY MaxAmountAssumption DEF Amount
<1>1. /\ InitRuns(a, m, name, amount, energy)
      /\ used <= (energy - InitPrelude(m)) * EnergyFactor
      /\ energy >= spent /\ n \in ContractAddrs
      /\ contracts' = cs /\ next_contract_index' = n + 1
      /\ accounts' = new /\ modules' = modules /\ rate' = rate /\ mode' = mode
      /\ issued' = issued /\ fees' = fees + fee
  BY DEF contract_init_succeeds, Reports, Charge
<1>2. /\ mode = "idle" /\ k \in AccountKeys /\ accounts[k] # None
      /\ calculate_energy_cost(energy) \in Nat
      /\ available(accounts[k]) \in Int
      /\ available(accounts[k]) >= calculate_energy_cost(energy) + amount
      /\ modules[m] # None
      /\ InitPrelude(m) \in Nat /\ InitPrelude(m) <= energy /\ energy - InitPrelude(m) \in Nat
  BY <1>0, <1>1, RunningPaid
<1>3. from_interpreter_energy(used) \in Nat
  BY <1>1, <1>2, InterpreterEnergy
<1>4. spent \in Nat /\ spent <= energy
  BY <1>1, <1>2, <1>3, ChainCosts, CostAssumption
<1> HIDE DEF spent
<1>5. fee \in Nat /\ fee <= calculate_energy_cost(energy)
  BY <1>4, ChainFacts, EnergyCost
<1>6. amount + fee \in Nat /\ amount + fee <= available(accounts[k])
  BY <1>0, <1>2, <1>5
<1>7. /\ AccountsOK(new)
      /\ SumOver(AccountTotals(new), AccountKeys)
           = SumOver(AccountTotals(accounts), AccountKeys) - (amount + fee)
  <2> DEFINE p    == amount + fee
             paid == [accounts EXCEPT ![k].total = @ - p]
  <2> HIDE DEF p, k
  <2>1. p \in Nat /\ p <= available(accounts[k]) /\ k \in AccountKeys /\ accounts[k] # None
    BY <1>2, <1>6 DEF p
  <2>2. AccountsOK(accounts)
    BY ChainFacts
  <2>3. /\ AccountsOK(paid)
        /\ SumOver(AccountTotals(paid), AccountKeys)
             = SumOver(AccountTotals(accounts), AccountKeys) - p
    BY <2>1, <2>2, Charged
  <2> QED
    BY <2>3 DEF p, k
<1>8. contracts[n] = None /\ i \in Contract /\ i.self_balance = amount
  <2>1. n \in Nat /\ ~(n < n)
    BY ChainFacts
  <2> QED
    BY <1>1, <2>1, ChainFacts DEF Contract
<1>9. SumOver(ContractTotals(cs), ContractAddrs)
        = SumOver(ContractTotals(contracts), ContractAddrs) + amount
  BY <1>1, <1>8, ChainFacts, ContractReplaced
<1>10. /\ cs \in [ContractAddrs -> Contract \cup {None}]
       /\ \A c \in ContractAddrs : cs[c] # None =>
             modules[cs[c].module_reference] # None /\ c < n + 1
  <2>1. ContractAddrs \subseteq Nat /\ n \in Nat
    BY NumberAssumption, ChainFacts
  <2>2. cs[n] = i /\ i.module_reference = m /\ \A c \in ContractAddrs \ {n} : cs[c] = contracts[c]
    BY <1>1, ChainFacts
  <2>3. cs \in [ContractAddrs -> Contract \cup {None}]
    BY <1>8, ChainFacts
  <2> HIDE DEF cs, i, n
  <2> QED
    BY <1>2, <2>1, <2>2, <2>3, ChainFacts DEF n
<1> HIDE DEF cs, new, fee
<1>11. /\ fees + fee \in Int
       /\ SumOver(AccountTotals(new), AccountKeys)
            + SumOver(ContractTotals(cs), ContractAddrs) + (fees + fee) = issued
  BY <1>0, <1>5, <1>7, <1>9, ChainFacts
<1>12. n + 1 \in Nat /\ mode' = "idle" /\ rate' \in Rates /\ issued \in Int
  BY <1>1, <1>2, ChainFacts
<1>13. modules \in [ModuleRefs -> Module \cup {None}]
  BY ChainFacts
<1>14. ChainInv'
  BY <1>1, <1>7, <1>10, <1>11, <1>12, <1>13, StepIdle
<1> QED
  BY <1>8, <1>14

-----------------------------------------------------------------------------
(* contract_update and contract_invoke *)

(* The topmost layer of a handler *)
LEMMA TopFacts ==
    ASSUME HandlerInv
    PROVE  LayerOK(Top) /\ FundsKept(Top) /\ LayerDelta(Top) = 0
<1>1. LayersOK(changeset)
  BY DEF HandlerInv, Inv
<1>2. changeset \in Seq(Changes) /\ changeset # <<>>
  BY <1>1 DEF LayersOK
<1>3. Len(changeset) \in 1 .. Len(changeset) /\ Len(changeset) \in DOMAIN changeset
  BY <1>2, EmptySeq, LenProperties
<1> QED
  BY <1>1, <1>3 DEF HandlerInv, LayersOK, FundsInv, LayersConserve, Top

(* Persisting a contract applies its delta.                                *)
LEMMA ContractPersisted ==
    ASSUME ChainInv, LayerOK(Top), NEW c \in ContractAddrs
    PROVE  /\ PersistedContract(c) \in Contract \cup {None}
           /\ (PersistedContract(c) = None) = (contracts[c] = None)
           /\ contracts[c] # None =>
                /\ modules[PersistedContract(c).module_reference] # None
                /\ PersistedContract(c).self_balance
                     = contracts[c].self_balance + ContractDeltas(Top)[c]
<1> DEFINE e   == Top.contracts[c]
           old == contracts[c]
           new == PersistedContract(c)
<1>1. old \in Contract \cup {None} /\ (old # None => modules[old.module_reference] # None)
  BY ChainFacts
<1>2. e \in ContractChanges \cup {None} /\ (e # None => ContractChangeOK(c, e))
  BY DEF LayerOK, Changes
<1>3. CASE e = None
  <2>1. new = old /\ ContractDeltas(Top)[c] = 0
    BY <1>3 DEF PersistedContract, ContractDeltas
  <2>2. old # None => old.self_balance \in Int
    BY <1>1, MaxAmountAssumption DEF Contract, Amount
  <2> QED
    BY <1>1, <2>1, <2>2
<1>4. CASE e # None
  <2> DEFINE d   == e.self_balance_delta
             sum == IF is_zero(d) THEN old.self_balance
                    ELSE apply_to_balance(d, e.self_balance_original)
             st  == IF e.state = None THEN old.state ELSE e.state
             mod == IF e.module = None THEN old.module_reference ELSE e.module
  <2>1. /\ old # None /\ old \in Contract
        /\ e.self_balance_original = old.self_balance
        /\ apply_to_balance(d, e.self_balance_original) \in Amount
        /\ e.module # None => modules[e.module] # None
        /\ d \in Delta /\ e.state \in StateVals \cup {None} /\ e.module \in ModuleRefs \cup {None}
    BY <1>1, <1>2, <1>4 DEF ContractChangeOK, ContractChanges
  <2>2. new = [old EXCEPT !.self_balance = sum, !.state = st, !.module_reference = mod]
    BY <1>4 DEF PersistedContract
  <2>3. old.self_balance \in Amount /\ old.state \in StateVals /\ old.module_reference \in ModuleRefs
    BY <2>1 DEF Contract
  <2>4. sum = old.self_balance + Value(d) /\ sum \in Amount
    <3>1. old.self_balance \in Int
      BY <2>3, MaxAmountAssumption DEF Amount
    <3>2. ASSUME NEW x \in Delta, is_zero(x) PROVE Value(x) = 0
      <4>1. x.amount = 0
        BY <3>2 DEF is_zero
      <4>2. x.neg => Value(x) = -x.amount
        BY DEF Value
      <4>3. ~x.neg => Value(x) = 0
        BY <4>1 DEF Value
      <4>4. \A n, z \in Int : n >= 0 /\ n <= 0 /\ z = -n => z = 0
        OBVIOUS
      <4>5. /\ Value(x) \in Int /\ x.amount \in Int
            /\ x.amount >= 0 /\ x.amount <= 0
        <5>1. Value(x) \in Int
          BY DEF Value, Delta
        <5> QED
          BY <4>1, <5>1
      <4>6. x.neg => Value(x) = 0
        BY <4>2, <4>4, <4>5
      <4> QED
        BY <4>3, <4>6
    <3> QED
      BY <2>1, <2>3, <3>1, <3>2 DEF apply_to_balance
  <2>5. st \in StateVals /\ mod \in ModuleRefs /\ modules[mod] # None
    BY <1>1, <2>1, <2>3
  <2> HIDE DEF sum, st, mod, new, old
  <2>6. /\ new \in Contract /\ new.self_balance = sum /\ new.module_reference = mod
    BY <2>1, <2>2, <2>4, <2>5 DEF Contract
  <2>7. ContractDeltas(Top)[c] = Value(d)
    BY <1>4 DEF ContractDeltas
  <2> QED
    BY <2>1, <2>4, <2>5, <2>6, <2>7, ChainCosts DEF new, old
<1> QED
  BY <1>3, <1>4

(* Persisting an account applies its delta to the total, and so to what is *)
(* available.                                                              *)
LEMMA AccountPersisted ==
    ASSUME ChainInv, LayerOK(Top), Persistable, NEW k \in AccountKeys
    PROVE  /\ PersistedAccount(k) \in Account \cup {None}
           /\ (PersistedAccount(k) = None) = (accounts[k] = None)
           /\ accounts[k] # None =>
                /\ PersistedAccount(k).total = accounts[k].total + AccountDeltas(Top)[k]
                /\ available(PersistedAccount(k))
                     = available(accounts[k]) + AccountDeltas(Top)[k]
<1> DEFINE e   == Top.accounts[k]
           old == accounts[k]
           new == PersistedAccount(k)
<1>1. old \in Account \cup {None}
  BY ChainFacts DEF AccountsOK
<1>2. old # None => available(old) \in Int /\ old.total \in Int
  BY <1>1, AvailableType
<1>3. e \in AccountChanges \cup {None} /\ (e # None => AccountChangeOK(k, e))
  BY DEF LayerOK, Changes
<1>4. CASE e = None
  <2>1. new = old /\ AccountDeltas(Top)[k] = 0
    BY <1>4 DEF PersistedAccount, AccountDeltas
  <2> QED
    BY <1>1, <1>2, <2>1
<1>5. CASE e # None
  <2> DEFINE sum == apply_to_balance(e.balance_delta, old.total)
  <2>1. old # None /\ old \in Account /\ e.balance_delta \in Delta
    BY <1>1, <1>3, <1>5 DEF AccountChangeOK, AccountChanges
  <2>2. new = [old EXCEPT !.total = sum] /\ sum \in Amount
    BY <1>5 DEF PersistedAccount, Persistable
  <2>3. /\ AccountDeltas(Top)[k] = Value(e.balance_delta) /\ Value(e.balance_delta) \in Int
        /\ sum = old.total + Value(e.balance_delta)
    BY <1>5, <2>1 DEF AccountDeltas, apply_to_balance, Value, Delta
  <2> HIDE DEF sum, new, old
  <2>4. /\ new \in Account /\ new.total = sum
        /\ new.staked = old.staked /\ new.locked = old.locked
    BY <2>1, <2>2 DEF Account
  <2>5. old.total \in Int /\ old.staked \in Int /\ old.locked \in Int
    BY <2>1, MaxAmountAssumption DEF Account, Amount
  <2>6. available(new) = available(old) + Value(e.balance_delta)
    BY <2>3, <2>4, <2>5 DEF available
  <2> QED
    BY <2>1, <2>3, <2>4, <2>6, ChainCosts DEF new, old
<1> QED
  BY <1>4, <1>5

(* The changes of the topmost layer are persisted: CCD only moves, and     *)
(* none but the sender's account loses any.                                *)
LEMMA Persisted ==
    ASSUME ChainInv, HandlerInv, Persistable
    PROVE  LET cs   == [c \in ContractAddrs |-> PersistedContract(c)]
               held == [j \in AccountKeys |-> PersistedAccount(j)]
           IN  /\ cs \in [ContractAddrs -> Contract \cup {None}]
               /\ \A c \in ContractAddrs : cs[c] # None =>
                    /\ contracts[c] # None
                    /\ modules[cs[c].module_reference] # None
               /\ AccountsOK(held)
               /\ \A k \in AccountKeys : (held[k] = None) = (accounts[k] = None)
               /\ SumOver(AccountTotals(held), AccountKeys)
                    + SumOver(ContractTotals(cs), ContractAddrs)
                  = SumOver(AccountTotals(accounts), AccountKeys)
                    + SumOver(ContractTotals(contracts), ContractAddrs)
               /\ available(held[KeyOf[tx.invoker]]) >= tx.reserved_amount
               /\ \A k \in AccountKeys : accounts[k] # None /\ held[k].total < accounts[k].total
                    => tx.sender \in AccountAddrs /\ k = KeyOf[tx.sender]
<1> DEFINE cs   == [c \in ContractAddrs |-> PersistedContract(c)]
           held == [j \in AccountKeys |-> PersistedAccount(j)]
           dc   == ContractDeltas(Top)
           da   == AccountDeltas(Top)
<1>1. LayerOK(Top) /\ FundsKept(Top) /\ LayerDelta(Top) = 0
  BY TopFacts
<1>2. /\ dc \in [ContractAddrs -> Int] /\ da \in [AccountKeys -> Int]
      /\ SumOver(dc, ContractAddrs) \in Int /\ SumOver(da, AccountKeys) \in Int
  BY <1>1, LayerDeltaType
<1>3. \A c \in ContractAddrs :
        /\ cs[c] \in Contract \cup {None} /\ (cs[c] = None) = (contracts[c] = None)
        /\ contracts[c] # None => /\ modules[cs[c].module_reference] # None
                                  /\ cs[c].self_balance = contracts[c].self_balance + dc[c]
  BY <1>1, ContractPersisted
<1>4. \A k \in AccountKeys :
        /\ held[k] \in Account \cup {None} /\ (held[k] = None) = (accounts[k] = None)
        /\ accounts[k] # None => /\ held[k].total = accounts[k].total + da[k]
                                 /\ available(held[k]) = available(accounts[k]) + da[k]
  BY <1>1, AccountPersisted
<1>5. cs \in [ContractAddrs -> Contract \cup {None}] /\ held \in [AccountKeys -> Account \cup {None}]
  BY <1>3, <1>4
<1>6. ASSUME NEW c \in ContractAddrs, contracts[c] = None PROVE dc[c] = 0
  BY <1>1, <1>6 DEF ContractDeltas, LayerOK, ContractChangeOK
<1>7. ASSUME NEW k \in AccountKeys, accounts[k] = None PROVE da[k] = 0
  BY <1>1, <1>7 DEF AccountDeltas, LayerOK, AccountChangeOK
<1>8. ASSUME NEW k \in AccountKeys, accounts[k] # None
      PROVE  /\ available(accounts[k]) \in Int /\ accounts[k].total \in Int
             /\ da[k] \in Int
             /\ available(accounts[k]) + da[k] >= Reserve(k) /\ Reserve(k) \in Nat
             /\ da[k] < 0 => tx.sender \in AccountAddrs /\ k = KeyOf[tx.sender]
  <2>1. accounts[k] \in Account /\ available(accounts[k]) >= 0
    BY <1>8, ChainFacts DEF AccountsOK
  <2>2. available(accounts[k]) \in Int /\ accounts[k].total \in Int
    BY <2>1, AvailableType
  <2>3. Reserve(k) \in Nat /\ available(accounts[k]) >= Reserve(k)
    BY <2>1, <2>2, MaxAmountAssumption DEF HandlerInv, Inv, ChainOK, Reserve, Amount
  <2>4. CASE Top.accounts[k] = None
    <3>1. da[k] = 0
      BY <2>4 DEF AccountDeltas
    <3> QED
      BY <2>2, <2>3, <3>1
  <2>5. CASE Top.accounts[k] # None
    <3>1. da[k] = Value(Top.accounts[k].balance_delta)
      BY <2>5 DEF AccountDeltas
    <3> QED
      BY <1>1, <1>2, <2>2, <2>3, <2>5, <3>1 DEF FundsKept
  <2> QED
    BY <2>4, <2>5
<1> HIDE DEF dc, da, cs, held
<1>9. AccountsOK(held)
  <2>1. ASSUME NEW k \in AccountKeys, held[k] # None PROVE available(held[k]) >= 0
    <3>1. accounts[k] # None /\ available(held[k]) = available(accounts[k]) + da[k]
      BY <1>4, <2>1
    <3> HIDE DEF Reserve
    <3> QED
      BY <1>8, <3>1
  <2> QED
    BY <1>5, <2>1 DEF AccountsOK
<1>10. SumOf(ContractTotals(cs), ContractAddrs)
         = SumOf(ContractTotals(contracts), ContractAddrs) + SumOf(dc, ContractAddrs)
  <2> DEFINE f == ContractTotals(contracts)
             h == ContractTotals(cs)
  <2>1. f \in [ContractAddrs -> Int] /\ h \in [ContractAddrs -> Int]
    BY <1>5, ChainFacts, TotalsType
  <2>2. \A c \in ContractAddrs : h[c] = f[c] + dc[c]
    BY <1>3, <1>6 DEF ContractTotals
  <2> HIDE DEF f, h
  <2>3. SumOf(h, ContractAddrs) = SumOf(f, ContractAddrs) + SumOf(dc, ContractAddrs)
    BY <1>2, <2>1, <2>2, SumOfSums, AddressAssumption
  <2> QED
    BY <2>3 DEF f, h
<1>11. SumOf(AccountTotals(held), AccountKeys)
         = SumOf(AccountTotals(accounts), AccountKeys) + SumOf(da, AccountKeys)
  <2> DEFINE f == AccountTotals(accounts)
             h == AccountTotals(held)
  <2>1. f \in [AccountKeys -> Int] /\ h \in [AccountKeys -> Int]
    BY <1>5, ChainFacts, TotalsType DEF AccountsOK
  <2>2. ASSUME NEW k \in AccountKeys PROVE h[k] = f[k] + da[k]
    <3>1. CASE accounts[k] = None
      <4>1. held[k] = None /\ da[k] = 0
        BY <1>4, <1>7, <3>1
      <4>2. f[k] = 0 /\ h[k] = 0
        BY <3>1, <4>1 DEF AccountTotals
      <4> HIDE DEF f, h
      <4> QED
        BY <4>1, <4>2
    <3>2. CASE accounts[k] # None
      <4>1. held[k] # None /\ held[k].total = accounts[k].total + da[k]
        BY <1>4, <3>2
      <4> QED
        BY <3>2, <4>1 DEF AccountTotals
    <3> QED
      BY <3>1, <3>2
  <2> HIDE DEF f, h
  <2>3. SumOf(h, AccountKeys) = SumOf(f, AccountKeys) + SumOf(da, AccountKeys)
    BY <1>2, <2>1, <2>2, SumOfSums, AddressAssumption
  <2> QED
    BY <2>3 DEF f, h
<1>12. SumOver(dc, ContractAddrs) + SumOver(da, AccountKeys) = 0
  BY <1>1 DEF LayerDelta, dc, da
<1>13. SumOver(AccountTotals(held), AccountKeys) + SumOver(ContractTotals(cs), ContractAddrs)
         = SumOver(AccountTotals(accounts), AccountKeys)
             + SumOver(ContractTotals(contracts), ContractAddrs)
  <2> DEFINE ta == AccountTotals(held)
             tc == ContractTotals(cs)
             fa == AccountTotals(accounts)
             fc == ContractTotals(contracts)
  <2>1. /\ SumOver(ta, AccountKeys) \in Int /\ SumOver(tc, ContractAddrs) \in Int
        /\ SumOver(fa, AccountKeys) \in Int /\ SumOver(fc, ContractAddrs) \in Int
    BY <1>5, ChainFacts, TotalsType DEF AccountsOK
  <2>2. SumOver(ta, AccountKeys) = SumOver(fa, AccountKeys) + SumOver(da, AccountKeys)
    BY <1>11, SumOverIsSumOf
  <2>3. SumOver(tc, ContractAddrs) = SumOver(fc, ContractAddrs) + SumOver(dc, ContractAddrs)
    BY <1>10, SumOverIsSumOf
  <2> HIDE DEF ta, tc, fa, fc
  <2>4. SumOver(ta, AccountKeys) + SumOver(tc, ContractAddrs)
          = SumOver(fa, AccountKeys) + SumOver(fc, ContractAddrs)
    BY <1>2, <1>12, <2>1, <2>2, <2>3
  <2> QED
    BY <2>4 DEF ta, tc, fa, fc
<1>14. available(held[KeyOf[tx.invoker]]) >= tx.reserved_amount
  <2>1. KeyOf[tx.invoker] \in AccountKeys /\ accounts[KeyOf[tx.invoker]] # None
    BY AddressAssumption DEF HandlerInv, Inv, ChainOK
  <2> QED
    BY <1>4, <1>8, <2>1 DEF Reserve
<1>15. \A k \in AccountKeys : accounts[k] # None /\ held[k].total < accounts[k].total
         => tx.sender \in AccountAddrs /\ k = KeyOf[tx.sender]
  <2> SUFFICES ASSUME NEW k \in AccountKeys, accounts[k] # None,
                      held[k].total < accounts[k].total
               PROVE  tx.sender \in AccountAddrs /\ k = KeyOf[tx.sender]
    OBVIOUS
  <2>1. held[k].total = accounts[k].total + da[k]
    BY <1>4
  <2>2. da[k] < 0
    BY <1>8, <2>1
  <2> QED
    BY <1>8, <2>2
<1> QED
  BY <1>3, <1>4, <1>5, <1>9, <1>13, <1>14, <1>15 DEF cs, held

(* Sender and invoker of a payable request exist, and what its energy      *)
(* costs is an amount.                                                     *)
LEMMA PayableFacts ==
    ASSUME ChainInv, NEW r \in Transactions, Payable(r)
    PROVE  LET k    == KeyOf[r.invoker]
               cost == calculate_energy_cost(r.energy_reserved)
           IN  /\ k \in AccountKeys /\ accounts[k] # None
               /\ r.energy_reserved \in Nat
               /\ cost \in Nat /\ available(accounts[k]) \in Int /\ cost <= available(accounts[k])
               /\ Priced(r) \in Transaction
               /\ Priced(r).energy_reserved = r.energy_reserved
               /\ Priced(r).reserved_amount = cost
<1> DEFINE k    == KeyOf[r.invoker]
           cost == calculate_energy_cost(r.energy_reserved)
<1>1. r \in Transaction /\ r.invoker \in AccountAddrs /\ r.energy_reserved \in Nat
  BY TransactionAssumption DEF Transaction
<1>2. k \in AccountKeys /\ accounts[k] # None /\ available(accounts[k]) >= cost
  BY <1>1, AddressAssumption DEF Payable, address_exists
<1>3. accounts[k] \in Account
  BY <1>2, ChainFacts DEF AccountsOK
<1>4. /\ available(accounts[k]) \in Int /\ available(accounts[k]) <= accounts[k].total
      /\ accounts[k].total \in Nat /\ accounts[k].total <= MaxAmount
  BY <1>3, AvailableType
<1>5. cost \in Nat
  BY <1>1, ChainFacts, EnergyCost
<1>6. Priced(r) = [r EXCEPT !.reserved_amount = cost]
  BY DEF Priced
<1> HIDE DEF cost, k
<1>7. cost \in Amount /\ cost <= available(accounts[k])
  BY <1>2, <1>4, <1>5, MaxAmountAssumption DEF Amount
<1>8. /\ [r EXCEPT !.reserved_amount = cost] \in Transaction
      /\ [r EXCEPT !.reserved_amount = cost].energy_reserved = r.energy_reserved
      /\ [r EXCEPT !.reserved_amount = cost].reserved_amount = cost
  BY <1>1, <1>7 DEF Transaction
<1> QED
  BY <1>1, <1>2, <1>4, <1>5, <1>6, <1>7, <1>8 DEF cost, k

(* A request is refused for nothing, or for the price of its header.       *)
LEMMA UpdateRefusedKeeps ==
    ASSUME ChainInv, NEW r \in Transactions, contract_update_refused(r)
    PROVE  ChainInv'
<1>1. /\ accounts' = accounts /\ contracts' = contracts /\ modules' = modules
      /\ next_contract_index' = next_contract_index /\ rate' = rate /\ mode' = "idle"
      /\ issued' = issued /\ fees' = fees + 0
  BY DEF contract_update_refused, Reports, Idle
<1> QED
  BY <1>1, ChainFacts, NothingCharged

LEMMA UpdateInvalidKeeps ==
    ASSUME ChainInv, NEW r \in Transactions, NEW fits \in BOOLEAN,
           contract_update_invalid(r, fits)
    PROVE  ChainInv'
<1> DEFINE k    == KeyOf[r.invoker]
           fee  == calculate_energy_cost(HeaderCost)
           cost == calculate_energy_cost(r.energy_reserved)
<1>1. /\ Payable(r) /\ r.energy_reserved >= HeaderCost
      /\ accounts' = Charge(k, fee) /\ contracts' = contracts /\ modules' = modules
      /\ next_contract_index' = next_contract_index /\ rate' = rate /\ mode' = "idle"
      /\ issued' = issued /\ fees' = fees + fee
  BY DEF contract_update_invalid, Reports, Idle
<1>2. /\ k \in AccountKeys /\ accounts[k] # None /\ r.energy_reserved \in Nat
      /\ cost \in Nat /\ available(accounts[k]) \in Int /\ cost <= available(accounts[k])
  BY <1>1, PayableFacts
<1>3. HeaderCost \in Nat /\ HeaderCost <= r.energy_reserved
  BY <1>1, <1>2, ChainCosts
<1>4. fee \in Nat /\ fee <= cost
  BY <1>2, <1>3, ChainFacts, EnergyCost
<1> HIDE DEF k, fee, cost
<1>5. fee <= available(accounts[k])
  BY <1>2, <1>4
<1>6. modules \in [ModuleRefs -> Module \cup {None}]
  BY ChainFacts
<1> QED
  BY <1>1, <1>2, <1>4, <1>5, <1>6, FeeCharged

(* A handler is built for a request the worker accepts.                    *)
LEMMA HandlerStarted ==
    ASSUME ChainInv, NEW t \in Transaction, NEW e \in Nat, Admissible(t),
           HandlerStarts(t, e), e <= t.energy_reserved,
           t.reserved_amount = calculate_energy_cost(t.energy_reserved),
           UNCHANGED <<accounts, contracts, modules, next_contract_index, rate, issued, fees>>
    PROVE  ChainInv'
<1>1. HandlerStartsSound' /\ HandlerStartsFunded'
  BY HandlerInitInv, HandlerInitFunds, PTL
<1>2. HandlerInit(t, e)'
  BY DEF HandlerStarts, HandlerInit
<1>3. Admissible(t)'
  BY DEF Admissible
<1>4. ChainTyped'
  BY DEF ChainInv, ChainTyped
<1>5. Inv' /\ FundsInv' /\ LayersConserve'
  BY <1>1, <1>2, <1>3, <1>4 DEF HandlerStartsSound, HandlerStartsFunded
<1>6. tx' = t /\ remaining_energy' = e
  BY DEF HandlerStarts
<1>7. HandlerInv'
  BY <1>5, <1>6 DEF HandlerInv, calculate_energy_cost
<1>8. IndexInv' /\ LedgerInv' /\ rate' \in Rates
  BY DEF ChainInv, IndexInv, LedgerInv, SupplyConserved, TotalOfAccounts, TotalOfContracts
<1> QED
  BY <1>4, <1>7, <1>8 DEF ChainInv

LEMMA UpdateKeeps ==
    ASSUME ChainInv, NEW r \in Transactions, contract_update(r) PROVE ChainInv'
<1> DEFINE t == Priced(r)
           e == r.energy_reserved - HeaderCost
<1>1. /\ Payable(r) /\ r.energy_reserved >= HeaderCost /\ Admissible(t) /\ HandlerStarts(t, e)
      /\ UNCHANGED <<accounts, contracts, modules, next_contract_index, rate, issued, fees>>
  BY DEF contract_update
<1>2. /\ t \in Transaction /\ t.energy_reserved = r.energy_reserved
      /\ t.reserved_amount = calculate_energy_cost(r.energy_reserved)
      /\ r.energy_reserved \in Nat
  BY <1>1, PayableFacts
<1>3. e \in Nat /\ e <= r.energy_reserved
  BY <1>1, <1>2, ChainCosts
<1> HIDE DEF t, e
<1> QED
  BY <1>1, <1>2, <1>3, HandlerStarted

LEMMA InvokeKeeps ==
    ASSUME ChainInv, NEW r \in Transactions, contract_invoke(r) PROVE ChainInv'
<1> DEFINE t == Priced(r)
<1>1. /\ Payable(r) /\ Admissible(t) /\ HandlerStarts(t, r.energy_reserved)
      /\ UNCHANGED <<accounts, contracts, modules, next_contract_index, rate, issued, fees>>
  BY DEF contract_invoke
<1>2. /\ t \in Transaction /\ t.energy_reserved = r.energy_reserved
      /\ t.reserved_amount = calculate_energy_cost(r.energy_reserved)
      /\ r.energy_reserved \in Nat /\ r.energy_reserved <= r.energy_reserved
  BY <1>1, PayableFacts
<1> HIDE DEF t
<1> QED
  BY <1>1, <1>2, HandlerStarted

(* The handler takes a step: the chain is only read.                       *)
LEMMA HandlerStepKeeps ==
    ASSUME ChainInv, HandlerStep PROVE ChainInv' /\ UNCHANGED chain
<1>1. mode # "idle" /\ Next /\ UNCHANGED chainVars
  BY DEF HandlerStep
<1>2. Inv /\ FundsInv /\ LayersConserve /\ HandlerInv
  BY <1>1 DEF ChainInv, HandlerInv
<1>3. UNCHANGED chain
  BY <1>1, ChainRead
<1>4. Inv' /\ FundsInv' /\ LayersConserve'
  BY <1>1, <1>2, NextInv, NextFunds, NextConserves
<1>5. /\ remaining_energy' <= remaining_energy
      /\ remaining_energy \in Nat /\ remaining_energy' \in Nat /\ tx.energy_reserved \in Int
  <2>1. remaining_energy' <= remaining_energy
    BY <1>1, <1>2, EnergyFalls
  <2>2. tx \in Transaction /\ remaining_energy \in Nat /\ remaining_energy' \in Nat
    BY <1>2, <1>4 DEF Inv
  <2> QED
    BY <2>1, <2>2 DEF Transaction
<1>6. HandlerInv'
  <2>1. rate' = rate /\ tx' = tx
    BY <1>1, <1>3 DEF chainVars, chain
  <2>2. remaining_energy' <= tx.energy_reserved
    BY <1>2, <1>5 DEF HandlerInv
  <2>3. tx'.reserved_amount = calculate_energy_cost(tx.energy_reserved)'
    BY <1>2, <2>1 DEF HandlerInv, calculate_energy_cost
  <2> QED
    BY <1>4, <2>1, <2>2, <2>3 DEF HandlerInv
<1>7. ChainTyped' /\ IndexInv' /\ LedgerInv' /\ rate' \in Rates
  BY <1>1, <1>3 DEF chain, chainVars, ChainInv, ChainTyped, IndexInv, LedgerInv,
     SupplyConserved, TotalOfAccounts, TotalOfContracts
<1> QED
  BY <1>3, <1>6, <1>7 DEF ChainInv

(* An update works for a transaction whose energy its invoker can pay.     *)
LEMMA UpdateFacts ==
    ASSUME ChainInv, mode # "idle"
    PROVE  LET k == KeyOf[tx.invoker]
           IN  /\ HandlerInv
               /\ k \in AccountKeys /\ accounts[k] # None
               /\ tx.energy_reserved \in Nat /\ remaining_energy \in Nat
               /\ remaining_energy <= tx.energy_reserved
               /\ tx.reserved_amount \in Nat
               /\ tx.reserved_amount = calculate_energy_cost(tx.energy_reserved)
               /\ available(accounts[k]) \in Int
               /\ tx.reserved_amount <= available(accounts[k])
<1> DEFINE k == KeyOf[tx.invoker]
<1>1. HandlerInv /\ Inv /\ ChainOK
  BY DEF ChainInv, HandlerInv, Inv
<1>2. /\ tx \in Transaction /\ remaining_energy \in Nat
      /\ remaining_energy <= tx.energy_reserved
      /\ tx.reserved_amount = calculate_energy_cost(tx.energy_reserved)
  BY <1>1 DEF Inv, HandlerInv
<1>3. /\ tx.energy_reserved \in Nat /\ tx.reserved_amount \in Nat
  BY <1>2, MaxAmountAssumption DEF Transaction, Amount
<1>4. /\ k \in AccountKeys /\ accounts[k] # None
      /\ available(accounts[k]) >= tx.reserved_amount
  BY <1>1, AddressAssumption DEF ChainOK
<1>5. accounts[k] \in Account
  BY <1>4, ChainFacts DEF AccountsOK
<1>6. available(accounts[k]) \in Int
  BY <1>5, AvailableType
<1>7. tx.reserved_amount <= available(accounts[k])
  BY <1>3, <1>4, <1>6
<1> QED
  BY <1>1, <1>2, <1>3, <1>4, <1>6, <1>7

(* The energy for the changed states is a number. *)
LEMMA StateEnergyType ==
    ASSUME HandlerInv PROVE StateEnergy \in Nat
<1> DEFINE sizes == [c \in ContractAddrs |->
                       IF Top.contracts[c] # None /\ Top.contracts[c].state # None
                         THEN StateSize[Top.contracts[c].state] ELSE 0]
<1>1. LayerOK(Top)
  BY TopFacts
<1>2. \A c \in ContractAddrs : Top.contracts[c] # None /\ Top.contracts[c].state # None =>
        Top.contracts[c].state \in StateVals
  BY <1>1 DEF LayerOK, Changes, ContractChanges
<1>3. sizes \in [ContractAddrs -> Nat]
  BY <1>2, ChainCosts
<1> HIDE DEF sizes
<1>4. SumOf(sizes, ContractAddrs) \in Nat
  BY <1>3, SumOfNat, AddressAssumption
<1>5. SumOver(sizes, ContractAddrs) \in Nat
  BY <1>4, SumOverIsSumOf
<1> QED
  BY <1>5 DEF StateEnergy, sizes

(* The changes of an update are persisted, and its fee is paid from what   *)
(* was reserved for it.                                                    *)
LEMMA UpdateSucceedsKeeps ==
    ASSUME ChainInv, UpdateSucceeds
    PROVE  ChainInv' /\ OnlyPartiesPay
<1> DEFINE k     == KeyOf[tx.invoker]
           spent == tx.energy_reserved - remaining_energy + StateEnergy
           fee   == calculate_energy_cost(spent)
           cs    == [c \in ContractAddrs |-> PersistedContract(c)]
           held  == [j \in AccountKeys |-> PersistedAccount(j)]
           new   == [held EXCEPT ![k].total = @ - fee]
<1>1. /\ mode = "update" /\ StateEnergy <= remaining_energy /\ Persistable
      /\ contracts' = cs /\ accounts' = new /\ fees' = fees + fee /\ mode' = "idle"
      /\ UNCHANGED <<modules, next_contract_index, rate, issued>>
  BY DEF UpdateSucceeds, Reports, EndOperation
<1>2. /\ HandlerInv /\ k \in AccountKeys /\ accounts[k] # None
      /\ tx.energy_reserved \in Nat /\ remaining_energy \in Nat
      /\ remaining_energy <= tx.energy_reserved /\ tx.reserved_amount \in Nat
      /\ tx.reserved_amount = calculate_energy_cost(tx.energy_reserved)
  BY <1>1, UpdateFacts
<1>3. spent \in Nat /\ spent <= tx.energy_reserved
  BY <1>1, <1>2, StateEnergyType
<1> HIDE DEF spent
<1>4. fee \in Nat /\ fee <= tx.reserved_amount
  BY <1>2, <1>3, ChainFacts, EnergyCost
<1>5. /\ cs \in [ContractAddrs -> Contract \cup {None}]
      /\ \A c \in ContractAddrs : cs[c] # None =>
           contracts[c] # None /\ modules[cs[c].module_reference] # None
      /\ AccountsOK(held)
      /\ \A j \in AccountKeys : (held[j] = None) = (accounts[j] = None)
      /\ SumOver(AccountTotals(held), AccountKeys) + SumOver(ContractTotals(cs), ContractAddrs)
           = SumOver(AccountTotals(accounts), AccountKeys)
               + SumOver(ContractTotals(contracts), ContractAddrs)
      /\ available(held[k]) >= tx.reserved_amount
      /\ \A j \in AccountKeys : accounts[j] # None /\ held[j].total < accounts[j].total
           => tx.sender \in AccountAddrs /\ j = KeyOf[tx.sender]
  BY <1>1, <1>2, Persisted
<1> HIDE DEF k, fee, cs, held
<1>6. held[k] # None /\ fee <= available(held[k])
  <2>1. held[k] # None
    BY <1>2, <1>5
  <2>2. held[k] \in Account
    BY <1>2, <1>5, <2>1 DEF AccountsOK
  <2>3. available(held[k]) \in Int
    BY <2>2, AvailableType
  <2>4. available(held[k]) >= tx.reserved_amount /\ tx.reserved_amount \in Int /\ fee \in Int
    BY <1>2, <1>4, <1>5
  <2>5. fee <= available(held[k])
    BY <1>4, <2>3, <2>4
  <2> QED
    BY <2>1, <2>5
<1>7. /\ AccountsOK(new)
      /\ SumOver(AccountTotals(new), AccountKeys) = SumOver(AccountTotals(held), AccountKeys) - fee
      /\ \A j \in AccountKeys \ {k} : new[j] = held[j]
  <2>1. AccountsOK(held) /\ k \in AccountKeys /\ fee \in Nat
    BY <1>2, <1>4, <1>5
  <2> QED
    BY <1>6, <2>1, Charged
<1> HIDE DEF new
<1>8. /\ SumOver(AccountTotals(held), AccountKeys) \in Int
      /\ SumOver(ContractTotals(cs), ContractAddrs) \in Int
  BY <1>5, TotalsType DEF AccountsOK
<1>9. /\ fees + fee \in Int
      /\ SumOver(AccountTotals(new), AccountKeys)
           + SumOver(ContractTotals(cs), ContractAddrs) + (fees + fee) = issued
  <2> DEFINE na == SumOver(AccountTotals(new), AccountKeys)
             pa == SumOver(AccountTotals(held), AccountKeys)
             pc == SumOver(ContractTotals(cs), ContractAddrs)
             oa == SumOver(AccountTotals(accounts), AccountKeys)
             oc == SumOver(ContractTotals(contracts), ContractAddrs)
  <2>1. na = pa - fee /\ pa + pc = oa + oc /\ pa \in Int /\ pc \in Int /\ fee \in Int
    BY <1>4, <1>5, <1>7, <1>8
  <2>2. oa \in Int /\ oc \in Int /\ fees \in Int /\ issued \in Int /\ oa + oc + fees = issued
    BY ChainFacts
  <2> HIDE DEF na, pa, pc, oa, oc
  <2>3. fees + fee \in Int /\ na + pc + (fees + fee) = issued
    BY <2>1, <2>2
  <2> QED
    BY <2>3 DEF na, pc
<1>10. /\ \A c \in ContractAddrs : cs[c] # None => c < next_contract_index
       /\ modules \in [ModuleRefs -> Module \cup {None}]
       /\ next_contract_index \in Nat /\ rate' \in Rates /\ issued \in Int
  BY <1>1, <1>5, ChainFacts
<1>11. ChainInv'
  BY <1>1, <1>5, <1>7, <1>9, <1>10, StepIdle
<1>12. OnlyPartiesPay
  BY <1>1, <1>5, <1>7 DEF OnlyPartiesPay, k
<1> QED
  BY <1>11, <1>12

(* An update whose states cannot be paid for, and an invocation, are free. *)
LEMMA UnchargedKeeps ==
    ASSUME ChainInv, UpdateUnstored \/ InvokeEnds
    PROVE  ChainInv' /\ accounts' = accounts /\ contracts' = contracts
<1>1. /\ accounts' = accounts /\ contracts' = contracts /\ modules' = modules
      /\ next_contract_index' = next_contract_index /\ rate' = rate /\ mode' = "idle"
      /\ issued' = issued /\ fees' = fees + 0
  BY DEF UpdateUnstored, InvokeEnds, Reports, EndOperation
<1>2. ChainInv'
  BY <1>1, ChainFacts, NothingCharged
<1> QED
  BY <1>1, <1>2

(* A failed update costs its invoker the energy it used. *)
LEMMA UpdateFailsKeeps ==
    ASSUME ChainInv, UpdateFails
    PROVE  /\ ChainInv' /\ contracts' = contracts
           /\ \A j \in AccountKeys \ {KeyOf[tx.invoker]} : accounts'[j] = accounts[j]
<1> DEFINE k     == KeyOf[tx.invoker]
           left  == IF status = "outOfEnergy" THEN 0 ELSE remaining_energy
           spent == tx.energy_reserved - left
           fee   == calculate_energy_cost(spent)
<1>1. /\ mode = "update" /\ accounts' = Charge(k, fee) /\ contracts' = contracts
      /\ fees' = fees + fee /\ mode' = "idle"
      /\ UNCHANGED <<modules, next_contract_index, rate, issued>>
  BY DEF UpdateFails, Reports, EndOperation
<1>2. /\ HandlerInv /\ k \in AccountKeys /\ accounts[k] # None
      /\ tx.energy_reserved \in Nat /\ remaining_energy \in Nat
      /\ remaining_energy <= tx.energy_reserved /\ tx.reserved_amount \in Nat
      /\ tx.reserved_amount = calculate_energy_cost(tx.energy_reserved)
      /\ available(accounts[k]) \in Int /\ tx.reserved_amount <= available(accounts[k])
  BY <1>1, UpdateFacts
<1>3. spent \in Nat /\ spent <= tx.energy_reserved
  BY <1>2
<1> HIDE DEF spent
<1>4. fee \in Nat /\ fee <= tx.reserved_amount
  BY <1>2, <1>3, ChainFacts, EnergyCost
<1> HIDE DEF fee, k
<1>5. fee <= available(accounts[k])
  BY <1>2, <1>4
<1>6. modules \in [ModuleRefs -> Module \cup {None}]
  BY ChainFacts
<1>7. ChainInv'
  BY <1>1, <1>2, <1>4, <1>5, <1>6, FeeCharged
<1>8. \A j \in AccountKeys \ {k} : accounts'[j] = accounts[j]
  BY <1>1, <1>2, ChainFacts DEF Charge, AccountsOK
<1> QED
  BY <1>1, <1>7, <1>8 DEF k

-----------------------------------------------------------------------------
(* The invariant *)

(* The first chain of a test is in order. *)
LEMMA ChainInitInv == ChainInit => ChainInv
<1> SUFFICES ASSUME ChainInit PROVE ChainInv
  OBVIOUS
<1> PICK ch \in Chains : accounts = ch.accounts /\ contracts = ch.contracts /\ modules = ch.modules
  BY DEF ChainInit
<1>1. WellFormed(ch)
  BY ChainAssumption
<1>2. ChainTyped
  BY <1>1 DEF WellFormed, ChainTyped
<1>3. IndexInv
  <2> DEFINE S == {c \in ContractAddrs : contracts[c] # None}
  <2>1. next_contract_index = Cardinality(S)
    BY DEF ChainInit
  <2>2. IsFiniteSet(S)
    BY FS_Subset, AddressAssumption
  <2>3. Cardinality(S) \in Nat
    BY <2>2, FS_CardinalityType
  <2>4. \A c \in ContractAddrs : contracts[c] # None => c < Cardinality(S)
    BY NumberAssumption
  <2> QED
    BY <2>1, <2>3, <2>4 DEF IndexInv
<1>4. LedgerInv
  <2>1. TotalOfAccounts \in Int /\ TotalOfContracts \in Int
    BY <1>2, TotalsType DEF ChainTyped, TotalOfAccounts, TotalOfContracts
  <2>2. fees = 0 /\ issued = TotalOfAccounts + TotalOfContracts
    BY DEF ChainInit
  <2> QED
    BY <2>1, <2>2 DEF LedgerInv, SupplyConserved
<1> QED
  BY <1>2, <1>3, <1>4 DEF ChainInit, ChainInv

(* An initialisation creates its contract at an address nothing uses, or   *)
(* leaves the contracts as they are.                                       *)
LEMMA InitKeeps ==
    ASSUME ChainInv, InitAny PROVE ChainInv' /\ mode = "idle" /\ ContractsPersist
<1> PICK a \in AccountAddrs, m \in ModuleRefs, name \in ContractNames,
         r \in Transactions, fits \in BOOLEAN :
      \/ contract_init_fails(a, m, name, r.amount, r.energy_reserved, fits)
      \/ \E used \in FinalUses :
           \/ contract_init_run_fails(a, m, name, r.amount, r.energy_reserved, used)
           \/ \E state \in InitStates :
                \/ contract_init_unpaid(a, m, name, r.amount, r.energy_reserved, used, state)
                \/ contract_init_succeeds(a, m, name, r.amount, r.energy_reserved, used, state)
  BY DEF InitAny
<1>1. r.amount \in Amount /\ r.amount \in Nat /\ r.energy_reserved \in Nat
  <2>1. r \in Transaction
    BY TransactionAssumption
  <2>2. r.amount \in Amount /\ r.energy_reserved \in Nat
    BY <2>1 DEF Transaction
  <2> QED
    BY <2>2, MaxAmountAssumption DEF Amount
<1>2. FinalUses \subseteq Nat /\ InitStates \subseteq StateVals
  BY CostAssumption, ChainCosts
<1>3. CASE contract_init_fails(a, m, name, r.amount, r.energy_reserved, fits)
  <2>1. ChainInv'
    BY <1>1, <1>3, InitFailsKeeps
  <2>2. mode = "idle" /\ contracts' = contracts
    BY <1>3 DEF contract_init_fails, Idle, InitOver
  <2> QED
    BY <2>1, <2>2 DEF ContractsPersist
<1>4. ASSUME NEW used \in FinalUses,
             contract_init_run_fails(a, m, name, r.amount, r.energy_reserved, used)
      PROVE  ChainInv' /\ mode = "idle" /\ ContractsPersist
  <2>1. ChainInv'
    BY <1>1, <1>2, <1>4, InitRunFailsKeeps
  <2>2. mode = "idle" /\ contracts' = contracts
    BY <1>4 DEF contract_init_run_fails, InitRuns, Idle, InitOver
  <2> QED
    BY <2>1, <2>2 DEF ContractsPersist
<1>5. ASSUME NEW used \in FinalUses, NEW state \in InitStates,
             contract_init_unpaid(a, m, name, r.amount, r.energy_reserved, used, state)
      PROVE  ChainInv' /\ mode = "idle" /\ ContractsPersist
  <2>1. ChainInv'
    BY <1>1, <1>2, <1>5, InitUnpaidKeeps
  <2>2. mode = "idle" /\ contracts' = contracts
    BY <1>5 DEF contract_init_unpaid, InitRuns, Idle, InitOver
  <2> QED
    BY <2>1, <2>2 DEF ContractsPersist
<1>6. ASSUME NEW used \in FinalUses, NEW state \in InitStates,
             contract_init_succeeds(a, m, name, r.amount, r.energy_reserved, used, state)
      PROVE  ChainInv' /\ mode = "idle" /\ ContractsPersist
  <2>1. ChainInv' /\ contracts[next_contract_index] = None
    BY <1>1, <1>2, <1>6, InitSucceedsKeeps
  <2>2. mode = "idle"
    BY <1>6 DEF contract_init_succeeds, InitRuns, Idle
  <2>3. contracts' = [contracts EXCEPT ![next_contract_index] =
                        [module_reference |-> m, contract_name |-> name,
                         state |-> state, self_balance |-> r.amount]]
    BY <1>6 DEF contract_init_succeeds
  <2>4. ContractsPersist
    BY <2>1, <2>3, ChainFacts DEF ContractsPersist
  <2> QED
    BY <2>1, <2>2, <2>4
<1> QED
  BY <1>3, <1>4, <1>5, <1>6

(* What a step preserves, and what it may change *)
LEMMA ChainNextKeeps ==
    ASSUME ChainInv, ChainNext
    PROVE  ChainInv' /\ ContractsPersist /\ OnlyPartiesPay /\ FailureChangesNothing
<1> USE DEF Idle
<1>1. ASSUME mode = "idle", contracts' = contracts
      PROVE  ContractsPersist /\ OnlyPartiesPay /\ FailureChangesNothing
  BY <1>1 DEF ContractsPersist, OnlyPartiesPay, FailureChangesNothing
<1>2. ASSUME mode # "idle", accounts' = accounts, contracts' = contracts
      PROVE  ContractsPersist /\ OnlyPartiesPay /\ FailureChangesNothing
  <2>1. \A k \in AccountKeys : accounts[k] # None => ~(accounts[k].total < accounts[k].total)
    <3> SUFFICES ASSUME NEW k \in AccountKeys, accounts[k] # None
                 PROVE  ~(accounts[k].total < accounts[k].total)
      OBVIOUS
    <3>1. accounts[k] \in Account
      BY ChainFacts DEF AccountsOK
    <3>2. accounts[k].total \in Nat
      BY <3>1, AvailableType
    <3> QED
      BY <3>2
  <2> QED
    BY <1>2, <2>1 DEF ContractsPersist, OnlyPartiesPay, FailureChangesNothing
<1>3. CASE \E a \in AccountAddrs, balance \in Issues : create_account(a, balance)
  BY <1>1, <1>3, CreateAccountKeeps DEF create_account
<1>4. CASE \E r \in Rates : set_exchange_rates(r)
  BY <1>1, <1>4, SetRatesKeeps DEF set_exchange_rates
<1>5. CASE \E a \in AccountAddrs, m \in ModuleRefs, v1 \in BOOLEAN : module_deploy(a, m, v1)
  <2>1. mode = "idle" /\ contracts' = contracts
    BY <1>5 DEF module_deploy
  <2>2. ChainInv'
    BY <1>5, DeployKeeps
  <2> QED
    BY <1>1, <2>1, <2>2
<1>6. CASE InitAny
  <2>1. ChainInv' /\ mode = "idle" /\ ContractsPersist
    BY <1>6, InitKeeps
  <2> QED
    BY <2>1 DEF OnlyPartiesPay, FailureChangesNothing
<1>7. ASSUME NEW r \in Transactions,
             \/ contract_update_refused(r)
             \/ \E fits \in BOOLEAN : contract_update_invalid(r, fits)
             \/ contract_update(r)
             \/ contract_invoke(r)
      PROVE  ChainInv' /\ ContractsPersist /\ OnlyPartiesPay /\ FailureChangesNothing
  <2>1. mode = "idle" /\ contracts' = contracts
    BY <1>7 DEF contract_update_refused, contract_update_invalid, contract_update,
       contract_invoke
  <2>2. ChainInv'
    BY <1>7, UpdateRefusedKeeps, UpdateInvalidKeeps, UpdateKeeps, InvokeKeeps
  <2> QED
    BY <1>1, <2>1, <2>2
<1>8. CASE HandlerStep
  <2>1. ChainInv' /\ mode # "idle" /\ accounts' = accounts /\ contracts' = contracts
    BY <1>8, HandlerStepKeeps DEF HandlerStep, chain
  <2> QED
    BY <1>2, <2>1
<1>9. CASE UpdateSucceeds
  <2>1. mode = "update" /\ status = "returned" /\ invoke_response.success
    BY <1>9 DEF UpdateSucceeds
  <2>2. ContractsPersist /\ FailureChangesNothing
    BY <2>1 DEF ContractsPersist, FailureChangesNothing
  <2> QED
    BY <1>9, <2>2, UpdateSucceedsKeeps
<1>10. CASE UpdateUnstored \/ InvokeEnds
  <2>1. mode # "idle"
    BY <1>10 DEF UpdateUnstored, InvokeEnds
  <2> QED
    BY <1>2, <1>10, <2>1, UnchargedKeeps
<1>11. CASE UpdateFails
  <2>1. mode = "update"
    BY <1>11 DEF UpdateFails
  <2>2. /\ ChainInv' /\ contracts' = contracts
        /\ \A j \in AccountKeys \ {KeyOf[tx.invoker]} : accounts'[j] = accounts[j]
    BY <1>11, UpdateFailsKeeps
  <2>3. ContractsPersist /\ FailureChangesNothing
    BY <2>1, <2>2 DEF ContractsPersist, FailureChangesNothing
  <2>4. OnlyPartiesPay
    <3> SUFFICES ASSUME NEW k \in AccountKeys, accounts[k] # None, k # KeyOf[tx.invoker],
                        accounts'[k].total < accounts[k].total
                 PROVE  FALSE
      BY DEF OnlyPartiesPay
    <3>1. accounts[k] \in Account /\ accounts'[k] = accounts[k]
      BY <2>2, ChainFacts DEF AccountsOK
    <3>2. accounts[k].total \in Nat
      BY <3>1, AvailableType
    <3> QED
      BY <3>1, <3>2
  <2> QED
    BY <2>2, <2>3, <2>4
<1> QED
  BY <1>3, <1>4, <1>5, <1>6, <1>7, <1>8, <1>9, <1>10, <1>11 DEF ChainNext

(* A stuttering step changes nothing the invariant mentions. *)
LEMMA ChainStutters == ASSUME ChainInv, UNCHANGED allVars PROVE ChainInv'
<1>1. UNCHANGED vars /\ UNCHANGED chainVars
  BY DEF allVars
<1>2. accounts' = accounts /\ contracts' = contracts /\ modules' = modules /\ tx' = tx
        /\ remaining_energy' = remaining_energy
  BY <1>1 DEF vars
<1>3. ChainTyped' /\ IndexInv' /\ LedgerInv' /\ rate' \in Rates
  BY <1>1, <1>2 DEF chainVars, ChainInv, ChainTyped, IndexInv, LedgerInv,
     SupplyConserved, TotalOfAccounts, TotalOfContracts
<1>4. ASSUME mode # "idle" PROVE HandlerInv'
  <2>1. Inv /\ FundsInv /\ LayersConserve /\ HandlerInv
    BY <1>4 DEF ChainInv, HandlerInv
  <2>2. Inv' /\ FundsInv' /\ LayersConserve'
    BY <1>1, <2>1, NextInv, NextFunds, NextConserves
  <2> QED
    BY <1>1, <1>2, <2>1, <2>2 DEF HandlerInv, calculate_energy_cost, chainVars
<1>5. mode' = mode
  BY <1>1 DEF chainVars
<1> QED
  BY <1>3, <1>4, <1>5 DEF ChainInv

(* The invariant holds throughout every test. *)
LEMMA ChainAlways == ChainSpec => []ChainInv
<1>1. ChainInv /\ [ChainNext]_allVars => ChainInv'
  BY ChainNextKeeps, ChainStutters
<1> QED
  BY <1>1, ChainInitInv, PTL DEF ChainSpec

-----------------------------------------------------------------------------
(* Theorems *)

(* CCD moves between accounts, contracts and fees, and nowhere else:       *)
(* whatever transfers, upgrades and failures the contracts of an update    *)
(* go through before persist or the early returns of contract_update.      *)
THEOREM SupplyKept == ChainSpec => []SupplyConserved
<1>1. ChainInv => SupplyConserved
  BY DEF ChainInv, LedgerInv
<1> QED
  BY <1>1, ChainAlways, PTL

(* Fees and transfers are paid from what is available: no sequence of      *)
(* operations makes available() underflow on staked or locked CCD.         *)
THEOREM LockedFundsStay == ChainSpec => []LockedFundsKept
<1>1. ChainInv => LockedFundsKept
  <2> SUFFICES ASSUME ChainInv, NEW k \in AccountKeys, accounts[k] # None
               PROVE  accounts[k].total >= 0 /\ available(accounts[k]) >= 0
    BY DEF LockedFundsKept
  <2>1. accounts[k] \in Account /\ available(accounts[k]) >= 0
    BY ChainFacts DEF AccountsOK
  <2>2. accounts[k].total \in Nat
    BY <2>1, AvailableType
  <2> QED
    BY <2>1, <2>2
<1> QED
  BY <1>1, ChainAlways, PTL

(* persist panics for a total that is no amount, so in the model no update  *)
(* goes on without Persistable: as long as all CCD fits an amount it holds  *)
(* whatever the contracts did, and an update that succeeds is persisted.    *)
THEOREM PersistNeverPanics ==
    ChainSpec => [](mode # "idle" /\ TotalOfAccounts + TotalOfContracts <= MaxAmount
                      => Persistable)
<1>1. ChainInv => (mode # "idle" /\ TotalOfAccounts + TotalOfContracts <= MaxAmount
                     => Persistable)
  <2> SUFFICES ASSUME ChainInv, mode # "idle",
                      TotalOfAccounts + TotalOfContracts <= MaxAmount,
                      NEW k \in AccountKeys, Top.accounts[k] # None
               PROVE  apply_to_balance(Top.accounts[k].balance_delta, accounts[k].total)
                        \in Amount
    BY DEF Persistable
  <2> DEFINE total == apply_to_balance(Top.accounts[k].balance_delta, accounts[k].total)
  <2>1. HandlerInv
    BY DEF ChainInv
  <2>2. LayerOK(Top) /\ FundsKept(Top) /\ LayerDelta(Top) = 0 /\ Inv
    BY <2>1, TopFacts DEF HandlerInv
  <2>3. total \in Nat /\ total <= TotalOfAccounts + TotalOfContracts
    BY <2>2, TotalsFit
  <2>4. TotalOfAccounts + TotalOfContracts \in Int
    BY ChainFacts DEF TotalOfAccounts, TotalOfContracts
  <2> HIDE DEF total
  <2>5. total \in Amount
    BY <2>3, <2>4, MaxAmountAssumption DEF Amount
  <2> QED
    BY <2>5 DEF total
<1> QED
  BY <1>1, ChainAlways, PTL

(* A failed update changes nothing but the invoker's balance, an           *)
(* invocation nothing at all; a contract is never overwritten, since an    *)
(* address is given out once; and only the invoker and the sender of an    *)
(* update can lose CCD in it.                                              *)
THEOREM EffectsStayContained == ChainSpec => EffectsContained
<1>1. ChainInv /\ [ChainNext]_allVars
        => [ContractsPersist /\ OnlyPartiesPay /\ FailureChangesNothing]_allVars
  BY ChainNextKeeps
<1> QED
  BY <1>1, ChainAlways, PTL DEF ChainSpec, EffectsContained

=============================================================================
