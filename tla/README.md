# A TLA+ model of the Concordium smart contract libraries

This directory is a verification project for the libraries and tools of this
repository: `concordium-std` (the standard library of Concordium smart
contracts), `concordium-smart-contract-testing` (`contract-testing/`, a chain
in memory that runs contracts), `concordium-cis2`, and the example contracts.
The modules are written from the code; `PROJECT.json` gives, for every
definition, the lines it models.

## The system

### contract-testing

| part | state | operations |
|---|---|---|
| `Chain` (`src/impls.rs`, `src/types.rs`) | accounts (by the first 29 bytes of their addresses, so that an account has many aliases), modules, contracts, the next contract index, exchange rates, block time | `create_account`, `module_deploy_v1`, `contract_init`, `contract_update`, `contract_invoke`, setting rates and times |
| `EntrypointInvocationHandler` (`src/invocation/impls.rs`) | the remaining energy, a stack of frames (`Next::Initial`, `Next::Resume`), the answer of the last call, the trace, the counter of modification indices | `invoke_entrypoint`: a loop that pops a frame, runs the Wasm interpreter and handles what it ended with: success, rejection, trap, or an interrupt (transfer, call, upgrade, five queries, account keys, signature check) |
| `ChangeSet` (same file) | a stack of layers; a layer maps accounts to an original balance and a delta, and contracts to a delta, a state, a module and a modification index | `checkpoint`, `rollback`, the transfers, the lookups (top layer first, then the chain), `save_state_changes`, `save_module_upgrade`, `persist` |
| `AmountDelta` | a sign and an amount | `add_delta`, `apply_to_balance` |
| external node | a gRPC connection | forwards queries; pure I/O |

`Chain` builds a handler for each update or invocation. The handler holds the
chain by reference and only reads it, collecting every change in the
changeset; when it returns, `Chain` persists or drops the changeset and
charges the invoker.

Nothing runs in parallel here. What makes the code hard is *re-entrancy* and
*partial failure*: a contract is suspended in the middle of its execution
while contracts it called run, and they may call it back, change its state,
upgrade it, spend its balance, and then fail. What must hold: a failed call
leaves no trace, a resumed contract sees the current state, money is moved and
never created, nobody spends reserved, staked or locked funds, an `expect` in
the code never fires, and the loop ends because the energy does.

### concordium-std

| part | state | operations |
|---|---|---|
| bump allocator (`bump_alloc.rs`) | `next`, `heap_end`, `heap_start`, `last_alloc`, `allocations` | `alloc`, `dealloc` |
| low-level state (`impls.rs`, `prims.rs`) | the host's trie: entries, handles, iterators that lock subtrees | create, lookup, delete entry, delete prefix, iterate, read, write, resize |
| containers (`StateBuilder`, `StateMap`, `StateSet`, `StateBox`, `StateRef`) | a prefix in the trie; cached values | insert, get, remove, entry, iterate, clear |
| ordered containers (`state_btree.rs`) | B-tree nodes in a `StateMap` | insert with splits, remove with borrowing and merging, ordered iteration |
| `Host`, contexts, logger | the state of the contract in Rust | `invoke_contract` (commit, call, reload), transfers, upgrade |
| test infrastructure (`test_infrastructure.rs`, `trie.rs`) | an in-memory trie with locks, a `TestHost` with mocked entrypoints | checkpoints, `with_rollback` |

Hard here: handles and cached values that outlive a deletion or a call, locks
that are held by an iterator and must be released, containers nested in
containers under shared prefixes, and the tree surgery of the B-tree.

### The contracts of `examples/`

| part | state | operations |
|---|---|---|
| `concordium-cis2` | none: amounts, parameters, events and a client of the CIS-2 standard | arithmetic of amounts, encodings, `Cis2Client` |
| tokens: cis2-nft, cis2-multi, cis2-wccd, cis3-nft-sponsored-txs, cis2-dynamic-nft, cis2-multi-royalties, nametoken | balances or owned tokens, operators, metadata; roles, pause, blacklist, nonces, expiry of names | transfer in batches (with a call to each receiving contract), updateOperator, mint, burn, wrap, unwrap, permit, roles, register, renew |
| holders of funds: auction, sponsored-tx-enabled-auction, two-step-transfer, offchain-transfers, cis5-smart-contract-wallet, icecream, piggy-bank | bids, requests, sheets and settlements, balances of keys, and the CCD or tokens themselves | bid, finalise, request and support, settle and veto, signed withdrawals and transfers, buy, smash |
| keepers of records: voting, eSealing, factory, credential-registry, counter-notify, smart-contract-upgrade | ballots and tally, files, products, credentials and keys, a counter, the root of the state | vote, seal, produce and initialise, register, revoke, restore, notify, upgrade and migrate |

A contract interacts with the others through calls: it is suspended, what it
calls may call it back, and a rejection undoes everything since the call. Hard
here: contracts that receive tokens or CCD and act in the middle of a batch,
signed messages that anybody may send again, deadlines that pass between two
steps, two records of one thing that different steps update, and transfers
from somebody to themselves.

### The rest

`concordium-std-derive` generates code at compile time. `templates/` has
parameterised copies of two of the contracts, and an empty one.

## Modules

| module | models |
|---|---|
| `ChangeSet` | signed amounts (`AmountDelta`) and their errors, layers, lookups, transfers and saved states, as operators on a layer and on the stack of layers |
| `Invocation` | `invoke_entrypoint` as a state machine over `ChangeSet` |
| `Chain` | the operations of a test, composed with `Invocation`: the handler's steps are steps of the chain while an update or invocation is under way |
| `BumpAlloc` | the allocator of contracts compiled to Wasm |
| `StateApi` | the abstract specification: what `HasStateApi` promises |
| `StateTrie` | the test infrastructure's trie, entries and iterators; implements `StateApi` |
| `StateContainers` | `StateBuilder`, `StateBox`, `StateMap`, `StateSet`, their handles, iterators and drops |
| `Host` | `ExternHost`: the contract's state in memory and in the node, around calls |
| `StateBTree` | `StateBTreeSet` and `StateBTreeMap`: splits, borrowing, merging, lookups, iteration |
| `Entrypoints` | how a contract of `examples/` is called, calls others and is undone |
| `Cis2` | token amounts, events, batches of transfers with their receive hooks |
| `Cis2Nft`, `Cis2Multi`, `Cis2Wccd`, `Cis3Nft`, `Cis2Dynamic`, `Cis2Royalties`, `NameToken` | the token contracts, each extends `Cis2` |
| `Tokens` | the token contracts together: a behaviour is one of any of them, and the properties of all |
| `Ledger` | everybody's CCD and the time, for the contracts that follow |
| `Auction`, `SponsoredAuction`, `TwoStepTransfer`, `OffchainTransfers`, `Cis5Wallet`, `IceCream`, `PiggyBank` | contracts that hold funds |
| `Voting`, `ESealing`, `Factory`, `CredentialRegistry`, `CounterNotify`, `ContractUpgrade` | contracts that keep records |
| `Contracts` | these contracts together, as `Tokens` has the others |
| `MC...` | the instances that TLC checks (those of `StateTrie` and `StateBTree` are at the end of these modules) |
| `...Proofs` | theorems and their proofs |

### ChangeSet

A layer is a record of two functions, from account keys and contract addresses
to an entry or `None`. `KeyOf` maps an address to its account, so that two
addresses can be aliases: the code compares *addresses* in some places and
*keys* in others, and the model keeps each as it is. The operators that change
a layer return the new layer, an error and a balance (`Result`), as the
functions of the code return `Result<Amount, ..>` and change the layer on the
way: a debit stays in the layer when the credit after it fails. Amounts are
bounded by `MaxAmount`, which stands for 2^64 - 1.

### Invocation

| variable | in the code |
|---|---|
| `stack` | `stack: Vec<Next>`: frames *initial*, *resume* (with a response) and *await* (a `Resume` with no response) |
| `running` | the `InvocationData` of the entrypoint that the interpreter runs |
| `changeset`, `remaining_energy`, `module_load_energy`, `next_contract_modification_index` | the fields of the handler |
| `invoke_response`, `trace_elements` | the local variables; a trace is its length |
| `status` | `pop` at the head of the loop, `exec` in the interpreter, or how the function returned: `returned`, `outOfEnergy`, `overflow`, `panic` |
| `leaked` | history: a rollback restored a layer that differs from the one the call started from |

An *initial* frame takes one step (`InitialFails`, `InitialNoEntrypoint`,
`InitialExits`, `InitialRuns`), as does a resumed one (`ResumeImmediate`,
`ResumeAfterSuccess`, `ResumeAfterFailure`); each result of the interpreter is
an action (`RunSucceeds`, `RunFails`, `RunCalls`, `RunTransfers`,
`RunUpgrades`, `RunQueries`, ...). The contracts are arbitrary: a run may
write any state, use any energy of a set, and end in any result; this is the
one external part, and it is more liberal than any contract. An interrupt
costs at least one unit of energy (the engine's base cost for an invocation).
A step that pops a frame is one of `Pops`, a run of the interpreter that ends the
entrypoint one of `RunEnds`, one that interrupts it one of `RunInterrupts`.

### Chain

The operations are atomic except for an update or invocation, which starts a
handler, takes the handler's steps, and ends in `UpdateSucceeds`,
`UpdateUnstored` (the energy does not suffice for the state), `UpdateFails` or
`InvokeEnds`. `contract_init` is split by the checks it fails at, each with
the energy spent so far. `issued` and `fees` are history variables for the
conservation of CCD, `report` compares the fee of the last result with what
was charged. Contract addresses are indices, with index 0, 1, 2. An update
ends only when its changes can be persisted (`Persistable`): where they
cannot, an `expect` of `persist` panics and the test is over.

### BumpAlloc

`alloc` and `dealloc` with the fields of the code, plus `live`, the set of
blocks that were handed out and not freed, and `pages`, the size of the
memory. The page size, the heap base, the most pages the host grants and the
largest address are constants, so that growth, refusal and the end of the
address space are all near.

### StateApi and StateTrie

`StateApi` has a mapping from keys to data and a number of iterators for each
prefix; its actions are what the documentation of `HasStateApi` allows.
`StateTrie` has the code's fields (`next_entry_id`, `entry_map`,
`iterator_counts`) and what Rust's `Rc` adds: `cells` is the data, shared by
the trie and by every handle made from it. The nodes are given by the keys
that have data, since the code removes a node without data and children at
once. An operation that returns an error and changes nothing is no step.
An iterator is made from the keys below its prefix in lexicographic order
(`InOrder`). `ImplementsApi` maps a key to the data in its cell and counts the live
iterators; a write through a handle whose entry was deleted or replaced maps
to a stutter.

### StateContainers

One map from keys to boxes, one set, and the boxes that the contract holds, in
one state `contents` whose keys are `<<prefix>>` for a box (and the prefix
counter) and `<<prefix, key>>` for an element. A box is a `StateBoxInner`. The
map can be borrowed (`borrow`) by an iterator, a `StateRefMut` or an
`OccupiedEntry`, of which the last two hold an item with a cached value that
is stored when they are dropped. Values are sequences of different lengths
with the length in front, so that a short value written over a long one leaves
bytes behind, as in the code. Of an iterator the model has the keys that are
left, which `next` takes in ascending order. The contract obeys Rust's borrowing
rules and nothing else: it may insert, remove and clear after `iter_mut`, whose
lock stays (`leaked`, until the end of the execution). `reload` is the end of an
execution and the start of the next. `trapped` records an `unwrap_abort` or
`trap`. The other history variables say what the contract put where, and `kept`
that something was removed from a locked map, which keeps its entry.

### Host

A stack of activations of one contract, each with the state in memory: a flat
value and a `StateBox`. `invoke_contract_raw` commits and then a call comes
back to the contract; the callee may succeed with or without the right to
modify the state, or reject. `saved` is what the node restores. `logical` is
the history variable that the views are compared with; its field `exposed` says
that a function whose work is kept has made a call with a box modified in memory.
A box modified in memory when its owner is reloaded is written through an entry
that the node may have invalidated, so either outcome is possible; an abort is a
rejection to the caller.

### StateBTree

The nodes are a function from node ids to keys and children, as they are in
the contract's state. The loops of the code that go down the tree are steps:
`op` holds the operation, the key and the node it has reached. Insertion
splits full nodes on the way down, removal makes sure that the node it enters
has a key to spare (`TakeFromSmaller`, `TakeFromLarger`, `merge`). A map is a
set of keys beside a `StateMap`; `elems` is the history of what a sorted set
would hold. Nothing else can run between two steps of an operation; they are
steps because the code repairs the tree before it knows what it will find, and
a property of every intermediate tree (`WellFormed`) says more than one of the
results.

### The contracts

`Entrypoints` has the stack `calls` of entrypoints of the contract that are
suspended in a call to another contract. While one is, that contract (and
nobody else) may call again, return, or reject; a rejection restores what the
frame saved, which is what the node does. An entrypoint that rejects by itself
is no step. The state in memory and the state in the node are the same before
and after each call, which is what `Host` is about. `seen` is what somebody
knows who follows the events (a wallet, an indexer), and is restored with the
state, since the events of a rejected call do not happen.

In the token contracts a batch is a sequence of steps, one for each transfer,
with the call to a receiving contract between them. Token amounts are machine
integers and wrap at `Modulus`, as they do in the release build. Signatures
are taken as valid, so that a permit is a message with a signer: the model is
about which messages are accepted, not about cryptography. `Accepts`, `Moved`
and the like are the parts in which the contracts differ. `Tokens` has their
parameters with what is assumed of them: addresses and tokens are finitely
many, each account has one canonical address, what is asked for and what is
signed is about the addresses and tokens that there are, and there is less CCD
than a token amount can say (for cis2-wccd, which mints a token for each
micro-CCD: both are 64 bits in the code).

In the others `Ledger` holds everybody's CCD and the time; `Tick` moves the
time between transactions. `Cis5Wallet` and `IceCream` call contracts in the
middle of an entrypoint. An entrypoint of the wallet executes one signed message
after another: `sign` checks the nonce and pays the fee, `move` and `pay_out` are
a transfer to a key and a withdrawal, `log_withdraw` and `log_nonce` the events
that follow them, so that what a receiver is called in the middle of is as in the
code. The queue of settlements of `OffchainTransfers` is a function from ids to
settlements, since it is in the order of the ids. `SponsoredAuction` holds tokens and is called by the
token contract in its receive hook. `Factory` models two contracts, the factory
and its products, and also products that another contract initialises.
`ContractUpgrade` keeps the root of the state as the three fields that both
versions read and write, because either version deserialises what the other
has written. `Contracts` has their parameters with what is assumed of them:
accounts and contracts are finitely many, amounts and times are natural numbers,
`None` is no value of another kind, what is asked for and signed is about
accounts, contracts and keys that there are, a batch has a message, and
sponsored-tx-enabled-auction has fewer items than its counter can count.

## Runs

| run | question | bounds |
|---|---|---|
| `invocation` | With every pattern of calls, transfers, upgrades, queries, key and signature checks between two contracts, and every outcome: do the changeset, the callers' frames, the trace and the modification indices stay in step, does a resumed contract see the current state, are balances amounts and deltas applicable, is money conserved in every layer, are reserved funds kept, does only a deployed module with the contract replace a module, and does every invocation end? | energy for three contracts in a row, and for running out at every place; sent by an alias of the invoker, by an account with locked funds, and by a contract; two chains: on one a credit takes a balance past `MaxAmount`, on the other all CCD fits; modules with the contract, without it, and missing |
| `chain` | Two operations in any order around a handler: conservation, locked funds, addresses, who pays, atomicity of failure | three accounts (one with two addresses, one that does not exist yet), three contract addresses, eight requests that are refused, invalid, fail, or succeed |
| `bump_alloc` | Every order of allocations and deallocations | four-byte pages, a heap base that is not at a page boundary, memory that can grow by two pages, 16 addresses: every way in which `alloc` can fail is reached |
| `state_trie` | Does the trie do what `HasStateApi` promises, and do iterators visit what is there, with several handles of one entry that write, resize and seek, and overlapping iterators? | the root, a key and two extensions of it; two entries ever created, three handles, two iterators, data of at most one byte |
| `containers` | Does each container hold what was put there, do boxes keep their values, is nothing left behind and nothing aborted but after `iter_mut`, over any number of executions? | two keys, two elements, three prefixes (map, set and a box, or two boxes and one of the others), values of two lengths |
| `host` | Does every activation read what was last assigned, and the node end up with it, and what becomes of a box that is modified in memory during a call? | three functions of the contract on the stack, two values |
| `btree` | Is the tree a B-tree with the keys of a sorted set in every intermediate state, do lookups and iteration tell what is in it, and is no entry of a node left behind? | minimum degree 2; from the empty tree and from two trees of three levels with ten keys, four operations out of all, on twelve keys |
| `tokens` | Do the events tell what the contract answers, does every token have one owner, is a permit executed once, is wCCD backed, do pause and blacklist hold, are names lost only when they have expired? | two or three addresses and a contract, one or two tokens, amounts that wrap at 256; entrypoints nested two deep |
| `contracts` | Do the funds that a contract holds equal what it owes, do two records of one thing agree, is a signed message executed once, is what was decided final? | three accounts, one contract that is called and calls back, up to six entrypoints, nested two deep; time 0 to 2 with deadlines at 1; amounts that wrap at 32, a settlement that wraps, CCD attached to requests |
| `rollback`, `commit`, `trap` | state what the repository says of a failed call, of committing the state before a call and of `StateMap::clear`, and find it violated: see *Findings* | instances with the behaviour |

The bounds are small because what matters is reached within them: a contract
that is re-entered while its caller is suspended (three frames), a failure
above a success (three; more in the proofs), an alias that is both invoker and
sender, an amount that just does not fit; a deleted entry with a handle left
and a new entry in its place; a box that moves into the map while another one
comes out of it; an activation between its caller and its callee; a node of a
B-tree that borrows from an inner node, and one that merges two levels up
(ten keys at degree 2); a receiver that brings the same permit again, a
message with the nonce of another one, a vote, a bid and a veto at the
deadline and on either side of it. Contracts do not depend on each other
except through `Entrypoints`, so `tokens` and `contracts` explore one contract
per behaviour. Deadlock is not checked where the handler has returned, the test is
over, or a bound is used up; `bump_alloc` never stops, and there it is checked.

Some properties are conjunctions: `Consistent` of the trie (types, lookups
that exist, iterators that see the trie) and of the host (what is stored at
the end, which caller a reload aborts), `ContentsAgree` of the containers (map, set, boxes),
`EffectsContained` of the chain (contracts persist, only the parties pay,
failure changes nothing). The parts are named definitions of their modules.

Three properties have an exception, which is named in their formula and is a
history variable of the model, so that the steps that lead to it are explored and
the properties say what still holds: `exposed` of `Host` (`ViewIsCurrent`,
`Consistent`), `leaked` and `kept` of `StateContainers`, and `seen` of
two-step-transfer and offchain-transfers (`FundsSetAside`, `FundsAccounted`). Each
is a place where the code does not do what is written about it: the first two
are *Findings*, the last *Observations*. `DeltasApplicable` says of a total that
it stays an amount only on a chain whose CCD fits an amount.

*Fairness.* Only `Terminates` needs it. The loop is sequential code, so what is
popped is handled (weak fairness of `Pops`), and a run of the interpreter is
bounded by the energy it is given, so that it ends, by an interrupt or otherwise
(weak fairness of `RunEnds`: an interrupt disables it by taking the entrypoint
out of the interpreter). No single outcome is favoured: a contract may interrupt
itself as often as its energy allows.

## Proofs

Every theorem holds for all constants that satisfy the modules' assumptions:
any number of accounts, contracts, modules, any costs, any depth of calls.

`BumpAllocProofs`. *AllocatorTyped*, *NoOverlap*, *InMemory*, *ResetExact*.
That live blocks are disjoint is not inductive: it needs that all of them end
at or below `next`, and, for the step back in `dealloc`, that a live block
which starts at `last_alloc` is the topmost one (`LastAllocIsTop`), so that
moving `next` back frees that block and nothing else; and that the counter is
the cardinality of the finite set of live blocks, so that a reset happens when
none is left.

`SumProofs` has the lemmas about sums over a finite set, as `MapThenSumSet` of
the community modules defines them: what the sum over a set with one more
element is, that sums of equal terms are equal, and how a sum changes with one
or two of its terms. Induction over the subsets of a finite set takes the form
of a smallest subset without the property (`LeastSubset`).

`ChainProofs` proves what is known of the changeset, of the handler and of the
chain, in this order; each part uses the one before it.

*DeltasAdd*: adding deltas adds the values they stand for, whatever the signs,
so the order in which a transaction moves CCD does not matter. The lemmas
around it say what each transfer and each change of an entry returns and
preserves (a layer stays a layer; its balances are amounts; its deltas add up
to what they did).

*HandlerTyped*, *CallersKeepCheckpoints*, *TracesNested*,
*ResponsesReady*, *BalancesAreAmounts*: the `expect`s of the handler cannot
fire. The inductive invariant (`Inv`) says, beside types: the chain is well
formed and unchanged; every layer has only entries for things that exist, with
balances that are amounts; the frames of the stack are typed, all but the top
one await, each has more layers below it than the frames below it, and its
trace checkpoint is at most the next one's; and if the top of the stack awaits
an answer at the head of the loop, there is one. There is one lemma for each
action, and the type invariant alone is not inductive: that energy stays a
natural number needs the interpreter's bound, that the changeset is not
emptied needs `CheckpointsStacked`, and that needs the order of the frames.
*BalancesAreAmounts* is about two balances of an account: its original one with
the delta, which is checked at every change, and its total with the delta, which
is what `persist` computes and what nobody checks for a credit. That the second is
an amount, when all CCD fits one, follows from conservation (*CcdConserved*): the
deltas of a layer add up to zero, so a total is at most all that there was
(`TotalsFit`). *PersistNeverPanics* is the same for the chain: as long as what was
issued fits an amount, an update or initialisation under way is `Persistable`.

On top of that, *ContractsSeeCurrent* (`ViewInv`: what
a suspended frame has saved is what the changeset has for its contract, unless
the modification index says that it changed), *LowerLayersStay*,
*ReservesStay* (`FundsInv`: an account is the sender of the first frame only,
and it can be debited at most the amount of the transaction, in every layer),
*CcdConserved* (the deltas of each layer add up to zero), *UpgradesKeep*
(`NamesInv`: each frame runs a contract that the module of its instance has).
The last one has the hypothesis `NamesMatch`, that the first frame names the
contract of its instance: the handler takes the name from the payload and does
not compare it.

*SupplyKept*, *LockedFundsStay*, *EffectsStayContained*, for the
chain composed with the handler. `ChainInv` says: the accounts and contracts
are typed, and what an account has available is not negative (`ChainTyped`);
only contract indices below the next one are in use (`IndexInv`: so no contract
is overwritten); balances and fees add up to what was issued (`LedgerInv`); and
while a handler runs, its invariants hold for the chain as it is, the energy is
paid for by the amount reserved for it, the deltas of each layer add up to
zero, and only the sender of the update has a negative delta among the accounts
(`HandlerInv`). Conservation then follows at the end of an update, when the top
layer is added to the balances.

`HostProofs`. *HostViewCurrent*, *HostConsistent*, for every contract: of the flat
value always, of the box until a call is made with it modified in memory. `HostInv` says what every function on the stack
will find when it is resumed: what the node restores when the one above it
rejects is what the state was at the call, and a reference in memory is to an
entry that exists.

`StateTrieProofs`. *TrieConsistent* and *TrieImplementsApi*, that the trie
implements `StateApi`, for any set of keys closed under prefixes. `TrieInv`
says, beyond `Consistent`: no two keys share data (a write reaches one key,
and `delete_prefix` marks no data of a key that is left), a handle is in one
place, with a user or in one queue (so that `delete_entry`, which consumes a
number, leaves all others theirs), and `iterator_counts` has, for each prefix,
the number of its iterators and no zero. That iterators see the trie needs
that two prefixes of one key are comparable, which is what makes the test of
`is_locked` enough. The lemmas about keys say that the lexicographic order is
total and transitive, so that finitely many keys have an enumeration in order.

`StateContainersProofs`. *ContainersDoNotTrap*, *ContainersHoldContents*,
*ContainersLeaveNothing*, *PrefixesStayApart*, for any keys, values and bounds.
The invariant (`StateInv`) has three cases: `ContainersInv`; an execution that
has aborted after `iter_mut` (`Aborted`), which stays as it is; and one in which
something was removed from a locked map (`Kept`), of which no more is said than
the prefixes. `ContainersInv` says: the
prefixes in use are below the stored counter, each with one container
(`PrefixInv`); a box is the contract's, at one key of the map, or lost
(`OwnerInv`); the state has keys for what the containers refer to and no others
(`PlaceInv`); what borrows the map refers to a key that it has (`BorrowInv`);
the entry at a key refers to the box that was put there, or the borrowed item
does and will be written back (`StoredInv`); a value in memory is the one that
was given to the box, and where it was not modified so are the bytes of the
state, behind the length (`ValueInv`); and the locks on a container are those
of the iterators that will release them (`LockInv`). The first three make an
operation on one container leave the others alone: keys of two containers
differ because their prefixes do. `StoredInv` and `ValueInv` carry the contents
through the time when memory and state disagree. `LockInv` is why nothing that
is to be created or deleted is locked, but by `iter_mut`.

`TokensProofs`. *TokensTellTheirState*, *TokensHaveOneOwner*,
*TokensPermitOnce*, *TokensAreBacked*, *TokensStayFrozen*, *TokensKeepNames*,
for any accounts, contracts, tokens, batches, permits and amounts, and for calls
nested to any depth. `TokensInv` has an invariant for each of the seven
contracts, all of one shape. The first part (`NftGood`, `MultiGood`, ...) is
about a pair of a state and what is known to those who follow the events: both
are typed, and agree. For cis2-nft a token that was minted is in one set of
owned tokens and the known balances are 0 and 1 accordingly; for nametoken the
sets of owned names are those that the records say; for cis2-multi what is known
*is* the balances, tokens, roles and blacklist; for cis2-wccd the balances add up
to the CCD of the contract. The second part (`CallsOK`) is that every entrypoint
under way has saved such a pair, which is what makes a rejection harmless, that
what it has left to do is about tokens and addresses that exist, and that the
events it has put off until its end tell nothing of these. That the pairs agree
is preserved by a step because each event does to what is known what the
entrypoint does to the state; the lemmas about `Told` say what a sequence of one,
two or three events, or the pairs of events of a mint, does.

*TokensPermitOnce* needs one more part, `NonceInv`: what is known of nonces lies
below the registry's, in the present and in every saved pair, and an entrypoint
that executes a signed message and has not yet logged its nonce holds a nonce
below the registry's that is neither known nor held by another one. It is not
enough to look at the frame on top: a hook may bring the next message while the
first one's event is still to come, and either may be rejected.
*TokensAreBacked* needs that amounts do not wrap, which is not a guard of the
code: a balance is at most the sum of all, that is the CCD of the contract,
which is below `Modulus`. The two contracts that do wrap (*Observations*) are in
*TokensTellTheirState*, where the arithmetic of the contract and that of the
events must agree modulo `Modulus`, also for royalties, which cut one transfer
into two events.

`ContractsProofs`. *ContractsKeepFunds*, *TwoStepSetsAside*,
*ContractsRecordsAgree*, *ContractsExecuteOnce*, *ContractsStayDecided*, for any
accounts, contracts, amounts, times, requests and batches of signed messages, and
for calls nested to any depth. `ContractsInv` has an invariant for each contract:

* For a contract that calls nobody it is about the state alone. In the auction
  (`AuctionInv`) the contract has the highest bid until the item is sold and
  nothing afterwards, also when a bidder outbids itself. In two-step-transfer the
  sum over the requests that have not timed out is at most what the account has,
  until one was accepted only because its CCD was counted twice:
  time only takes requests out of the sum, a request is accepted only within what
  is available, and a payment takes as much from both sides. In offchain-transfers,
  until a sum has wrapped in something that was accepted,
  the sheet adds up to the CCD of the contract and no step wraps it, which a step
  that executes several settlements keeps because each of them moves as much as it
  takes and is executed only if the sheet covers it; the proof goes along the
  queue, one settlement after the other, without a guard that all of them are
  covered. In sponsored-tx-enabled-auction each token is backed by the highest
  bids for the items that are not sold.
* Two records that different steps change (`VotingInv`, `FactoryInv`,
  `RegistryInv`, `CounterInv`, `UpgradeInv`) are related at every moment: the
  tally is the cardinality of the set of voters; a product says that a factory
  has made it exactly when that factory lists it; the log tells the state. For the
  registry, what is known of nonces lies below that of the key (`AllSpent`), also
  of keys that are removed: a key that was ever registered cannot be again.
* Where a contract is called in the middle (`SaleInv`, `WalletInv`, `CounterInv`)
  the invariant is about every state that a rejection may restore as well. A
  sale of icecream holds the amounts of the sales under way. For the wallet the
  state, and each saved one with the entrypoints below it (`WalletRight`), is such
  that the balances of the keys add up to what the contract holds; what is known
  of the balances differs from them by the withdrawals that are debited and not yet
  logged; and the nonces of the messages under way are used up, not yet in the
  log, and all different. The last one makes `SignedOnce` hold although the
  nonce's event comes at the end of a message: a receiver that brings the message
  again finds a nonce that has been increased, and if a rejection takes that
  back, it takes the message back, too.

*ContractsStayDecided* is an action property: each step of each contract, from a
state with the invariant, keeps what is decided.

Only model-checked: `Terminates` (liveness under fairness), and the four
properties of the B-tree, which are about walks through the tree that are defined
by recursion. Everything else that a passing run checks is proved for all values
of the constants.

## Findings

**A failed call may leave its changes behind** (`rollback`, which TLC finds
violated). A call pushes a layer and only a failure pops one. If B, called by
A, first makes a call to C that succeeds, and then rejects, the rollback pops
the layer that C worked on; the layer B itself changed remains and A continues
on it. `tests/checkpointing.rs` says that the changes of a failed entrypoint
must be rolled back, also when nested.

**A commit does not write boxes** (`commit`). `commit_state` serializes the root
entry (`impls.rs:2564`); a value that was changed through `StateBox::get_mut` or
`update` reaches the node when the box is dropped. `traits.rs:553` says: "Make
sure the contract state is fully written out, so that any changes that were done
in-memory up to the point in contract execution are reflected in the actual
contract state maintained by the node." A contract that is called back reads the
old value, and if it writes the box, the reload of its caller drops the modified
box over it, or aborts if the entry is gone. What holds nevertheless is
`ViewIsCurrent` and `Consistent` of the run `host`: the flat value is always
current, and only a caller with such a box is aborted.

**The containers can trap** (`trap`). `StateMap::clear` unwraps the deletion of
the map's prefix, and its comment says (`impls.rs:985`): "Unwrapping is safe when
only using the high-level API." `StateMap::iter_mut` locks the prefix, and
`StateMapIterMut` has no `Drop` that releases it (`impls.rs:1091`; `StateMapIter`
has, `1048`). Until the end of the execution `clear`, an insertion of a new key
and `delete` abort, and `remove_and_get` returns the value and leaves the
entry. What holds is `TrapNeedsLeak` of the run `containers`: nothing else makes
the containers trap.

### Observations

Places where the code, as it is modelled, does not do what is written about
it, or what a reader may expect.

In the libraries:

* Fees that are reported and not charged. When the state cannot be paid for,
  and when the invoker has insufficient funds, the result of `contract_update`
  has a transaction fee that no account is charged (`impls.rs:1161`, `1124`;
  `types.rs:1044` says it is the amount charged). `ReportedFeeCharged` of
  `Chain`, as one more invariant of `Chain.cfg`, is violated.
* A signature check with a payload whose length of the data exceeds what follows
  (`invocation/impls.rs:1612`) panics in the test; a payload that cannot be read
  otherwise is answered as malformed.
* `persist` (`invocation/impls.rs:1726`) applies a delta to an account's total,
  while a credit is checked against what is available of it: with more CCD than an
  amount can hold, which a test may give to its accounts, it panics.
* `contract_module_reference` (`invocation/impls.rs:1253`) finds no module for
  a contract that is in the changeset and was not upgraded; its comment says
  that it falls back on persistence.
* `account_balance` (`invocation/impls.rs:1319`) leaves out the stake of an
  account that is in the changeset, and compares the invoker with the queried
  address, so that an alias is answered with a different balance
  (`impls.rs:1412`: "considered aliases on each other in all methods").
* An overflow of an account's balance panics (`invocation/impls.rs:1073`) and
  is not reported as the error that is documented for it (`types.rs:1067`).
* `StateMap::is_empty` and `StateSet::is_empty` (`impls.rs:969`, `1290`) look
  up the prefix itself, where nothing is ever stored, and are always true.
* In the test infrastructure `delete_prefix` (`trie.rs:95`) invalidates the
  handles of the entries below the prefix, and not those of the entry at it.
* `ExternHost::commit_state` truncates the root entry to its own size
  (`impls.rs:2567`), so bytes of a longer, older state stay behind; they are
  never read.

In the contracts (`examples/`):

* two-step-transfer (`src/lib.rs:249`) adds the attached amount to a balance
  that already has it, so that a request with an attached amount may be
  accepted without the funds for it, where the header (`22-25`) says that they are
  set aside. `FundsSetAside` holds until such a request has been accepted; with
  `~ seen` taken out of it, the run `contracts` finds it violated.
* Token amounts wrap (`concordium-cis2`, release build): cis2-multi and
  cis2-multi-royalties mint past the largest amount and start again at zero.
* cis2-multi: a mint by permit does not call the receiving contract, which
  `mint` does, and supportsPermit does not list `mint` and `burn`, which
  permit executes.
* cis2-wccd checks once for a batch whether it is paused; a receiving contract
  that has it paused does not stop the rest of the batch. cis2-multi checks
  for each transfer.
* cis2-dynamic-nft: addMetadata logs a TokenMetadata event for metadata that
  is not the current one, and `upgrade` at the end of the list traps where it
  has an error for that. `LogTellsState` says of this contract that the metadata
  logged last is the token's or one it may be upgraded to.
* nametoken logs nothing when a name expires; whoever follows the events
  learns of it when the name is registered again.
* offchain-transfers: the sums of a settlement wrap (`318-329`, release build), so
  that one that sends nothing and receives 2^63 twice is accepted and makes the
  sheet exceed the CCD, where `344` says that a valid transfer "does not
  generate or delete funds"; likewise the liabilities (`244-254`) of somebody who
  withdraws. `FundsAccounted` holds until that has happened; with `~ seen` taken
  out of it, the run `contracts` finds it violated. The settled balance
  (`521-553`) subtracts what may be larger.
* sponsored-tx-enabled-auction: the counter of items is a `u16`, and item
  65 536 replaces item 0; bids are accepted before an item's start.
* icecream pays back the invoker of the transaction, not the sender, who may
  be a contract that has paid.
* smart-contract-upgrade: the states of both versions have the same layout,
  so that a second migration succeeds and overwrites what the first one has
  migrated; only the admin can bring it about. `MigratedOnRequest` is about
  the first.

## Plan

Done: the handler, the changeset and the chain; the allocator; the state
trie, the containers, the ordered containers and the host of `concordium-std`;
the contracts of `examples/` that keep something. Next:

1. *TestHost*: mocked entrypoints, `with_rollback` and `clone_deep`.
2. An abstract ledger that `Chain` implements, and one for the tokens.
3. *Proofs* about the B-tree, which need its walks without recursion: an order
   on the nodes by the keys between which they lie.

## Not modelled

The Wasm interpreter and the engine's host functions (external crates; the
interpreter's results are inputs). The connection to an external node (network
I/O). Serialisation, contexts and logging (copies of values). The procedural
macros. Account policies, keys and signatures (a check has a cost and any
outcome). The exact energy constants: costs are parameters, and the proofs
hold for all of them.
Of the containers: `clear_flat`, maps in maps, and several items of one
`iter_mut` that are alive at once. Of the trie: `clone_deep`. The read-only
operations of containers (`get`, `contains`) are compared through the
properties. Of the contracts: `upgrade` where it is that of
`ContractUpgrade`, `onReceivingCIS2` of cis2-multi (it passes tokens of another
contract on to the owner and changes nothing of its own), support queries,
schemas and message hashes; and recorder,
memo, proxy, fib, signature-verifier, account-signature-checks,
transfer-policy-check and bump-alloc-tests, which show one call of the library
each. `templates/` are copies.
