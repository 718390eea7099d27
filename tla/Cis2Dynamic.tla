---------------------------- MODULE Cis2Dynamic -----------------------------
(***************************************************************************)
(* examples/cis2-dynamic-nft: a token has a list of metadata, and a        *)
(* counter that says which of them is the current one.                     *)
(***************************************************************************)
EXTENDS Cis2

CONSTANTS
    DynamicBatches,  \* the transfers that are asked for
    Lists,           \* the lists of metadata that tokens are minted with
    token_amount,    \* what a mint adds
    MaxMetadata      \* bound: the length of a list

Init ==
    /\ state = [balances     |-> [q \in Addresses \X TokenIds |-> 0],
                operators    |-> [a \in Addresses |-> {}],
                tokens       |-> [t \in TokenIds |-> None],
                implementors |-> NoImplementors]
    /\ seen = NothingSeen
    /\ calls = <<>>
    /\ ops = 0

contains_token(token_id) == state.tokens[token_id] # None

balance(token_id, address) == state.balances[<<address, token_id>>]

is_operator(address, owner) == address \in state.operators[owner]

\* A mint of a token that exists starts its list again.
contract_mint(sender, owner, token_id, metadata_urls) ==
    /\ Called(sender)
    /\ sender = Owner
    /\ state' = [state EXCEPT !.tokens[token_id] = [counter |-> 0, list |-> metadata_urls],
                              !.balances[<<owner, token_id>>] = add(@, token_amount)]
    /\ log(<<MintEvent(token_id, token_amount, owner),
             TokenMetadataEvent(token_id, Head(metadata_urls))>>)
    /\ UNCHANGED calls

\* The counter is compared with the length before it is raised; past the end,
\* reading the metadata to log aborts the execution, which undoes the step.
contract_upgrade(sender, token_id) ==
    /\ Called(sender)
    /\ sender = Owner
    /\ contains_token(token_id)
    /\ LET token == state.tokens[token_id]
       IN  /\ token.counter < Len(token.list)
           /\ token.counter + 1 < Len(token.list)
           /\ state' = [state EXCEPT !.tokens[token_id].counter = @ + 1]
           /\ log(<<TokenMetadataEvent(token_id, token.list[token.counter + 2])>>)
           /\ UNCHANGED calls

\* The metadata is logged, though it is not the current one.
contract_add_metadata(sender, token_id, metadata) ==
    /\ Called(sender)
    /\ sender = Owner
    /\ contains_token(token_id)
    /\ Len(state.tokens[token_id].list) < MaxMetadata
    /\ state' = [state EXCEPT !.tokens[token_id].list = Append(@, metadata)]
    /\ log(<<TokenMetadataEvent(token_id, metadata)>>)
    /\ UNCHANGED calls

\* What contract_transfer and State::transfer check.
Accepts(sender, t) ==
    /\ t.from = sender \/ is_operator(sender, t.from)
    /\ contains_token(t.token_id)
    /\ t.amount > 0 => balance(t.token_id, t.from) >= t.amount

\* State::transfer.
Moved(t) ==
    [state EXCEPT !.balances = Transferred(@, t.token_id, t.amount, t.from, t.to)]

contract_transfer(sender, batch) ==
    /\ Called(sender)
    /\ StartsBatch(sender, batch, <<>>)
    /\ UNCHANGED <<state, seen>>

contract_update_operator(sender, operator, update) ==
    /\ Called(sender)
    /\ state' = [state EXCEPT !.operators[sender] = Updated(@, operator, update)]
    /\ log(<<UpdateOperatorEvent(sender, operator, update)>>)
    /\ UNCHANGED calls

contract_set_implementor(sender, id, implementors) ==
    /\ Called(sender)
    /\ sender = Owner
    /\ state' = [state EXCEPT !.implementors[id] = implementors]
    /\ UNCHANGED <<seen, calls>>

Next ==
    \/ \E sender \in Addresses :
          \/ \E owner \in Addresses, t \in TokenIds, urls \in Lists :
                contract_mint(sender, owner, t, urls)
          \/ \E t \in TokenIds : contract_upgrade(sender, t)
          \/ \E t \in TokenIds : contract_add_metadata(sender, t, "url3")
          \/ \E batch \in DynamicBatches : contract_transfer(sender, batch)
          \/ \E operator \in Operators, update \in {"add", "remove"} :
                contract_update_operator(sender, operator, update)
          \/ \E imp \in Implementors : contract_set_implementor(sender, imp[1], imp[2])
    \/ NextTransfer(Accepts(Top.sender, Upcoming), Moved(Upcoming), OneEvent(Upcoming))
    \/ HookReturns
    \/ HookRejects

Spec == Init /\ [][Next]_vars

-----------------------------------------------------------------------------
(* The queries *)

contract_balance_of(token_id, address) == balance(token_id, address)

contract_operator_of(address, owner) == is_operator(address, owner)

-----------------------------------------------------------------------------
(* Properties *)

\* The metadata that a token has, and those that it may be upgraded to.
Ahead(token) == {token.list[i] : i \in (token.counter + 1) .. Len(token.list)}

\* Those who follow the events know what the contract answers about balances and
\* operators, also while a receiver is being called and after it rejected.  They
\* need not know a token's metadata, as adding some is logged like an upgrade: what
\* they heard last is what the token has, or may be upgraded to, and never what it
\* had before.  The counter stays within the list: reading the token's metadata,
\* which every check that the token exists does, never aborts.
LogTellsState ==
    /\ TellsBalances({t \in TokenIds : contains_token(t)}, contract_balance_of)
    /\ TellsOperators(contract_operator_of)
    /\ \A t \in TokenIds :
          contains_token(t) =>
            /\ state.tokens[t].counter < Len(state.tokens[t].list)
            /\ seen.metadata[t] \in Ahead(state.tokens[t])

=============================================================================
