------------------------------ MODULE Cis2Nft -------------------------------
(***************************************************************************)
(* examples/cis2-nft: each token exists once.                              *)
(***************************************************************************)
EXTENDS Cis2, SequencesExt

CONSTANT NftBatches  \* the transfers that are asked for

\* State and AddressState; an address without an entry has nothing.
Init ==
    /\ state = [owned_tokens |-> [a \in Addresses |-> {}],
                operators    |-> [a \in Addresses |-> {}],
                all_tokens   |-> {},
                implementors |-> NoImplementors]
    /\ seen = NothingSeen
    /\ calls = <<>>
    /\ ops = 0

contains_token(token_id) == token_id \in state.all_tokens

balance(token_id, address) == IF token_id \in state.owned_tokens[address] THEN 1 ELSE 0

is_operator(address, owner) == address \in state.operators[owner]

\* Each token is logged as minted, and then its metadata.
MintEvents(tokens, owner) ==
    [i \in 1 .. (2 * Len(tokens)) |->
        LET t == tokens[(i + 1) \div 2]
        IN  IF i % 2 = 1 THEN MintEvent(t, 1, owner) ELSE TokenMetadataEvent(t, t)]

\* mint by the owner of the contract, of tokens that do not exist.
contract_mint(sender, owner, tokens) ==
    /\ Called(sender)
    /\ sender = Owner
    /\ \A t \in tokens : ~ contains_token(t)
    /\ state' = [state EXCEPT !.all_tokens = @ \cup tokens,
                              !.owned_tokens[owner] = @ \cup tokens]
    /\ log(MintEvents(SetToSeq(tokens), owner))
    /\ UNCHANGED calls

\* What contract_transfer and State::transfer check for one transfer.
Accepts(sender, t) ==
    /\ t.from = sender \/ is_operator(sender, t.from)
    /\ contains_token(t.token_id)
    /\ t.amount \in {0, 1}
    /\ t.amount = 1 => balance(t.token_id, t.from) = 1

\* State::transfer: removed first, inserted then.
Moved(t) ==
    IF t.amount = 0 THEN state
    ELSE [state EXCEPT !.owned_tokens = HandedOver(@, t.token_id, t.from, t.to)]

contract_transfer(sender, batch) ==
    /\ Called(sender)
    /\ StartsBatch(sender, batch, <<>>)
    /\ UNCHANGED <<state, seen>>

contract_update_operator(sender, operator, update) ==
    /\ Called(sender)
    /\ state' = [state EXCEPT !.operators[sender] = Updated(@, operator, update)]
    /\ log(<<UpdateOperatorEvent(sender, operator, update)>>)
    /\ UNCHANGED calls

contract_set_implementor(sender, id, implementors) ==
    /\ Called(sender)
    /\ sender = Owner
    /\ state' = [state EXCEPT !.implementors[id] = implementors]
    /\ UNCHANGED <<seen, calls>>

Next ==
    \/ \E sender \in Addresses :
          \/ \E owner \in Addresses, tokens \in SUBSET TokenIds \ {{}} :
                contract_mint(sender, owner, tokens)
          \/ \E batch \in NftBatches : contract_transfer(sender, batch)
          \/ \E operator \in Operators, update \in {"add", "remove"} :
                contract_update_operator(sender, operator, update)
          \/ \E imp \in Implementors : contract_set_implementor(sender, imp[1], imp[2])
    \/ NextTransfer(Accepts(Top.sender, Upcoming), Moved(Upcoming), OneEvent(Upcoming))
    \/ HookReturns
    \/ HookRejects

Spec == Init /\ [][Next]_vars

-----------------------------------------------------------------------------
(* The queries *)

contract_balance_of(token_id, address) ==
    IF contains_token(token_id) THEN balance(token_id, address) ELSE None

contract_operator_of(address, owner) == is_operator(address, owner)

\* The url is a text made from the token id.
contract_token_metadata(token_id) == IF contains_token(token_id) THEN token_id ELSE None

\* Those who follow the events know what the contract answers, also while a
\* receiver is being called and after it rejected.
LogTellsState ==
    /\ TellsBalances(state.all_tokens, contract_balance_of)
    /\ TellsOperators(contract_operator_of)
    /\ \A t \in TokenIds : contract_token_metadata(t) = seen.metadata[t]

\* A token that was minted has exactly one owner, at every moment at which
\* somebody else can look.
OneOwner ==
    \A t \in TokenIds :
        Cardinality({a \in Addresses : t \in state.owned_tokens[a]})
          = IF contains_token(t) THEN 1 ELSE 0

=============================================================================
