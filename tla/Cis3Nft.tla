------------------------------ MODULE Cis3Nft -------------------------------
(***************************************************************************)
(* examples/cis3-nft-sponsored-txs: tokens that exist once, which anybody  *)
(* mints, with messages signed by an account that anybody may bring.       *)
(***************************************************************************)
EXTENDS Cis2

CONSTANTS
    Cis3Batches,  \* the transfers that are asked for
    Cis3Permits,  \* the messages that have been signed
    MaxTokenId    \* u32::MAX

\* State and AddressState; an address without an entry has nothing, and an
\* account without a nonce has 0.
Init ==
    /\ state = [token_id_counter |-> 0,
                owned_tokens     |-> [a \in Addresses |-> {}],
                operators        |-> [a \in Addresses |-> {}],
                all_tokens       |-> {},
                implementors     |-> NoImplementors,
                nonces_registry  |-> [a \in Accounts |-> 0]]
    /\ seen = NothingSeen
    /\ calls = <<>>
    /\ ops = 0

contains_token(token_id) == token_id \in state.all_tokens

balance(token_id, address) == IF token_id \in state.owned_tokens[address] THEN 1 ELSE 0

is_operator(address, owner) == address \in state.operators[owner]

\* Anybody mints the token that the counter has reached; the last number is
\* refused, and so is a token that exists.
contract_mint(sender, owner) ==
    LET token_id == state.token_id_counter + 1
    IN  /\ Called(sender)
        /\ token_id # MaxTokenId
        /\ ~ contains_token(token_id)
        /\ state' = [state EXCEPT !.token_id_counter = token_id,
                                  !.all_tokens = @ \cup {token_id},
                                  !.owned_tokens[owner] = @ \cup {token_id}]
        /\ log(<<MintEvent(token_id, 1, owner), TokenMetadataEvent(token_id, "url")>>)
        /\ UNCHANGED calls

\* What contract_transfer or contract_permit, and State::transfer, check.
Accepts(by, t) ==
    /\ t.from = by \/ is_operator(by, t.from)
    /\ contains_token(t.token_id)
    /\ t.amount \in {0, 1}
    /\ t.amount = 1 => balance(t.token_id, t.from) = 1

\* Mutant: inserted first, removed then, so that a transfer to oneself loses it.
Moved_inserts_first(t) ==
    IF t.amount = 0 THEN state
    ELSE [state EXCEPT !.owned_tokens =
            [[@ EXCEPT ![t.to] = @ \cup {t.token_id}] EXCEPT ![t.from] = @ \ {t.token_id}]]

\* State::transfer: removed first, inserted then.
Moved(t) ==
    IF t.amount = 0 THEN state
    ELSE [state EXCEPT !.owned_tokens = HandedOver(@, t.token_id, t.from, t.to)]

contract_transfer(sender, batch) ==
    /\ Called(sender)
    /\ StartsBatch(sender, batch, <<>>)
    /\ UNCHANGED <<state, seen>>

\* update_operator.
OperatorUpdated(s, owner, operator, update) ==
    [s EXCEPT !.operators[owner] = Updated(@, operator, update)]

contract_update_operator(sender, operator, update) ==
    /\ Called(sender)
    /\ state' = OperatorUpdated(state, sender, operator, update)
    /\ log(<<UpdateOperatorEvent(sender, operator, update)>>)
    /\ UNCHANGED calls

\* permit: a message p for this contract that its signer has signed and whose
\* time is not over.  The nonce is counted before anything else is done.
contract_permit(sender, p) ==
    /\ Called(sender)
    /\ p.nonce = state.nonces_registry[p.signer]
    /\ LET s     == [state EXCEPT !.nonces_registry[p.signer] = @ + 1]
           nonce == <<NonceEvent(p.signer, p.nonce)>>
       IN  \/ /\ p.entry_point = "transfer"
              /\ state' = s
              /\ StartsBatch(p.signer, p.batch, nonce)
              /\ UNCHANGED seen
           \/ /\ p.entry_point = "updateOperator"
              /\ state' = OperatorUpdated(s, p.signer, p.operator, p.update)
              /\ log(<<UpdateOperatorEvent(p.signer, p.operator, p.update)>> \o nonce)
              /\ UNCHANGED calls

contract_set_implementor(sender, id, implementors) ==
    /\ Called(sender)
    /\ sender = Owner
    /\ state' = [state EXCEPT !.implementors[id] = implementors]
    /\ UNCHANGED <<seen, calls>>

Next ==
    \/ \E sender \in Addresses :
          \/ \E owner \in Addresses : contract_mint(sender, owner)
          \/ \E batch \in Cis3Batches : contract_transfer(sender, batch)
          \/ \E operator \in Operators, update \in {"add", "remove"} :
                contract_update_operator(sender, operator, update)
          \/ \E p \in Cis3Permits : contract_permit(sender, p)
          \/ \E imp \in Implementors : contract_set_implementor(sender, imp[1], imp[2])
    \/ NextTransfer(Accepts(Top.sender, Upcoming), Moved(Upcoming), OneEvent(Upcoming))
    \/ HookReturns
    \/ HookRejects

Spec == Init /\ [][Next]_vars

-----------------------------------------------------------------------------
(* The queries *)

contract_balance_of(token_id, address) ==
    IF contains_token(token_id) THEN balance(token_id, address) ELSE None

contract_operator_of(address, owner) == is_operator(address, owner)

contract_token_metadata(token_id) == IF contains_token(token_id) THEN "url" ELSE None

contract_nonce_of(account) == state.nonces_registry[account]

-----------------------------------------------------------------------------
(* Properties *)

\* Those who follow the events know what the contract answers, also while a
\* receiver is being called and after it rejected.
LogTellsState ==
    /\ TellsBalances(state.all_tokens, contract_balance_of)
    /\ TellsOperators(contract_operator_of)
    /\ \A t \in TokenIds : contract_token_metadata(t) = seen.metadata[t]

\* The tokens are the numbers up to the counter, each with exactly one owner, so
\* that the next mint is not of a token that exists.
OneOwner ==
    /\ state.all_tokens = 1 .. state.token_id_counter
    /\ \A t \in state.all_tokens :
          Cardinality({a \in Addresses : t \in state.owned_tokens[a]}) = 1

\* A signed message is executed at most once, also when the receiver of its
\* transfer brings it again before it is done; and nonceOf is the next nonce
\* that nobody has used.
PermitsOnce ==
    /\ ~ seen.replayed
    /\ \A q \in seen.nonces : q[2] < contract_nonce_of(q[1])

=============================================================================
