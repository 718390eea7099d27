--------------------------- MODULE Cis2Royalties ----------------------------
(***************************************************************************)
(* examples/cis2-multi-royalties: of each amount transferred, a percentage *)
(* goes to the one for whom the token was minted last.                     *)
(***************************************************************************)
EXTENDS Cis2

CONSTANTS
    RoyaltyBatches,  \* the transfers that are asked for
    MintAmounts,     \* the amounts that are minted
    Percentages      \* the royalties that are asked for

\* pay_royalty is chosen once.
Init ==
    /\ \E pay_royalty \in BOOLEAN :
          state = [balances      |-> [q \in Addresses \X TokenIds |-> 0],
                   operators     |-> [a \in Addresses |-> {}],
                   tokens        |-> {},
                   token_details |-> [t \in TokenIds |-> None],
                   implementors  |-> NoImplementors,
                   pay_royalty   |-> pay_royalty]
    /\ seen = NothingSeen
    /\ calls = <<>>
    /\ ops = 0

contains_token(token_id) == token_id \in state.tokens

balance(token_id, address) == state.balances[<<address, token_id>>]

is_operator(address, owner) == address \in state.operators[owner]

contract_mint(sender, owner, token_id, amount, royalty) ==
    /\ Called(sender)
    /\ sender = Owner
    /\ royalty <= 100
    /\ state' = [state EXCEPT !.tokens = @ \cup {token_id},
                              !.token_details[token_id] = [minter |-> owner, royalty |-> royalty],
                              !.balances[<<owner, token_id>>] = add(@, amount)]
    /\ log(<<MintEvent(token_id, amount, owner), TokenMetadataEvent(token_id, token_id)>>)
    /\ UNCHANGED calls

\* calculate_royalty_payments: what the minter gets of a sale; the product must
\* not overflow.
Product(t) == t.amount * state.token_details[t.token_id].royalty

royalty_receiver(t) == state.token_details[t.token_id].minter

payment(t) == IF state.pay_royalty THEN Product(t) \div 100 ELSE 0

\* What contract_transfer, calculate_royalty_payments and State::transfer check.
Accepts(sender, t) ==
    /\ t.from = sender \/ is_operator(sender, t.from)
    /\ contains_token(t.token_id)
    /\ state.pay_royalty => Product(t) < Modulus
    /\ t.amount > 0 => balance(t.token_id, t.from) >= t.amount

\* State::transfer.  The three addresses may be the same.
Moved(t) ==
    LET debited  == [state.balances EXCEPT ![<<t.from, t.token_id>>] = sub(@, t.amount)]
        minter   == [debited EXCEPT ![<<royalty_receiver(t), t.token_id>>] = add(@, payment(t))]
    IN  [state EXCEPT !.balances =
            [minter EXCEPT ![<<t.to, t.token_id>>] = add(@, sub(t.amount, payment(t)))]]

\* The minter's share is logged as a transfer of its own.
Events(t) ==
    (IF state.pay_royalty
     THEN <<TransferEvent([t EXCEPT !.amount = payment(t), !.to = royalty_receiver(t)])>>
     ELSE <<>>)
      \o <<TransferEvent([t EXCEPT !.amount = sub(t.amount, payment(t))])>>

contract_transfer(sender, batch) ==
    /\ Called(sender)
    /\ StartsBatch(sender, batch, <<>>)
    /\ UNCHANGED <<state, seen>>

contract_update_operator(sender, operator, update) ==
    /\ Called(sender)
    /\ state' = [state EXCEPT !.operators[sender] = Updated(@, operator, update)]
    /\ log(<<UpdateOperatorEvent(sender, operator, update)>>)
    /\ UNCHANGED calls

contract_set_implementor(sender, id, implementors) ==
    /\ Called(sender)
    /\ sender = Owner
    /\ state' = [state EXCEPT !.implementors[id] = implementors]
    /\ UNCHANGED <<seen, calls>>

Next ==
    \/ \E sender \in Addresses :
          \/ \E owner \in Addresses, t \in TokenIds, amount \in MintAmounts, r \in Percentages :
                contract_mint(sender, owner, t, amount, r)
          \/ \E batch \in RoyaltyBatches : contract_transfer(sender, batch)
          \/ \E operator \in Operators, update \in {"add", "remove"} :
                contract_update_operator(sender, operator, update)
          \/ \E imp \in Implementors : contract_set_implementor(sender, imp[1], imp[2])
    \/ NextTransfer(Accepts(Top.sender, Upcoming), Moved(Upcoming), Events(Upcoming))
    \/ HookReturns
    \/ HookRejects

Spec == Init /\ [][Next]_vars

-----------------------------------------------------------------------------
(* The queries *)

contract_balance_of(token_id, address) == balance(token_id, address)

contract_operator_of(address, owner) == is_operator(address, owner)

contract_token_metadata(token_id) == IF contains_token(token_id) THEN token_id ELSE None

\* Those who follow the events know what the contract answers, also while a
\* receiver is being called and after it rejected.
LogTellsState ==
    /\ TellsBalances(state.tokens, contract_balance_of)
    /\ TellsOperators(contract_operator_of)
    /\ \A t \in TokenIds : contract_token_metadata(t) = seen.metadata[t]

=============================================================================
