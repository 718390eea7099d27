------------------------------ MODULE Cis2Wccd ------------------------------
(***************************************************************************)
(* examples/cis2-wccd: CCD that is wrapped as a token.                     *)
(***************************************************************************)
EXTENDS Cis2, FiniteSetsExt

CONSTANTS
    WccdBatches,  \* the transfers that are asked for
    Amounts,      \* positive amounts that are wrapped and unwrapped
    MaxCcd        \* bound: the CCD that there is

TOKEN_ID_WCCD == "wCCD"

Init ==
    /\ state = [balances     |-> [a \in Addresses |-> 0],
                operators    |-> [a \in Addresses |-> {}],
                admin        |-> Owner,
                paused       |-> FALSE,
                metadata_url |-> "url1",
                implementors |-> NoImplementors,
                self_balance |-> 0]   \* the CCD of the contract, kept by the chain
    /\ seen = Told(NothingSeen, <<MintEvent(TOKEN_ID_WCCD, 0, Owner),
                                  TokenMetadataEvent(TOKEN_ID_WCCD, "url1"),
                                  NewAdminEvent(Owner)>>)
    /\ calls = <<>>
    /\ ops = 0

balance(token_id, address) == state.balances[address]

is_operator(address, owner) == address \in state.operators[owner]

\* Mutant: the receiver is logged as the one minted for, and the transfer too.
WrapEvents_receiver(sender, to, amount) ==
    <<MintEvent(TOKEN_ID_WCCD, amount, to)>>
      \o IF sender = to THEN <<>>
         ELSE <<TransferEvent([token_id |-> TOKEN_ID_WCCD, amount |-> amount,
                               from |-> sender, to |-> to])>>

\* The sender is said to have minted and, if it is not the receiver, to have
\* transferred.
WrapEvents(sender, to, amount) ==
    <<MintEvent(TOKEN_ID_WCCD, amount, sender)>>
      \o IF sender = to THEN <<>>
         ELSE <<TransferEvent([token_id |-> TOKEN_ID_WCCD, amount |-> amount,
                               from |-> sender, to |-> to])>>

\* The CCD is sent along and belongs to the contract before the entrypoint runs.
contract_wrap(sender, to, amount) ==
    /\ Called(sender)
    /\ ~ state.paused
    /\ state.self_balance + amount <= MaxCcd
    /\ state' = [state EXCEPT !.balances[to] = add(@, amount), !.self_balance = @ + amount]
    /\ log(WrapEvents(sender, to, amount))
    /\ IF sender = to THEN UNCHANGED calls ELSE EndsCalling(sender, to)

\* Mutant: the balance is checked and stays.
Burnt_kept(amount, owner) == state

Burnt(amount, owner) == [state EXCEPT !.balances[owner] = sub(@, amount)]

\* The tokens are burnt before the CCD leaves; it goes to an account, or to a
\* contract that is called with it.
contract_unwrap(sender, owner, receiver, amount) ==
    /\ Called(sender)
    /\ ~ state.paused
    /\ sender = owner \/ is_operator(sender, owner)
    /\ state.balances[owner] >= amount
    /\ state.self_balance >= amount
    /\ state' = [Burnt(amount, owner) EXCEPT !.self_balance = @ - amount]
    /\ log(<<BurnEvent(TOKEN_ID_WCCD, amount, owner)>>)
    /\ EndsCalling(sender, receiver)

contract_update_admin(sender, new_admin) ==
    /\ Called(sender)
    /\ sender = state.admin
    /\ state' = [state EXCEPT !.admin = new_admin]
    /\ log(<<NewAdminEvent(new_admin)>>)
    /\ UNCHANGED calls

contract_set_paused(sender, paused) ==
    /\ Called(sender)
    /\ sender = state.admin
    /\ state' = [state EXCEPT !.paused = paused]
    /\ UNCHANGED <<seen, calls>>

contract_state_set_metadata_url(sender, url) ==
    /\ Called(sender)
    /\ sender = state.admin
    /\ state' = [state EXCEPT !.metadata_url = url]
    /\ log(<<TokenMetadataEvent(TOKEN_ID_WCCD, url)>>)
    /\ UNCHANGED calls

\* The pause is looked at once, before the first transfer of a batch ...
contract_transfer(sender, batch) ==
    /\ Called(sender)
    /\ ~ state.paused
    /\ StartsBatch(sender, batch, <<>>)
    /\ UNCHANGED <<state, seen>>

\* ... and the rest for each transfer.
Accepts(sender, t) ==
    /\ t.from = sender \/ is_operator(sender, t.from)
    /\ t.token_id = TOKEN_ID_WCCD
    /\ t.amount > 0 => balance(t.token_id, t.from) >= t.amount

\* State::transfer.
Moved(t) ==
    LET debited == [state.balances EXCEPT ![t.from] = sub(@, t.amount)]
    IN  [state EXCEPT !.balances = [debited EXCEPT ![t.to] = add(@, t.amount)]]

contract_update_operator(sender, operator, update) ==
    /\ Called(sender)
    /\ ~ state.paused
    /\ state' = [state EXCEPT !.operators[sender] = Updated(@, operator, update)]
    /\ log(<<UpdateOperatorEvent(sender, operator, update)>>)
    /\ UNCHANGED calls

contract_set_implementor(sender, id, implementors) ==
    /\ Called(sender)
    /\ sender = state.admin
    /\ state' = [state EXCEPT !.implementors[id] = implementors]
    /\ UNCHANGED <<seen, calls>>

Next ==
    \/ \E sender \in Addresses :
          \/ \E to \in Addresses, amount \in Amounts : contract_wrap(sender, to, amount)
          \/ \E owner, receiver \in Addresses, amount \in Amounts :
                contract_unwrap(sender, owner, receiver, amount)
          \/ \E new_admin \in Addresses : contract_update_admin(sender, new_admin)
          \/ \E paused \in BOOLEAN : contract_set_paused(sender, paused)
          \/ contract_state_set_metadata_url(sender, "url2")
          \/ \E batch \in WccdBatches : contract_transfer(sender, batch)
          \/ \E operator \in Operators, update \in {"add", "remove"} :
                contract_update_operator(sender, operator, update)
          \/ \E imp \in Implementors : contract_set_implementor(sender, imp[1], imp[2])
    \/ NextTransfer(Accepts(Top.sender, Upcoming), Moved(Upcoming), OneEvent(Upcoming))
    \/ HookReturns
    \/ HookRejects

Spec == Init /\ [][Next]_vars

-----------------------------------------------------------------------------
(* The queries *)

contract_balance_of(token_id, address) == balance(token_id, address)

contract_operator_of(address, owner) == is_operator(address, owner)

contract_token_metadata(token_id) == state.metadata_url

\* The admin in the answer of `view'.
contract_view == state.admin

-----------------------------------------------------------------------------
(* Properties *)

\* Those who follow the events know what the contract answers, also while a
\* receiver is being called and after it rejected.
LogTellsState ==
    /\ TellsBalances(TokenIds, contract_balance_of)
    /\ TellsOperators(contract_operator_of)
    /\ \A t \in TokenIds : contract_token_metadata(t) = seen.metadata[t]
    /\ contract_view = seen.admin

\* Every wrapped token is backed by CCD of the contract, and all its CCD is
\* claimed by somebody's tokens, whenever another contract runs.
Backed == state.self_balance = MapThenSumSet(LAMBDA a : state.balances[a], Addresses)

=============================================================================
