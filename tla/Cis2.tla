-------------------------------- MODULE Cis2 --------------------------------
(***************************************************************************)
(* What the CIS-2 token contracts of examples/ have in common: token       *)
(* amounts and events of concordium-cis2, and how a batch of transfers is  *)
(* made, which calls the contracts that receive tokens.                    *)
(***************************************************************************)
EXTENDS Entrypoints, Folds

CONSTANTS
    TokenIds,
    Operators,     \* the addresses that are made operators
    Implementors,  \* pairs of a standard and the contracts said to implement it
    Modulus        \* 2^64 for TokenAmountU64: token amounts are below it

-----------------------------------------------------------------------------
(* Token amounts are machine integers, which wrap in the release build *)

add(a, b) == (a + b) % Modulus
sub(a, b) == (a - b) % Modulus

\* State::transfer of an amount of a token, and of a token that exists once: the
\* receiver's is read after the sender's has been written; they may be the same.
Transferred(balances, token_id, amount, from, to) ==
    [[balances EXCEPT ![<<from, token_id>>] = sub(@, amount)]
       EXCEPT ![<<to, token_id>>] = add(@, amount)]
HandedOver(owned, token_id, from, to) ==
    [[owned EXCEPT ![from] = @ \ {token_id}] EXCEPT ![to] = @ \cup {token_id}]

-----------------------------------------------------------------------------
(* Events *)

MintEvent(t, amount, owner) ==
    [event |-> "mint", token_id |-> t, amount |-> amount, owner |-> owner]
BurnEvent(t, amount, owner) ==
    [event |-> "burn", token_id |-> t, amount |-> amount, owner |-> owner]
TransferEvent(t) ==
    [event |-> "transfer", token_id |-> t.token_id, amount |-> t.amount,
     from |-> t.from, to |-> t.to]
OneEvent(t) == <<TransferEvent(t)>>
UpdateOperatorEvent(owner, operator, update) ==
    [event |-> "operator", owner |-> owner, operator |-> operator, update |-> update]
TokenMetadataEvent(t, url) ==
    [event |-> "metadata", token_id |-> t, metadata_url |-> url]

NewAdminEvent(admin) == [event |-> "admin", admin |-> admin]

\* The event of CIS-3, for a signed message that was executed.
NonceEvent(account, nonce) == [event |-> "nonce", account |-> account, nonce |-> nonce]

NothingSeen ==
    [balances  |-> [q \in Addresses \X TokenIds |-> 0],
     operators |-> {},
     metadata  |-> [t \in TokenIds |-> None],
     admin     |-> None,
     roles     |-> {},
     blacklist |-> {},
     nonces    |-> {},       \* the nonces of signed messages, with their signers
     replayed  |-> FALSE]    \* one of them came twice

\* What an OperatorUpdate does to a set.
Updated(set, element, update) == IF update = "add" THEN set \cup {element} ELSE set \ {element}

\* What an event says to those who follow them.
Heard(s, e) ==
    CASE e.event = "mint" -> [s EXCEPT !.balances[<<e.owner, e.token_id>>] = add(@, e.amount)]
      [] e.event = "burn" -> [s EXCEPT !.balances[<<e.owner, e.token_id>>] = sub(@, e.amount)]
      [] e.event = "transfer" ->
           [s EXCEPT !.balances = Transferred(@, e.token_id, e.amount, e.from, e.to)]
      [] e.event = "operator" ->
           [s EXCEPT !.operators = Updated(@, <<e.owner, e.operator>>, e.update)]
      [] e.event = "metadata" -> [s EXCEPT !.metadata[e.token_id] = e.metadata_url]
      [] e.event = "role" -> [s EXCEPT !.roles = Updated(@, <<e.address, e.role>>, e.update)]
      [] e.event = "blacklist" -> [s EXCEPT !.blacklist = Updated(@, e.address, e.update)]
      [] e.event = "admin" -> [s EXCEPT !.admin = e.admin]
      [] e.event = "nonce" ->
           [s EXCEPT !.nonces = @ \cup {<<e.account, e.nonce>>},
                     !.replayed = @ \/ <<e.account, e.nonce>> \in s.nonces]

\* What is known after a sequence of events.
Told(s, events) ==
    MapThenFoldSet(LAMBDA e, known : Heard(known, e), s, LAMBDA i : events[i], Latest,
                   DOMAIN events)

log(events) == seen' = Told(seen, events)

\* The events have told what the contract answers to balanceOf for the tokens
\* that exist, and to operatorOf.
TellsBalances(tokens, balance(_, _)) ==
    \A t \in tokens, a \in Addresses : balance(t, a) = seen.balances[<<a, t>>]
TellsOperators(is_operator(_, _)) ==
    \A a, o \in Addresses : is_operator(a, o) <=> <<o, a>> \in seen.operators

NoImplementors == [i \in {imp[1] : imp \in Implementors} |-> {}]

-----------------------------------------------------------------------------
(* Calls *)

\* The entrypoint under way, with the contract it is calling, the transfers
\* that it goes on with and the events that it logs at its end.
Frame(sender, rest, hook, last) ==
    [sender |-> sender, rest |-> rest, hook |-> hook, last |-> last, saved |-> Saved]

\* Receiver::Contract is called, Receiver::Account is not.
HookOf(address) == IF address \in Contracts THEN address ELSE None

\* An entrypoint that ends by calling a receiver, if that is a contract.
EndsCalling(sender, receiver) ==
    calls' = IF receiver \in Contracts THEN Append(calls, Frame(sender, <<>>, receiver, <<>>))
             ELSE calls

StartsBatch(sender, batch, last) == calls' = Append(calls, Frame(sender, batch, None, last))

\* The next transfer of a batch: whether the contract accepts it from the sender
\* of the batch, the state after it, and what it logs.
Upcoming == Head(Top.rest)

NextTransfer(accepted, moved, events) ==
    /\ calls # <<>> /\ Top.hook = None
    /\ LET t    == Upcoming
           rest == Tail(Top.rest)
           ends == rest = <<>> /\ t.to \notin Contracts
       IN  \/ /\ accepted
              /\ state' = moved
              /\ log(events \o IF ends THEN Top.last ELSE <<>>)
              /\ calls' = IF ends THEN Waiting(calls)
                          ELSE Append(Waiting(calls),
                                      [Top EXCEPT !.rest = rest, !.hook = HookOf(t.to)])
           \/ ~ accepted /\ Rejects
    /\ UNCHANGED ops

\* The contract that was called returns, and the entrypoint goes on or ends.
HookReturns ==
    /\ calls # <<>> /\ Top.hook # None
    /\ \/ Top.rest = <<>> /\ calls' = Waiting(calls) /\ log(Top.last)
       \/ /\ Top.rest # <<>>
          /\ calls' = Append(Waiting(calls), [Top EXCEPT !.hook = None])
          /\ UNCHANGED seen
    /\ UNCHANGED <<state, ops>>

=============================================================================
