----------------------------- MODULE Cis2Multi ------------------------------
(***************************************************************************)
(* examples/cis2-multi: fungible tokens that anybody mints, with roles, a  *)
(* blacklist, a pause, and messages signed by an account that anybody may  *)
(* bring (CIS-3).  An account has several addresses, its aliases: balances *)
(* belong to addresses, the blacklist has the canonical one.               *)
(***************************************************************************)
EXTENDS Cis2

CONSTANTS
    canonical,     \* the canonical address of every account
    MultiBatches,  \* the transfers that are asked for
    Permits,       \* the messages that have been signed
    Grants,        \* the pairs of an address and a role that are granted
    mint_airdrop,  \* what a mint adds
    BurnAmounts,   \* positive amounts that are burnt
    MaxMints       \* bound: mints

\* GrantRole and RevokeRole, UpdateBlacklist.
RoleEvent(address, role, update) ==
    [event |-> "role", address |-> address, role |-> role, update |-> update]
UpdateBlacklistEvent(address, update) ==
    [event |-> "blacklist", address |-> address, update |-> update]

Init ==
    /\ state = [balances        |-> [q \in Addresses \X TokenIds |-> 0],
                operators       |-> [a \in Addresses |-> {}],
                tokens          |-> [t \in TokenIds |-> None],
                nonces_registry |-> [a \in Accounts |-> 0],
                blacklist       |-> {},
                paused          |-> FALSE,
                roles           |-> {<<Owner, "ADMIN">>},
                implementors    |-> NoImplementors,
                mints           |-> 0]   \* for the bound
    /\ seen = Heard(NothingSeen, RoleEvent(Owner, "ADMIN", "add"))
    /\ calls = <<>>
    /\ ops = 0

contains_token(token_id) == state.tokens[token_id] # None

balance(token_id, address) == state.balances[<<address, token_id>>]

is_operator(address, owner) == address \in state.operators[owner]

has_role(address, role) == <<address, role>> \in state.roles

get_canonical_address(address) ==
    IF address \in Accounts THEN canonical[address] ELSE address

Blacklisted(address) == get_canonical_address(address) \in state.blacklist

\* mint: the first url of a token stays.  s is the state to start from.
CanMint(to) == ~ Blacklisted(to) /\ ~ state.paused /\ state.mints < MaxMints

UrlAfter(t, url) == IF contains_token(t) THEN state.tokens[t] ELSE url

Minted(s, t, url, to) ==
    [s EXCEPT !.tokens[t] = UrlAfter(t, url),
              !.balances[<<to, t>>] = add(@, mint_airdrop),
              !.mints = @ + 1]

MintEvents(t, url, to) ==
    <<MintEvent(t, mint_airdrop, to), TokenMetadataEvent(t, UrlAfter(t, url))>>

contract_mint(sender, t, url, to) ==
    /\ Called(sender)
    /\ CanMint(to)
    /\ state' = Minted(state, t, url, to)
    /\ log(MintEvents(t, url, to))
    /\ EndsCalling(sender, to)

\* burn.
CanBurn(by, t, amount, owner) ==
    /\ owner = by \/ is_operator(by, owner)
    /\ ~ state.paused
    /\ ~ Blacklisted(owner)
    /\ contains_token(t)
    /\ balance(t, owner) >= amount

Burnt(s, t, amount, owner) == [s EXCEPT !.balances[<<owner, t>>] = sub(@, amount)]

contract_burn(sender, t, amount, owner) ==
    /\ Called(sender)
    /\ CanBurn(sender, t, amount, owner)
    /\ state' = Burnt(state, t, amount, owner)
    /\ log(<<BurnEvent(t, amount, owner)>>)
    /\ UNCHANGED calls

\* Mutant: the receiver's and the pause are checked, the blacklisted owner not.
Accepts_blacklisted_owner(by, t) ==
    /\ t.from = by \/ is_operator(by, t.from)
    /\ ~ Blacklisted(t.to)
    /\ ~ state.paused
    /\ contains_token(t.token_id)
    /\ t.amount > 0 => balance(t.token_id, t.from) >= t.amount

\* The checks of contract_transfer or contract_permit, transfer and
\* State::transfer for one transfer, made when its turn comes.
Accepts(by, t) ==
    /\ t.from = by \/ is_operator(by, t.from)
    /\ ~ Blacklisted(t.to)
    /\ ~ Blacklisted(t.from)
    /\ ~ state.paused
    /\ contains_token(t.token_id)
    /\ t.amount > 0 => balance(t.token_id, t.from) >= t.amount

\* State::transfer.
Moved(t) ==
    [state EXCEPT !.balances = Transferred(@, t.token_id, t.amount, t.from, t.to)]

contract_transfer(sender, batch) ==
    /\ Called(sender)
    /\ StartsBatch(sender, batch, <<>>)
    /\ UNCHANGED <<state, seen>>

\* update_operator.
OperatorUpdated(s, owner, operator, update) ==
    [s EXCEPT !.operators[owner] = Updated(@, operator, update)]

contract_update_operator(sender, operator, update) ==
    /\ Called(sender)
    /\ ~ state.paused
    /\ state' = OperatorUpdated(state, sender, operator, update)
    /\ log(<<UpdateOperatorEvent(sender, operator, update)>>)
    /\ UNCHANGED calls

\* Mutant: the nonce is compared and not counted.
NonceTaken_uncounted(signer) == state

\* The nonce is counted before the message is executed.
NonceTaken(signer) == [state EXCEPT !.nonces_registry[signer] = @ + 1]

\* permit: a message p that its signer has signed, brought by anybody; its time
\* is not over.  A mint does not call the receiver here.
contract_permit(sender, p) ==
    /\ Called(sender)
    /\ p.nonce = state.nonces_registry[p.signer]
    /\ LET s     == NonceTaken(p.signer)
           nonce == <<NonceEvent(p.signer, p.nonce)>>
       IN  \/ /\ p.entry_point = "transfer"
              /\ state' = s
              /\ StartsBatch(p.signer, p.batch, nonce)
              /\ UNCHANGED seen
           \/ /\ p.entry_point = "updateOperator"
              /\ ~ state.paused
              /\ state' = OperatorUpdated(s, p.signer, p.operator, p.update)
              /\ log(<<UpdateOperatorEvent(p.signer, p.operator, p.update)>> \o nonce)
              /\ UNCHANGED calls
           \/ /\ p.entry_point = "mint"
              /\ CanMint(p.to)
              /\ state' = Minted(s, p.token_id, p.url, p.to)
              /\ log(MintEvents(p.token_id, p.url, p.to) \o nonce)
              /\ UNCHANGED calls
           \/ /\ p.entry_point = "burn"
              /\ CanBurn(p.signer, p.token_id, p.amount, p.owner)
              /\ state' = Burnt(s, p.token_id, p.amount, p.owner)
              /\ log(<<BurnEvent(p.token_id, p.amount, p.owner)>> \o nonce)
              /\ UNCHANGED calls

contract_update_blacklist(sender, address, update) ==
    /\ Called(sender)
    /\ has_role(sender, "BLACKLISTER")
    /\ state' = [state EXCEPT !.blacklist = Updated(@, get_canonical_address(address), update)]
    /\ log(<<UpdateBlacklistEvent(get_canonical_address(address), update)>>)
    /\ UNCHANGED calls

contract_set_paused(sender, paused) ==
    /\ Called(sender)
    /\ has_role(sender, "PAUSER")
    /\ state' = [state EXCEPT !.paused = paused]
    /\ UNCHANGED <<seen, calls>>

contract_grant_role(sender, address, role) ==
    /\ Called(sender)
    /\ has_role(sender, "ADMIN")
    /\ ~ has_role(address, role)
    /\ state' = [state EXCEPT !.roles = @ \cup {<<address, role>>}]
    /\ log(<<RoleEvent(address, role, "add")>>)
    /\ UNCHANGED calls

contract_revoke_role(sender, address, role) ==
    /\ Called(sender)
    /\ has_role(sender, "ADMIN")
    /\ has_role(address, role)
    /\ state' = [state EXCEPT !.roles = @ \ {<<address, role>>}]
    /\ log(<<RoleEvent(address, role, "remove")>>)
    /\ UNCHANGED calls

contract_set_implementor(sender, id, implementors) ==
    /\ Called(sender)
    /\ sender = Owner
    /\ state' = [state EXCEPT !.implementors[id] = implementors]
    /\ UNCHANGED <<seen, calls>>

Next ==
    \/ \E sender \in Addresses :
          \/ \E t \in TokenIds, url \in {"url1", "url2"}, to \in Addresses :
                contract_mint(sender, t, url, to)
          \/ \E t \in TokenIds, amount \in BurnAmounts, owner \in Addresses :
                contract_burn(sender, t, amount, owner)
          \/ \E batch \in MultiBatches : contract_transfer(sender, batch)
          \/ \E operator \in Operators, update \in {"add", "remove"} :
                contract_update_operator(sender, operator, update)
          \/ \E imp \in Implementors : contract_set_implementor(sender, imp[1], imp[2])
          \/ \E p \in Permits : contract_permit(sender, p)
          \/ \E address \in Addresses, update \in {"add", "remove"} :
                contract_update_blacklist(sender, address, update)
          \/ \E paused \in BOOLEAN : contract_set_paused(sender, paused)
          \/ \E g \in Grants : contract_grant_role(sender, g[1], g[2])
          \/ \E g \in Grants : contract_revoke_role(sender, g[1], g[2])
    \/ NextTransfer(Accepts(Top.sender, Upcoming), Moved(Upcoming), OneEvent(Upcoming))
    \/ HookReturns
    \/ HookRejects

Spec == Init /\ [][Next]_vars

-----------------------------------------------------------------------------
(* The queries *)

contract_balance_of(token_id, address) ==
    IF contains_token(token_id) THEN balance(token_id, address) ELSE None

contract_operator_of(address, owner) == is_operator(address, owner)

contract_token_metadata(token_id) == state.tokens[token_id]

contract_nonce_of(account) == state.nonces_registry[account]

-----------------------------------------------------------------------------
(* Properties *)

\* Those who follow the events know what the contract answers, also while a
\* receiver is being called and after it rejected.
LogTellsState ==
    /\ TellsBalances({t \in TokenIds : contains_token(t)}, contract_balance_of)
    /\ TellsOperators(contract_operator_of)
    /\ \A t \in TokenIds : contract_token_metadata(t) = seen.metadata[t]
    /\ seen.roles = state.roles /\ seen.blacklist = state.blacklist

\* A signed message is executed at most once, also when the receiver of its
\* transfer brings it again before it is done; and nonceOf is the next nonce
\* that nobody has used.
PermitsOnce ==
    /\ ~ seen.replayed
    /\ \A q \in seen.nonces : q[2] < contract_nonce_of(q[1])

\* A step leaves the tokens at all addresses of a blacklisted account, and while
\* the contract is paused all tokens and operators, whoever asks and in the
\* middle of a batch too; only the rejection of an entrypoint undoes what it
\* did before.
FrozenStep ==
    Undoes \/ \A a \in Addresses :
        /\ Blacklisted(a) \/ state.paused
             => \A t \in TokenIds : state'.balances[<<a, t>>] = state.balances[<<a, t>>]
        /\ state.paused => state'.operators[a] = state.operators[a]

=============================================================================
