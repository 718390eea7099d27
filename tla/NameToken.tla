----------------------------- MODULE NameToken ------------------------------
(***************************************************************************)
(* examples/nametoken: names as tokens that expire.  Names belong to       *)
(* accounts only, so no transfer calls a contract.                         *)
(***************************************************************************)
EXTENDS Cis2

CONSTANTS
    NameBatches,               \* the transfers that are asked for
    REGISTRATION_PERIOD_DAYS,
    TimeLimit,                 \* timestamps are below it (2^64)
    REGISTRATION_FEE, UPDATE_FEE, RENEWAL_FEE,
    MaxBalance,                \* bound: the CCD of the contract
    MaxNow                     \* bound: the time

\* `now' and the CCD of the contract are kept by the chain.  A token id is the
\* hash of a name.
Init ==
    /\ state = [admin        |-> Owner,
                owned_names  |-> [a \in Accounts |-> {}],
                operators    |-> [a \in Accounts |-> {}],
                all_names    |-> [t \in TokenIds |-> None],
                implementors |-> NoImplementors,
                now          |-> 0,
                self_balance |-> 0]
    /\ seen = NothingSeen
    /\ calls = <<>>
    /\ ops = 0

contains_token(name) == state.all_names[name] # None

is_operator(address, owner) == address \in state.operators[owner]

\* Expired names count as nobody's.
balance(name, address) ==
    IF /\ address \in Accounts
       /\ name \in state.owned_names[address]
       /\ state.now <= state.all_names[name].name_expires
    THEN 1 ELSE 0

Paid(s, amount) == [s EXCEPT !.self_balance = @ + amount]

CanPay(amount) == state.self_balance + amount <= MaxBalance

\* State::transfer of one name.
Handed(s, name, from, to) ==
    [s EXCEPT !.owned_names = HandedOver(@, name, from, to),
              !.all_names[name].owner = to]

register_fresh(name, owner, expires) ==
    [state EXCEPT !.all_names[name] = [owner |-> owner, name_expires |-> expires,
                                       data |-> "empty"],
                  !.owned_names[owner] = @ \cup {name}]

\* The old owner loses the name and its data.
register_expired(name, owner, expires) ==
    Handed([state EXCEPT !.all_names[name].name_expires = expires,
                         !.all_names[name].data = "empty"],
           name, state.all_names[name].owner, owner)

contract_register(sender, name, owner) ==
    LET expires == state.now + REGISTRATION_PERIOD_DAYS
    IN  /\ Called(sender)
        /\ CanPay(REGISTRATION_FEE)
        /\ expires < TimeLimit
        /\ \/ /\ contains_token(name)
              /\ state.now > state.all_names[name].name_expires
              /\ name \in state.owned_names[state.all_names[name].owner]
              /\ state' = Paid(register_expired(name, owner, expires), REGISTRATION_FEE)
              /\ log(<<TransferEvent([token_id |-> name, amount |-> 1,
                                      from |-> state.all_names[name].owner, to |-> owner])>>)
           \/ /\ ~ contains_token(name)
              /\ state' = Paid(register_fresh(name, owner, expires), REGISTRATION_FEE)
              /\ log(<<MintEvent(name, 1, owner), TokenMetadataEvent(name, name)>>)
        /\ UNCHANGED calls

\* Mutant: the holder of the name is asked for, and not whether it has expired.
Accepts_expired(sender, t) ==
    /\ t.to \in Accounts /\ t.from \in Accounts
    /\ t.from = sender \/ is_operator(sender, t.from)
    /\ contains_token(t.token_id)
    /\ t.amount \in {0, 1}
    /\ t.amount = 1 => t.token_id \in state.owned_names[t.from]

\* What contract_transfer and State::transfer check.
Accepts(sender, t) ==
    /\ t.to \in Accounts /\ t.from \in Accounts
    /\ t.from = sender \/ is_operator(sender, t.from)
    /\ contains_token(t.token_id)
    /\ state.now <= state.all_names[t.token_id].name_expires
    /\ t.amount \in {0, 1}
    /\ t.amount = 1 => t.token_id \in state.owned_names[t.from]

Moved(t) == IF t.amount = 0 THEN state ELSE Handed(state, t.token_id, t.from, t.to)

contract_transfer(sender, batch) ==
    /\ Called(sender)
    /\ StartsBatch(sender, batch, <<>>)
    /\ UNCHANGED <<state, seen>>

\* The owner of a name that has not expired, or an operator.
Controls(sender, name) ==
    /\ contains_token(name)
    /\ LET info == state.all_names[name]
       IN  (info.owner = sender \/ is_operator(sender, info.owner)) /\ state.now <= info.name_expires

contract_renew(sender, name) ==
    /\ Called(sender)
    /\ CanPay(RENEWAL_FEE)
    /\ Controls(sender, name)
    /\ LET new_expires == state.all_names[name].name_expires + REGISTRATION_PERIOD_DAYS
       IN  /\ new_expires < TimeLimit
           /\ state' = Paid([state EXCEPT !.all_names[name].name_expires = new_expires],
                            RENEWAL_FEE)
    /\ UNCHANGED <<seen, calls>>

contract_update_data(sender, name, data) ==
    /\ Called(sender)
    /\ CanPay(UPDATE_FEE)
    /\ Controls(sender, name)
    /\ state' = Paid([state EXCEPT !.all_names[name].data = data], UPDATE_FEE)
    /\ UNCHANGED <<seen, calls>>

contract_withdraw(sender, amount) ==
    /\ Called(sender)
    /\ sender = state.admin
    /\ amount <= state.self_balance
    /\ state' = [state EXCEPT !.self_balance = @ - amount]
    /\ UNCHANGED <<seen, calls>>

contract_update_admin(sender, new_admin) ==
    /\ Called(sender)
    /\ sender = state.admin
    /\ state' = [state EXCEPT !.admin = new_admin]
    /\ UNCHANGED <<seen, calls>>

contract_update_operator(sender, operator, update) ==
    /\ Called(sender)
    /\ sender \in Accounts
    /\ state' = [state EXCEPT !.operators[sender] = Updated(@, operator, update)]
    /\ log(<<UpdateOperatorEvent(sender, operator, update)>>)
    /\ UNCHANGED calls

contract_set_implementor(sender, id, implementors) ==
    /\ Called(sender)
    /\ sender = state.admin
    /\ state' = [state EXCEPT !.implementors[id] = implementors]
    /\ UNCHANGED <<seen, calls>>

\* Blocks come between transactions.
Tick ==
    /\ calls = <<>>
    /\ state.now < MaxNow
    /\ state' = [state EXCEPT !.now = @ + 1]
    /\ UNCHANGED <<seen, calls, ops>>

Next ==
    \/ \E sender \in Addresses :
          \/ \E name \in TokenIds, owner \in Accounts : contract_register(sender, name, owner)
          \/ \E batch \in NameBatches : contract_transfer(sender, batch)
          \/ \E name \in TokenIds : contract_renew(sender, name)
          \/ \E name \in TokenIds : contract_update_data(sender, name, "data")
          \/ contract_withdraw(sender, UPDATE_FEE)
          \/ \E new_admin \in Accounts : contract_update_admin(sender, new_admin)
          \/ \E operator \in Operators, update \in {"add", "remove"} :
                contract_update_operator(sender, operator, update)
          \/ \E imp \in Implementors : contract_set_implementor(sender, imp[1], imp[2])
    \/ NextTransfer(Accepts(Top.sender, Upcoming), Moved(Upcoming), OneEvent(Upcoming))
    \/ Tick

Spec == Init /\ [][Next]_vars

-----------------------------------------------------------------------------
(* The queries *)

contract_balance_of(name, address) == balance(name, address)

contract_operator_of(address, owner) == is_operator(address, owner)

contract_token_metadata(name) == IF contains_token(name) THEN name ELSE None

-----------------------------------------------------------------------------
(* Properties *)

\* Those who follow the events know who has the names that have not expired, and
\* the operators; no event says that a name expires.
LogTellsState ==
    /\ TellsBalances({t \in TokenIds : contains_token(t)
                                         /\ state.now <= state.all_names[t].name_expires},
                     contract_balance_of)
    /\ \A a \in Addresses, o \in Accounts :
          contract_operator_of(a, o) <=> <<o, a>> \in seen.operators
    /\ \A t \in TokenIds : contract_token_metadata(t) = seen.metadata[t]

\* The owner in the record of a name is the one account that has the name among
\* its own: otherwise an expired name could not be registered again.
RecordsAgree ==
    \A t \in TokenIds : {a \in Accounts : t \in state.owned_names[a]}
                          = IF contains_token(t) THEN {state.all_names[t].owner} ELSE {}

\* A step by which an owner loses a name: only the owner or an operator takes a
\* name that has not expired, and nobody takes one that has without registering
\* it for a new period.
LosesRightly ==
    \A t \in {n \in TokenIds : contains_token(n)} :
        LET old == state.all_names[t]
        IN  state'.all_names[t].owner # old.owner /\ ~ Undoes
              => IF state.now <= old.name_expires
                 THEN calls # <<>> /\ (Top.sender = old.owner \/ is_operator(Top.sender, old.owner))
                 ELSE state'.all_names[t].name_expires > state.now

=============================================================================
