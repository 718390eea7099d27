------------------------- MODULE OffchainTransfers --------------------------
(***************************************************************************)
(* examples/offchain-transfers: a balance sheet of deposits, changed by    *)
(* settlements that the validator adds, that the judge may veto until they *)
(* are final and that anybody has executed when they are.                  *)
(*                                                                         *)
(* Amounts are added and subtracted in 64 bits and wrap.  What `seen' says *)
(* is not in the program: that a settlement or a withdrawal has been       *)
(* accepted with a sum that wrapped.                                       *)
(***************************************************************************)
EXTENDS Ledger, Functions

CONSTANTS
    AmountModulus,   \* amounts have 64 bits
    validator, judge, time_to_finality, settlement_limit,
    Transfers,       \* the transfers that the validator adds
    SheetAmounts,    \* the amounts that are deposited and withdrawn
    MaxSettlements   \* bound: settlements that are added

Ids == 0 .. (MaxSettlements - 1)

\* The queue of settlements is in the order of their ids; who is not listed in the
\* balance sheet has nothing.
Init ==
    /\ state = [next_id       |-> 0,
                settlements   |-> [id \in Ids |-> None],
                balance_sheet |-> [a \in Accounts |-> 0],
                listed        |-> {},
                ccd           |-> InitialCcd,
                now           |-> 0]
    /\ seen = FALSE
    /\ calls = <<>>
    /\ ops = 0

Queued == {id \in Ids : state.settlements[id] # None}

\* The amounts of a list of transfers, and those of one address, and what the
\* program makes of them.
Exact(transfers) == SumFunction([i \in DOMAIN transfers |-> transfers[i].amount])
ExactOf(transfers, a) ==
    SumFunction([i \in DOMAIN transfers |->
                    IF transfers[i].address = a THEN transfers[i].amount ELSE 0])
Total(transfers) == Exact(transfers) % AmountModulus
TotalOf(transfers, a) == ExactOf(transfers, a) % AmountModulus

contract_receive_deposit(sender, amount) ==
    /\ CalledWith(sender, amount)
    /\ sender \in Accounts
    /\ state' = [Received(sender, amount) EXCEPT
                   !.balance_sheet[sender] = (@ + amount) % AmountModulus,
                   !.listed = @ \cup {sender}]
    /\ Quietly

\* What an account may have to pay for the settlements that are queued.
Owed(a) == SumFunction([id \in Queued |-> ExactOf(state.settlements[id].transfer.send_transfers, a)])

get_liabilities(a) == Owed(a) % AmountModulus

contract_receive_withdraw(sender, payout) ==
    /\ Called(sender)
    /\ sender \in state.listed
    /\ payout > 0
    /\ state.balance_sheet[sender] >= (get_liabilities(sender) + payout) % AmountModulus
    /\ payout <= state.ccd[Self]
    /\ state' = [pay(state, Self, sender, payout) EXCEPT
                   !.balance_sheet[sender] = (@ - payout) % AmountModulus]
    /\ seen' = (seen \/ Owed(sender) + payout >= AmountModulus)
    /\ UNCHANGED calls

is_transfer_valid(transfer) == Total(transfer.send_transfers) = Total(transfer.receive_transfers)

\* A sum of the transfer wraps.
Wraps(transfer) ==
    \/ Exact(transfer.send_transfers) >= AmountModulus
    \/ Exact(transfer.receive_transfers) >= AmountModulus

contract_receive_add_settlement(sender, transfer) ==
    /\ Called(sender)
    /\ sender = validator
    /\ Cardinality(Queued) < settlement_limit
    /\ is_transfer_valid(transfer)
    /\ state.next_id < MaxSettlements
    /\ state' = [state EXCEPT
                   !.next_id = @ + 1,
                   !.settlements[state.next_id] =
                      [transfer |-> transfer, finality_time |-> state.now + time_to_finality]]
    /\ seen' = (seen \/ Wraps(transfer))
    /\ UNCHANGED calls

\* Mutant: a settlement can be vetoed at the time it becomes final.
contract_receive_veto_final(sender, id) ==
    /\ Called(sender)
    /\ sender = judge
    /\ id \in Queued /\ state.settlements[id].finality_time >= state.now
    /\ state' = [state EXCEPT !.settlements[id] = None]
    /\ Quietly

\* A veto of what is final, or is not there, changes nothing.
contract_receive_veto(sender, id) ==
    /\ Called(sender)
    /\ sender = judge
    /\ id \in Queued /\ state.settlements[id].finality_time > state.now
    /\ state' = [state EXCEPT !.settlements[id] = None]
    /\ Quietly

is_settlement_valid(s, balance_sheet) ==
    \A i \in DOMAIN s.transfer.send_transfers :
        LET a == s.transfer.send_transfers[i].address
        IN  (balance_sheet[a] + TotalOf(s.transfer.receive_transfers, a)) % AmountModulus
              >= TotalOf(s.transfer.send_transfers, a)

\* A settlement that is not valid is dropped without being executed.
Executed(s, balance_sheet) ==
    IF is_settlement_valid(s, balance_sheet)
    THEN [a \in Accounts |-> (balance_sheet[a] + TotalOf(s.transfer.receive_transfers, a)
                                - TotalOf(s.transfer.send_transfers, a)) % AmountModulus]
    ELSE balance_sheet

\* Whom a transfer is about
Parties(transfer) ==
    {a \in Accounts :
        \/ \E i \in DOMAIN transfer.send_transfers : transfer.send_transfers[i].address = a
        \/ \E i \in DOMAIN transfer.receive_transfers : transfer.receive_transfers[i].address = a}

IsFinal(id) == id \in Queued /\ state.settlements[id].finality_time <= state.now

\* The sheet when some settlements have been executed, in the order of the queue,
\* and when all that are final have been.
SheetAfter(ids) ==
    MapThenFoldSet(Executed, state.balance_sheet, LAMBDA id : state.settlements[id], Latest, ids)

Settled == SheetAfter({id \in Ids : IsFinal(id)})

\* An account is listed by the first settlement about it that is executed.
Listed ==
    UNION {Parties(state.settlements[id].transfer) :
             id \in {i \in Ids :
                       /\ IsFinal(i)
                       /\ is_settlement_valid(state.settlements[i],
                                              SheetAfter({j \in Ids : IsFinal(j) /\ j < i}))}}

contract_receive_execute_settlements(sender) ==
    /\ Called(sender)
    /\ state' = [state EXCEPT
                   !.balance_sheet = Settled,
                   !.listed = @ \cup Listed,
                   !.settlements = [id \in Ids |-> IF IsFinal(id) THEN None ELSE @[id]]]
    /\ Quietly

Next ==
    \/ \E sender \in Addresses :
          \/ \E amount \in SheetAmounts :
                \/ contract_receive_deposit(sender, amount)
                \/ contract_receive_withdraw(sender, amount)
          \/ \E transfer \in Transfers : contract_receive_add_settlement(sender, transfer)
          \/ \E id \in Ids : contract_receive_veto(sender, id)
          \/ contract_receive_execute_settlements(sender)
    \/ Tick

-----------------------------------------------------------------------------
(* Properties *)

\* As long as no sum has wrapped in a settlement or a withdrawal that was accepted,
\* the sheet says whose the contract's CCD is, and executing settlements makes no
\* debt (which would wrap, and be a large balance).
FundsAccounted == ~ seen => SumFunction(state.balance_sheet) = state.ccd[Self]

\* All CCD that there is
CcdInTotal == SumFunction(InitialCcd)

\* A settlement that is final leaves the queue only by being executed: the judge
\* is too late.
FinalSettlementsKept ==
    \A id \in Ids :
        IsFinal(id) /\ state'.settlements[id] # state.settlements[id]
          => state'.settlements[id] = None /\ state'.balance_sheet = Settled

=============================================================================
