-------------------------- MODULE TwoStepTransfer ---------------------------
(***************************************************************************)
(* examples/two-step-transfer: CCD that is paid out when enough of the     *)
(* account holders support a request, until it times out.                  *)
(*                                                                         *)
(* Amounts are added and subtracted in 64 bits and wrap.  What `seen' says *)
(* is not in the program: that a request has been accepted for CCD that    *)
(* came with it and was counted twice.                                     *)
(***************************************************************************)
EXTENDS Ledger, Functions

CONSTANTS
    AmountModulus,  \* amounts have 64 bits
    account_holders, transfer_agreement_threshold, transfer_request_ttl,
    RequestIds,
    Requests,   \* pairs of an amount and an account that are requested
    Deposits,   \* the amounts that are deposited
    Attached    \* the amounts that come with requests and support

Init ==
    /\ Cardinality(account_holders) >= 2
    /\ transfer_agreement_threshold \in 2 .. Cardinality(account_holders)
    /\ state = [requests |-> [r \in RequestIds |-> None], ccd |-> InitialCcd, now |-> 0]
    /\ seen = FALSE
    /\ calls = <<>>
    /\ ops = 0

Active(r) == state.requests[r] # None /\ state.requests[r].times_out_at > state.now

\* What the requests ask for that have not timed out.  (The program has this sum,
\* as all others, in 64 bits.)
reserved_balance ==
    SumFunction([r \in RequestIds |->
                    IF Active(r) THEN state.requests[r].transfer_amount ELSE 0])

contract_receive_deposit(sender, amount) ==
    /\ CalledWith(sender, amount)
    /\ state' = Received(sender, amount)
    /\ Quietly

\* Mutant: only the balance is looked at, and not what other requests reserve.
Available_unreserved(balance, transfer_amount) == balance % AmountModulus >= transfer_amount

\* What is available for another request.  Should more be reserved than there is,
\* the difference wraps and is large.
Available(balance, transfer_amount) ==
    (balance - reserved_balance) % AmountModulus >= transfer_amount

\* The requests that have timed out are dropped.  The amount that comes with the
\* message is in self_balance already, and counted twice.
RequestTransfer(sender, amount, req_id, transfer_amount, target_account) ==
    LET paid    == Received(sender, amount)
        balance == amount + paid.ccd[Self]
    IN  /\ CalledWith(sender, amount)
        /\ sender \in account_holders
        /\ ~ Active(req_id)
        /\ Available(balance, transfer_amount)
        /\ state' = [paid EXCEPT !.requests =
              [r \in RequestIds |->
                 IF r = req_id
                 THEN [transfer_amount |-> transfer_amount,
                       target_account  |-> target_account,
                       times_out_at    |-> state.now + transfer_request_ttl,
                       supporters      |-> {sender}]
                 ELSE IF Active(r) THEN state.requests[r] ELSE None]]
        /\ seen' = (seen \/ /\ amount > 0
                            /\ reserved_balance + transfer_amount > paid.ccd[Self])
        /\ UNCHANGED calls

SupportTransfer(sender, amount, req_id, transfer_amount, target_account) ==
    LET paid       == Received(sender, amount)
        request    == state.requests[req_id]
        supporters == request.supporters \cup {sender}
    IN  /\ CalledWith(sender, amount)
        /\ sender \in account_holders
        /\ Active(req_id)
        /\ request.transfer_amount = transfer_amount
        /\ request.target_account = target_account
        /\ sender \notin request.supporters
        /\ \/ /\ Cardinality(supporters) < transfer_agreement_threshold
              /\ state' = [paid EXCEPT !.requests[req_id].supporters = supporters]
           \/ /\ Cardinality(supporters) >= transfer_agreement_threshold
              /\ transfer_amount <= paid.ccd[Self]
              /\ state' = [pay(paid, Self, target_account, transfer_amount)
                             EXCEPT !.requests[req_id] = None]
        /\ Quietly

Next ==
    \/ \E sender \in Addresses :
          \/ \E amount \in Deposits : contract_receive_deposit(sender, amount)
          \/ \E amount \in Attached, r \in RequestIds, request \in Requests :
                \/ RequestTransfer(sender, amount, r, request[1], request[2])
                \/ SupportTransfer(sender, amount, r, request[1], request[2])
    \/ Tick

-----------------------------------------------------------------------------
(* Properties *)

\* The requests that have not timed out can all be paid, unless one of them was
\* only accepted because the CCD that came with it was counted twice.
FundsSetAside == ~ seen => reserved_balance <= state.ccd[Self]

=============================================================================
