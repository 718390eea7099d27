------------------------------- MODULE Ledger -------------------------------
(***************************************************************************)
(* What the chain keeps for a contract of examples/ that deals in CCD or   *)
(* with time: everybody's CCD and the time of the block, as state.ccd and  *)
(* state.now.                                                              *)
(***************************************************************************)
EXTENDS Entrypoints

CONSTANTS
    Self,    \* the contract
    Wealth,  \* the CCD of everybody else, at first
    MaxNow   \* bound: the time

InitialCcd == [a \in Addresses \cup {Self} |-> IF a = Self THEN 0 ELSE Wealth]

\* What everybody holds when an amount has changed hands; they may be the same.
Given(held, from, to, amount) ==
    LET debited == [held EXCEPT ![from] = @ - amount]
    IN  [debited EXCEPT ![to] = @ + amount]

pay(s, from, to, amount) == [s EXCEPT !.ccd = Given(@, from, to, amount)]

\* A payable entrypoint is called: its amount is the contract's before it runs.
CalledWith(sender, amount) == Called(sender) /\ amount <= state.ccd[sender]
Received(sender, amount) == pay(state, sender, Self, amount)

\* Entrypoints that call no other contract, and log nothing that is followed.
Quietly == UNCHANGED <<seen, calls>>

\* Blocks come between transactions.
Tick ==
    /\ calls = <<>>
    /\ state.now < MaxNow
    /\ state' = [state EXCEPT !.now = @ + 1]
    /\ UNCHANGED <<seen, calls, ops>>

=============================================================================
