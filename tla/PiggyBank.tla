----------------------------- MODULE PiggyBank ------------------------------
(***************************************************************************)
(* examples/piggy-bank: anybody inserts CCD, the owner smashes the bank    *)
(* and gets all of it.  Part 1 and part 2 of the tutorial differ in the    *)
(* errors only.                                                            *)
(***************************************************************************)
EXTENDS Ledger

CONSTANT Coins  \* the amounts that are inserted

\* seen is what has been inserted so far.
Init ==
    /\ state = [piggy |-> "Intact", ccd |-> InitialCcd, now |-> 0]
    /\ seen = 0
    /\ calls = <<>>
    /\ ops = 0

piggy_insert(sender, amount) ==
    /\ CalledWith(sender, amount)
    /\ state.piggy = "Intact"
    /\ state' = Received(sender, amount)
    /\ seen' = seen + amount
    /\ UNCHANGED calls

piggy_smash(sender) ==
    /\ Called(sender)
    /\ sender = Owner
    /\ state.piggy = "Intact"
    /\ state' = pay([state EXCEPT !.piggy = "Smashed"], Self, Owner, state.ccd[Self])
    /\ Quietly

Next ==
    \E sender \in Addresses :
       \/ \E amount \in Coins : piggy_insert(sender, amount)
       \/ piggy_smash(sender)

-----------------------------------------------------------------------------
(* Properties *)

\* All that was inserted is in an intact bank, and nothing in a smashed one.
FundsAccounted == state.ccd[Self] = IF state.piggy = "Intact" THEN seen ELSE 0

\* A smashed bank is not mended, and takes no CCD.
StaysSmashed == state.piggy = "Smashed" => UNCHANGED state

=============================================================================
