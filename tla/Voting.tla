------------------------------- MODULE Voting -------------------------------
(***************************************************************************)
(* examples/voting: one ballot for each account, which may be changed      *)
(* until the end, and a tally kept along with the ballots.                 *)
(***************************************************************************)
EXTENDS Ledger

CONSTANTS num_options, end_time

Indices == 0 .. (num_options - 1)

Init ==
    /\ state = [ballots |-> [a \in Accounts |-> None],
                tally   |-> [i \in Indices |-> None],
                now     |-> 0]
    /\ seen = [a \in Accounts |-> None]
    /\ calls = <<>>
    /\ ops = 0

\* What entry(i).or_insert(n) finds.
or_insert(tally, i, n) == IF tally[i] = None THEN n ELSE tally[i]

\* The tally without the ballot that the account has cast before.
Withdrawn(acc) ==
    LET old == state.ballots[acc]
    IN  IF old = None THEN state.tally
        ELSE [state.tally EXCEPT ![old] = or_insert(state.tally, old, 1) - 1]

\* An index that is no option is rejected, and so is a contract.
vote(sender, vote_index) ==
    /\ Called(sender)
    /\ state.now <= end_time
    /\ sender \in Accounts
    /\ vote_index \in Indices
    /\ state' = [state EXCEPT
                   !.ballots[sender] = vote_index,
                   !.tally = [Withdrawn(sender) EXCEPT
                                ![vote_index] = or_insert(Withdrawn(sender), vote_index, 0) + 1]]
    /\ seen' = [seen EXCEPT ![sender] = vote_index]
    /\ UNCHANGED calls

Next ==
    \/ \E sender \in Addresses, vote_index \in 0 .. num_options : vote(sender, vote_index)
    \/ Tick

-----------------------------------------------------------------------------
(* Properties *)

get_votes(i) == or_insert(state.tally, i, 0)

\* The votes for an option are the ballots cast for it, as the events tell them.
TallyAgrees ==
    \A i \in Indices : get_votes(i) = Cardinality({a \in Accounts : seen[a] = i})

\* After the end the votes stay as they are.
StaysDecided == state.now > end_time => \A i \in Indices : get_votes(i)' = get_votes(i)

=============================================================================
