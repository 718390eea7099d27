--------------------------- MODULE CounterNotify ----------------------------
(***************************************************************************)
(* examples/counter-notify: a counter that tells another contract of an    *)
(* increment and then finds out whether that contract has incremented it   *)
(* in the meantime, as reentrancy-attacker does.                           *)
(***************************************************************************)
EXTENDS Entrypoints

\* answers: what increment-and-notify has returned, with the number of increments
\* when it called the contract and when it returned.  seen counts the increments
\* that were not undone.
Init ==
    /\ state = [count |-> 0, answers |-> <<>>]
    /\ seen = 0
    /\ calls = <<>>
    /\ ops = 0

Incremented == [state EXCEPT !.count = @ + 1]

just_increment(sender) ==
    /\ Called(sender)
    /\ state' = Incremented
    /\ seen' = seen + 1
    /\ UNCHANGED calls

increment_and_notify(sender, contract) ==
    /\ Called(sender)
    /\ state' = Incremented
    /\ seen' = seen + 1
    /\ calls' = Append(calls, [hook |-> contract, preinvoke_count |-> Incremented.count,
                               before |-> seen + 1, saved |-> Saved])

\* The contract that was told returns.
ReentryOccurance(preinvoke_count) ==
    IF preinvoke_count # state.count THEN "ReentryAttack" ELSE "NoReentryAttack"

incremented_and_notified ==
    /\ calls # <<>>
    /\ state' = [state EXCEPT !.answers =
                    Append(@, [occurance |-> ReentryOccurance(Top.preinvoke_count),
                               before |-> Top.before, after |-> seen])]
    /\ calls' = Waiting(calls)
    /\ UNCHANGED <<seen, ops>>

Next ==
    \/ \E sender \in Addresses :
          \/ just_increment(sender)
          \/ \E contract \in Contracts : increment_and_notify(sender, contract)
    \/ incremented_and_notified
    \/ HookRejects

-----------------------------------------------------------------------------
(* Properties *)

\* The counter counts the increments of transactions and of contracts that were
\* told, without those that a rejection has undone, and an increment in the
\* meantime is always noticed.
ReentryNoticed ==
    /\ state.count = seen
    /\ \A i \in DOMAIN state.answers :
          LET a == state.answers[i] IN a.occurance = "ReentryAttack" <=> a.after > a.before

=============================================================================
