----------------------------- MODULE Entrypoints ----------------------------
(***************************************************************************)
(* How a contract of examples/ is called.                                  *)
(*                                                                         *)
(* An entrypoint that rejects changes nothing, and is no step.  One that   *)
(* calls another contract is several steps: that contract may do anything, *)
(* in particular call this one again, and then return or reject.  `calls'  *)
(* is the stack of entrypoints that are under way, each with what it has   *)
(* left to do and with what a rejection restores.  The state that a        *)
(* contract holds in memory is the one in the node before and after each   *)
(* call (module Host).                                                     *)
(***************************************************************************)
EXTENDS Integers, Sequences, FiniteSets

CONSTANTS
    Accounts, Contracts,  \* the addresses besides the contract itself
    Owner,                \* the account that created the contract
    None,
    MaxDepth,             \* bound: entrypoints of the contract that are under way
    MaxOps                \* bound: entrypoints that are called

VARIABLES
    state,  \* the state of the contract, and what the chain keeps for it
    seen,   \* what somebody knows who follows the events: a wallet or an indexer
    calls,
    ops     \* how many entrypoints have been called

vars == <<state, seen, calls, ops>>

Addresses == Accounts \cup Contracts

Top == calls[Len(calls)]

\* The entrypoints that wait for the one on top.
Waiting(stack) == SubSeq(stack, 1, Len(stack) - 1)

\* The last of several places in an order.
Latest(places) == CHOOSE i \in places : \A j \in places : i >= j

\* An entrypoint is called by a transaction, or by a contract while the
\* contract that was called last is running.
Called(sender) ==
    /\ ops < MaxOps
    /\ ops' = ops + 1
    /\ calls # <<>> => Top.hook # None /\ Len(calls) < MaxDepth /\ sender \in Contracts

\* What a rejection of the entrypoint that is called now restores.
Saved == [state |-> state, seen |-> seen]

Rejects ==
    /\ state' = Top.saved.state
    /\ seen' = Top.saved.seen
    /\ calls' = Waiting(calls)

\* A step that undoes an entrypoint.
Undoes == Len(calls') < Len(calls) /\ state' = Top.saved.state

\* A contract that an entrypoint has called rejects, and so does the entrypoint.
HookRejects ==
    /\ calls # <<>> /\ Top.hook # None
    /\ Rejects
    /\ UNCHANGED ops

=============================================================================
