------------------------------ MODULE ESealing ------------------------------
(***************************************************************************)
(* examples/eSealing: the first account to register the hash of a file is  *)
(* its witness.                                                            *)
(***************************************************************************)
EXTENDS Ledger

CONSTANT Files  \* hashes

Init ==
    /\ state = [files |-> [f \in Files |-> None], now |-> 0]
    /\ seen = None
    /\ calls = <<>>
    /\ ops = 0

file_exists(file) == state.files[file] # None

get_file(file) == state.files[file]

register_file(sender, file) ==
    /\ Called(sender)
    /\ sender \in Accounts
    /\ ~ file_exists(file)
    /\ state' = [state EXCEPT !.files[file] = [timestamp |-> state.now, witness |-> sender]]
    /\ Quietly

Next ==
    \/ \E sender \in Addresses, file \in Files : register_file(sender, file)
    \/ Tick

-----------------------------------------------------------------------------
(* Properties *)

\* A file keeps its witness and its time.
StaysSealed == \A f \in Files : file_exists(f) => get_file(f)' = get_file(f)

=============================================================================
