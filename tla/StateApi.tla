------------------------------ MODULE StateApi ------------------------------
(***************************************************************************)
(* What HasStateApi promises its users (concordium-std, traits.rs): a      *)
(* mapping from keys to data whose subtrees can be locked by iterators.    *)
(* The structure below a locked prefix is fixed, the data are not.         *)
(***************************************************************************)
EXTENDS Naturals, Sequences, SequencesExt

CONSTANTS
    Keys,   \* sequences, with all their prefixes
    Data    \* what entries can hold

VARIABLES
    contents,  \* data of the entries that exist
    locks      \* number of iterators for each prefix

apiVars == <<contents, locks>>

Locked(key) == \E p \in Keys : locks[p] > 0 /\ IsPrefix(p, key)

ApiInit ==
    /\ contents = << >>
    /\ locks = [p \in Keys |-> 0]

(* An entry that exists is reset to an empty one. *)
CreateEntry(key) ==
    /\ ~Locked(key)
    /\ contents' = [k \in DOMAIN contents \cup {key} |-> IF k = key THEN << >> ELSE contents[k]]
    /\ UNCHANGED locks

Without(keys) == [k \in DOMAIN contents \ keys |-> contents[k]]

DeleteEntry(key) ==
    /\ key \in DOMAIN contents
    /\ ~Locked(key)
    /\ contents' = Without({key})
    /\ UNCHANGED locks

(* No part of the subtree may be locked. *)
DeletePrefix(prefix) ==
    LET below == {k \in Keys : IsPrefix(prefix, k)}
    IN  /\ ~Locked(prefix) /\ \A p \in below : locks[p] = 0
        /\ contents' = Without(below)
        /\ UNCHANGED locks

(* Data can be changed in a locked subtree too. *)
WriteEntry(key, data) ==
    /\ key \in DOMAIN contents
    /\ contents' = [contents EXCEPT ![key] = data]
    /\ UNCHANGED locks

GetIterator(prefix) ==
    /\ locks' = [locks EXCEPT ![prefix] = @ + 1]
    /\ UNCHANGED contents

DeleteIterator(prefix) ==
    /\ locks[prefix] > 0
    /\ locks' = [locks EXCEPT ![prefix] = @ - 1]
    /\ UNCHANGED contents

ApiNext ==
    \/ \E k \in Keys : \/ CreateEntry(k)
                       \/ DeleteEntry(k)
                       \/ DeletePrefix(k)
                       \/ GetIterator(k)
                       \/ DeleteIterator(k)
                       \/ \E d \in Data : WriteEntry(k, d)

ApiSpec == ApiInit /\ [][ApiNext]_apiVars
=============================================================================
