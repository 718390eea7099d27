------------------------------ MODULE StateTrie ------------------------------
(***************************************************************************)
(* The state of a contract in concordium-std's test infrastructure         *)
(* (test_infrastructure/trie.rs and the TestStateEntry of                  *)
(* test_infrastructure.rs).  Entries are given out as handles that share   *)
(* their data with the trie, and outlive its changes; iterators are queues *)
(* of handles made in advance and lock a subtree.                          *)
(*                                                                         *)
(* A node without data and without children is removed at once, so the     *)
(* nodes are given by the keys that have data.  An operation that is       *)
(* refused with an error and leaves everything as it is, is not a step.    *)
(***************************************************************************)
EXTENDS Naturals, Sequences, SequencesExt, FiniteSetsExt

CONSTANTS
    Keys,          \* keys, with one index for each byte, closed under prefixes
    Bytes,
    Deleted,       \* TestStateEntryData::EntryDeleted
    MaxCount,      \* u32::MAX, the limit of the iterators of one prefix
    MaxIds,        \* bound on next_entry_id
    MaxCells,      \* bound on the data ever created
    MaxLen,        \* bound on the length of an entry's data
    MaxIterators   \* bound on the iterators that live at a time

ASSUME TrieAssumption ==
    /\ Keys \subseteq Seq(Nat)
    /\ \A k \in Keys : \A n \in 0 .. Len(k) : SubSeq(k, 1, n) \in Keys
    /\ 0 \in Bytes
    /\ \A n \in 0 .. MaxLen : Deleted \notin [1 .. n -> Bytes]
    /\ {MaxCount, MaxIds, MaxCells, MaxLen, MaxIterators} \subseteq Nat

VARIABLES
    nodes,            \* the cell of each key that has data
    cells,            \* the shared data (Rc), in the order of creation
    entry_map,
    next_entry_id,
    iterator_counts,
    entries,          \* handles that users hold, by state_entry_id
    iterators,        \* iterators that users hold: prefix and queue, by a number
    panicked

trieVars == <<nodes, cells, entry_map, next_entry_id, iterator_counts,
              entries, iterators, panicked>>

(* TestStateEntry *)
Handle(id, key, cell) ==
    [state_entry_id |-> id, key |-> key, cell |-> cell, offset |-> 0]

With(f, x, v) == [y \in DOMAIN f \cup {x} |-> IF y = x THEN v ELSE f[y]]

WithoutKeys(f, S) == [y \in DOMAIN f \ S |-> f[y]]

Init ==
    /\ nodes = << >>
    /\ cells = << >>
    /\ entry_map = << >>
    /\ next_entry_id = 0
    /\ iterator_counts = << >>
    /\ entries = << >>
    /\ iterators = << >>
    /\ panicked = FALSE

(* Mutant: only locks on prefixes of the key count. *)
is_locked_above(prefix) == \E p \in DOMAIN iterator_counts : IsPrefix(p, prefix)

(* Some iterator's prefix and this one agree as far as the shorter goes.   *)
is_locked(prefix) ==
    \E p \in DOMAIN iterator_counts : IsPrefix(p, prefix) \/ IsPrefix(prefix, p)

(* lookup_node: the root is always there *)
NodeExists(prefix) == prefix = << >> \/ \E k \in DOMAIN nodes : IsPrefix(prefix, k)

(* Handles are numbered, and their keys kept, as they are given out. *)
construct_state_entry_test(key, cell) ==
    /\ next_entry_id < MaxIds
    /\ entries' = With(entries, next_entry_id, Handle(next_entry_id, key, cell))
    /\ entry_map' = With(entry_map, next_entry_id, key)
    /\ next_entry_id' = next_entry_id + 1

(* New data for the key; older handles keep the old data. *)
create_entry(key) ==
    /\ ~is_locked(key)
    /\ Len(cells) < MaxCells
    /\ cells' = Append(cells, << >>)
    /\ nodes' = With(nodes, key, Len(cells) + 1)
    /\ construct_state_entry_test(key, Len(cells) + 1)
    /\ UNCHANGED <<iterator_counts, iterators, panicked>>

lookup(key) ==
    /\ key \in DOMAIN nodes
    /\ construct_state_entry_test(key, nodes[key])
    /\ UNCHANGED <<nodes, cells, iterator_counts, iterators, panicked>>

(* The handle is consumed, also when the subtree is locked.  TypeOK says   *)
(* that its number is never missing, so the error for that is not a step.  *)
delete_entry(id) ==
    LET e == entries[id]
    IN  /\ entries' = WithoutKeys(entries, {id})
        /\ \/ is_locked(e.key) /\ UNCHANGED <<entry_map, nodes>>
           \/ /\ ~is_locked(e.key)
              /\ id \in DOMAIN entry_map
              /\ entry_map' = WithoutKeys(entry_map, {id})
              /\ nodes' = WithoutKeys(nodes, {entry_map[id]})
        /\ UNCHANGED <<cells, next_entry_id, iterator_counts, iterators, panicked>>

-----------------------------------------------------------------------------
(* Iterators *)

(* Lexicographic order, a prefix before its extensions: build_queue visits *)
(* a node before its children, and these by index.                         *)
Before(k, l) ==
    \/ IsStrictPrefix(k, l)
    \/ \E n \in DOMAIN k \cap DOMAIN l :
         k[n] < l[n] /\ \A m \in 1 .. n - 1 : k[m] = l[m]

(* The keys with data strictly below the prefix, in order. *)
KeysBelow(prefix) == {k \in DOMAIN nodes : IsStrictPrefix(prefix, k)}

InOrder(S) ==
    CHOOSE s \in [1 .. Cardinality(S) -> S] :
      \A m, n \in 1 .. Cardinality(S) : m < n => Before(s[m], s[n])

BelowPrefix(prefix) == InOrder(KeysBelow(prefix))

(* build_queue makes a handle for each of them. *)
QueueHandles(prefix) ==
    LET ks == BelowPrefix(prefix)
    IN  [n \in DOMAIN ks |-> Handle(next_entry_id + n - 1, ks[n], nodes[ks[n]])]

QueueNumbered(queue) ==
    /\ next_entry_id + Len(queue) <= MaxIds
    /\ next_entry_id' = next_entry_id + Len(queue)

EntryMapWith(queue) ==
    [i \in DOMAIN entry_map \cup {queue[n].state_entry_id : n \in DOMAIN queue} |->
       IF i \in DOMAIN entry_map THEN entry_map[i] ELSE queue[i - next_entry_id + 1].key]

iterator(i, prefix) ==
    LET queue == QueueHandles(prefix)
        count == IF prefix \in DOMAIN iterator_counts THEN iterator_counts[prefix] ELSE 0
    IN  /\ NodeExists(prefix)
        /\ count < MaxCount
        /\ i \in 1 .. MaxIterators \ DOMAIN iterators
        /\ iterator_counts' = With(iterator_counts, prefix, count + 1)
        /\ QueueNumbered(queue)
        /\ entry_map' = EntryMapWith(queue)
        /\ iterators' = With(iterators, i, [prefix |-> prefix, queue |-> queue])
        /\ UNCHANGED <<nodes, cells, entries, panicked>>

(* The next entry of the queue is handed to the user. *)
next(i) ==
    LET it == iterators[i]
    IN  /\ it.queue # << >>
        /\ iterators' = [iterators EXCEPT ![i].queue = Tail(@)]
        /\ entries' = With(entries, Head(it.queue).state_entry_id, Head(it.queue))
        /\ UNCHANGED <<nodes, cells, entry_map, next_entry_id, iterator_counts,
                       panicked>>

(* Mutant: the lock is released with the first iterator of a prefix. *)
delete_iterator_unlocks(i) ==
    LET p == iterators[i].prefix
    IN  /\ p \in DOMAIN iterator_counts
        /\ iterators' = WithoutKeys(iterators, {i})
        /\ iterator_counts' = WithoutKeys(iterator_counts, {p})
        /\ UNCHANGED <<nodes, cells, entry_map, next_entry_id, entries, panicked>>

delete_iterator(i) ==
    LET p == iterators[i].prefix
    IN  /\ p \in DOMAIN iterator_counts
        /\ iterators' = WithoutKeys(iterators, {i})
        /\ iterator_counts' = IF iterator_counts[p] = 1
                                THEN WithoutKeys(iterator_counts, {p})
                                ELSE [iterator_counts EXCEPT ![p] = @ - 1]
        /\ UNCHANGED <<nodes, cells, entry_map, next_entry_id, entries, panicked>>

(* The data of the entries that an iterator for the prefix visits is       *)
(* marked, then the subtree is cut off.  The iterator is deleted again.    *)
delete_prefix(prefix) ==
    LET queue == QueueHandles(prefix)
        below == {queue[n].cell : n \in DOMAIN queue}
        gone  == {k \in DOMAIN nodes : IsPrefix(prefix, k)}
    IN  /\ ~is_locked(prefix)
        /\ NodeExists(prefix)
        /\ QueueNumbered(queue)
        /\ entry_map' = EntryMapWith(queue)
        /\ cells' = [c \in DOMAIN cells |-> IF c \in below THEN Deleted ELSE cells[c]]
        /\ nodes' = WithoutKeys(nodes, gone)
        /\ UNCHANGED <<iterator_counts, entries, iterators, panicked>>

-----------------------------------------------------------------------------
(* TestStateEntry: operations on the data of a handle that is not deleted *)

Size(id) == Len(cells[entries[id].cell])

Exists(id) == cells[entries[id].cell] # Deleted

(* The handle id ends at the offset, with this data. *)
Updates(id, offset, data) ==
    /\ cells' = [cells EXCEPT ![entries[id].cell] = data]
    /\ entries' = [entries EXCEPT ![id].offset = offset]
    /\ UNCHANGED <<nodes, entry_map, next_entry_id, iterator_counts, iterators,
                   panicked>>

(* The data of the handle id, cut off or filled with zeros *)
Resized(id, size) ==
    [n \in 1 .. size |-> IF n <= Size(id) THEN cells[entries[id].cell][n] ELSE 0]

resize(id, size) ==
    /\ Exists(id)
    /\ Updates(id, Min({entries[id].offset, size}), Resized(id, size))

truncate(id, size) == Exists(id) /\ Size(id) > size /\ resize(id, size)

(* One byte.  The subtraction underflows when the offset is past the end.  *)
read(id) ==
    /\ Exists(id)
    /\ \/ /\ entries[id].offset > Size(id)
          /\ panicked' = TRUE
          /\ UNCHANGED <<nodes, cells, entry_map, next_entry_id, iterator_counts,
                         entries, iterators>>
       \/ /\ entries[id].offset <= Size(id)
          /\ Updates(id, Min({entries[id].offset + 1, Size(id)}), cells[entries[id].cell])

write(id, byte) ==
    LET end == entries[id].offset + 1
    IN  /\ Exists(id)
        /\ end <= MaxLen
        /\ Updates(id, end, [Resized(id, Max({Size(id), end})) EXCEPT ![end] = byte])

(* Also on deleted entries. *)
move_to_start(id) == Updates(id, 0, cells[entries[id].cell])

(* Start and End reach the data, a step back any smaller offset. *)
seek(id, offset) ==
    /\ Exists(id)
    /\ offset <= Size(id) \/ offset <= entries[id].offset
    /\ Updates(id, offset, cells[entries[id].cell])

-----------------------------------------------------------------------------

Next ==
    /\ ~panicked
    /\ \/ \E k \in Keys : \/ create_entry(k) \/ lookup(k) \/ delete_prefix(k)
                          \/ \E i \in 1 .. MaxIterators : iterator(i, k)
       \/ \E i \in DOMAIN iterators : next(i) \/ delete_iterator(i)
       \/ \E id \in DOMAIN entries :
            \/ delete_entry(id)
            \/ read(id) \/ move_to_start(id)
            \/ \E b \in Bytes : write(id, b)
            \/ \E n \in 0 .. MaxLen : resize(id, n) \/ truncate(id, n) \/ seek(id, n)

Spec == Init /\ [][Next]_trieVars

-----------------------------------------------------------------------------
(* Properties *)

Cell == (UNION {[1 .. n -> Bytes] : n \in 0 .. MaxLen}) \cup {Deleted}

HandleType == [state_entry_id: 0 .. MaxIds, key: Keys, cell: DOMAIN cells, offset: 0 .. MaxLen]

(* Every handle, in the hands of a user or in the queue of an iterator,    *)
(* refers to data, and delete_entry finds its key under its number.        *)
TypeOK ==
    /\ DOMAIN nodes \subseteq Keys
    /\ \A k \in DOMAIN nodes : nodes[k] \in DOMAIN cells
    /\ \A c \in DOMAIN cells : cells[c] \in Cell
    /\ \A id \in DOMAIN entries : /\ entries[id] \in HandleType
                                  /\ entries[id].state_entry_id = id
                                  /\ id \in DOMAIN entry_map
                                  /\ entry_map[id] = entries[id].key
    /\ \A i \in DOMAIN iterators : \A n \in DOMAIN iterators[i].queue :
         LET h == iterators[i].queue[n]
         IN  /\ h \in HandleType
             /\ h.state_entry_id \in DOMAIN entry_map
             /\ entry_map[h.state_entry_id] = h.key
    /\ \A i \in DOMAIN entry_map : i < next_entry_id
    /\ next_entry_id <= MaxIds

(* As long as an iterator lives, what it has still to visit is what the    *)
(* trie holds: no entry is removed, replaced or marked under it, and none  *)
(* is added behind its back, whatever other iterators are made, deleted or *)
(* overlap it, and whatever handles users hold.                            *)
IteratorsSeeTheTrie ==
    \A i \in DOMAIN iterators :
      LET queue == iterators[i].queue
          keys  == BelowPrefix(iterators[i].prefix)
          seen  == Len(keys) - Len(queue)
      IN  /\ seen >= 0
          /\ \A n \in DOMAIN queue : /\ queue[n].key = keys[seen + n]
                                     /\ queue[n].cell = nodes[queue[n].key]

(* "If `Some` is returned, it will _always_ be a                           *)
(* `TestStateEntryData::EntryExists(..)`" (trie.rs, Node::lookup): data    *)
(* that has been marked as deleted is no longer in the trie.               *)
LookupsExist == \A k \in DOMAIN nodes : cells[nodes[k]] # Deleted

(* Handles, queues and nodes refer to each other consistently: handles to  *)
(* their numbers and data, iterators to the nodes they have yet to visit,  *)
(* nodes to data that is not marked as deleted.                            *)
Consistent == TypeOK /\ LookupsExist /\ IteratorsSeeTheTrie

(* The trie does what HasStateApi promises: seen through its keys, the     *)
(* handles, the sharing of data and the numbering are invisible; a write   *)
(* through a handle that has been left behind changes nothing.             *)
Api == INSTANCE StateApi WITH
         Data     <- Cell \ {Deleted},
         contents <- [k \in DOMAIN nodes |-> cells[nodes[k]]],
         locks    <- [p \in Keys |->
                        Cardinality({i \in DOMAIN iterators : iterators[i].prefix = p})]

ImplementsApi == Api!ApiSpec

-----------------------------------------------------------------------------
(* The keys that TLC checks: the root, and a key with two extensions. *)
MCKeys == {<< >>, <<1>>, <<1, 1>>, <<1, 2>>}

=============================================================================
