----------------------------- MODULE StateBTree -----------------------------
(***************************************************************************)
(* The ordered containers of concordium-std: StateBTreeSet, a B-tree whose *)
(* nodes are entries of the contract's state, and StateBTreeMap, a         *)
(* StateMap beside such a set that gives the order of its keys.            *)
(*                                                                         *)
(* An operation is a loop that goes down the tree and repairs it on the    *)
(* way.  Each turn of a loop is a step here, with the place it has reached *)
(* in `op'.  Positions in nodes count from 1.  Values are left out: a map  *)
(* is the set of its keys.                                                 *)
(***************************************************************************)
EXTENDS Integers, Sequences, FiniteSets, SequencesExt

CONSTANTS
    Keys,      \* the keys, integers
    M,         \* the minimum degree of the tree
    MaxNodes,  \* bound: no insertion starts when so many nodes have been created
    None       \* Option::None

ASSUME DegreeAssumption == M \in Nat /\ M >= 2

ASSUME KeysAssumption == Keys \subseteq Int /\ None \notin Nat /\ None \notin Keys

VARIABLES
    kind,          \* what the contract holds: a "set" or a "map"
    nodes,         \* the entries of the nodes, by node id
    root,          \* the id of the root, or None
    len,
    next_node_id,
    key_value,     \* the keys of the StateMap in a map
    op,            \* the operation under way
    trapped,       \* history: a map found its two parts inconsistent
    elems          \* history: what the container should hold

vars == <<kind, nodes, root, len, next_node_id, key_value, op, trapped, elems>>

-----------------------------------------------------------------------------
(* Nodes *)

MAXIMUM_KEY_LEN == 2 * M - 1
MINIMUM_KEY_LEN == M - 1

Node(keys, children) == [keys |-> keys, children |-> children]

is_full(n)   == Len(n.keys) = MAXIMUM_KEY_LEN
is_leaf(n)   == n.children = <<>>
is_at_min(n) == Len(n.keys) = MINIMUM_KEY_LEN

\* binary_search: where a key is in a node, or would be.
HasKey(n, key) == \E i \in DOMAIN n.keys : n.keys[i] = key
Position(n, key) == Cardinality({i \in DOMAIN n.keys : n.keys[i] < key}) + 1

Without(ns, id) == [i \in DOMAIN ns \ {id} |-> ns[i]]
With(ns, id, n) == [i \in DOMAIN ns \cup {id} |-> IF i = id THEN n ELSE ns[i]]

\* The full child at position i of node id is split around its middle key,
\* which moves up; the larger half becomes node new.
split_child(ns, id, i, new) ==
    LET node  == ns[id]
        cid   == node.children[i]
        child == ns[cid]
        Part(from, to) == IF is_leaf(child) THEN <<>> ELSE SubSeq(child.children, from, to)
        left  == Node(SubSeq(child.keys, 1, M - 1), Part(1, M))
        right == Node(SubSeq(child.keys, M + 1, 2 * M - 1), Part(M + 1, 2 * M))
        above == Node(InsertAt(node.keys, i, child.keys[M]),
                      InsertAt(node.children, i + 1, new))
    IN  With([ns EXCEPT ![id] = above, ![cid] = left], new, right)

\* Mutant: the merged sibling's entry is not deleted.
merge_keeps_sibling(ns, id, i) ==
    LET node   == ns[id]
        cid    == node.children[i]
        larger == ns[node.children[i + 1]]
        child  == Node(ns[cid].keys \o <<node.keys[i]>> \o larger.keys,
                       ns[cid].children \o larger.children)
        above  == Node(RemoveAt(node.keys, i), RemoveAt(node.children, i + 1))
    IN  [ns EXCEPT ![id] = above, ![cid] = child]

\* The key at position i of node id moves down between its two children, which
\* become one.
merge(ns, id, i) ==
    LET node   == ns[id]
        cid    == node.children[i]
        larger == ns[node.children[i + 1]]
        child  == Node(ns[cid].keys \o <<node.keys[i]>> \o larger.keys,
                       ns[cid].children \o larger.children)
        above  == Node(RemoveAt(node.keys, i), RemoveAt(node.children, i + 1))
    IN  Without([ns EXCEPT ![id] = above, ![cid] = child], node.children[i + 1])

\* Mutant: the sibling's key goes to the child, past the parent's.
TakeFromSmaller_past_parent(ns, id, i) ==
    LET node    == ns[id]
        cid     == node.children[i]
        sid     == node.children[i - 1]
        sibling == ns[sid]
        child   == Node(<<Last(sibling.keys)>> \o ns[cid].keys,
                        IF is_leaf(ns[cid]) THEN <<>>
                        ELSE <<Last(sibling.children)>> \o ns[cid].children)
        spared  == Node(Front(sibling.keys),
                        IF is_leaf(ns[cid]) THEN sibling.children ELSE Front(sibling.children))
    IN  [ns EXCEPT ![cid] = child, ![sid] = spared]

\* A key of the sibling at position i - 1 moves to the child at position i,
\* through their parent.
TakeFromSmaller(ns, id, i) ==
    LET node    == ns[id]
        cid     == node.children[i]
        sid     == node.children[i - 1]
        sibling == ns[sid]
        child   == Node(<<node.keys[i - 1]>> \o ns[cid].keys,
                        IF is_leaf(ns[cid]) THEN <<>>
                        ELSE <<Last(sibling.children)>> \o ns[cid].children)
        spared  == Node(Front(sibling.keys),
                        IF is_leaf(ns[cid]) THEN sibling.children ELSE Front(sibling.children))
    IN  [ns EXCEPT ![id].keys[i - 1] = Last(sibling.keys), ![cid] = child, ![sid] = spared]

TakeFromLarger(ns, id, i) ==
    LET node    == ns[id]
        cid     == node.children[i]
        sid     == node.children[i + 1]
        sibling == ns[sid]
        child   == Node(Append(ns[cid].keys, node.keys[i]),
                        IF is_leaf(ns[cid]) THEN <<>>
                        ELSE Append(ns[cid].children, Head(sibling.children)))
        spared  == Node(Tail(sibling.keys),
                        IF is_leaf(ns[cid]) THEN sibling.children ELSE Tail(sibling.children))
    IN  [ns EXCEPT ![id].keys[i] = Head(sibling.keys), ![cid] = child, ![sid] = spared]

\* The child at position i of node id is made ready to lose a key; the answer
\* is the nodes and the id of the child to go on with.
prepare_child_for_key_removal(ns, id, i) ==
    LET children == ns[id].children
        Spares(j) == j \in DOMAIN children /\ ~ is_at_min(ns[children[j]])
    IN  CASE Spares(i) -> [nodes |-> ns, child |-> children[i]]
          [] ~ Spares(i) /\ Spares(i - 1) ->
               [nodes |-> TakeFromSmaller(ns, id, i), child |-> children[i]]
          [] ~ Spares(i) /\ ~ Spares(i - 1) /\ Spares(i + 1) ->
               [nodes |-> TakeFromLarger(ns, id, i), child |-> children[i]]
          [] OTHER ->
               IF i < Len(children) THEN [nodes |-> merge(ns, id, i), child |-> children[i]]
               ELSE [nodes |-> merge(ns, id, i - 1), child |-> children[i - 1]]

-----------------------------------------------------------------------------
(* Looking up *)

contains(key) ==
    LET in[id \in DOMAIN nodes] ==
            \/ HasKey(nodes[id], key)
            \/ /\ ~ is_leaf(nodes[id])
               /\ in[nodes[id].children[Position(nodes[id], key)]]
    IN  root # None /\ in[root]

\* Mutant: the key above the child is forgotten.
HigherIn_no_higher_so_far(key, skip) ==
    LET in[id \in DOMAIN nodes] ==
            LET n   == nodes[id]
                i   == Position(n, key) + (IF skip /\ HasKey(n, key) THEN 1 ELSE 0)
                far == IF i <= Len(n.keys) THEN n.keys[i] ELSE None
            IN  CASE ~ skip /\ HasKey(n, key) -> key
                  [] OTHER -> IF is_leaf(n) THEN far ELSE in[n.children[i]]
    IN  IF root = None THEN None ELSE in[root]

\* The loop of higher and eq_or_higher remembers the key above the child it
\* goes down to; skip says whether an equal key is passed over.
HigherIn(key, skip) ==
    LET in[id \in DOMAIN nodes] ==
            LET n   == nodes[id]
                i   == Position(n, key) + (IF skip /\ HasKey(n, key) THEN 1 ELSE 0)
                far == IF i <= Len(n.keys) THEN n.keys[i] ELSE None
                below == IF is_leaf(n) THEN None ELSE in[n.children[i]]
            IN  CASE ~ skip /\ HasKey(n, key) -> key
                  [] OTHER -> IF below = None THEN far ELSE below
    IN  IF root = None THEN None ELSE in[root]

higher(key)       == HigherIn(key, TRUE)
eq_or_higher(key) == HigherIn(key, FALSE)

LowerIn(key, skip) ==
    LET in[id \in DOMAIN nodes] ==
            LET n   == nodes[id]
                i   == Position(n, key)
                far == IF i > 1 THEN n.keys[i - 1] ELSE None
                below == IF is_leaf(n) THEN None ELSE in[n.children[i]]
            IN  CASE ~ skip /\ HasKey(n, key) -> key
                  [] OTHER -> IF below = None THEN far ELSE below
    IN  IF root = None THEN None ELSE in[root]

lower(key)       == LowerIn(key, TRUE)
eq_or_lower(key) == LowerIn(key, FALSE)

\* The first or last key of a subtree.
get_lowest_key(id) ==
    LET in[i \in DOMAIN nodes] ==
            IF is_leaf(nodes[i]) THEN nodes[i].keys[1] ELSE in[nodes[i].children[1]]
    IN  in[id]

get_highest_key(id) ==
    LET in[i \in DOMAIN nodes] ==
            IF is_leaf(nodes[i]) THEN Last(nodes[i].keys) ELSE in[Last(nodes[i].children)]
    IN  in[id]

first == IF root = None THEN None ELSE get_lowest_key(root)
last  == IF root = None THEN None ELSE get_highest_key(root)

-----------------------------------------------------------------------------
(* Operations.  op.call is what the map does with the answer of the set. *)

Idle == [at |-> "idle"]

Init ==
    /\ kind \in {"set", "map"}
    /\ nodes = <<>>
    /\ root = None
    /\ len = 0
    /\ next_node_id = 0
    /\ key_value = {}
    /\ op = Idle
    /\ trapped = FALSE
    /\ elems = {}

\* The set answers a map: insert and remove_and_get of the map take FALSE for
\* an inconsistency, remove goes on to remove the value.
Answer(call, key, found, kv) ==
    /\ op' = Idle
    /\ trapped' = (trapped \/ (call \in {"insert", "remove_and_get"} /\ ~ found))
    /\ key_value' = IF call = "remove" /\ found THEN kv \ {key} ELSE kv
    /\ UNCHANGED kind

create_node(ns, n) == With(ns, next_node_id, n)

\* insert of the set, until the loop of insert_non_full; kv is the map's
\* StateMap by now.
set_insert(key, call, kv) ==
    \/ /\ root = None
       /\ nodes' = create_node(nodes, Node(<<key>>, <<>>))
       /\ root' = next_node_id
       /\ next_node_id' = next_node_id + 1
       /\ len' = 1
       /\ Answer(call, key, TRUE, kv)
    \/ /\ root # None
       /\ ~ is_full(nodes[root])
       /\ op' = [at |-> "insert", key |-> key, node |-> root, call |-> call]
       /\ key_value' = kv
       /\ UNCHANGED <<kind, nodes, root, len, next_node_id, trapped>>
    \/ /\ root # None
       /\ is_full(nodes[root])
       /\ HasKey(nodes[root], key)
       /\ Answer(call, key, FALSE, kv)
       /\ UNCHANGED <<nodes, root, len, next_node_id>>
    \/ /\ root # None
       /\ is_full(nodes[root])
       /\ ~ HasKey(nodes[root], key)
       /\ nodes' = split_child(create_node(nodes, Node(<<>>, <<root>>)),
                               next_node_id, 1, next_node_id + 1)
       /\ root' = next_node_id
       /\ next_node_id' = next_node_id + 2
       /\ op' = [at |-> "insert", key |-> key, call |-> call,
                 node |-> IF nodes'[root'].keys[1] < key THEN next_node_id + 1 ELSE root]
       /\ key_value' = kv
       /\ UNCHANGED <<kind, len, trapped>>

\* One turn of the loop of insert_non_full.
insert_non_full ==
    /\ op.at = "insert"
    /\ LET n     == nodes[op.node]
           i     == Position(n, op.key)
           split == split_child(nodes, op.node, i, next_node_id)
       IN  \/ /\ HasKey(n, op.key)
              /\ Answer(op.call, op.key, FALSE, key_value)
              /\ UNCHANGED <<nodes, root, len, next_node_id>>
           \/ /\ ~ HasKey(n, op.key) /\ is_leaf(n)
              /\ nodes' = [nodes EXCEPT ![op.node].keys = InsertAt(n.keys, i, op.key)]
              /\ len' = len + 1
              /\ Answer(op.call, op.key, TRUE, key_value)
              /\ UNCHANGED <<root, next_node_id>>
           \/ /\ ~ HasKey(n, op.key) /\ ~ is_leaf(n)
              /\ ~ is_full(nodes[n.children[i]])
              /\ op' = [op EXCEPT !.node = n.children[i]]
              /\ UNCHANGED <<kind, nodes, root, len, next_node_id, key_value, trapped>>
           \/ /\ ~ HasKey(n, op.key) /\ ~ is_leaf(n)
              /\ is_full(nodes[n.children[i]])
              /\ nodes' = split
              /\ next_node_id' = next_node_id + 1
              /\ IF split[op.node].keys[i] = op.key
                 THEN Answer(op.call, op.key, FALSE, key_value)
                 ELSE /\ op' = [op EXCEPT !.node = IF split[op.node].keys[i] < op.key
                                                   THEN next_node_id ELSE n.children[i]]
                      /\ UNCHANGED <<kind, key_value, trapped>>
              /\ UNCHANGED <<root, len>>
    /\ UNCHANGED elems

\* remove of the set, until its loop.
set_remove(key, call, kv) ==
    \/ /\ root = None
       /\ Answer(call, key, FALSE, kv)
       /\ UNCHANGED <<nodes, root, len, next_node_id>>
    \/ /\ root # None
       /\ op' = [at |-> "remove", key |-> key, node |-> root, call |-> call]
       /\ key_value' = kv
       /\ UNCHANGED <<kind, nodes, root, len, next_node_id, trapped>>

\* What remove does after its loop has left the nodes ns.
RemoveEnds(ns, found) ==
    /\ len' = IF found THEN len - 1 ELSE len
    /\ \/ /\ found /\ len = 1
          /\ root' = None
          /\ nodes' = Without(ns, root)
       \/ /\ ~ (found /\ len = 1) /\ ns[root].keys = <<>>
          /\ root' = ns[root].children[1]
          /\ nodes' = Without(ns, root)
       \/ /\ ~ (found /\ len = 1) /\ ns[root].keys # <<>>
          /\ root' = root
          /\ nodes' = ns
    /\ Answer(op.call, op.key, found, key_value)
    /\ UNCHANGED next_node_id

GoesOn(ns, to) ==
    /\ nodes' = ns
    /\ op' = to
    /\ UNCHANGED <<kind, root, len, next_node_id, key_value, trapped>>

\* One turn of the loop of remove: the key is in this node ...
RemoveFound ==
    /\ op.at = "remove"
    /\ HasKey(nodes[op.node], op.key)
    /\ LET n     == nodes[op.node]
           i     == Position(n, op.key)
           Take(how, id) == [at |-> how, key |-> op.key, call |-> op.call, node |-> id,
                             into |-> op.node, index |-> i]
       IN  \/ /\ is_leaf(n)
              /\ RemoveEnds([nodes EXCEPT ![op.node].keys = RemoveAt(n.keys, i)], TRUE)
           \/ /\ ~ is_leaf(n)
              /\ ~ is_at_min(nodes[n.children[i]])
              /\ GoesOn(nodes, Take("largest", n.children[i]))
           \/ /\ ~ is_leaf(n)
              /\ is_at_min(nodes[n.children[i]])
              /\ ~ is_at_min(nodes[n.children[i + 1]])
              /\ GoesOn(nodes, Take("smallest", n.children[i + 1]))
           \/ /\ ~ is_leaf(n)
              /\ is_at_min(nodes[n.children[i]])
              /\ is_at_min(nodes[n.children[i + 1]])
              /\ GoesOn(merge(nodes, op.node, i), [op EXCEPT !.node = n.children[i]])
    /\ UNCHANGED elems

\* ... or it is not.
RemoveNotFound ==
    /\ op.at = "remove"
    /\ ~ HasKey(nodes[op.node], op.key)
    /\ LET n    == nodes[op.node]
           next == prepare_child_for_key_removal(nodes, op.node, Position(n, op.key))
       IN  \/ is_leaf(n) /\ RemoveEnds(nodes, FALSE)
           \/ ~ is_leaf(n) /\ GoesOn(next.nodes, [op EXCEPT !.node = next.child])
    /\ UNCHANGED elems

\* One turn of the loop of remove_largest_key or remove_smallest_key; the key
\* found, at the end of a leaf, replaces the removed one.
remove_extreme_key(end, rest, child) ==
    /\ LET n    == nodes[op.node]
           next == prepare_child_for_key_removal(nodes, op.node, child)
       IN  \/ /\ is_leaf(n)
              /\ RemoveEnds([nodes EXCEPT ![op.node].keys = rest,
                                          ![op.into].keys[op.index] = end], TRUE)
           \/ ~ is_leaf(n) /\ GoesOn(next.nodes, [op EXCEPT !.node = next.child])
    /\ UNCHANGED elems

remove_largest_key ==
    /\ op.at = "largest"
    /\ LET n == nodes[op.node]
       IN  remove_extreme_key(Last(n.keys), Front(n.keys), Len(n.children))

remove_smallest_key ==
    /\ op.at = "smallest"
    /\ LET n == nodes[op.node]
       IN  remove_extreme_key(Head(n.keys), Tail(n.keys), 1)

set_clear ==
    /\ root' = None
    /\ next_node_id' = 0
    /\ len' = 0
    /\ nodes' = <<>>

\* The contract calls an operation of its set ...
InsertInSet(key) ==
    /\ op = Idle /\ kind = "set"
    /\ next_node_id < MaxNodes
    /\ set_insert(key, "set", {})
    /\ elems' = elems \cup {key}

RemoveFromSet(key) ==
    /\ op = Idle /\ kind = "set"
    /\ set_remove(key, "set", {})
    /\ elems' = elems \ {key}

\* ... or of its map.
map_insert(key) ==
    /\ op = Idle /\ kind = "map"
    /\ next_node_id < MaxNodes
    /\ key \notin key_value
    /\ set_insert(key, "insert", key_value \cup {key})
    /\ elems' = elems \cup {key}

map_remove_and_get(key) ==
    /\ op = Idle /\ kind = "map"
    /\ key \in key_value
    /\ set_remove(key, "remove_and_get", key_value \ {key})
    /\ elems' = elems \ {key}

map_remove(key) ==
    /\ op = Idle /\ kind = "map"
    /\ set_remove(key, "remove", key_value)
    /\ elems' = elems \ {key}

\* clear, clear_flat and delete.
Clear ==
    /\ op = Idle
    /\ set_clear
    /\ key_value' = {}
    /\ elems' = {}
    /\ UNCHANGED <<kind, op, trapped>>

-----------------------------------------------------------------------------
(* The iterator: a stack of nodes with the position of their next key *)

iter ==
    /\ op = Idle
    /\ op' = [at |-> "iter", length |-> len, next_node |-> root, stack |-> <<>>, out |-> <<>>]
    /\ UNCHANGED <<kind, nodes, root, len, next_node_id, key_value, trapped, elems>>

\* The nodes from id down to the first leaf, each at its first key.
Leftmost(id) ==
    LET in[i \in DOMAIN nodes] ==
            <<[node |-> i, index |-> 1]>>
              \o (IF is_leaf(nodes[i]) THEN <<>> ELSE in[nodes[i].children[1]])
    IN  IF id = None THEN <<>> ELSE in[id]

\* Mutant: the child after a node's last key is not visited.
iter_next_drops_last_child ==
    /\ op.at = "iter"
    /\ LET stack == op.stack \o Leftmost(op.next_node)
           top   == Last(stack)
           n     == nodes[top.node]
           more  == top.index < Len(n.keys)
       IN  IF stack = <<>> THEN op' = Idle
           ELSE op' = [op EXCEPT
                         !.stack = IF more THEN Append(Front(stack), [top EXCEPT !.index = @ + 1])
                                   ELSE Front(stack),
                         !.length = @ - 1,
                         !.next_node = IF is_leaf(n) \/ ~ more THEN None
                                       ELSE n.children[top.index + 1],
                         !.out = Append(@, n.keys[top.index])]
    /\ UNCHANGED <<kind, nodes, root, len, next_node_id, key_value, trapped, elems>>

iter_next ==
    /\ op.at = "iter"
    /\ LET stack == op.stack \o Leftmost(op.next_node)
           top   == Last(stack)
           n     == nodes[top.node]
           rest  == IF top.index = Len(n.keys) THEN Front(stack)
                    ELSE Append(Front(stack), [top EXCEPT !.index = @ + 1])
       IN  \/ /\ stack = <<>>
              /\ op' = Idle
              /\ UNCHANGED trapped
           \/ /\ stack # <<>>
              /\ op' = [op EXCEPT
                          !.stack = rest, !.length = @ - 1,
                          !.next_node = IF is_leaf(n) THEN None ELSE n.children[top.index + 1],
                          !.out = Append(@, n.keys[top.index])]
              /\ trapped' = (trapped \/ (kind = "map" /\ n.keys[top.index] \notin key_value))
    /\ UNCHANGED <<kind, nodes, root, len, next_node_id, key_value, elems>>

Next ==
    \/ \E key \in Keys :
          \/ InsertInSet(key)
          \/ RemoveFromSet(key)
          \/ map_insert(key)
          \/ map_remove_and_get(key)
          \/ map_remove(key)
    \/ insert_non_full
    \/ RemoveFound
    \/ RemoveNotFound
    \/ remove_largest_key
    \/ remove_smallest_key
    \/ Clear
    \/ iter
    \/ iter_next

Spec == Init /\ [][Next]_vars

-----------------------------------------------------------------------------
(* Properties *)

Sorted(S) ==
    [i \in 1..Cardinality(S) |-> CHOOSE k \in S : Cardinality({l \in S : l < k}) = i - 1]

\* The keys below a node, in the order of a walk through the tree.
Walk(id) ==
    LET in[i \in DOMAIN nodes] ==
            LET n == nodes[i]
                Under(j) == IF is_leaf(n) THEN <<>> ELSE in[n.children[j]]
                upto[j \in Nat] == IF j = 0 THEN Under(1)
                                   ELSE upto[j - 1] \o <<n.keys[j]>> \o Under(j + 1)
            IN  upto[Len(n.keys)]
    IN  IF id = None THEN <<>> ELSE in[id]

\* The distance of a node from the leaves along its first children.
Height(id) ==
    LET in[i \in DOMAIN nodes] ==
            IF is_leaf(nodes[i]) THEN 0 ELSE 1 + in[nodes[i].children[1]]
    IN  in[id]

\* How often a node is the child of a node.
Parents(id) ==
    {p \in (DOMAIN nodes) \X (1..(2 * M)) :
        p[2] \in DOMAIN nodes[p[1]].children /\ nodes[p[1]].children[p[2]] = id}

\* The tree stays a B-tree also in the middle of an insertion or removal:
\* every node but the root has between M - 1 and 2M - 1 keys, an inner node
\* has one child more than keys, all children of a node are equally high, and
\* every entry is the root or the child of exactly one node, so no entry is
\* left behind and none is shared.  Splits, borrowing from either sibling,
\* merges and the replacement of the root all have to agree on this.
WellFormed ==
    /\ (root = None) = (DOMAIN nodes = {})
    /\ \A id \in DOMAIN nodes :
          LET n == nodes[id]
          IN  /\ Len(n.keys) <= MAXIMUM_KEY_LEN
              /\ id # root => Len(n.keys) >= MINIMUM_KEY_LEN
              /\ is_leaf(n) \/ Len(n.children) = Len(n.keys) + 1
              /\ \A c \in ToSet(n.children) :
                    c \in DOMAIN nodes /\ Height(c) = Height(n.children[1])
              /\ Cardinality(Parents(id)) = (IF id = root THEN 0 ELSE 1)
    /\ root # None /\ op = Idle => nodes[root].keys # <<>>

\* After every operation the tree holds, in order and once, the keys that were
\* inserted and not removed since; len counts them, and the two parts of a
\* map hold the same keys, so that it never traps for an inconsistency.
ContentsAgree ==
    op = Idle => /\ Walk(root) = Sorted(elems)
                 /\ len = Cardinality(elems)
                 /\ kind = "map" => key_value = elems /\ ~ trapped

\* Looking for a key or for its neighbours finds in the tree what it would
\* find in the sorted set, for keys that are present and for others.
LookupsAgree ==
    LET Least(S)    == IF S = {} THEN None ELSE CHOOSE k \in S : \A l \in S : k <= l
        Greatest(S) == IF S = {} THEN None ELSE CHOOSE k \in S : \A l \in S : k >= l
    IN  op = Idle =>
          /\ first = Least(elems) /\ last = Greatest(elems)
          /\ \A k \in Keys :
                /\ contains(k) = (k \in elems)
                /\ higher(k) = Least({e \in elems : e > k})
                /\ eq_or_higher(k) = Least({e \in elems : e >= k})
                /\ lower(k) = Greatest({e \in elems : e < k})
                /\ eq_or_lower(k) = Greatest({e \in elems : e <= k})

\* The iterator yields the keys in order without skipping any, its length is
\* what it has still to yield, and it ends when it has yielded all of them.
IterationOrdered ==
    op.at = "iter" =>
      /\ op.out = SubSeq(Sorted(elems), 1, Len(op.out))
      /\ op.length = Cardinality(elems) - Len(op.out)
      /\ (op.stack = <<>> /\ op.next_node = None) = (op.length = 0)

-----------------------------------------------------------------------------
(* What TLC checks.  The contract first inserts the keys of one of the         *)
(* prologues, after which a tree of the smallest degree has three levels and   *)
(* removals have inner nodes to borrow from and to merge, and then calls up to *)
(* MaxOps operations, any of them in any order.                                *)

CONSTANTS Prologues, MaxOps

VARIABLES
    todo,  \* what is left of the prologue
    ops    \* the operations called after it

MCPrologues == {<<>>, <<2, 3, 4, 5, 6, 7, 8, 9, 10, 11>>, <<11, 10, 2, 9, 3, 8, 4, 7, 5, 6>>}

MCInit == Init /\ todo \in Prologues /\ ops = 0

Prologue ==
    /\ todo # <<>>
    /\ \/ /\ InsertInSet(Head(todo)) \/ map_insert(Head(todo))
          /\ todo' = Tail(todo)
       \/ insert_non_full /\ UNCHANGED todo
    /\ UNCHANGED ops

AnyOperations ==
    /\ todo = <<>>
    /\ op = Idle => ops < MaxOps
    /\ Next
    /\ ops' = IF op = Idle THEN ops + 1 ELSE ops
    /\ UNCHANGED todo

MCNext == Prologue \/ AnyOperations

MCSpec == MCInit /\ [][MCNext]_<<vars, todo, ops>>

=============================================================================
