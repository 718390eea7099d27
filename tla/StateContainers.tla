--------------------------- MODULE StateContainers ---------------------------
(***************************************************************************)
(* StateBuilder, StateMap, StateSet and StateBox of concordium-std         *)
(* (impls.rs, types.rs), as a contract uses them: one map from keys to     *)
(* boxes, one set, and boxes that the contract holds itself.  They live in *)
(* one key-value state (contents), where an iterator locks a subtree, and  *)
(* cache values that are written when a handle is dropped.                 *)
(*                                                                         *)
(* The contract follows Rust's borrowing rules and the library's advice:   *)
(* it deletes the boxes it gets back, or keeps them.  A box is a           *)
(* StateBoxInner: a Reference, or Loaded with a value.                     *)
(***************************************************************************)
EXTENDS Naturals, Sequences, FiniteSetsExt

CONSTANTS
    MapKeys,     \* serialized keys of the map
    SetKeys,     \* serialized elements of the set
    Bytes,
    MaxSize,     \* bound on the bytes of the value of a box
    None,
    MaxPrefix,   \* bound on the prefixes given out
    MaxLocks     \* bound on the iterators that are never deleted

ASSUME ContainersAssumption ==
    /\ MapKeys \subseteq Nat /\ SetKeys \subseteq Nat
    /\ Bytes \subseteq Nat /\ {MaxSize, MaxPrefix, MaxLocks} \subseteq Nat

VARIABLES
    contents,   \* the state: data by key
    locks,      \* number of iterators by prefix
    map,        \* prefix of the map, or None
    set,        \* prefix of the set, or None
    boxes,      \* the boxes that the contract holds, by prefix
    borrow,     \* what borrows the map, or None
    set_iter,   \* what an iterator of the set has still to visit, or None
    trapped,    \* unwrap_abort or trap was called
    elems,      \* history: the box that was put at each key of the map
    members,    \* history: what was put into the set
    expected,   \* history: the value that was given to each box
    abandoned,  \* history: boxes that the contract has lost
    leaked,     \* history: iter_mut was called on the map in this execution
    kept        \* history: a removal from the map left the entry, being locked

vars == <<contents, locks, map, set, boxes, borrow, set_iter, trapped,
          elems, members, expected, abandoned, leaked, kept>>

ghosts == <<elems, members, expected, abandoned, leaked, kept>>

-----------------------------------------------------------------------------
(* Data *)

NEXT_ITEM_PREFIX_KEY == <<0>>
INITIAL_NEXT_ITEM_PREFIX == 2

ItemPrefixes == INITIAL_NEXT_ITEM_PREFIX .. MaxPrefix

(* The serialized values that a box can have *)
Values == UNION {[1 .. n -> Bytes] : n \in 1 .. MaxSize}

(* StateBoxInner *)
Inner == [loaded: BOOLEAN, value: Values \cup {<< >>}, modified: BOOLEAN]

(* What borrows the map, with the keys an iterator has still to visit and  *)
(* the item that is borrowed: StateRefMut or OccupiedEntry.                *)
Items   == [key: MapKeys, prefix: ItemPrefixes \cup {None}, inner: Inner, modified: BOOLEAN]
Borrows == [kind: {"iter", "iter_mut", "ref_mut", "entry"}, left: SUBSET MapKeys,
            item: Items \cup {None}]

ASSUME NoneAssumption ==
    /\ None \notin Nat /\ None \notin Items /\ None \notin Borrows
    /\ \A S \in SUBSET SetKeys : None # S

(* Keys of the state: of a box, and of what a map or a set has at k *)
BoxKey(p)      == <<p>>
EntryKey(p, k) == <<p, k>>

With(f, x, v) == [y \in DOMAIN f \cup {x} |-> IF y = x THEN v ELSE f[y]]

Without(f, S) == [y \in DOMAIN f \ S |-> f[y]]

(* A value is written with its length. *)
Serial(v) == <<Len(v)>> \o v

Deserial(data) == SubSeq(data, 2, data[1] + 1)

(* Written from the start of the entry, over what is there. *)
Over(data, new) == new \o SubSeq(data, Len(new) + 1, Len(data))

Reference == [loaded |-> FALSE, value |-> << >>, modified |-> FALSE]

Loaded(v, modified) == [loaded |-> TRUE, value |-> v, modified |-> modified]

(* The entries of a prefix.  They are visited in ascending order. *)
Below(prefix) == {k[2] : k \in {l \in DOMAIN contents : Len(l) = 2 /\ l[1] = prefix}}

Locked(prefix) == locks[prefix] > 0

(* The chain rolls back what the execution did, so nothing else matters.   *)
Traps ==
    /\ trapped' = TRUE
    /\ UNCHANGED <<contents, locks, map, set, boxes, borrow, set_iter>>
    /\ UNCHANGED ghosts

(* A step with unwrap_abort: without ok, it aborts. *)
Safely(ok, step) == IF ok THEN step /\ UNCHANGED trapped ELSE Traps

-----------------------------------------------------------------------------
(* StateBuilder *)

next_item_prefix ==
    IF NEXT_ITEM_PREFIX_KEY \in DOMAIN contents THEN contents[NEXT_ITEM_PREFIX_KEY][1]
                                                ELSE INITIAL_NEXT_ITEM_PREFIX

(* Mutant: the counter is not advanced. *)
get_and_update_item_prefix_stays == With(contents, NEXT_ITEM_PREFIX_KEY, <<next_item_prefix>>)

(* The state in which the next prefix has been taken. *)
get_and_update_item_prefix == With(contents, NEXT_ITEM_PREFIX_KEY, <<next_item_prefix + 1>>)

new_map ==
    /\ map = None /\ next_item_prefix <= MaxPrefix
    /\ contents' = get_and_update_item_prefix
    /\ map' = next_item_prefix
    /\ elems' = << >>
    /\ UNCHANGED <<locks, set, boxes, borrow, set_iter, trapped, members, expected, abandoned, leaked, kept>>

new_set ==
    /\ set = None /\ next_item_prefix <= MaxPrefix
    /\ contents' = get_and_update_item_prefix
    /\ set' = next_item_prefix
    /\ members' = {}
    /\ UNCHANGED <<locks, map, boxes, borrow, set_iter, trapped, elems, expected, abandoned, leaked, kept>>

(* A new box counts as modified. *)
new_box(v) ==
    LET p == next_item_prefix
    IN  /\ p <= MaxPrefix
        /\ contents' = With(get_and_update_item_prefix, BoxKey(p), Serial(v))
        /\ boxes' = With(boxes, p, Loaded(v, TRUE))
        /\ expected' = With(expected, p, v)
        /\ UNCHANGED <<locks, map, set, borrow, set_iter, trapped, elems, members, abandoned, leaked, kept>>

-----------------------------------------------------------------------------
(* StateBox *)

(* get_with_inner and ensure_cached *)
CanLoad(p, inner) == inner.loaded \/ BoxKey(p) \in DOMAIN contents

Cached(p, inner) == IF inner.loaded THEN inner ELSE Loaded(Deserial(contents[BoxKey(p)]), FALSE)

(* The state after the box is dropped. *)
DropBox(state, p, inner) ==
    IF inner.loaded /\ inner.modified /\ BoxKey(p) \in DOMAIN state
      THEN [state EXCEPT ![BoxKey(p)] = Over(@, Serial(inner.value))]
      ELSE state

(* The entry of a loaded box that is written on drop must exist. *)
CanDrop(p, inner) == inner.loaded /\ inner.modified => BoxKey(p) \in DOMAIN contents

box_get(p) ==
    Safely(CanLoad(p, boxes[p]),
       /\ boxes' = [boxes EXCEPT ![p] = Cached(p, @)]
       /\ UNCHANGED <<contents, locks, map, set, borrow, set_iter>>
       /\ UNCHANGED ghosts)

(* The contract gets a mutable reference, and assigns v to it. *)
box_get_mut(p, v) ==
    Safely(CanLoad(p, boxes[p]),
       /\ boxes' = [boxes EXCEPT ![p] = Loaded(v, TRUE)]
       /\ expected' = [expected EXCEPT ![p] = v]
       /\ UNCHANGED <<contents, locks, map, set, borrow, set_iter, elems,
                      members, abandoned, leaked, kept>>)

(* replace and update write at once. *)
box_update(p, v) ==
    Safely(BoxKey(p) \in DOMAIN contents,
       /\ contents' = [contents EXCEPT ![BoxKey(p)] = Over(@, Serial(v))]
       /\ boxes' = [boxes EXCEPT ![p] = Loaded(v, Cached(p, @).modified)]
       /\ expected' = [expected EXCEPT ![p] = v]
       /\ UNCHANGED <<locks, map, set, borrow, set_iter, elems, members, abandoned, leaked, kept>>)

box_delete(p) ==
    Safely(BoxKey(p) \in DOMAIN contents,
       /\ contents' = Without(contents, {BoxKey(p)})
       /\ boxes' = Without(boxes, {p})
       /\ expected' = Without(expected, {p})
       /\ UNCHANGED <<locks, map, set, borrow, set_iter, elems, members, abandoned, leaked, kept>>)

-----------------------------------------------------------------------------
(* StateMap *)

MapFree == map # None /\ borrow = None

At(k) == EntryKey(map, k)

(* The value p is moved in and dropped, a value that was there is returned. *)
insert(k, p) ==
    LET old == {contents[e][1] : e \in {At(k)} \cap DOMAIN contents}
    IN  /\ MapFree
        /\ Safely((old # {} \/ ~Locked(map)) /\ CanDrop(p, boxes[p]),
              /\ contents' = DropBox(With(contents, At(k), <<p>>), p, boxes[p])
              /\ boxes' = [q \in (DOMAIN boxes \ {p}) \cup old |->
                             IF q \in old THEN Reference ELSE boxes[q]]
              /\ elems' = With(elems, k, p)
              /\ UNCHANGED <<locks, map, set, borrow, set_iter, members,
                             expected, abandoned, leaked, kept>>)

(* That the entry could not be deleted is ignored. *)
remove_and_get(k) ==
    /\ MapFree
    /\ At(k) \in DOMAIN contents
    /\ contents' = IF Locked(map) THEN contents ELSE Without(contents, {At(k)})
    /\ boxes' = With(boxes, contents[At(k)][1], Reference)
    /\ elems' = Without(elems, {k})
    /\ kept' = (kept \/ Locked(map))
    /\ UNCHANGED <<locks, map, set, borrow, set_iter, trapped, members, expected, abandoned, leaked>>

(* remove_and_get, then the box is deleted. *)
remove(k) ==
    LET p == contents[At(k)][1]
    IN  /\ MapFree
        /\ At(k) \in DOMAIN contents
        /\ Safely(BoxKey(p) \in DOMAIN contents,
              /\ contents' = Without(contents, {BoxKey(p)} \cup IF Locked(map) THEN {} ELSE {At(k)})
              /\ elems' = Without(elems, {k})
              /\ expected' = Without(expected, {p})
              /\ kept' = (kept \/ Locked(map))
              /\ UNCHANGED <<locks, map, set, boxes, borrow, set_iter, members,
                             abandoned, leaked>>)

(* Keys of the map, and of the boxes that it refers to *)
MapEntries == {At(k) : k \in {l \in MapKeys : At(l) \in DOMAIN contents}}
Pointed    == {contents[e][1] : e \in MapEntries}

(* Mutant: clear_flat for a map whose values are boxes. *)
Cleared_flat == Without(contents, MapEntries)

(* The boxes are deleted while an iterator visits the map, then the map is.  *)
Cleared == Without(contents, MapEntries \cup {BoxKey(p) : p \in Pointed})

CanClear == ~Locked(map) /\ \A p \in Pointed : BoxKey(p) \in DOMAIN contents

clear ==
    /\ MapFree
    /\ Safely(CanClear,
          /\ contents' = Cleared
          /\ elems' = << >>
          /\ expected' = Without(expected, Pointed)
          /\ UNCHANGED <<locks, map, set, boxes, borrow, set_iter, members, abandoned, leaked, kept>>)

(* Deletable::delete: clear, and the map is consumed. *)
map_delete ==
    /\ MapFree
    /\ Safely(CanClear,
          /\ contents' = Cleared
          /\ map' = None
          /\ elems' = << >>
          /\ expected' = Without(expected, Pointed)
          /\ UNCHANGED <<locks, set, boxes, borrow, set_iter, members, abandoned, leaked, kept>>)

-----------------------------------------------------------------------------
(* Borrows of the map: iterators, StateRefMut and OccupiedEntry.  A        *)
(* borrowed item has a prefix once its value, a box, is in memory.         *)

Item(k, p, inner) == [key |-> k, prefix |-> p, inner |-> inner, modified |-> FALSE]

Borrow(kind, left, item) == [kind |-> kind, left |-> left, item |-> item]

(* An iterator for a prefix without entries locks nothing. *)
LockedBy(prefix) == IF Below(prefix) = {} THEN locks ELSE [locks EXCEPT ![prefix] = @ + 1]

iter ==
    /\ MapFree
    /\ locks' = LockedBy(map)
    /\ borrow' = Borrow("iter", Below(map), None)
    /\ UNCHANGED <<contents, map, set, boxes, set_iter, trapped>>
    /\ UNCHANGED ghosts

(* Mutant: like StateMapIterMut, without an implementation of Drop. *)
drop_iter_locked ==
    /\ borrow # None /\ borrow.kind = "iter"
    /\ borrow' = None
    /\ UNCHANGED <<contents, locks, map, set, boxes, set_iter, trapped>>
    /\ UNCHANGED ghosts

drop_iter ==
    /\ borrow # None /\ borrow.kind = "iter"
    /\ locks' = IF Below(map) = {} THEN locks ELSE [locks EXCEPT ![map] = @ - 1]
    /\ borrow' = None
    /\ UNCHANGED <<contents, map, set, boxes, set_iter, trapped>>
    /\ UNCHANGED ghosts

iter_mut ==
    /\ MapFree /\ locks[map] < MaxLocks
    /\ locks' = LockedBy(map)
    /\ leaked' = (leaked \/ Below(map) # {})
    /\ borrow' = Borrow("iter_mut", Below(map), None)
    /\ UNCHANGED <<contents, map, set, boxes, set_iter, trapped, elems, members, expected,
                   abandoned, kept>>

(* Of either iterator; the item of iter_mut is a StateRefMut. *)
next ==
    /\ borrow # None /\ borrow.kind \in {"iter", "iter_mut"}
    /\ borrow.left # {} /\ borrow.item = None
    /\ LET k == Min(borrow.left)
       IN  borrow' = Borrow(borrow.kind, borrow.left \ {k},
                            IF borrow.kind = "iter" THEN None ELSE Item(k, None, Reference))
    /\ UNCHANGED <<contents, locks, map, set, boxes, set_iter, trapped>>
    /\ UNCHANGED ghosts

(* StateMapIterMut has no Drop, so the subtree stays locked. *)
drop_iter_mut ==
    /\ borrow # None /\ borrow.kind = "iter_mut" /\ borrow.item = None
    /\ borrow' = None
    /\ UNCHANGED <<contents, locks, map, set, boxes, set_iter, trapped>>
    /\ UNCHANGED ghosts

(* StateRefMut: the value is not loaded. *)
get_mut(k) ==
    /\ MapFree /\ At(k) \in DOMAIN contents
    /\ borrow' = Borrow("ref_mut", {}, Item(k, None, Reference))
    /\ UNCHANGED <<contents, locks, map, set, boxes, set_iter, trapped>>
    /\ UNCHANGED ghosts

(* OccupiedEntry: the value, a box, is there, what is in it is not. *)
entry(k) ==
    /\ MapFree /\ At(k) \in DOMAIN contents
    /\ borrow' = Borrow("entry", {}, Item(k, contents[At(k)][1], Reference))
    /\ UNCHANGED <<contents, locks, map, set, boxes, set_iter, trapped>>
    /\ UNCHANGED ghosts

(* VacantEntry::insert.  The box lives on in the OccupiedEntry. *)
entry_insert(k, p) ==
    /\ MapFree /\ At(k) \notin DOMAIN contents
    /\ Safely(~Locked(map),
          /\ contents' = With(contents, At(k), <<p>>)
          /\ boxes' = Without(boxes, {p})
          /\ borrow' = Borrow("entry", {}, Item(k, p, boxes[p]))
          /\ elems' = With(elems, k, p)
          /\ UNCHANGED <<locks, map, set, set_iter, members, expected, abandoned, leaked, kept>>)

HasItem == borrow # None /\ borrow.item # None

(* The item once its value is in memory *)
LoadedItem ==
    LET it == borrow.item
    IN  IF it.prefix # None THEN it ELSE [it EXCEPT !.prefix = contents[At(it.key)][1]]

(* The contract gets a mutable reference to the box, and through it to its *)
(* value, and assigns v.                                                   *)
item_get_mut(v) ==
    LET it == LoadedItem
    IN  /\ HasItem
        /\ Safely(CanLoad(it.prefix, it.inner),
              /\ borrow' = [borrow EXCEPT !.item = [it EXCEPT !.inner = Loaded(v, TRUE),
                                                              !.modified = TRUE]]
              /\ expected' = [expected EXCEPT ![it.prefix] = v]
              /\ UNCHANGED <<contents, locks, map, set, boxes, set_iter, elems,
                             members, abandoned, leaked, kept>>)

(* The box p takes the place of the one in memory. *)
Swapped(it, p, modified) ==
    /\ borrow' = [borrow EXCEPT !.item = [it EXCEPT !.prefix = p, !.inner = boxes[p],
                                                    !.modified = modified]]
    /\ elems' = [elems EXCEPT ![it.key] = p]
    /\ UNCHANGED <<locks, map, set, set_iter, members, expected, leaked, kept>>

(* mem::replace on the mutable reference *)
item_swap(p) ==
    LET it == LoadedItem
    IN  /\ HasItem
        /\ Swapped(it, p, TRUE)
        /\ boxes' = With(Without(boxes, {p}), it.prefix, it.inner)
        /\ UNCHANGED <<contents, trapped, abandoned>>

(* The same by OccupiedEntry::modify, which stores the new box at once.    *)
entry_modify(p) ==
    LET it == LoadedItem
    IN  /\ HasItem /\ borrow.kind = "entry"
        /\ Swapped(it, p, it.modified)
        /\ contents' = [contents EXCEPT ![At(it.key)] = <<p>>]
        /\ boxes' = With(Without(boxes, {p}), it.prefix, it.inner)
        /\ UNCHANGED <<trapped, abandoned>>

(* StateRefMut::set.  The box that was there is dropped, and stays in the  *)
(* state.                                                                  *)
item_set(p) ==
    LET it == LoadedItem
    IN  /\ HasItem /\ borrow.kind # "entry"
        /\ Safely(CanDrop(it.prefix, it.inner),
              /\ Swapped(it, p, TRUE)
              /\ contents' = DropBox([contents EXCEPT ![At(it.key)] = <<p>>], it.prefix, it.inner)
              /\ boxes' = Without(boxes, {p})
              /\ abandoned' = abandoned \cup {it.prefix})

(* Mutant: the box in memory is dropped, its place is not stored. *)
drop_item_unstored ==
    LET it == borrow.item
    IN  /\ HasItem
        /\ Safely(CanDrop(it.prefix, it.inner),
              /\ contents' = DropBox(contents, it.prefix, it.inner)
              /\ borrow' = IF borrow.kind = "iter_mut" THEN [borrow EXCEPT !.item = None]
                                                       ELSE None
              /\ UNCHANGED <<locks, map, set, boxes, set_iter>>
              /\ UNCHANGED ghosts)

(* Drop: a StateRefMut stores a value that is in memory, an OccupiedEntry  *)
(* one that may have been modified.  Then the box is dropped.              *)
drop_item ==
    LET it     == borrow.item
        stores == IF borrow.kind = "entry" THEN it.modified ELSE it.prefix # None
        state  == IF stores THEN [contents EXCEPT ![At(it.key)] = <<it.prefix>>] ELSE contents
    IN  /\ HasItem
        /\ Safely(CanDrop(it.prefix, it.inner),
              /\ contents' = DropBox(state, it.prefix, it.inner)
              /\ borrow' = IF borrow.kind = "iter_mut" THEN [borrow EXCEPT !.item = None]
                                                       ELSE None
              /\ UNCHANGED <<locks, map, set, boxes, set_iter>>
              /\ UNCHANGED ghosts)

-----------------------------------------------------------------------------
(* StateSet *)

SetFree == set # None /\ set_iter = None

In(e) == EntryKey(set, e)

(* The result of creating the entry is ignored. *)
set_insert(e) ==
    /\ SetFree /\ In(e) \notin DOMAIN contents
    /\ contents' = IF Locked(set) THEN contents ELSE With(contents, In(e), << >>)
    /\ members' = members \cup {e}
    /\ UNCHANGED <<locks, map, set, boxes, borrow, set_iter, trapped, elems, expected,
                   abandoned, leaked, kept>>

set_remove(e) ==
    /\ SetFree /\ In(e) \in DOMAIN contents
    /\ Safely(~Locked(set),
          /\ contents' = Without(contents, {In(e)})
          /\ members' = members \ {e}
          /\ UNCHANGED <<locks, map, set, boxes, borrow, set_iter, elems, expected,
                         abandoned, leaked, kept>>)

SetCleared ==
    /\ contents' = Without(contents, {In(e) : e \in SetKeys})
    /\ members' = {}
    /\ UNCHANGED <<locks, map, boxes, borrow, set_iter, elems, expected, abandoned, leaked, kept>>

set_clear == SetFree /\ Safely(~Locked(set), SetCleared /\ UNCHANGED set)

set_delete == SetFree /\ Safely(~Locked(set), SetCleared /\ set' = None)

set_iterate ==
    /\ SetFree
    /\ locks' = LockedBy(set)
    /\ set_iter' = Below(set)
    /\ UNCHANGED <<contents, map, set, boxes, borrow, trapped>>
    /\ UNCHANGED ghosts

set_next ==
    /\ set_iter # None /\ set_iter # {}
    /\ set_iter' = set_iter \ {Min(set_iter)}
    /\ UNCHANGED <<contents, locks, map, set, boxes, borrow, trapped>>
    /\ UNCHANGED ghosts

drop_set_iter ==
    /\ set_iter # None
    /\ locks' = IF Below(set) = {} THEN locks ELSE [locks EXCEPT ![set] = @ - 1]
    /\ set_iter' = None
    /\ UNCHANGED <<contents, map, set, boxes, borrow, trapped>>
    /\ UNCHANGED ghosts

-----------------------------------------------------------------------------

Init ==
    /\ contents = << >>
    /\ locks = [p \in INITIAL_NEXT_ITEM_PREFIX .. MaxPrefix |-> 0]
    /\ map = None /\ set = None
    /\ boxes = << >>
    /\ borrow = None /\ set_iter = None
    /\ trapped = FALSE
    /\ elems = << >> /\ members = {} /\ expected = << >> /\ abandoned = {}
    /\ leaked = FALSE /\ kept = FALSE

(* An execution ends, and another begins: the boxes that the contract      *)
(* holds are dropped, and loaded by their prefixes.  No iterator survives. *)
reload ==
    /\ borrow = None /\ set_iter = None
    /\ Safely(\A p \in DOMAIN boxes : CanDrop(p, boxes[p]),
          /\ contents' = [k \in DOMAIN contents |->
                             IF Len(k) = 1 /\ k[1] \in DOMAIN boxes
                               THEN DropBox(contents, k[1], boxes[k[1]])[k]
                               ELSE contents[k]]
          /\ boxes' = [p \in DOMAIN boxes |-> Reference]
          /\ locks' = [p \in DOMAIN locks |-> 0]
          /\ leaked' = FALSE
          /\ UNCHANGED <<map, set, borrow, set_iter, elems, members, expected, abandoned, kept>>)

BoxStep ==
    \/ \E v \in Values : new_box(v)
    \/ \E p \in DOMAIN boxes :
         \/ box_get(p) \/ box_delete(p)
         \/ \E v \in Values : box_get_mut(p, v) \/ box_update(p, v)

MapStep ==
    \/ new_map \/ clear \/ map_delete
    \/ \E k \in MapKeys :
         \/ remove_and_get(k) \/ remove(k) \/ get_mut(k) \/ entry(k)
         \/ \E p \in DOMAIN boxes : insert(k, p) \/ entry_insert(k, p)

BorrowStep ==
    \/ iter \/ iter_mut \/ next \/ drop_iter \/ drop_iter_mut \/ drop_item
    \/ \E v \in Values : item_get_mut(v)
    \/ \E p \in DOMAIN boxes : item_swap(p) \/ entry_modify(p) \/ item_set(p)

SetStep ==
    \/ new_set \/ set_clear \/ set_delete \/ set_iterate \/ set_next \/ drop_set_iter
    \/ \E e \in SetKeys : set_insert(e) \/ set_remove(e)

(* What a contract makes of a map with an entry that it has removed is not *)
(* followed.                                                               *)
Next == ~trapped /\ ~kept /\ (BoxStep \/ MapStep \/ BorrowStep \/ SetStep \/ reload)

Spec == Init /\ [][Next]_vars

-----------------------------------------------------------------------------
(* Properties *)

Keys == {NEXT_ITEM_PREFIX_KEY} \cup {BoxKey(p) : p \in ItemPrefixes}
        \cup {EntryKey(p, k) : p \in ItemPrefixes, k \in MapKeys \cup SetKeys}

TypeOK ==
    /\ DOMAIN contents \subseteq Keys
    /\ locks \in [ItemPrefixes -> 0 .. MaxLocks + 1]
    /\ {map, set} \subseteq ItemPrefixes \cup {None}
    /\ DOMAIN boxes \subseteq ItemPrefixes /\ \A p \in DOMAIN boxes : boxes[p] \in Inner
    /\ borrow \in Borrows \cup {None}
    /\ set_iter # None => set_iter \subseteq SetKeys
    /\ trapped \in BOOLEAN

(* "Unwrapping is safe when only using the high-level API."                *)
(* (StateMap::clear, impls.rs:985): no operation of the containers aborts. *)
(* StateMap::iter_mut leaves the map locked, and then one does.            *)
NoTrap == ~trapped

(* No operation of the containers aborts, whatever containers are made and *)
(* deleted, boxes moved in and out of the map, and handles dropped late:   *)
(* except in an execution that has called StateMap::iter_mut, which leaves *)
(* the map locked.                                                         *)
TrapNeedsLeak == trapped => leaked

(* The map holds, at the keys that were inserted and not removed, the      *)
(* boxes that were put there; a box put into a borrowed item is stored     *)
(* when the item is dropped.                                               *)
MapAgrees ==
    map # None =>
      /\ {k \in MapKeys : At(k) \in DOMAIN contents} = DOMAIN elems
      /\ \A k \in DOMAIN elems :
           IF HasItem /\ borrow.item.key = k /\ borrow.item.prefix # None
             THEN borrow.item.prefix = elems[k]
             ELSE contents[At(k)] = <<elems[k]>>

SetAgrees == set # None => {e \in SetKeys : In(e) \in DOMAIN contents} = members

(* Where the box p is in memory *)
Handle(p) ==
    IF p \in DOMAIN boxes THEN boxes[p]
    ELSE IF HasItem /\ borrow.item.prefix = p THEN borrow.item.inner ELSE Reference

(* Whoever reads a box gets the last value that was given to it: the value *)
(* in memory, and after the handle is dropped, what was written then;      *)
(* leftovers of longer values do not matter.                               *)
BoxesAgree ==
    \A p \in DOMAIN expected :
      /\ BoxKey(p) \in DOMAIN contents
      /\ Handle(p).loaded => Handle(p).value = expected[p]
      /\ ~Handle(p).modified => Deserial(contents[BoxKey(p)]) = expected[p]

(* A map, a set and boxes hold what was put into them, though handles that *)
(* cache values are dropped late, moved and reloaded, until something is   *)
(* removed from a map that iter_mut has left locked: the map keeps its     *)
(* entry, and says nothing.                                                *)
ContentsAgree == ~kept => TypeOK /\ MapAgrees /\ SetAgrees /\ BoxesAgree

(* The state holds what the containers in use refer to, and nothing else:  *)
(* no entry of a map, set or box that was deleted, cleared or removed      *)
(* stays behind, and each box belongs either to the contract or to one key *)
(* of the map; unless something was removed from a locked map.             *)
NothingLeftBehind ==
    LET inMap == {elems[k] : k \in DOMAIN elems}
    IN  ~kept =>
          /\ DOMAIN expected = DOMAIN boxes \cup inMap \cup abandoned
          /\ DOMAIN boxes \cap inMap = {}
          /\ \A j, k \in DOMAIN elems : elems[j] = elems[k] => j = k
          /\ \A k \in DOMAIN contents :
               \/ k = NEXT_ITEM_PREFIX_KEY
               \/ Len(k) = 1 /\ k[1] \in DOMAIN expected
               \/ Len(k) = 2 /\ (\/ k[1] = map /\ k[2] \in DOMAIN elems
                                 \/ k[1] = set /\ k[2] \in members)

(* A prefix is given to one container only, also after the container that  *)
(* had it is gone, and in a later execution.                               *)
PrefixesDiffer ==
    /\ map = set => map = None
    /\ {map, set} \cap DOMAIN expected = {}
    /\ \A p \in ({map, set} \ {None}) \cup DOMAIN expected : p < next_item_prefix
=============================================================================
