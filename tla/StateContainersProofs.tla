----------------------- MODULE StateContainersProofs -----------------------
(***************************************************************************)
(* Maps, sets and boxes hold what was put into them, leave nothing behind  *)
(* and do not abort, for any keys, values and bounds, until a map that     *)
(* iter_mut has left locked is restructured.                               *)
(***************************************************************************)
EXTENDS StateContainers, SequenceTheorems, NaturalsInduction, WellFoundedInduction, TLAPS

-----------------------------------------------------------------------------
(* The inductive invariant *)

InMap == {elems[k] : k \in DOMAIN elems}

(* Prefixes in use were given out, each to one container. *)
PrefixInv ==
    /\ next_item_prefix \in Nat /\ next_item_prefix >= 2
    /\ {map, set} \subseteq ItemPrefixes \cup {None}
    /\ DOMAIN expected \subseteq ItemPrefixes
    /\ PrefixesDiffer

(* A box is the contract's, at one key of the map, or lost. *)
OwnerInv ==
    /\ DOMAIN elems \subseteq MapKeys /\ members \subseteq SetKeys
    /\ (map = None => DOMAIN elems = {}) /\ (set = None => members = {})
    /\ DOMAIN expected = DOMAIN boxes \cup InMap \cup abandoned
    /\ DOMAIN boxes \cap InMap = {}
    /\ abandoned \cap (DOMAIN boxes \cup InMap) = {}
    /\ \A j, k \in DOMAIN elems : elems[j] = elems[k] => j = k

(* The state has what the containers refer to, and the counter. *)
PlaceInv ==
    /\ \A p \in DOMAIN expected : BoxKey(p) \in DOMAIN contents
    /\ \A k \in DOMAIN elems : EntryKey(map, k) \in DOMAIN contents
    /\ \A e \in members : EntryKey(set, e) \in DOMAIN contents
    /\ \A x \in DOMAIN contents :
         \/ x = NEXT_ITEM_PREFIX_KEY
         \/ \E p \in DOMAIN expected : x = BoxKey(p)
         \/ \E k \in DOMAIN elems : x = EntryKey(map, k)
         \/ \E e \in members : x = EntryKey(set, e)

(* A box is modified only in memory. *)
Sound(inner) == inner \in Inner /\ (inner.modified => inner.loaded)

(* What borrows the map refers to what the map has. *)
BorrowInv ==
    /\ borrow \in Borrows \cup {None}
    /\ set_iter # None => set_iter \subseteq SetKeys
    /\ borrow # None =>
         /\ map # None
         /\ borrow.left \subseteq DOMAIN elems
         /\ borrow.kind = "iter" => borrow.item = None
    /\ HasItem =>
         /\ borrow.item.key \in DOMAIN elems
         /\ Sound(borrow.item.inner)
         /\ borrow.item.prefix = None => borrow.item.inner = Reference
         /\ borrow.kind = "entry" =>
              /\ borrow.item.prefix # None
              /\ ~borrow.item.modified => contents[At(borrow.item.key)] = <<borrow.item.prefix>>

(* Where the map has its boxes: at most one is in memory. *)
StoredInv ==
    \A k \in DOMAIN elems :
      IF HasItem /\ borrow.item.key = k /\ borrow.item.prefix # None
        THEN borrow.item.prefix = elems[k]
        ELSE contents[EntryKey(map, k)] = <<elems[k]>>

(* The value v is what is in memory, and unless it was modified there, what the state has. *)
Fits(inner, data, v) ==
    /\ inner.loaded => inner.value = v
    /\ ~inner.modified => Deserial(data) = v

ValueInv ==
    /\ \A p \in DOMAIN boxes : Sound(boxes[p])
    /\ \A p \in DOMAIN expected :
         /\ expected[p] \in Values
         /\ contents[BoxKey(p)] \in Seq(Nat)
         /\ Fits(Handle(p), contents[BoxKey(p)], expected[p])

(* Iterators that lock the map and will unlock it *)
IterLocks == IF borrow # None /\ borrow.kind = "iter" /\ DOMAIN elems # {} THEN 1 ELSE 0

LockInv ==
    /\ locks \in [ItemPrefixes -> 0 .. MaxLocks + 1]
    /\ \A p \in ItemPrefixes : p >= next_item_prefix => locks[p] = 0
    /\ map # None => /\ locks[map] - IterLocks \in 0 .. MaxLocks
                     /\ ~leaked => locks[map] = IterLocks
    /\ set # None => locks[set] = IF set_iter # None /\ members # {} THEN 1 ELSE 0
    /\ set = None => set_iter = None

ContainersInv ==
    /\ trapped = FALSE
    /\ PrefixInv /\ OwnerInv /\ PlaceInv /\ BorrowInv /\ StoredInv /\ ValueInv /\ LockInv

-----------------------------------------------------------------------------
(* Keys and values *)

(* The keys of the containers differ. *)
LEMMA KeyFacts ==
    /\ \A p, q : BoxKey(p) = BoxKey(q) => p = q
    /\ \A p, q, k, l : EntryKey(p, k) = EntryKey(q, l) => p = q /\ k = l
    /\ \A p, q, k : BoxKey(p) # EntryKey(q, k)
    /\ \A p : p # 0 => BoxKey(p) # NEXT_ITEM_PREFIX_KEY
    /\ \A p, k : EntryKey(p, k) # NEXT_ITEM_PREFIX_KEY
    /\ \A p : Len(BoxKey(p)) = 1 /\ BoxKey(p)[1] = p
    /\ \A p, k : Len(EntryKey(p, k)) = 2 /\ EntryKey(p, k)[1] = p /\ EntryKey(p, k)[2] = k
    /\ Len(NEXT_ITEM_PREFIX_KEY) = 1 /\ NEXT_ITEM_PREFIX_KEY[1] = 0
  BY DEF BoxKey, EntryKey, NEXT_ITEM_PREFIX_KEY

(* Values are sequences of numbers, not longer than MaxSize. *)
LEMMA ValuesAreSeqs == \A v \in Values : v \in Seq(Nat) /\ Len(v) \in Nat
<1> SUFFICES ASSUME NEW v \in Values PROVE v \in Seq(Nat)
  BY LenProperties
<1>1. PICK n \in 1 .. MaxSize : v \in [1 .. n -> Bytes]
  BY DEF Values
<1>2. n \in Nat /\ Bytes \subseteq Nat
  BY ContainersAssumption
<1>3. v \in [1 .. n -> Nat]
  BY <1>1, <1>2
<1> QED
  BY <1>2, <1>3, IsASeq

(* What is written over an entry is read back, whatever was there. *)
LEMMA ReadBack ==
    ASSUME NEW v \in Values, NEW d \in Seq(Nat)
    PROVE  Over(d, Serial(v)) \in Seq(Nat) /\ Deserial(Over(d, Serial(v))) = v
<1> DEFINE rest == SubSeq(d, Len(Serial(v)) + 1, Len(d))
           s == <<Len(v)>> \o v
           t == s \o rest
<1>1. v \in Seq(Nat) /\ Len(v) \in Nat /\ Len(d) \in Nat
  BY ValuesAreSeqs, LenProperties
<1>2. s \in Seq(Nat) /\ Len(s) = 1 + Len(v)
  BY <1>1
<1>2a. s[1] = Len(v) /\ \A n \in 1 .. Len(v) : s[n + 1] = v[n]
  BY <1>1
<1>3. rest \in Seq(Nat)
  <2>1. Len(Serial(v)) = 1 + Len(v)
    BY <1>2 DEF Serial
  <2>2. \A n \in (1 + Len(v)) + 1 .. Len(d) : d[n] \in Nat
    BY <1>1, ElementOfSeq
  <2> QED
    BY <1>1, <2>1, <2>2, SubSeqProperties
<1> HIDE DEF rest, s
<1>4. t \in Seq(Nat) /\ Len(t) = Len(s) + Len(rest) /\ Len(t) \in Nat /\ Len(rest) \in Nat
  BY <1>2, <1>3, ConcatProperties, LenProperties
<1>5. \A n \in 1 .. Len(s) : t[n] = s[n]
  BY <1>2, <1>3, ConcatProperties
<1>6. t = Over(d, Serial(v))
  BY DEF Over, Serial, s, rest
<1> HIDE DEF t
<1>7. t[1] = Len(v)
  BY <1>1, <1>2, <1>2a, <1>5
<1> DEFINE u == SubSeq(t, 2, Len(v) + 1)
<1>8. /\ u \in Seq(Nat) /\ Len(u) = IF 2 <= Len(v) + 1 THEN Len(v) + 1 - 2 + 1 ELSE 0
      /\ \A n \in 1 .. Len(v) + 1 - 2 + 1 : u[n] = t[2 + n - 1]
  <2>0. \A n \in 2 .. Len(v) + 1 : n \in 1 .. Len(t)
    BY <1>1, <1>2, <1>4
  <2>1. \A n \in 2 .. Len(v) + 1 : t[n] \in Nat
    BY <1>4, <2>0, ElementOfSeq
  <2> QED
    BY <1>1, <1>4, <2>1, SubSeqProperties
<1>9. Len(u) = Len(v) /\ \A n \in 1 .. Len(v) : u[n] = v[n]
  BY <1>1, <1>2, <1>2a, <1>5, <1>8
<1> HIDE DEF u
<1>10. u = v
  BY <1>1, <1>8, <1>9, SeqEqual
<1> QED
  BY <1>4, <1>6, <1>7, <1>10 DEF Deserial, u

(* So is what is written to a new entry. *)
LEMMA ReadNew ==
    ASSUME NEW v \in Values
    PROVE  Serial(v) \in Seq(Nat) /\ Deserial(Serial(v)) = v
<1>1. << >> \in Seq(Nat)
  OBVIOUS
<1>2. v \in Seq(Nat) /\ Len(v) \in Nat
  BY ValuesAreSeqs
<1>3. Serial(v) \in Seq(Nat) /\ Len(Serial(v)) = 1 + Len(v)
  BY <1>2 DEF Serial
<1>4. SubSeq(<< >>, Len(Serial(v)) + 1, Len(<< >>)) = << >>
  BY <1>2, <1>3
<1>5. Over(<< >>, Serial(v)) = Serial(v)
  BY <1>3, <1>4, ConcatEmptySeq DEF Over
<1> QED
  BY <1>1, <1>5, ReadBack, <1>3

-----------------------------------------------------------------------------
(* What follows from the invariant in one state *)

(* Prefixes are numbers. *)
LEMMA PrefixFacts ==
    /\ ItemPrefixes \subseteq Nat
    /\ \A p \in ItemPrefixes : p >= 2 /\ p # 0 /\ p # None /\ p <= MaxPrefix
    /\ \A p \in Nat : p >= 2 /\ p <= MaxPrefix => p \in ItemPrefixes
  BY ContainersAssumption, NoneAssumption DEF ItemPrefixes, INITIAL_NEXT_ITEM_PREFIX

(* The state has an entry of the map for the keys that it holds. *)
LEMMA MapEntry ==
    ASSUME ContainersInv, map # None, NEW k
    PROVE  At(k) \in DOMAIN contents <=> k \in DOMAIN elems
<1>1. \A p \in DOMAIN expected : p # map
  BY DEF ContainersInv, PrefixInv, PrefixesDiffer
<1>2. map # set
  BY DEF ContainersInv, PrefixInv, PrefixesDiffer
<1> QED
  BY <1>1, <1>2, KeyFacts DEF ContainersInv, PlaceInv, At

(* And of the set *)
LEMMA SetEntry ==
    ASSUME ContainersInv, set # None, NEW e
    PROVE  In(e) \in DOMAIN contents <=> e \in members
<1>1. \A p \in DOMAIN expected : p # set
  BY DEF ContainersInv, PrefixInv, PrefixesDiffer
<1>2. map # set
  BY DEF ContainersInv, PrefixInv, PrefixesDiffer
<1> QED
  BY <1>1, <1>2, KeyFacts DEF ContainersInv, PlaceInv, In

(* An iterator of a map finds its keys. *)
LEMMA BelowMap ==
    ASSUME ContainersInv, map # None
    PROVE  Below(map) = DOMAIN elems
<1>1. ASSUME NEW x \in DOMAIN contents, Len(x) = 2, x[1] = map
      PROVE  x[2] \in DOMAIN elems
  BY <1>1, KeyFacts DEF ContainersInv, PlaceInv, PrefixInv, PrefixesDiffer
<1>2. ASSUME NEW k \in DOMAIN elems
      PROVE  \E x \in DOMAIN contents : Len(x) = 2 /\ x[1] = map /\ x[2] = k
  BY <1>2, KeyFacts DEF ContainersInv, PlaceInv
<1> QED
  BY <1>1, <1>2 DEF Below

(* An iterator of a set finds its elements. *)
LEMMA BelowSet ==
    ASSUME ContainersInv, set # None
    PROVE  Below(set) = members
<1>1. ASSUME NEW x \in DOMAIN contents, Len(x) = 2, x[1] = set
      PROVE  x[2] \in members
  BY <1>1, KeyFacts DEF ContainersInv, PlaceInv, PrefixInv, PrefixesDiffer
<1>2. ASSUME NEW e \in members
      PROVE  \E x \in DOMAIN contents : Len(x) = 2 /\ x[1] = set /\ x[2] = e
  BY <1>2, KeyFacts DEF ContainersInv, PlaceInv
<1> QED
  BY <1>1, <1>2 DEF Below

(* A map that is not borrowed has its boxes in the state. *)
LEMMA FreeMap ==
    ASSUME ContainersInv, MapFree
    PROVE  /\ map \in ItemPrefixes /\ map # None /\ ~HasItem
           /\ \A k \in DOMAIN elems : contents[At(k)] = <<elems[k]>> /\ contents[At(k)][1] = elems[k]
           /\ IterLocks = 0
           /\ ~leaked => ~Locked(map)
<1>1. map \in ItemPrefixes /\ map # None /\ ~HasItem /\ borrow = None
  BY DEF ContainersInv, PrefixInv, MapFree, HasItem
<1>2. \A k \in DOMAIN elems : contents[At(k)] = <<elems[k]>>
  BY <1>1 DEF ContainersInv, StoredInv, At
<1>3. IterLocks = 0
  BY <1>1 DEF IterLocks
<1>4. ~leaked => ~Locked(map)
  BY <1>1, <1>3 DEF Locked, ContainersInv, LockInv
<1> QED
  BY <1>1, <1>2, <1>3, <1>4

(* The counter is what it was when its entry is. *)
LEMMA CounterStays ==
    ASSUME NEXT_ITEM_PREFIX_KEY \in DOMAIN contents <=> (NEXT_ITEM_PREFIX_KEY \in DOMAIN contents)',
           NEXT_ITEM_PREFIX_KEY \in DOMAIN contents =>
             contents'[NEXT_ITEM_PREFIX_KEY] = contents[NEXT_ITEM_PREFIX_KEY]
    PROVE  next_item_prefix' = next_item_prefix
  BY DEF next_item_prefix, NEXT_ITEM_PREFIX_KEY

-----------------------------------------------------------------------------
(* Steps that leave the state and the boxes alone *)

StateStays == UNCHANGED <<contents, map, set, boxes, elems, members, expected, abandoned, trapped>>

LEMMA StateStaysFacts ==
    ASSUME ContainersInv, StateStays
    PROVE  (trapped = FALSE)' /\ PrefixInv' /\ OwnerInv' /\ PlaceInv'
           /\ next_item_prefix' = next_item_prefix
<1>1. next_item_prefix' = next_item_prefix
  BY DEF StateStays, next_item_prefix
<1>2. PrefixInv' /\ (trapped = FALSE)'
  BY <1>1 DEF StateStays, ContainersInv, PrefixInv, PrefixesDiffer
<1>3. OwnerInv'
  BY DEF StateStays, ContainersInv, OwnerInv, InMap
<1>4. PlaceInv'
  BY DEF StateStays, ContainersInv, PlaceInv
<1> QED
  BY <1>1, <1>2, <1>3, <1>4

(* The values are where they were when no box in memory moves. *)
LEMMA ValuesStay ==
    ASSUME ContainersInv, StateStays,
           ~HasItem \/ borrow.item.prefix = None \/ UNCHANGED borrow,
           HasItem' => \/ (borrow.item.prefix = None)'
                       \/ (borrow.item.inner = Reference)'
                       \/ UNCHANGED borrow
    PROVE  ValueInv'
<1>1. ASSUME NEW p \in DOMAIN expected
      PROVE  Handle(p)' = Handle(p)
  <2>0. p # None
    BY PrefixFacts DEF ContainersInv, PrefixInv
  <2>1. CASE UNCHANGED borrow
    BY <2>1 DEF Handle, HasItem, StateStays
  <2>2. CASE ~UNCHANGED borrow
    BY <2>0, <2>2 DEF Handle, HasItem, StateStays, Reference
  <2> QED
    BY <2>1, <2>2
<1> QED
  BY <1>1 DEF StateStays, ContainersInv, ValueInv

(* The set is not concerned. *)
LEMMA SetLocksStay ==
    ASSUME ContainersInv, StateStays, UNCHANGED <<locks, leaked, set_iter>>,
           IterLocks' = IterLocks
    PROVE  LockInv'
<1>1. next_item_prefix' = next_item_prefix
  BY StateStaysFacts
<1> QED
  BY <1>1 DEF StateStays, ContainersInv, LockInv

(* An iterator over the map starts. *)
LEMMA IterStep == ASSUME ContainersInv, iter PROVE ContainersInv'
<1>1. /\ StateStays /\ UNCHANGED <<leaked, set_iter>> /\ MapFree
      /\ locks' = LockedBy(map) /\ borrow' = Borrow("iter", DOMAIN elems, None)
  BY BelowMap DEF iter, ghosts, StateStays, MapFree
<1>2. /\ borrow' \in Borrows /\ borrow'.left = DOMAIN elems /\ borrow'.item = None
      /\ borrow'.kind = "iter" /\ ~HasItem' /\ borrow' # None
  <2>1. DOMAIN elems \subseteq MapKeys
    BY DEF ContainersInv, OwnerInv
  <2> QED
    BY <1>1, <2>1, NoneAssumption DEF Borrow, Borrows, HasItem
<1>3. BorrowInv'
  BY <1>1, <1>2 DEF ContainersInv, BorrowInv, StateStays, MapFree
<1>4. ~HasItem /\ StoredInv'
  BY <1>1, <1>2, FreeMap DEF ContainersInv, StoredInv, StateStays, At
<1>5. ValueInv'
  BY <1>1, <1>2, <1>4, ValuesStay
<1>6. LockInv'
  <2>1. /\ next_item_prefix' = next_item_prefix /\ map \in ItemPrefixes /\ IterLocks = 0
        /\ map < next_item_prefix /\ map # set /\ next_item_prefix \in Nat
    BY <1>1, FreeMap, StateStaysFacts DEF ContainersInv, PrefixInv, PrefixesDiffer
  <2>2. IterLocks' = IF DOMAIN elems # {} THEN 1 ELSE 0
    BY <1>1, <1>2 DEF IterLocks, StateStays
  <2>3. locks' = IF DOMAIN elems # {} THEN [locks EXCEPT ![map] = @ + 1] ELSE locks
    BY <1>1, BelowMap DEF LockedBy, MapFree
  <2>4. locks[map] \in 0 .. MaxLocks /\ MaxLocks \in Nat
    BY <1>1, <2>1, ContainersAssumption DEF ContainersInv, LockInv, MapFree
  <2>5. locks \in [ItemPrefixes -> 0 .. MaxLocks + 1]
    BY DEF ContainersInv, LockInv
  <2>6. /\ locks' \in [ItemPrefixes -> 0 .. MaxLocks + 1]
        /\ locks'[map] = locks[map] + IF DOMAIN elems # {} THEN 1 ELSE 0
        /\ \A p \in ItemPrefixes : p # map => locks'[p] = locks[p]
    BY <2>1, <2>3, <2>4, <2>5
  <2>7. \A p \in ItemPrefixes : p >= next_item_prefix => locks'[p] = 0
    BY <2>1, <2>6, PrefixFacts DEF ContainersInv, LockInv
  <2>8. set # None => set \in ItemPrefixes
    BY DEF ContainersInv, PrefixInv
  <2> QED
    BY <1>1, <2>1, <2>2, <2>4, <2>6, <2>7, <2>8 DEF ContainersInv, LockInv, StateStays
<1> QED
  BY <1>1, <1>3, <1>4, <1>5, <1>6, StateStaysFacts DEF ContainersInv

(* It ends, and unlocks what it locked. *)
LEMMA DropIterStep == ASSUME ContainersInv, drop_iter PROVE ContainersInv'
<1>1. /\ StateStays /\ UNCHANGED <<leaked, set_iter>> /\ borrow # None /\ borrow.kind = "iter"
      /\ map # None /\ borrow.item = None /\ borrow' = None /\ ~HasItem /\ ~HasItem'
  BY DEF drop_iter, ghosts, StateStays, HasItem, ContainersInv, BorrowInv
<1>3. BorrowInv'
  BY <1>1, NoneAssumption DEF ContainersInv, BorrowInv, StateStays
<1>4. StoredInv'
  BY <1>1 DEF ContainersInv, StoredInv, StateStays
<1>5. ValueInv'
  BY <1>1, ValuesStay
<1>6. LockInv'
  <2>1. /\ next_item_prefix' = next_item_prefix /\ map \in ItemPrefixes
        /\ map # set /\ map < next_item_prefix /\ next_item_prefix \in Nat
    BY <1>1, StateStaysFacts DEF ContainersInv, PrefixInv, PrefixesDiffer
  <2>2. IterLocks' = 0 /\ IterLocks = IF DOMAIN elems # {} THEN 1 ELSE 0
    BY <1>1 DEF IterLocks
  <2>3. locks' = IF DOMAIN elems # {} THEN [locks EXCEPT ![map] = @ - 1] ELSE locks
    BY <1>1, BelowMap DEF drop_iter
  <2>4. locks[map] - IterLocks \in 0 .. MaxLocks /\ locks[map] \in Nat /\ MaxLocks \in Nat
    BY <1>1, <2>1, ContainersAssumption DEF ContainersInv, LockInv
  <2> QED
    BY <1>1, <2>1, <2>2, <2>3, <2>4, PrefixFacts DEF ContainersInv, LockInv, StateStays
<1> QED
  BY <1>1, <1>3, <1>4, <1>5, <1>6, StateStaysFacts DEF ContainersInv

(* An iterator that leaves the map locked starts. *)
LEMMA IterMutStep == ASSUME ContainersInv, iter_mut PROVE ContainersInv'
<1>1. /\ StateStays /\ UNCHANGED set_iter /\ MapFree /\ locks[map] < MaxLocks
      /\ leaked' = (leaked \/ DOMAIN elems # {})
      /\ locks' = LockedBy(map) /\ borrow' = Borrow("iter_mut", DOMAIN elems, None)
  BY BelowMap DEF iter_mut, StateStays, MapFree
<1>2. /\ borrow' \in Borrows /\ borrow'.left = DOMAIN elems /\ borrow'.item = None
      /\ borrow'.kind = "iter_mut" /\ ~HasItem' /\ borrow' # None
  <2>1. DOMAIN elems \subseteq MapKeys
    BY DEF ContainersInv, OwnerInv
  <2> QED
    BY <1>1, <2>1, NoneAssumption DEF Borrow, Borrows, HasItem
<1>3. BorrowInv'
  BY <1>1, <1>2 DEF ContainersInv, BorrowInv, StateStays, MapFree
<1>4. ~HasItem /\ StoredInv'
  BY <1>1, <1>2, FreeMap DEF ContainersInv, StoredInv, StateStays, At
<1>5. ValueInv'
  BY <1>1, <1>2, <1>4, ValuesStay
<1>6. LockInv'
  <2>1. /\ next_item_prefix' = next_item_prefix /\ map \in ItemPrefixes /\ IterLocks = 0
        /\ map < next_item_prefix /\ map # set /\ next_item_prefix \in Nat
    BY <1>1, FreeMap, StateStaysFacts DEF ContainersInv, PrefixInv, PrefixesDiffer
  <2>2. IterLocks' = 0
    BY <1>2 DEF IterLocks
  <2>3. locks' = IF DOMAIN elems # {} THEN [locks EXCEPT ![map] = @ + 1] ELSE locks
    BY <1>1, BelowMap DEF LockedBy, MapFree
  <2>4. locks[map] \in 0 .. MaxLocks /\ MaxLocks \in Nat
    BY <1>1, <2>1, ContainersAssumption DEF ContainersInv, LockInv, MapFree
  <2>5. locks \in [ItemPrefixes -> 0 .. MaxLocks + 1]
    BY DEF ContainersInv, LockInv
  <2>6. /\ locks' \in [ItemPrefixes -> 0 .. MaxLocks + 1]
        /\ locks'[map] = locks[map] + IF DOMAIN elems # {} THEN 1 ELSE 0
        /\ \A p \in ItemPrefixes : p # map => locks'[p] = locks[p]
    BY <2>1, <2>3, <2>4, <2>5
  <2>7. \A p \in ItemPrefixes : p >= next_item_prefix => locks'[p] = 0
    BY <2>1, <2>6, PrefixFacts DEF ContainersInv, LockInv
  <2>8. set # None => set \in ItemPrefixes
    BY DEF ContainersInv, PrefixInv
  <2>9. ~leaked' => ~leaked /\ DOMAIN elems = {}
    BY <1>1
  <2>10. locks'[map] \in 0 .. MaxLocks
    BY <1>1, <2>4, <2>6
  <2>11. ~leaked => locks[map] = 0
    BY <1>1, <2>1 DEF MapFree, ContainersInv, LockInv
  <2>12. set # None => locks'[set] = locks[set]
    BY <2>1, <2>6, <2>8
  <2> QED
    BY <1>1, <2>1, <2>2, <2>6, <2>7, <2>9, <2>10, <2>11, <2>12
    DEF ContainersInv, LockInv, StateStays
<1> QED
  BY <1>1, <1>3, <1>4, <1>5, <1>6, StateStaysFacts DEF ContainersInv

(* It ends, and unlocks nothing. *)
LEMMA DropIterMutStep == ASSUME ContainersInv, drop_iter_mut PROVE ContainersInv'
<1>1. /\ StateStays /\ UNCHANGED <<leaked, set_iter, locks>> /\ borrow # None
      /\ borrow.kind = "iter_mut" /\ borrow' = None /\ ~HasItem /\ ~HasItem'
  BY DEF drop_iter_mut, ghosts, StateStays, HasItem
<1>3. BorrowInv'
  BY <1>1, NoneAssumption DEF ContainersInv, BorrowInv, StateStays
<1>4. StoredInv'
  BY <1>1 DEF ContainersInv, StoredInv, StateStays
<1>5. ValueInv'
  BY <1>1, ValuesStay
<1>6. LockInv'
  BY <1>1, SetLocksStay DEF IterLocks
<1> QED
  BY <1>1, <1>3, <1>4, <1>5, <1>6, StateStaysFacts DEF ContainersInv

(* The least of a set of numbers is in it. *)
LEMMA MinIn ==
    ASSUME NEW T, T \subseteq Nat, T # {}
    PROVE  Min(T) \in T
<1>1. \E n \in T : \A m \in T : ~(<<m, n>> \in OpToRel(<, Nat))
  BY NatLessThanWellFounded, WFMin
<1>2. \A m, n \in Nat : <<m, n>> \in OpToRel(<, Nat) <=> m < n
  <2>1. ASSUME NEW m \in Nat, NEW n \in Nat
        PROVE  <<m, n>> \in {ss \in Nat \X Nat : ss[1] < ss[2]} <=> m < n
    OBVIOUS
  <2> QED
    BY <2>1 DEF OpToRel
<1>3. \A m, n \in Nat : ~(m < n) => n <= m
  OBVIOUS
<1>4. \E n \in T : \A m \in T : n <= m
  BY <1>1, <1>2, <1>3
<1> QED
  BY <1>4 DEF Min

(* A box that is not in memory *)
LEMMA ReferenceIs ==
    /\ Sound(Reference) /\ Reference.loaded = FALSE /\ Reference.modified = FALSE
    /\ \A k, p : /\ Item(k, p, Reference).key = k /\ Item(k, p, Reference).prefix = p
                 /\ Item(k, p, Reference).inner = Reference
                 /\ Item(k, p, Reference).modified = FALSE
                 /\ k \in MapKeys /\ p \in ItemPrefixes \cup {None} => Item(k, p, Reference) \in Items
<1>1. Sound(Reference) /\ Reference.loaded = FALSE /\ Reference.modified = FALSE
  BY DEF Sound, Reference, Inner
<1>2. Reference \in Inner
  BY <1>1 DEF Sound
<1> QED
  BY <1>1, <1>2 DEF Item, Items

(* An iterator takes the next key of the map. *)
LEMMA NextStep == ASSUME ContainersInv, next PROVE ContainersInv'
<1> DEFINE k == Min(borrow.left)
           it == IF borrow.kind = "iter" THEN None ELSE Item(k, None, Reference)
<1>1. /\ StateStays /\ UNCHANGED <<leaked, set_iter, locks>> /\ borrow # None
      /\ borrow.kind \in {"iter", "iter_mut"} /\ borrow.left # {} /\ borrow.item = None /\ ~HasItem
      /\ borrow' = Borrow(borrow.kind, borrow.left \ {k}, it)
  BY DEF next, ghosts, StateStays, HasItem
<1>2. k \in borrow.left /\ borrow \in Borrows /\ borrow.left \subseteq DOMAIN elems
      /\ k \in MapKeys /\ k \in DOMAIN elems
  <2>1. borrow \in Borrows /\ borrow.left \subseteq DOMAIN elems /\ DOMAIN elems \subseteq MapKeys
    BY <1>1 DEF ContainersInv, BorrowInv, OwnerInv
  <2> QED
    BY <1>1, <2>1, MinIn, ContainersAssumption
<1>3. it \in Items \cup {None}
  BY <1>2, ReferenceIs
<1>4. /\ borrow'.kind = borrow.kind /\ borrow'.left = borrow.left \ {k} /\ borrow'.item = it
      /\ borrow' \in Borrows /\ borrow' # None
  <2> HIDE DEF it, k
  <2>1. borrow.left \ {k} \in SUBSET MapKeys
    BY <1>2 DEF Borrows
  <2> QED
    BY <1>1, <1>3, <2>1, NoneAssumption DEF Borrow, Borrows
<1>5. HasItem' => /\ borrow'.kind = "iter_mut" /\ borrow'.item.key = k
                  /\ borrow'.item.prefix = None /\ borrow'.item.inner = Reference
  BY <1>1, <1>4, ReferenceIs DEF HasItem
<1> HIDE DEF it, k
<1>6. BorrowInv'
  <2>1. borrow'.kind = "iter" => borrow'.item = None
    BY <1>4 DEF it
  <2> QED
    BY <1>1, <1>2, <1>4, <1>5, <2>1, ReferenceIs DEF ContainersInv, BorrowInv, StateStays
<1>7. StoredInv'
  BY <1>1, <1>5 DEF ContainersInv, StoredInv, StateStays
<1>8. ValueInv'
  BY <1>1, <1>5, ValuesStay
<1>9. LockInv'
  <2>1. IterLocks' = IterLocks
    BY <1>1, <1>4 DEF IterLocks, StateStays
  <2> QED
    BY <1>1, <2>1, SetLocksStay
<1> QED
  BY <1>1, <1>6, <1>7, <1>8, <1>9, StateStaysFacts DEF ContainersInv

(* A key of the map is borrowed. *)
LEMMA BorrowKeyStep ==
    ASSUME ContainersInv, MapFree, StateStays, UNCHANGED <<leaked, set_iter, locks>>,
           NEW k \in MapKeys, At(k) \in DOMAIN contents, NEW kind, NEW p,
           \/ kind = "ref_mut" /\ p = None
           \/ kind = "entry" /\ p = contents[At(k)][1],
           borrow' = Borrow(kind, {}, Item(k, p, Reference))
    PROVE  ContainersInv'
<1>1. map \in ItemPrefixes /\ map # None /\ ~HasItem /\ borrow = None /\ IterLocks = 0
  BY FreeMap DEF MapFree
<1>2. k \in DOMAIN elems
  BY <1>1, MapEntry
<1>3. contents[At(k)] = <<elems[k]>> /\ elems[k] \in ItemPrefixes
  BY <1>2, FreeMap DEF ContainersInv, OwnerInv, InMap, PrefixInv
<1>4. p # None => p = elems[k]
  BY <1>3
<1> DEFINE it == Item(k, p, Reference)
<1>5. it \in Items /\ it # None /\ it.key = k /\ it.prefix = p /\ it.inner = Reference
      /\ it.modified = FALSE
  BY <1>3, <1>4, ReferenceIs, NoneAssumption
<1> HIDE DEF it
<1>6. /\ borrow' \in Borrows /\ borrow'.kind = kind /\ borrow'.left = {} /\ borrow'.item = it
      /\ borrow' # None
  BY <1>5, NoneAssumption DEF Borrow, Borrows, it
<1>7. HasItem'
  BY <1>5, <1>6 DEF HasItem
<1>8. BorrowInv'
  <2>1. kind = "entry" => p # None /\ contents[At(k)] = <<p>>
    BY <1>3, PrefixFacts
  <2>2. At(k)' = At(k) /\ contents' = contents
    BY DEF At, StateStays
  <2>3. Sound(Reference)
    BY ReferenceIs
  <2>4. borrow'.kind # "iter" /\ borrow'.left \subseteq DOMAIN elems'
    BY <1>6
  <2>5. map' # None /\ k \in DOMAIN elems'
    BY <1>1, <1>2 DEF StateStays
  <2>6. (set_iter # None => set_iter \subseteq SetKeys)'
    BY DEF ContainersInv, BorrowInv
  <2> QED
    BY <1>5, <1>6, <1>7, <2>1, <2>2, <2>3, <2>4, <2>5, <2>6 DEF BorrowInv, At, Sound
<1>9. StoredInv'
  BY <1>1, <1>4, <1>5, <1>6, <1>7 DEF ContainersInv, StoredInv, StateStays
<1>10. ValueInv'
  BY <1>1, <1>5, <1>6, ValuesStay
<1>11. LockInv'
  <2>1. IterLocks' = IterLocks
    BY <1>1, <1>6 DEF IterLocks
  <2> QED
    BY <1>1, <2>1, SetLocksStay
<1> QED
  BY <1>8, <1>9, <1>10, <1>11, StateStaysFacts DEF ContainersInv

(* By a reference, or by an entry *)
LEMMA GetMutStep == ASSUME ContainersInv, NEW k \in MapKeys, get_mut(k) PROVE ContainersInv'
<1>1. /\ StateStays /\ UNCHANGED <<leaked, set_iter, locks>> /\ MapFree
      /\ At(k) \in DOMAIN contents /\ borrow' = Borrow("ref_mut", {}, Item(k, None, Reference))
  BY DEF get_mut, ghosts, StateStays
<1> QED
  BY <1>1, BorrowKeyStep

LEMMA EntryStep == ASSUME ContainersInv, NEW k \in MapKeys, entry(k) PROVE ContainersInv'
<1>1. /\ StateStays /\ UNCHANGED <<leaked, set_iter, locks>> /\ MapFree
      /\ At(k) \in DOMAIN contents
      /\ borrow' = Borrow("entry", {}, Item(k, contents[At(k)][1], Reference))
  BY DEF entry, ghosts, StateStays
<1> QED
  BY <1>1, BorrowKeyStep

-----------------------------------------------------------------------------
(* Steps of the set *)

(* The entry x of the state stays. *)
Stays(x) ==
    /\ x \in DOMAIN contents' <=> x \in DOMAIN contents
    /\ x \in DOMAIN contents => contents'[x] = contents[x]

(* A set that no iterator visits is not locked. *)
LEMMA FreeSet ==
    ASSUME ContainersInv, SetFree
    PROVE  /\ set \in ItemPrefixes /\ set # None /\ set_iter = None /\ locks[set] = 0
           /\ ~Locked(set) /\ set # map /\ set \notin DOMAIN expected
<1>1. set \in ItemPrefixes /\ set # None /\ set_iter = None
  BY DEF ContainersInv, PrefixInv, SetFree
<1>2. locks[set] = 0
  BY <1>1 DEF ContainersInv, LockInv
<1>3. set # map /\ set \notin DOMAIN expected
  BY <1>1 DEF ContainersInv, PrefixInv, PrefixesDiffer
<1> QED
  BY <1>1, <1>2, <1>3 DEF Locked

(* An iterator over the set starts, *)
LEMMA SetIterateStep == ASSUME ContainersInv, set_iterate PROVE ContainersInv'
<1>1. /\ StateStays /\ UNCHANGED <<leaked, borrow>> /\ SetFree /\ set # None
      /\ locks' = LockedBy(set) /\ set_iter' = members
  BY BelowSet DEF set_iterate, ghosts, StateStays, SetFree
<1>2. /\ next_item_prefix' = next_item_prefix /\ set \in ItemPrefixes /\ locks[set] = 0
      /\ set < next_item_prefix /\ map # set /\ next_item_prefix \in Nat
  BY <1>1, FreeSet, StateStaysFacts DEF ContainersInv, PrefixInv, PrefixesDiffer
<1>3. set_iter' \subseteq SetKeys /\ set_iter' # None
  BY <1>1, NoneAssumption DEF ContainersInv, OwnerInv
<1>4. BorrowInv'
  BY <1>1, <1>3 DEF ContainersInv, BorrowInv, StateStays, HasItem, At
<1>5. StoredInv'
  BY <1>1 DEF ContainersInv, StoredInv, StateStays, HasItem
<1>6. ValueInv'
  <2>1. HasItem' => UNCHANGED borrow
    BY <1>1
  <2> QED
    BY <1>1, <2>1, ValuesStay
<1>7. LockInv'
  <2>1. locks' = IF members # {} THEN [locks EXCEPT ![set] = @ + 1] ELSE locks
    BY <1>1, BelowSet DEF LockedBy
  <2>2. locks \in [ItemPrefixes -> 0 .. MaxLocks + 1] /\ MaxLocks \in Nat
    BY ContainersAssumption DEF ContainersInv, LockInv
  <2>3. /\ locks' \in [ItemPrefixes -> 0 .. MaxLocks + 1]
        /\ locks'[set] = IF members # {} THEN 1 ELSE 0
        /\ \A p \in ItemPrefixes : p # set => locks'[p] = locks[p]
    BY <1>2, <2>1, <2>2
  <2>4. \A p \in ItemPrefixes : p >= next_item_prefix => locks'[p] = 0
    BY <1>2, <2>3, PrefixFacts DEF ContainersInv, LockInv
  <2>5. IterLocks' = IterLocks /\ (map # None => map \in ItemPrefixes /\ locks'[map] = locks[map])
    BY <1>1, <1>2, <2>3 DEF IterLocks, StateStays, ContainersInv, PrefixInv
  <2> QED
    BY <1>1, <1>2, <1>3, <2>3, <2>4, <2>5 DEF ContainersInv, LockInv, StateStays
<1> QED
  BY <1>1, <1>4, <1>5, <1>6, <1>7, StateStaysFacts DEF ContainersInv

(* takes the next element, *)
LEMMA SetNextStep == ASSUME ContainersInv, set_next PROVE ContainersInv'
<1>1. /\ StateStays /\ UNCHANGED <<leaked, borrow, locks>> /\ set_iter # None
      /\ set_iter' = set_iter \ {Min(set_iter)}
  BY DEF set_next, ghosts, StateStays
<1>3. set_iter' \subseteq SetKeys /\ set_iter' # None
  BY <1>1, NoneAssumption DEF ContainersInv, BorrowInv
<1>4. BorrowInv'
  BY <1>1, <1>3 DEF ContainersInv, BorrowInv, StateStays, HasItem, At
<1>5. StoredInv'
  BY <1>1 DEF ContainersInv, StoredInv, StateStays, HasItem
<1>6. ValueInv'
  <2>1. HasItem' => UNCHANGED borrow
    BY <1>1
  <2> QED
    BY <1>1, <2>1, ValuesStay
<1>7. LockInv'
  <2>1. IterLocks' = IterLocks /\ next_item_prefix' = next_item_prefix
    BY <1>1, StateStaysFacts DEF IterLocks, StateStays
  <2> QED
    BY <1>1, <1>3, <2>1 DEF ContainersInv, LockInv, StateStays
<1> QED
  BY <1>1, <1>4, <1>5, <1>6, <1>7, StateStaysFacts DEF ContainersInv

(* and ends. *)
LEMMA DropSetIterStep == ASSUME ContainersInv, drop_set_iter PROVE ContainersInv'
<1>1. /\ StateStays /\ UNCHANGED <<leaked, borrow>> /\ set_iter # None /\ set_iter' = None
      /\ set # None
  BY DEF drop_set_iter, ghosts, StateStays, ContainersInv, LockInv
<1>2. /\ next_item_prefix' = next_item_prefix /\ set \in ItemPrefixes
      /\ set < next_item_prefix /\ map # set /\ next_item_prefix \in Nat
      /\ locks[set] = IF members # {} THEN 1 ELSE 0
  BY <1>1, StateStaysFacts DEF ContainersInv, PrefixInv, PrefixesDiffer, LockInv
<1>4. BorrowInv'
  BY <1>1 DEF ContainersInv, BorrowInv, StateStays, HasItem, At
<1>5. StoredInv'
  BY <1>1 DEF ContainersInv, StoredInv, StateStays, HasItem
<1>6. ValueInv'
  <2>1. HasItem' => UNCHANGED borrow
    BY <1>1
  <2> QED
    BY <1>1, <2>1, ValuesStay
<1>7. LockInv'
  <2>1. locks' = IF members # {} THEN [locks EXCEPT ![set] = @ - 1] ELSE locks
    BY <1>1, BelowSet DEF drop_set_iter
  <2>2. locks \in [ItemPrefixes -> 0 .. MaxLocks + 1] /\ MaxLocks \in Nat
    BY ContainersAssumption DEF ContainersInv, LockInv
  <2>3. /\ locks' \in [ItemPrefixes -> 0 .. MaxLocks + 1]
        /\ locks'[set] = 0
        /\ \A p \in ItemPrefixes : p # set => locks'[p] = locks[p]
    BY <1>2, <2>1, <2>2
  <2>4. \A p \in ItemPrefixes : p >= next_item_prefix => locks'[p] = 0
    BY <1>2, <2>3, PrefixFacts DEF ContainersInv, LockInv
  <2>5. IterLocks' = IterLocks /\ (map # None => map \in ItemPrefixes /\ locks'[map] = locks[map])
    BY <1>1, <1>2, <2>3 DEF IterLocks, StateStays, ContainersInv, PrefixInv
  <2> QED
    BY <1>1, <1>2, <2>3, <2>4, <2>5 DEF ContainersInv, LockInv, StateStays
<1> QED
  BY <1>1, <1>4, <1>5, <1>6, <1>7, StateStaysFacts DEF ContainersInv

(* A step that changes the elements of a set, while no iterator visits it *)
LEMMA SetChanges ==
    ASSUME ContainersInv, SetFree, set' \in {set, None}, members' \subseteq SetKeys,
           set' = None => members' = {},
           UNCHANGED <<locks, map, boxes, borrow, set_iter, trapped, elems, expected, abandoned,
                       leaked>>,
           \A x : (\A e : x # EntryKey(set, e)) => Stays(x),
           \A e : EntryKey(set, e) \in DOMAIN contents' <=> e \in members'
    PROVE  ContainersInv'
<1>0. /\ set \in ItemPrefixes /\ set # None /\ set_iter = None /\ locks[set] = 0
      /\ set # map /\ set \notin DOMAIN expected
  BY FreeSet
<1>1. /\ \A p : Stays(BoxKey(p)) /\ Stays(NEXT_ITEM_PREFIX_KEY)
      /\ \A k : Stays(EntryKey(map, k))
  BY <1>0, KeyFacts
<1>2. next_item_prefix' = next_item_prefix
  BY <1>1, CounterStays DEF Stays
<1>3. PrefixInv'
  <2>1. None \notin DOMAIN expected
    BY PrefixFacts DEF ContainersInv, PrefixInv
  <2> QED
    BY <1>2, <2>1 DEF ContainersInv, PrefixInv, PrefixesDiffer
<1>4. OwnerInv'
  BY DEF ContainersInv, OwnerInv, InMap
<1>5. PlaceInv'
  <2>1. \A p \in DOMAIN expected : BoxKey(p) \in DOMAIN contents'
    BY <1>1 DEF ContainersInv, PlaceInv, Stays
  <2>2. \A k \in DOMAIN elems : EntryKey(map, k) \in DOMAIN contents'
    BY <1>1 DEF ContainersInv, PlaceInv, Stays
  <2>3. \A e \in members' : EntryKey(set, e) \in DOMAIN contents' /\ set' = set
    OBVIOUS
  <2>4. ASSUME NEW x \in DOMAIN contents'
        PROVE  \/ x = NEXT_ITEM_PREFIX_KEY
               \/ \E p \in DOMAIN expected : x = BoxKey(p)
               \/ \E k \in DOMAIN elems : x = EntryKey(map, k)
               \/ \E e \in members' : x = EntryKey(set', e)
    <3>1. CASE \E e : x = EntryKey(set, e)
      BY <2>3, <2>4, <3>1
    <3>2. CASE \A e : x # EntryKey(set, e)
      <4>1. x \in DOMAIN contents
        BY <3>2 DEF Stays
      <4> QED
        BY <3>2, <4>1 DEF ContainersInv, PlaceInv
    <3> QED
      BY <3>1, <3>2
  <2> QED
    BY <2>1, <2>2, <2>3, <2>4 DEF PlaceInv
<1>6. BorrowInv'
  <2>1. \A k \in DOMAIN elems : At(k)' = At(k) /\ contents'[At(k)] = contents[At(k)]
    BY <1>1 DEF At, Stays, ContainersInv, PlaceInv
  <2> QED
    BY <2>1 DEF ContainersInv, BorrowInv, HasItem, At
<1>7. StoredInv'
  BY <1>1 DEF ContainersInv, StoredInv, HasItem, Stays, PlaceInv
<1>8. ValueInv'
  <2>1. \A p \in DOMAIN expected : Handle(p)' = Handle(p) /\ contents'[BoxKey(p)] = contents[BoxKey(p)]
    BY <1>1 DEF Handle, HasItem, Stays, ContainersInv, PlaceInv
  <2> QED
    BY <2>1 DEF ContainersInv, ValueInv
<1>9. LockInv'
  <2>1. IterLocks' = IterLocks
    BY DEF IterLocks
  <2> QED
    BY <1>0, <1>2, <2>1 DEF ContainersInv, LockInv
<1> QED
  BY <1>3, <1>4, <1>5, <1>6, <1>7, <1>8, <1>9 DEF ContainersInv

LEMMA SetInsertStep == ASSUME ContainersInv, NEW e \in SetKeys, set_insert(e) PROVE ContainersInv'
<1>1. SetFree /\ ~Locked(set) /\ set # None /\ members \subseteq SetKeys
  BY FreeSet DEF set_insert, ContainersInv, OwnerInv
<1>2. /\ contents' = With(contents, In(e), << >>) /\ members' = members \cup {e} /\ set' = set
      /\ UNCHANGED <<locks, map, boxes, borrow, set_iter, trapped, elems, expected, abandoned,
                     leaked>>
  BY <1>1 DEF set_insert
<1>3. \A x : (\A f : x # EntryKey(set, f)) => Stays(x)
  BY <1>2 DEF Stays, With, In
<1>4. \A f : EntryKey(set, f) \in DOMAIN contents' <=> f \in members'
  BY <1>1, <1>2, SetEntry, KeyFacts DEF With, In
<1> QED
  BY <1>1, <1>2, <1>3, <1>4, SetChanges

LEMMA SetRemoveStep == ASSUME ContainersInv, NEW e \in SetKeys, set_remove(e) PROVE ContainersInv'
<1>1. SetFree /\ ~Locked(set) /\ set # None /\ members \subseteq SetKeys
  BY FreeSet DEF set_remove, ContainersInv, OwnerInv
<1>2. /\ contents' = Without(contents, {In(e)}) /\ members' = members \ {e} /\ set' = set
      /\ UNCHANGED <<locks, map, boxes, borrow, set_iter, trapped, elems, expected, abandoned,
                     leaked>>
  BY <1>1 DEF set_remove, Safely
<1>3. \A x : (\A f : x # EntryKey(set, f)) => Stays(x)
  BY <1>2 DEF Stays, Without, In
<1>4. \A f : EntryKey(set, f) \in DOMAIN contents' <=> f \in members'
  BY <1>1, <1>2, SetEntry, KeyFacts DEF Without, In
<1> QED
  BY <1>1, <1>2, <1>3, <1>4, SetChanges

LEMMA SetClearStep == ASSUME ContainersInv, set_clear \/ set_delete PROVE ContainersInv'
<1>1. SetFree /\ ~Locked(set) /\ set # None /\ members \subseteq SetKeys
  BY FreeSet DEF set_clear, set_delete, ContainersInv, OwnerInv
<1>2. SetCleared /\ trapped' = trapped /\ set' \in {set, None}
  BY <1>1 DEF set_clear, set_delete, Safely
<1>3. \A x : (\A f : x # EntryKey(set, f)) => Stays(x)
  BY <1>2 DEF SetCleared, Stays, Without, In
<1>4. \A f : EntryKey(set, f) \in DOMAIN contents' <=> f \in members'
  <2>1. \A f : EntryKey(set, f) \in DOMAIN contents => f \in SetKeys
    BY <1>1, SetEntry DEF In
  <2> QED
    BY <1>2, <2>1 DEF SetCleared, Without, In
<1> QED
  BY <1>1, <1>2, <1>3, <1>4, SetChanges DEF SetCleared

-----------------------------------------------------------------------------
(* Steps of the builder *)

(* The prefix that is given out next is not in use. *)
LEMMA NewPrefix ==
    ASSUME ContainersInv, next_item_prefix <= MaxPrefix
    PROVE  /\ next_item_prefix \in ItemPrefixes /\ next_item_prefix # map /\ next_item_prefix # set
           /\ next_item_prefix \notin DOMAIN expected /\ next_item_prefix \notin DOMAIN boxes
           /\ next_item_prefix \notin InMap /\ next_item_prefix \notin abandoned
           /\ locks[next_item_prefix] = 0 /\ next_item_prefix # None /\ next_item_prefix # 0
<1> DEFINE p == next_item_prefix
<1>1. p \in Nat /\ p >= 2 /\ p \in ItemPrefixes
  BY PrefixFacts DEF ContainersInv, PrefixInv
<1>2. p # None /\ p # 0
  BY <1>1, PrefixFacts
<1>3. p # map /\ p # set /\ p \notin DOMAIN expected
  BY <1>1, <1>2 DEF ContainersInv, PrefixInv, PrefixesDiffer
<1>4. p \notin DOMAIN boxes /\ p \notin InMap /\ p \notin abandoned
  BY <1>3 DEF ContainersInv, OwnerInv
<1>5. locks[p] = 0
  BY <1>1 DEF ContainersInv, LockInv
<1> QED
  BY <1>1, <1>2, <1>3, <1>4, <1>5

(* Giving it out changes the counter only. *)
LEMMA CounterMoves ==
    ASSUME ContainersInv,
           NEXT_ITEM_PREFIX_KEY \in DOMAIN contents',
           contents'[NEXT_ITEM_PREFIX_KEY] = <<next_item_prefix + 1>>
    PROVE  next_item_prefix' = next_item_prefix + 1
<1>1. PICK n : n = next_item_prefix + 1
  OBVIOUS
<1>2. contents'[NEXT_ITEM_PREFIX_KEY][1] = n
  BY <1>1
<1>3. next_item_prefix' = n
  BY <1>2 DEF next_item_prefix, NEXT_ITEM_PREFIX_KEY
<1> QED
  BY <1>1, <1>3

(* A new, empty map or set *)
LEMMA NewContainer ==
    ASSUME ContainersInv, next_item_prefix <= MaxPrefix,
           contents' = get_and_update_item_prefix,
           \/ map = None /\ map' = next_item_prefix /\ set' = set
           \/ set = None /\ set' = next_item_prefix /\ map' = map,
           DOMAIN elems' = DOMAIN elems, \A k \in DOMAIN elems : elems'[k] = elems[k],
           members' = members,
           UNCHANGED <<locks, boxes, borrow, set_iter, trapped, expected, abandoned, leaked>>
    PROVE  ContainersInv'
<1> PICK p : p = next_item_prefix
  OBVIOUS
<1>1. /\ p \in ItemPrefixes /\ p \in Nat /\ p >= 2 /\ p # map /\ p # set /\ p # None
      /\ p \notin DOMAIN expected /\ locks[p] = 0
  BY NewPrefix, PrefixFacts
<1>2. /\ \A x : x # NEXT_ITEM_PREFIX_KEY => Stays(x)
      /\ NEXT_ITEM_PREFIX_KEY \in DOMAIN contents'
      /\ contents'[NEXT_ITEM_PREFIX_KEY] = <<p + 1>>
  BY DEF get_and_update_item_prefix, With, Stays
<1>3. next_item_prefix' = p + 1
  BY <1>2, CounterMoves
<1>4. map = None => elems' = elems' /\ DOMAIN elems = {} /\ borrow = None
  BY DEF ContainersInv, OwnerInv, BorrowInv
<1>5. set = None => members = {} /\ set_iter = None
  BY DEF ContainersInv, OwnerInv, LockInv
<1>6. PrefixInv'
  <2>1. {map', set'} \subseteq ItemPrefixes \cup {None}
    BY <1>1 DEF ContainersInv, PrefixInv
  <2>2. map' = set' => map' = None
    BY <1>1 DEF ContainersInv, PrefixInv, PrefixesDiffer
  <2>3. {map', set'} \cap DOMAIN expected = {}
    BY <1>1 DEF ContainersInv, PrefixInv, PrefixesDiffer
  <2>4. \A q \in ({map, set} \ {None}) \cup DOMAIN expected : q < p /\ q \in Nat
    BY PrefixFacts DEF ContainersInv, PrefixInv, PrefixesDiffer
  <2>5. \A q \in ({map', set'} \ {None}) \cup DOMAIN expected : q < p + 1
    BY <1>1, <2>4
  <2>6. p + 1 \in Nat /\ p + 1 >= 2
    BY <1>1
  <2> QED
    BY <1>3, <2>1, <2>2, <2>3, <2>5, <2>6 DEF ContainersInv, PrefixInv, PrefixesDiffer
<1>7. OwnerInv'
  BY <1>1, <1>4, <1>5 DEF ContainersInv, OwnerInv, InMap
<1>8. PlaceInv'
  <2>1. \A q \in DOMAIN expected : q # 0
    BY PrefixFacts DEF ContainersInv, PrefixInv
  <2>2. \A q \in DOMAIN expected : BoxKey(q) \in DOMAIN contents'
    BY <1>2, <2>1, KeyFacts DEF ContainersInv, PlaceInv, Stays
  <2>3. \A k \in DOMAIN elems : map' = map /\ EntryKey(map, k) \in DOMAIN contents'
    BY <1>2, <1>4, KeyFacts DEF ContainersInv, PlaceInv, Stays
  <2>4. \A e \in members : set' = set /\ EntryKey(set, e) \in DOMAIN contents'
    BY <1>2, <1>5, KeyFacts DEF ContainersInv, PlaceInv, Stays
  <2>5. ASSUME NEW x \in DOMAIN contents', x # NEXT_ITEM_PREFIX_KEY
        PROVE  \/ \E q \in DOMAIN expected : x = BoxKey(q)
               \/ \E k \in DOMAIN elems : x = EntryKey(map', k)
               \/ \E e \in members : x = EntryKey(set', e)
    <3>1. x \in DOMAIN contents
      BY <1>2, <2>5 DEF Stays
    <3> QED
      BY <2>3, <2>4, <2>5, <3>1 DEF ContainersInv, PlaceInv
  <2> QED
    BY <2>2, <2>3, <2>4, <2>5 DEF PlaceInv
<1>9. BorrowInv' /\ StoredInv'
  <2>1. \A k \in DOMAIN elems :
           /\ map' = map /\ EntryKey(map, k) \in DOMAIN contents /\ At(k)' = At(k)
           /\ contents'[EntryKey(map, k)] = contents[EntryKey(map, k)]
    BY <1>2, <1>4, KeyFacts DEF Stays, ContainersInv, PlaceInv, At
  <2>2. BorrowInv'
    BY <1>1, <1>4, <2>1 DEF ContainersInv, BorrowInv, HasItem, At
  <2>3. StoredInv'
    BY <1>4, <2>1 DEF ContainersInv, StoredInv, HasItem
  <2> QED
    BY <2>2, <2>3
<1>10. ValueInv'
  <2>1. \A q \in DOMAIN expected : q # 0 /\ BoxKey(q) \in DOMAIN contents
    BY PrefixFacts DEF ContainersInv, PrefixInv, PlaceInv
  <2>2. \A q \in DOMAIN expected : Handle(q)' = Handle(q) /\ contents'[BoxKey(q)] = contents[BoxKey(q)]
    BY <1>2, <2>1, KeyFacts DEF Handle, HasItem, Stays
  <2> QED
    BY <2>2 DEF ContainersInv, ValueInv
<1>11. LockInv'
  <2>1. IterLocks' = IterLocks /\ (map = None => IterLocks = 0)
    BY <1>4 DEF IterLocks
  <2>2. \A q \in ItemPrefixes : q >= p + 1 => locks[q] = 0
    BY <1>1, PrefixFacts DEF ContainersInv, LockInv
  <2>3. 0 \in 0 .. MaxLocks
    BY ContainersAssumption
  <2> QED
    BY <1>1, <1>3, <1>5, <2>1, <2>2, <2>3 DEF ContainersInv, LockInv
<1> QED
  BY <1>6, <1>7, <1>8, <1>9, <1>10, <1>11 DEF ContainersInv

LEMMA NewMapStep == ASSUME ContainersInv, new_map PROVE ContainersInv'
<1>1. DOMAIN elems = {} /\ DOMAIN elems' = {}
  BY DEF new_map, ContainersInv, OwnerInv
<1> QED
  BY <1>1, NewContainer DEF new_map

LEMMA NewSetStep == ASSUME ContainersInv, new_set PROVE ContainersInv'
<1>1. members = {} /\ members' = {}
  BY DEF new_set, ContainersInv, OwnerInv
<1> QED
  BY <1>1, NewContainer DEF new_set

(* A box in memory *)
LEMMA LoadedIs ==
    \A v \in Values, m \in BOOLEAN :
      /\ Sound(Loaded(v, m)) /\ Loaded(v, m).loaded = TRUE /\ Loaded(v, m).value = v
      /\ Loaded(v, m).modified = m
  BY DEF Loaded, Sound, Inner

(* A handle is what it was when the boxes and the borrowed item are. *)
LEMMA HandleStays ==
    ASSUME UNCHANGED borrow, NEW q, q \in DOMAIN boxes' <=> q \in DOMAIN boxes,
           q \in DOMAIN boxes => boxes'[q] = boxes[q]
    PROVE  Handle(q)' = Handle(q)
  BY DEF Handle, HasItem

LEMMA NewBoxStep == ASSUME ContainersInv, NEW v \in Values, new_box(v) PROVE ContainersInv'
<1> PICK p : p = next_item_prefix
  OBVIOUS
<1>1. /\ p \in ItemPrefixes /\ p \in Nat /\ p >= 2 /\ p # 0 /\ p # map /\ p # set /\ p # None
      /\ p \notin DOMAIN expected /\ locks[p] = 0
      /\ p \notin DOMAIN boxes /\ p \notin InMap /\ p \notin abandoned
  BY NewPrefix, PrefixFacts DEF new_box
<1>2. /\ contents' = With(With(contents, NEXT_ITEM_PREFIX_KEY, <<p + 1>>), BoxKey(p), Serial(v))
      /\ boxes' = With(boxes, p, Loaded(v, TRUE)) /\ expected' = With(expected, p, v)
      /\ UNCHANGED <<locks, map, set, borrow, set_iter, trapped, elems, members, abandoned, leaked>>
  BY DEF new_box, get_and_update_item_prefix
<1>3. /\ \A x : x # NEXT_ITEM_PREFIX_KEY /\ x # BoxKey(p) => Stays(x)
      /\ NEXT_ITEM_PREFIX_KEY \in DOMAIN contents'
      /\ contents'[NEXT_ITEM_PREFIX_KEY] = <<p + 1>>
      /\ BoxKey(p) \in DOMAIN contents' /\ contents'[BoxKey(p)] = Serial(v)
  BY <1>1, <1>2, KeyFacts DEF With, Stays
<1>4. /\ DOMAIN boxes' = DOMAIN boxes \cup {p} /\ boxes'[p] = Loaded(v, TRUE)
      /\ \A q \in DOMAIN boxes : boxes'[q] = boxes[q]
      /\ DOMAIN expected' = DOMAIN expected \cup {p} /\ expected'[p] = v
      /\ \A q \in DOMAIN expected : expected'[q] = expected[q]
  BY <1>1, <1>2 DEF With
<1>5. next_item_prefix' = p + 1
  BY <1>3, CounterMoves
<1>6. PrefixInv'
  <2>4. \A q \in ({map, set} \ {None}) \cup DOMAIN expected : q < p /\ q \in Nat
    BY PrefixFacts DEF ContainersInv, PrefixInv, PrefixesDiffer
  <2>5. \A q \in ({map, set} \ {None}) \cup DOMAIN expected \cup {p} : q < p + 1
    BY <1>1, <2>4
  <2>6. p + 1 \in Nat /\ p + 1 >= 2
    BY <1>1
  <2> QED
    BY <1>1, <1>2, <1>4, <1>5, <2>5, <2>6 DEF ContainersInv, PrefixInv, PrefixesDiffer
<1>7. OwnerInv'
  <2>1. InMap' = InMap
    BY <1>2 DEF InMap
  <2>2. DOMAIN expected' = DOMAIN boxes' \cup InMap \cup abandoned
    BY <1>4 DEF ContainersInv, OwnerInv
  <2>3. DOMAIN boxes' \cap InMap = {} /\ abandoned \cap (DOMAIN boxes' \cup InMap) = {}
    BY <1>1, <1>4 DEF ContainersInv, OwnerInv
  <2> QED
    BY <1>2, <2>1, <2>2, <2>3 DEF ContainersInv, OwnerInv
<1>8. PlaceInv'
  <2>1. \A q \in DOMAIN expected : q # 0
    BY PrefixFacts DEF ContainersInv, PrefixInv
  <2>2. \A q \in DOMAIN expected' : BoxKey(q) \in DOMAIN contents'
    BY <1>1, <1>3, <1>4, <2>1, KeyFacts DEF ContainersInv, PlaceInv, Stays
  <2>3. \A k \in DOMAIN elems : EntryKey(map, k) \in DOMAIN contents'
    BY <1>3, KeyFacts DEF ContainersInv, PlaceInv, Stays
  <2>4. \A e \in members : EntryKey(set, e) \in DOMAIN contents'
    BY <1>3, KeyFacts DEF ContainersInv, PlaceInv, Stays
  <2>5. ASSUME NEW x \in DOMAIN contents', x # NEXT_ITEM_PREFIX_KEY
        PROVE  \/ \E q \in DOMAIN expected' : x = BoxKey(q)
               \/ \E k \in DOMAIN elems : x = EntryKey(map, k)
               \/ \E e \in members : x = EntryKey(set, e)
    <3>1. x = BoxKey(p) \/ x \in DOMAIN contents
      BY <1>3, <2>5 DEF Stays
    <3> QED
      BY <1>4, <2>5, <3>1 DEF ContainersInv, PlaceInv
  <2> QED
    BY <1>2, <2>2, <2>3, <2>4, <2>5 DEF PlaceInv
<1>9. BorrowInv' /\ StoredInv'
  <2>1. \A k \in DOMAIN elems :
           /\ EntryKey(map, k) \in DOMAIN contents /\ At(k)' = At(k)
           /\ contents'[EntryKey(map, k)] = contents[EntryKey(map, k)]
    BY <1>2, <1>3, KeyFacts DEF Stays, ContainersInv, PlaceInv, At
  <2>2. BorrowInv'
    BY <1>2, <2>1 DEF ContainersInv, BorrowInv, HasItem, At
  <2>3. StoredInv'
    BY <1>2, <2>1 DEF ContainersInv, StoredInv, HasItem
  <2> QED
    BY <2>2, <2>3
<1>10. ValueInv'
  <2>1. \A q \in DOMAIN expected : q # 0 /\ BoxKey(q) \in DOMAIN contents /\ q # p
    BY <1>1, PrefixFacts DEF ContainersInv, PrefixInv, PlaceInv
  <2>2. \A q \in DOMAIN expected : Handle(q)' = Handle(q) /\ contents'[BoxKey(q)] = contents[BoxKey(q)]
    <3> SUFFICES ASSUME NEW q \in DOMAIN expected
                 PROVE  Handle(q)' = Handle(q) /\ contents'[BoxKey(q)] = contents[BoxKey(q)]
      OBVIOUS
    <3>1. contents'[BoxKey(q)] = contents[BoxKey(q)]
      BY <1>3, <2>1, KeyFacts DEF Stays
    <3>2. q \in DOMAIN boxes' <=> q \in DOMAIN boxes
      BY <1>4, <2>1
    <3> QED
      BY <1>2, <1>4, <3>1, <3>2, HandleStays
  <2>3. Handle(p)' = Loaded(v, TRUE)
    BY <1>4 DEF Handle
  <2>4. \A q \in DOMAIN boxes' : Sound(boxes'[q])
    BY <1>4, LoadedIs DEF ContainersInv, ValueInv
  <2>5. contents'[BoxKey(p)] \in Seq(Nat)
    BY <1>3, ReadNew
  <2>6. Fits(Handle(p)', contents'[BoxKey(p)], expected'[p])
    BY <1>4, <2>3, LoadedIs DEF Fits
  <2> QED
    BY <1>4, <2>2, <2>4, <2>5, <2>6 DEF ContainersInv, ValueInv
<1>11. LockInv'
  <2>1. IterLocks' = IterLocks
    BY <1>2 DEF IterLocks
  <2>2. \A q \in ItemPrefixes : q >= p + 1 => locks[q] = 0
    BY <1>1, PrefixFacts DEF ContainersInv, LockInv
  <2> QED
    BY <1>1, <1>2, <1>5, <2>1, <2>2 DEF ContainersInv, LockInv
<1> QED
  BY <1>2, <1>6, <1>7, <1>8, <1>9, <1>10, <1>11 DEF ContainersInv

-----------------------------------------------------------------------------
(* Steps of the boxes *)

(* A box of the contract is in the state. *)
LEMMA OwnBox ==
    ASSUME ContainersInv, NEW p \in DOMAIN boxes
    PROVE  /\ p \in DOMAIN expected /\ p \in ItemPrefixes /\ p # 0 /\ p # map /\ p # set
           /\ p \notin InMap /\ p \notin abandoned
           /\ BoxKey(p) \in DOMAIN contents /\ contents[BoxKey(p)] \in Seq(Nat)
           /\ Sound(boxes[p]) /\ expected[p] \in Values
           /\ Fits(boxes[p], contents[BoxKey(p)], expected[p])
           /\ CanLoad(p, boxes[p]) /\ CanDrop(p, boxes[p])
<1>1. p \in DOMAIN expected /\ p \notin InMap /\ p \notin abandoned
  BY DEF ContainersInv, OwnerInv
<1>2. p \in ItemPrefixes /\ p # 0 /\ p # map /\ p # set
  BY <1>1, PrefixFacts DEF ContainersInv, PrefixInv, PrefixesDiffer
<1>3. BoxKey(p) \in DOMAIN contents /\ contents[BoxKey(p)] \in Seq(Nat)
  BY <1>1 DEF ContainersInv, PlaceInv, ValueInv
<1>4. Handle(p) = boxes[p]
  BY DEF Handle
<1>5. /\ Sound(boxes[p]) /\ expected[p] \in Values
      /\ Fits(boxes[p], contents[BoxKey(p)], expected[p])
  BY <1>1, <1>4 DEF ContainersInv, ValueInv
<1> QED
  BY <1>1, <1>2, <1>3, <1>5 DEF CanLoad, CanDrop

(* The boxes of the contract change, in memory or in the state. *)
LEMMA BoxesChange ==
    ASSUME ContainersInv, UNCHANGED <<map, set, elems, members, abandoned, borrow, set_iter, trapped>>,
           DOMAIN boxes' = DOMAIN boxes, DOMAIN expected' = DOMAIN expected,
           DOMAIN contents' = DOMAIN contents,
           \A x \in DOMAIN contents : (\A p \in DOMAIN boxes : x # BoxKey(p)) => contents'[x] = contents[x],
           \A p \in DOMAIN boxes :
             /\ Sound(boxes'[p]) /\ expected'[p] \in Values /\ contents'[BoxKey(p)] \in Seq(Nat)
             /\ Fits(boxes'[p], contents'[BoxKey(p)], expected'[p]),
           \A p \in DOMAIN expected : p \notin DOMAIN boxes => expected'[p] = expected[p]
    PROVE  /\ (trapped = FALSE)' /\ PrefixInv' /\ OwnerInv' /\ PlaceInv'
           /\ BorrowInv' /\ StoredInv' /\ ValueInv'
           /\ next_item_prefix' = next_item_prefix
<1>1. \A p \in DOMAIN boxes : BoxKey(p) # NEXT_ITEM_PREFIX_KEY
  BY OwnBox, KeyFacts
<1>2. next_item_prefix' = next_item_prefix
  BY <1>1, CounterStays
<1>3. PrefixInv' /\ (trapped = FALSE)'
  BY <1>2 DEF ContainersInv, PrefixInv, PrefixesDiffer
<1>4. OwnerInv'
  <2>1. InMap' = InMap
    BY DEF InMap
  <2> QED
    BY <2>1 DEF ContainersInv, OwnerInv
<1>5. PlaceInv'
  BY DEF ContainersInv, PlaceInv
<1>6. \A k \in DOMAIN elems : At(k)' = At(k) /\ contents'[EntryKey(map, k)] = contents[EntryKey(map, k)]
  BY KeyFacts DEF ContainersInv, PlaceInv, At
<1>7. BorrowInv'
  BY <1>6 DEF ContainersInv, BorrowInv, HasItem, At
<1>8. StoredInv'
  BY <1>6 DEF ContainersInv, StoredInv, HasItem
<1>9. ValueInv'
  <2>1. ASSUME NEW p \in DOMAIN expected
        PROVE  /\ expected'[p] \in Values /\ contents'[BoxKey(p)] \in Seq(Nat)
               /\ Fits(Handle(p)', contents'[BoxKey(p)], expected'[p])
    <3>1. CASE p \in DOMAIN boxes
      <4>1. Handle(p)' = boxes'[p]
        BY <3>1 DEF Handle
      <4> QED
        BY <3>1, <4>1
    <3>2. CASE p \notin DOMAIN boxes
      <4>1. Handle(p)' = Handle(p)
        BY <3>2, HandleStays
      <4>2. BoxKey(p) \in DOMAIN contents
        BY DEF ContainersInv, PlaceInv
      <4>3. contents'[BoxKey(p)] = contents[BoxKey(p)] /\ expected'[p] = expected[p]
        BY <3>2, <4>2, KeyFacts
      <4> QED
        BY <4>1, <4>3 DEF ContainersInv, ValueInv
    <3> QED
      BY <3>1, <3>2
  <2> QED
    BY <2>1 DEF ValueInv
<1> QED
  BY <1>2, <1>3, <1>4, <1>5, <1>7, <1>8, <1>9

(* The locks are what they were. *)
LEMMA LocksStay ==
    ASSUME ContainersInv, UNCHANGED <<map, set, set_iter, locks, leaked>>,
           next_item_prefix' = next_item_prefix, IterLocks' = IterLocks,
           (members # {})' = (members # {}) \/ set_iter = None
    PROVE  LockInv'
  BY DEF ContainersInv, LockInv

(* One box of the contract changes. *)
LEMMA OneBoxChanges ==
    ASSUME ContainersInv,
           UNCHANGED <<map, set, elems, members, abandoned, borrow, set_iter, trapped, locks, leaked>>,
           NEW p \in DOMAIN boxes, NEW inner, Sound(inner), NEW v \in Values, NEW d \in Seq(Nat),
           Fits(inner, d, v),
           boxes' = [boxes EXCEPT ![p] = inner],
           DOMAIN expected' = DOMAIN expected, expected'[p] = v,
           \A q \in DOMAIN expected : q # p => expected'[q] = expected[q],
           DOMAIN contents' = DOMAIN contents, contents'[BoxKey(p)] = d,
           \A x \in DOMAIN contents : x # BoxKey(p) => contents'[x] = contents[x]
    PROVE  ContainersInv'
<1>1. p \in DOMAIN expected /\ BoxKey(p) \in DOMAIN contents
  BY OwnBox
<1>2. /\ DOMAIN boxes' = DOMAIN boxes /\ boxes'[p] = inner
      /\ \A q \in DOMAIN boxes : q # p => boxes'[q] = boxes[q]
  OBVIOUS
<1>3. \A q \in DOMAIN boxes :
        /\ Sound(boxes'[q]) /\ expected'[q] \in Values /\ contents'[BoxKey(q)] \in Seq(Nat)
        /\ Fits(boxes'[q], contents'[BoxKey(q)], expected'[q])
  BY <1>2, OwnBox, KeyFacts
<1>4. /\ (trapped = FALSE)' /\ PrefixInv' /\ OwnerInv' /\ PlaceInv' /\ BorrowInv' /\ StoredInv' /\ ValueInv'
      /\ next_item_prefix' = next_item_prefix
  <2>1. \A x \in DOMAIN contents : (\A q \in DOMAIN boxes : x # BoxKey(q)) => contents'[x] = contents[x]
    OBVIOUS
  <2>2. \A q \in DOMAIN expected : q \notin DOMAIN boxes => expected'[q] = expected[q]
    BY <1>1
  <2> QED
    BY <1>2, <1>3, <2>1, <2>2, BoxesChange
<1>5. LockInv'
  <2>1. IterLocks' = IterLocks
    BY DEF IterLocks
  <2> QED
    BY <1>4, <2>1, LocksStay
<1> QED
  BY <1>4, <1>5 DEF ContainersInv

(* A box is read: from memory, or from the state. *)
LEMMA CachedIs ==
    ASSUME ContainersInv, NEW p \in DOMAIN boxes
    PROVE  /\ Sound(Cached(p, boxes[p]))
           /\ Fits(Cached(p, boxes[p]), contents[BoxKey(p)], expected[p])
<1>1. Sound(boxes[p]) /\ Fits(boxes[p], contents[BoxKey(p)], expected[p]) /\ expected[p] \in Values
  BY OwnBox
<1>2. CASE boxes[p].loaded
  BY <1>1, <1>2 DEF Cached
<1>3. CASE ~boxes[p].loaded
  <2>1. Deserial(contents[BoxKey(p)]) = expected[p]
    BY <1>1, <1>3 DEF Sound, Fits
  <2>2. Cached(p, boxes[p]) = Loaded(expected[p], FALSE)
    BY <1>3, <2>1 DEF Cached
  <2> QED
    BY <1>1, <2>1, <2>2, LoadedIs DEF Fits
<1> QED
  BY <1>2, <1>3

LEMMA BoxGetStep == ASSUME ContainersInv, NEW p \in DOMAIN boxes, box_get(p) PROVE ContainersInv'
<1> PICK c : c = Cached(p, boxes[p])
  OBVIOUS
<1>1. /\ boxes' = [boxes EXCEPT ![p] = c]
      /\ UNCHANGED <<contents, locks, map, set, borrow, set_iter, trapped, elems, members, expected,
                     abandoned, leaked>>
  BY OwnBox DEF box_get, Safely, ghosts
<1> QED
  BY <1>1, CachedIs, OwnBox, OneBoxChanges

LEMMA BoxGetMutStep ==
    ASSUME ContainersInv, NEW p \in DOMAIN boxes, NEW v \in Values, box_get_mut(p, v)
    PROVE  ContainersInv'
<1> PICK c : c = Loaded(v, TRUE)
  OBVIOUS
<1>1. /\ boxes' = [boxes EXCEPT ![p] = c] /\ expected' = [expected EXCEPT ![p] = v]
      /\ UNCHANGED <<contents, locks, map, set, borrow, set_iter, trapped, elems, members,
                     abandoned, leaked>>
  BY OwnBox DEF box_get_mut, Safely
<1>2. Sound(c) /\ Fits(c, contents[BoxKey(p)], v)
  BY LoadedIs DEF Fits
<1>3. /\ DOMAIN expected' = DOMAIN expected /\ expected'[p] = v
      /\ \A q \in DOMAIN expected : q # p => expected'[q] = expected[q]
  BY <1>1, OwnBox
<1> QED
  BY <1>1, <1>2, <1>3, OwnBox, OneBoxChanges

LEMMA BoxUpdateStep ==
    ASSUME ContainersInv, NEW p \in DOMAIN boxes, NEW v \in Values, box_update(p, v)
    PROVE  ContainersInv'
<1> PICK m : m = Cached(p, boxes[p]).modified
  OBVIOUS
<1> PICK c : c = Loaded(v, m)
  OBVIOUS
<1> PICK d : d = Over(contents[BoxKey(p)], Serial(v))
  OBVIOUS
<1>1. /\ boxes' = [boxes EXCEPT ![p] = c] /\ expected' = [expected EXCEPT ![p] = v]
      /\ contents' = [contents EXCEPT ![BoxKey(p)] = d]
      /\ UNCHANGED <<locks, map, set, borrow, set_iter, trapped, elems, members, abandoned, leaked>>
  BY OwnBox DEF box_update, Safely
<1>2. m \in BOOLEAN
  BY CachedIs DEF Sound, Inner
<1>3. d \in Seq(Nat) /\ Deserial(d) = v
  BY OwnBox, ReadBack
<1>4. Sound(c) /\ Fits(c, d, v)
  BY <1>2, <1>3, LoadedIs DEF Fits
<1>5. /\ DOMAIN expected' = DOMAIN expected /\ expected'[p] = v
      /\ \A q \in DOMAIN expected : q # p => expected'[q] = expected[q]
  BY <1>1, OwnBox
<1>6. /\ DOMAIN contents' = DOMAIN contents /\ contents'[BoxKey(p)] = d
      /\ \A x \in DOMAIN contents : x # BoxKey(p) => contents'[x] = contents[x]
  BY <1>1, OwnBox
<1> QED
  BY <1>1, <1>3, <1>4, <1>5, <1>6, OwnBox, OneBoxChanges

(* The handle of a box is dropped: then the state has its value. *)
LEMMA Dropped ==
    ASSUME NEW state, NEW p, NEW inner, NEW v \in Values,
           BoxKey(p) \in DOMAIN state, state[BoxKey(p)] \in Seq(Nat),
           Sound(inner), Fits(inner, state[BoxKey(p)], v)
    PROVE  /\ DOMAIN DropBox(state, p, inner) = DOMAIN state
           /\ \A x \in DOMAIN state : x # BoxKey(p) => DropBox(state, p, inner)[x] = state[x]
           /\ DropBox(state, p, inner)[BoxKey(p)] \in Seq(Nat)
           /\ Deserial(DropBox(state, p, inner)[BoxKey(p)]) = v
<1>1. inner.modified \in BOOLEAN /\ (inner.modified => inner.loaded)
  BY DEF Sound, Inner
<1>2. CASE inner.modified
  <2>1. inner.value = v /\ inner.loaded
    BY <1>1, <1>2 DEF Fits
  <2>2. DropBox(state, p, inner) = [state EXCEPT ![BoxKey(p)] = Over(@, Serial(v))]
    BY <1>2, <2>1 DEF DropBox
  <2>3. PICK d : d = Over(state[BoxKey(p)], Serial(v))
    OBVIOUS
  <2>4. d \in Seq(Nat) /\ Deserial(d) = v
    BY <2>3, ReadBack
  <2> QED
    BY <2>2, <2>3, <2>4
<1>3. CASE ~inner.modified
  BY <1>3 DEF DropBox, Fits
<1> QED
  BY <1>2, <1>3

LEMMA BoxDeleteStep == ASSUME ContainersInv, NEW p \in DOMAIN boxes, box_delete(p) PROVE ContainersInv'
<1>1. /\ contents' = Without(contents, {BoxKey(p)}) /\ boxes' = Without(boxes, {p})
      /\ expected' = Without(expected, {p})
      /\ UNCHANGED <<locks, map, set, borrow, set_iter, trapped, elems, members, abandoned, leaked>>
  BY OwnBox DEF box_delete, Safely
<1>2. /\ DOMAIN contents' = DOMAIN contents \ {BoxKey(p)}
      /\ \A x \in DOMAIN contents : x # BoxKey(p) => contents'[x] = contents[x]
      /\ DOMAIN boxes' = DOMAIN boxes \ {p} /\ \A q \in DOMAIN boxes' : boxes'[q] = boxes[q]
      /\ DOMAIN expected' = DOMAIN expected \ {p} /\ \A q \in DOMAIN expected' : expected'[q] = expected[q]
  BY <1>1 DEF Without
<1>3. p # 0 /\ p \notin InMap /\ p \notin abandoned /\ p \in DOMAIN expected
  BY OwnBox
<1>4. next_item_prefix' = next_item_prefix
  BY <1>2, <1>3, KeyFacts, CounterStays
<1>5. PrefixInv'
  BY <1>1, <1>2, <1>4 DEF ContainersInv, PrefixInv, PrefixesDiffer
<1>6. OwnerInv'
  <2>1. InMap' = InMap
    BY <1>1 DEF InMap
  <2>2. DOMAIN expected' = DOMAIN boxes' \cup InMap \cup abandoned
    BY <1>2, <1>3 DEF ContainersInv, OwnerInv
  <2>3. DOMAIN boxes' \cap InMap = {} /\ abandoned \cap (DOMAIN boxes' \cup InMap) = {}
    BY <1>2 DEF ContainersInv, OwnerInv
  <2> QED
    BY <1>1, <2>1, <2>2, <2>3 DEF ContainersInv, OwnerInv
<1>7. PlaceInv'
  <2>1. \A q \in DOMAIN expected' : BoxKey(q) \in DOMAIN contents'
    BY <1>2, KeyFacts DEF ContainersInv, PlaceInv
  <2>2. \A k \in DOMAIN elems : EntryKey(map, k) \in DOMAIN contents'
    BY <1>2, KeyFacts DEF ContainersInv, PlaceInv
  <2>3. \A e \in members : EntryKey(set, e) \in DOMAIN contents'
    BY <1>2, KeyFacts DEF ContainersInv, PlaceInv
  <2>4. ASSUME NEW x \in DOMAIN contents', x # NEXT_ITEM_PREFIX_KEY
        PROVE  \/ \E q \in DOMAIN expected' : x = BoxKey(q)
               \/ \E k \in DOMAIN elems : x = EntryKey(map, k)
               \/ \E e \in members : x = EntryKey(set, e)
    BY <1>2, <2>4 DEF ContainersInv, PlaceInv
  <2> QED
    BY <1>1, <2>1, <2>2, <2>3, <2>4 DEF PlaceInv
<1>8. \A k \in DOMAIN elems : At(k)' = At(k) /\ contents'[EntryKey(map, k)] = contents[EntryKey(map, k)]
  <2>1. \A k : At(k)' = At(k)
    BY <1>1 DEF At
  <2>2. \A k \in DOMAIN elems : EntryKey(map, k) \in DOMAIN contents /\ EntryKey(map, k) # BoxKey(p)
    BY KeyFacts DEF ContainersInv, PlaceInv
  <2> QED
    BY <1>2, <2>1, <2>2
<1>9. BorrowInv'
  BY <1>1, <1>8 DEF ContainersInv, BorrowInv, HasItem, At
<1>10. StoredInv'
  BY <1>1, <1>8 DEF ContainersInv, StoredInv, HasItem
<1>11. ValueInv'
  <2>1. ASSUME NEW q \in DOMAIN expected'
        PROVE  /\ q \in DOMAIN expected /\ expected'[q] = expected[q]
               /\ Handle(q)' = Handle(q) /\ contents'[BoxKey(q)] = contents[BoxKey(q)]
    <3>1. q \in DOMAIN expected /\ q # p /\ expected'[q] = expected[q]
      BY <1>2
    <3>2. contents'[BoxKey(q)] = contents[BoxKey(q)]
      BY <1>2, <3>1, KeyFacts DEF ContainersInv, PlaceInv
    <3>3. (q \in DOMAIN boxes' <=> q \in DOMAIN boxes) /\ (q \in DOMAIN boxes => boxes'[q] = boxes[q])
      BY <1>2, <3>1
    <3> QED
      BY <1>1, <3>1, <3>2, <3>3, HandleStays
  <2>2. \A q \in DOMAIN boxes' : Sound(boxes'[q])
    BY <1>2 DEF ContainersInv, ValueInv
  <2> QED
    BY <2>1, <2>2 DEF ContainersInv, ValueInv
<1>12. LockInv'
  <2>1. IterLocks' = IterLocks
    BY <1>1 DEF IterLocks
  <2> QED
    BY <1>1, <1>4, <2>1, LocksStay
<1> QED
  BY <1>1, <1>5, <1>6, <1>7, <1>9, <1>10, <1>11, <1>12 DEF ContainersInv

(* An execution ends, and another begins. *)
LEMMA ReloadStep == ASSUME ContainersInv, reload PROVE ContainersInv'
<1>1. /\ borrow = None /\ set_iter = None
      /\ contents' = [k \in DOMAIN contents |->
                        IF Len(k) = 1 /\ k[1] \in DOMAIN boxes
                          THEN DropBox(contents, k[1], boxes[k[1]])[k] ELSE contents[k]]
      /\ boxes' = [p \in DOMAIN boxes |-> Reference]
      /\ locks' = [p \in DOMAIN locks |-> 0] /\ leaked' = FALSE
      /\ UNCHANGED <<map, set, borrow, set_iter, trapped, elems, members, expected, abandoned>>
  BY OwnBox DEF reload, Safely
<1>2. \A p \in DOMAIN boxes : contents'[BoxKey(p)] = DropBox(contents, p, boxes[p])[BoxKey(p)]
  BY <1>1, OwnBox, KeyFacts
<1>3. ASSUME NEW p \in DOMAIN boxes
      PROVE  contents'[BoxKey(p)] \in Seq(Nat) /\ Deserial(contents'[BoxKey(p)]) = expected[p]
  BY <1>2, OwnBox, Dropped
<1>4. \A p \in DOMAIN boxes :
        /\ Sound(boxes'[p]) /\ expected'[p] \in Values /\ contents'[BoxKey(p)] \in Seq(Nat)
        /\ Fits(boxes'[p], contents'[BoxKey(p)], expected'[p])
  BY <1>1, <1>3, OwnBox, ReferenceIs DEF Fits
<1>5. \A x \in DOMAIN contents : (\A p \in DOMAIN boxes : x # BoxKey(p)) => contents'[x] = contents[x]
  <2> SUFFICES ASSUME NEW x \in DOMAIN contents, \A p \in DOMAIN boxes : x # BoxKey(p)
               PROVE  contents'[x] = contents[x]
    OBVIOUS
  <2>1. ASSUME Len(x) = 1, x[1] \in DOMAIN boxes
        PROVE  FALSE
    <3>1. x[1] # 0
      BY <2>1, OwnBox
    <3> QED
      BY <2>1, <3>1, KeyFacts DEF ContainersInv, PlaceInv
  <2> QED
    BY <1>1, <2>1
<1>6. DOMAIN contents' = DOMAIN contents /\ DOMAIN boxes' = DOMAIN boxes
  BY <1>1
<1>7. /\ (trapped = FALSE)' /\ PrefixInv' /\ OwnerInv' /\ PlaceInv' /\ BorrowInv' /\ StoredInv' /\ ValueInv'
      /\ next_item_prefix' = next_item_prefix
  BY <1>1, <1>4, <1>5, <1>6, BoxesChange
<1>8. LockInv'
  <2>1. IterLocks' = 0
    BY <1>1 DEF IterLocks
  <2>2. locks' \in [ItemPrefixes -> 0 .. MaxLocks + 1] /\ \A p \in ItemPrefixes : locks'[p] = 0
    BY <1>1, ContainersAssumption DEF ContainersInv, LockInv
  <2>3. {map, set} \subseteq ItemPrefixes \cup {None} /\ 0 \in 0 .. MaxLocks
    BY ContainersAssumption DEF ContainersInv, PrefixInv
  <2> QED
    BY <1>1, <2>1, <2>2, <2>3 DEF LockInv
<1> QED
  BY <1>7, <1>8 DEF ContainersInv

-----------------------------------------------------------------------------
(* Steps of the map *)

(* The box that the map has at k, if there is one *)
Had(k) == {elems[j] : j \in {k} \cap DOMAIN elems}

Injective(f) == \A i, j \in DOMAIN f : f[i] = f[j] => i = j

(* A box that was not in the map is put at k. *)
LEMMA PutInMap ==
    ASSUME ContainersInv, NEW k, NEW p, p \notin InMap,
           DOMAIN elems' = DOMAIN elems \cup {k}, elems'[k] = p,
           \A j \in DOMAIN elems : j # k => elems'[j] = elems[j]
    PROVE  InMap' = (InMap \ Had(k)) \cup {p} /\ Injective(elems)'
<1>0. Injective(elems)
  BY DEF ContainersInv, OwnerInv, Injective
<1>1. ASSUME NEW q \in InMap' PROVE q \in (InMap \ Had(k)) \cup {p}
  <2>1. PICK j \in DOMAIN elems \cup {k} : q = elems'[j]
    BY DEF InMap
  <2>2. CASE j = k
    BY <2>1, <2>2
  <2>3. CASE j # k
    BY <1>0, <2>1, <2>3 DEF InMap, Had, Injective
  <2> QED
    BY <2>2, <2>3
<1>2. ASSUME NEW q \in (InMap \ Had(k)) \cup {p} PROVE q \in InMap'
  <2>1. CASE q = p
    BY <2>1 DEF InMap
  <2>2. CASE q \in InMap \ Had(k)
    <3>1. PICK j \in DOMAIN elems : q = elems[j]
      BY <2>2 DEF InMap
    <3>2. j # k
      BY <2>2, <3>1 DEF Had
    <3> QED
      BY <3>1, <3>2 DEF InMap
  <2> QED
    BY <1>2, <2>1, <2>2
<1>3. Injective(elems)'
  <2> SUFFICES ASSUME NEW i \in DOMAIN elems', NEW j \in DOMAIN elems', elems'[i] = elems'[j]
               PROVE  i = j
    BY DEF Injective
  <2>1. \A l \in DOMAIN elems : elems[l] # p
    BY DEF InMap
  <2> QED
    BY <1>0, <2>1 DEF Injective
<1> QED
  BY <1>1, <1>2, <1>3

(* A box is taken out of the map. *)
LEMMA TakeFromMap ==
    ASSUME ContainersInv, NEW k \in DOMAIN elems, elems' = Without(elems, {k})
    PROVE  InMap' = InMap \ {elems[k]} /\ Injective(elems)'
<1>0. Injective(elems) /\ DOMAIN elems' = DOMAIN elems \ {k}
      /\ \A j \in DOMAIN elems' : elems'[j] = elems[j]
  BY DEF ContainersInv, OwnerInv, Injective, Without
<1>1. InMap' = {elems[j] : j \in DOMAIN elems \ {k}}
  BY <1>0 DEF InMap
<1>2. {elems[j] : j \in DOMAIN elems \ {k}} = InMap \ {elems[k]}
  BY <1>0 DEF InMap, Injective
<1>3. Injective(elems)'
  BY <1>0 DEF Injective
<1> QED
  BY <1>1, <1>2, <1>3

(* A step that changes what a map has, and boxes *)
LEMMA MapFrame ==
    ASSUME ContainersInv, UNCHANGED <<set, members, trapped>>, map # None, map' \in {map, None},
           map' = None => DOMAIN elems' = {}, DOMAIN elems' \subseteq MapKeys,
           DOMAIN expected' \subseteq DOMAIN expected,
           Stays(NEXT_ITEM_PREFIX_KEY), \A e \in members : Stays(EntryKey(set, e)),
           \A p \in DOMAIN expected : BoxKey(p) \in DOMAIN contents' <=> p \in DOMAIN expected',
           \A k \in MapKeys : EntryKey(map, k) \in DOMAIN contents' <=> k \in DOMAIN elems',
           \A x \in DOMAIN contents' : x \in DOMAIN contents \/ \E k \in MapKeys : x = EntryKey(map, k)
    PROVE  /\ (trapped = FALSE)' /\ PrefixInv' /\ PlaceInv'
           /\ next_item_prefix' = next_item_prefix
<1>1. next_item_prefix' = next_item_prefix
  BY CounterStays DEF Stays
<1>2. PrefixInv'
  <2>1. None \notin DOMAIN expected
    BY PrefixFacts DEF ContainersInv, PrefixInv
  <2> QED
    BY <1>1, <2>1 DEF ContainersInv, PrefixInv, PrefixesDiffer
<1>3. PlaceInv'
  <2>1. \A p \in DOMAIN expected' : BoxKey(p) \in DOMAIN contents'
    OBVIOUS
  <2>2. \A k \in DOMAIN elems' : map' = map /\ EntryKey(map, k) \in DOMAIN contents'
    OBVIOUS
  <2>3. \A e \in members : EntryKey(set, e) \in DOMAIN contents'
    BY DEF Stays, ContainersInv, PlaceInv
  <2>4. ASSUME NEW x \in DOMAIN contents', x # NEXT_ITEM_PREFIX_KEY
        PROVE  \/ \E p \in DOMAIN expected' : x = BoxKey(p)
               \/ \E k \in DOMAIN elems' : x = EntryKey(map', k)
               \/ \E e \in members : x = EntryKey(set, e)
    <3>1. CASE \E k \in MapKeys : x = EntryKey(map, k)
      BY <2>2, <2>4, <3>1
    <3>2. CASE x \in DOMAIN contents /\ ~\E k \in MapKeys : x = EntryKey(map, k)
      BY <2>4, <3>2 DEF ContainersInv, PlaceInv, OwnerInv
    <3> QED
      BY <2>4, <3>1, <3>2
  <2> QED
    BY <2>1, <2>2, <2>3, <2>4 DEF PlaceInv
<1> QED
  BY <1>1, <1>2, <1>3 DEF ContainersInv

(* Without a borrow, the map is as the state has it. *)
LEMMA FreeMapStays ==
    ASSUME ContainersInv, borrow = None, borrow' = None, UNCHANGED set_iter,
           \A k \in DOMAIN elems' : contents'[EntryKey(map', k)] = <<elems'[k]>>
    PROVE  BorrowInv' /\ StoredInv'
<1>1. ~HasItem'
  BY DEF HasItem
<1> QED
  BY <1>1 DEF ContainersInv, BorrowInv, StoredInv

LEMMA InsertStep ==
    ASSUME ContainersInv, NEW k \in MapKeys, NEW p \in DOMAIN boxes, insert(k, p),
           ~Locked(map) \/ At(k) \in DOMAIN contents
    PROVE  ContainersInv'
<1> PICK inner : inner = boxes[p]
  OBVIOUS
<1> DEFINE put == With(contents, At(k), <<p>>)
<1>1. /\ MapFree /\ borrow = None /\ map # None /\ ~HasItem /\ map \in ItemPrefixes
      /\ \A j \in DOMAIN elems : contents[At(j)] = <<elems[j]>> /\ contents[At(j)][1] = elems[j]
  BY FreeMap DEF insert, MapFree
<1>2. {contents[e][1] : e \in {At(k)} \cap DOMAIN contents} = Had(k)
  <2>1. At(k) \in DOMAIN contents <=> k \in DOMAIN elems
    BY <1>1, MapEntry
  <2> QED
    BY <1>1, <2>1 DEF Had
<1>3. /\ contents' = DropBox(put, p, inner)
      /\ boxes' = [q \in (DOMAIN boxes \ {p}) \cup Had(k) |-> IF q \in Had(k) THEN Reference ELSE boxes[q]]
      /\ elems' = With(elems, k, p)
      /\ UNCHANGED <<locks, map, set, borrow, set_iter, trapped, members, expected, abandoned, leaked>>
  <2>1. Had(k) # {} \/ ~Locked(map)
    <3>1. At(k) \in DOMAIN contents => k \in DOMAIN elems
      BY <1>1, MapEntry
    <3> QED
      BY <3>1 DEF Had
  <2>2. CanDrop(p, boxes[p])
    BY OwnBox
  <2> QED
    BY <1>1, <1>2, <2>1, <2>2 DEF insert, Safely
<1>4. /\ p \in DOMAIN expected /\ p \notin InMap /\ p \notin abandoned /\ p \in ItemPrefixes
      /\ BoxKey(p) \in DOMAIN contents /\ contents[BoxKey(p)] \in Seq(Nat) /\ expected[p] \in Values
      /\ Sound(inner) /\ Fits(inner, contents[BoxKey(p)], expected[p])
  BY OwnBox
<1>5. /\ DOMAIN put = DOMAIN contents \cup {At(k)} /\ put[At(k)] = <<p>>
      /\ \A x \in DOMAIN contents : x # At(k) => put[x] = contents[x]
      /\ BoxKey(p) # At(k)
  BY KeyFacts DEF With, At
<1> HIDE DEF put
<1>6. /\ DOMAIN contents' = DOMAIN contents \cup {At(k)} /\ contents'[At(k)] = <<p>>
      /\ \A x \in DOMAIN contents : x # At(k) /\ x # BoxKey(p) => contents'[x] = contents[x]
      /\ contents'[BoxKey(p)] \in Seq(Nat) /\ Deserial(contents'[BoxKey(p)]) = expected[p]
  <2>1. BoxKey(p) \in DOMAIN put /\ put[BoxKey(p)] = contents[BoxKey(p)]
    BY <1>4, <1>5
  <2>2. /\ DOMAIN contents' = DOMAIN put
        /\ \A x \in DOMAIN put : x # BoxKey(p) => contents'[x] = put[x]
        /\ contents'[BoxKey(p)] \in Seq(Nat) /\ Deserial(contents'[BoxKey(p)]) = expected[p]
    BY <1>3, <1>4, <2>1, Dropped
  <2> QED
    BY <1>5, <2>2
<1>7. /\ DOMAIN elems' = DOMAIN elems \cup {k} /\ elems'[k] = p
      /\ \A j \in DOMAIN elems : j # k => elems'[j] = elems[j]
  BY <1>3 DEF With
<1>8. InMap' = (InMap \ Had(k)) \cup {p} /\ Injective(elems)' /\ Had(k) \subseteq InMap
  BY <1>4, <1>7, PutInMap DEF Had, InMap
<1>9. OwnerInv'
  <2>1. DOMAIN boxes' = (DOMAIN boxes \ {p}) \cup Had(k)
    BY <1>3
  <2>2. DOMAIN expected' = DOMAIN boxes' \cup InMap' \cup abandoned'
    BY <1>3, <1>8, <2>1 DEF ContainersInv, OwnerInv
  <2>3. DOMAIN boxes' \cap InMap' = {}
    BY <1>4, <1>8, <2>1 DEF ContainersInv, OwnerInv
  <2>4. abandoned' \cap (DOMAIN boxes' \cup InMap') = {}
    BY <1>3, <1>4, <1>8, <2>1 DEF ContainersInv, OwnerInv
  <2> QED
    BY <1>1, <1>3, <1>7, <1>8, <2>2, <2>3, <2>4 DEF ContainersInv, OwnerInv, Injective
<1>10. /\ (trapped = FALSE)' /\ PrefixInv' /\ PlaceInv' /\ next_item_prefix' = next_item_prefix
  <2>1. Stays(NEXT_ITEM_PREFIX_KEY) /\ \A e \in members : Stays(EntryKey(set, e))
    <3>1. BoxKey(p) # NEXT_ITEM_PREFIX_KEY /\ map # set
      BY <1>1, <1>4, KeyFacts, PrefixFacts DEF ContainersInv, PrefixInv, PrefixesDiffer
    <3> QED
      BY <1>6, <3>1, KeyFacts DEF Stays, At
  <2>2. \A q \in DOMAIN expected : BoxKey(q) \in DOMAIN contents'
    BY <1>6 DEF ContainersInv, PlaceInv
  <2>3. \A j \in MapKeys : EntryKey(map, j) \in DOMAIN contents' <=> j \in DOMAIN elems'
    BY <1>1, <1>6, <1>7, MapEntry, KeyFacts DEF At
  <2>4. \A x \in DOMAIN contents' : x \in DOMAIN contents \/ \E j \in MapKeys : x = EntryKey(map, j)
    BY <1>6 DEF At
  <2>5. DOMAIN elems' \subseteq MapKeys
    BY <1>7 DEF ContainersInv, OwnerInv
  <2> QED
    BY <1>1, <1>3, <2>1, <2>2, <2>3, <2>4, <2>5, MapFrame
<1>11. BorrowInv' /\ StoredInv'
  <2>1. \A j \in DOMAIN elems' : contents'[EntryKey(map, j)] = <<elems'[j]>>
    <3> SUFFICES ASSUME NEW j \in DOMAIN elems' PROVE contents'[EntryKey(map, j)] = <<elems'[j]>>
      OBVIOUS
    <3>1. CASE j = k
      BY <1>6, <1>7, <3>1 DEF At
    <3>2. CASE j # k
      <4>1. j \in DOMAIN elems /\ elems'[j] = elems[j]
        BY <1>7, <3>2
      <4>2. At(j) \in DOMAIN contents /\ At(j) # At(k) /\ At(j) # BoxKey(p)
        BY <1>1, <3>2, <4>1, MapEntry, KeyFacts DEF At
      <4> QED
        BY <1>1, <1>6, <4>1, <4>2 DEF At
    <3> QED
      BY <3>1, <3>2
  <2> QED
    BY <1>1, <1>3, <2>1, FreeMapStays
<1>12. ValueInv'
  <2>1. \A q \in DOMAIN boxes' : Sound(boxes'[q])
    BY <1>3, ReferenceIs DEF ContainersInv, ValueInv
  <2>2. ASSUME NEW q \in DOMAIN expected, q # p
        PROVE  Handle(q)' = Handle(q) /\ contents'[BoxKey(q)] = contents[BoxKey(q)]
    <3>1. contents'[BoxKey(q)] = contents[BoxKey(q)]
      BY <1>6, <2>2, KeyFacts DEF ContainersInv, PlaceInv, At
    <3>2. Handle(q)' = IF q \in DOMAIN boxes' THEN boxes'[q] ELSE Reference
      BY <1>1, <1>3 DEF Handle, HasItem
    <3>3. Handle(q) = IF q \in DOMAIN boxes THEN boxes[q] ELSE Reference
      BY <1>1 DEF Handle
    <3>4. q \in Had(k) => q \notin DOMAIN boxes
      BY <1>8 DEF ContainersInv, OwnerInv
    <3> QED
      BY <1>3, <2>2, <3>1, <3>2, <3>3, <3>4
  <2>3. Handle(p)' = Reference
    <3>1. p \notin DOMAIN boxes'
      BY <1>3, <1>4, <1>8
    <3> QED
      BY <1>1, <1>3, <3>1 DEF Handle, HasItem
  <2>4. Fits(Handle(p)', contents'[BoxKey(p)], expected[p])
    BY <1>6, <2>3, ReferenceIs DEF Fits
  <2> QED
    BY <1>3, <1>6, <2>1, <2>2, <2>4 DEF ContainersInv, ValueInv
<1>13. LockInv'
  <2>1. IterLocks' = IterLocks
    BY <1>1, <1>3 DEF IterLocks
  <2> QED
    BY <1>3, <1>10, <2>1, LocksStay
<1> QED
  BY <1>9, <1>10, <1>11, <1>12, <1>13 DEF ContainersInv

(* The key k, and with it perhaps its box, is taken out of the map. *)
LEMMA TakeFrame ==
    ASSUME ContainersInv, MapFree, NEW k \in DOMAIN elems,
           UNCHANGED <<locks, map, set, borrow, set_iter, trapped, members, abandoned, leaked>>,
           elems' = Without(elems, {k}),
           At(k) \notin DOMAIN contents', DOMAIN contents' \subseteq DOMAIN contents,
           \A x \in DOMAIN contents : x # At(k) /\ x # BoxKey(elems[k]) => Stays(x),
           DOMAIN expected' \subseteq DOMAIN expected,
           \A q \in DOMAIN expected : q # elems[k] => q \in DOMAIN expected' /\ expected'[q] = expected[q],
           BoxKey(elems[k]) \in DOMAIN contents' <=> elems[k] \in DOMAIN expected'
    PROVE  /\ (trapped = FALSE)' /\ PrefixInv' /\ PlaceInv' /\ BorrowInv' /\ StoredInv' /\ LockInv'
           /\ DOMAIN elems' \subseteq MapKeys /\ InMap' = InMap \ {elems[k]} /\ Injective(elems)'
<1> PICK p : p = elems[k]
  OBVIOUS
<1>1. /\ map # None /\ map \in ItemPrefixes /\ ~HasItem /\ borrow = None
      /\ \A j \in DOMAIN elems : contents[At(j)] = <<elems[j]>>
  BY FreeMap DEF MapFree
<1>2. p \in InMap /\ p \in DOMAIN expected /\ p \in ItemPrefixes /\ p # 0
  BY PrefixFacts DEF InMap, ContainersInv, OwnerInv, PrefixInv
<1>3. /\ DOMAIN elems' = DOMAIN elems \ {k} /\ \A j \in DOMAIN elems' : elems'[j] = elems[j]
      /\ DOMAIN elems \subseteq MapKeys
  BY DEF Without, ContainersInv, OwnerInv
<1>4. /\ (trapped = FALSE)' /\ PrefixInv' /\ PlaceInv' /\ next_item_prefix' = next_item_prefix
  <2>1. Stays(NEXT_ITEM_PREFIX_KEY) /\ \A e \in members : Stays(EntryKey(set, e))
    <3>1. BoxKey(p) # NEXT_ITEM_PREFIX_KEY /\ map # set
      BY <1>1, <1>2, KeyFacts DEF ContainersInv, PrefixInv, PrefixesDiffer
    <3>2. NEXT_ITEM_PREFIX_KEY \notin DOMAIN contents => NEXT_ITEM_PREFIX_KEY \notin DOMAIN contents'
      OBVIOUS
    <3> QED
      BY <3>1, <3>2, KeyFacts DEF Stays, At, ContainersInv, PlaceInv
  <2>2. \A q \in DOMAIN expected : BoxKey(q) \in DOMAIN contents' <=> q \in DOMAIN expected'
    BY KeyFacts DEF ContainersInv, PlaceInv, Stays, At
  <2>3. \A j \in MapKeys : EntryKey(map, j) \in DOMAIN contents' <=> j \in DOMAIN elems'
    <3> SUFFICES ASSUME NEW j \in MapKeys
                 PROVE  At(j) \in DOMAIN contents' <=> j \in DOMAIN elems'
      BY DEF At
    <3>1. CASE j = k
      BY <1>3, <3>1
    <3>2. CASE j # k
      <4>1. At(j) # At(k) /\ At(j) # BoxKey(p) /\ (At(j) \in DOMAIN contents <=> j \in DOMAIN elems)
        BY <1>1, <3>2, MapEntry, KeyFacts DEF At
      <4> QED
        BY <1>3, <3>2, <4>1 DEF Stays
    <3> QED
      BY <3>1, <3>2
  <2> QED
    BY <1>1, <1>3, <2>1, <2>2, <2>3, MapFrame
<1>5. BorrowInv' /\ StoredInv'
  <2>1. \A j \in DOMAIN elems' : contents'[EntryKey(map, j)] = <<elems'[j]>>
    <3> SUFFICES ASSUME NEW j \in DOMAIN elems' PROVE contents'[At(j)] = <<elems'[j]>>
      BY DEF At
    <3>1. j \in DOMAIN elems /\ j # k /\ elems'[j] = elems[j]
      BY <1>3
    <3>2. At(j) \in DOMAIN contents /\ At(j) # At(k) /\ At(j) # BoxKey(p)
      BY <1>1, <3>1, MapEntry, KeyFacts DEF At
    <3> QED
      BY <1>1, <3>1, <3>2 DEF Stays
  <2> QED
    BY <1>1, <2>1, FreeMapStays
<1>6. LockInv'
  <2>1. IterLocks' = IterLocks
    BY <1>1 DEF IterLocks
  <2> QED
    BY <1>4, <2>1, LocksStay
<1> QED
  BY <1>3, <1>4, <1>5, <1>6, TakeFromMap

LEMMA RemoveAndGetStep ==
    ASSUME ContainersInv, NEW k \in MapKeys, remove_and_get(k), ~Locked(map)
    PROVE  ContainersInv'
<1> PICK p : p = elems[k]
  OBVIOUS
<1>1. /\ MapFree /\ borrow = None /\ map # None /\ ~HasItem /\ ~Locked(map) /\ k \in DOMAIN elems
      /\ contents[At(k)][1] = p
  BY FreeMap, MapEntry DEF remove_and_get, MapFree
<1>2. /\ contents' = Without(contents, {At(k)}) /\ boxes' = With(boxes, p, Reference)
      /\ elems' = Without(elems, {k})
      /\ UNCHANGED <<locks, map, set, borrow, set_iter, trapped, members, expected, abandoned, leaked>>
  BY <1>1 DEF remove_and_get
<1>3. /\ DOMAIN contents' = DOMAIN contents \ {At(k)}
      /\ \A x \in DOMAIN contents : x # At(k) => x \in DOMAIN contents' /\ contents'[x] = contents[x]
      /\ DOMAIN boxes' = DOMAIN boxes \cup {p} /\ boxes'[p] = Reference
      /\ \A q \in DOMAIN boxes : q # p => boxes'[q] = boxes[q]
  BY <1>2 DEF Without, With
<1>4. p \in InMap /\ p \in DOMAIN expected /\ p \notin DOMAIN boxes /\ p \notin abandoned
  BY <1>1 DEF InMap, ContainersInv, OwnerInv
<1>5. BoxKey(p) # At(k) /\ BoxKey(p) \in DOMAIN contents'
  BY <1>3, <1>4, KeyFacts DEF At, ContainersInv, PlaceInv
<1>6. /\ (trapped = FALSE)' /\ PrefixInv' /\ PlaceInv' /\ BorrowInv' /\ StoredInv' /\ LockInv'
      /\ DOMAIN elems' \subseteq MapKeys /\ InMap' = InMap \ {p} /\ Injective(elems)'
  <2>1. At(k) \notin DOMAIN contents' /\ DOMAIN contents' \subseteq DOMAIN contents
    BY <1>3
  <2>2. \A x \in DOMAIN contents : x # At(k) /\ x # BoxKey(elems[k]) => Stays(x)
    BY <1>3 DEF Stays
  <2>3. BoxKey(elems[k]) \in DOMAIN contents' <=> elems[k] \in DOMAIN expected'
    BY <1>2, <1>4, <1>5
  <2> QED
    BY <1>1, <1>2, <2>1, <2>2, <2>3, TakeFrame
<1>7. OwnerInv'
  <2>2. DOMAIN expected' = DOMAIN boxes' \cup InMap' \cup abandoned'
    BY <1>2, <1>3, <1>4, <1>6 DEF ContainersInv, OwnerInv
  <2>3. DOMAIN boxes' \cap InMap' = {}
    BY <1>3, <1>4, <1>6 DEF ContainersInv, OwnerInv
  <2>4. abandoned' \cap (DOMAIN boxes' \cup InMap') = {}
    BY <1>2, <1>3, <1>4, <1>6 DEF ContainersInv, OwnerInv
  <2> QED
    BY <1>1, <1>2, <1>6, <2>2, <2>3, <2>4 DEF ContainersInv, OwnerInv, Injective
<1>8. ValueInv'
  <2>1. \A q \in DOMAIN boxes' : Sound(boxes'[q])
    BY <1>3, ReferenceIs DEF ContainersInv, ValueInv
  <2>2. ASSUME NEW q \in DOMAIN expected
        PROVE  Handle(q)' = Handle(q) /\ contents'[BoxKey(q)] = contents[BoxKey(q)]
    <3>1. contents'[BoxKey(q)] = contents[BoxKey(q)]
      BY <1>3, <2>2, KeyFacts DEF ContainersInv, PlaceInv, At
    <3>2. Handle(q)' = IF q \in DOMAIN boxes' THEN boxes'[q] ELSE Reference
      BY <1>1, <1>2 DEF Handle, HasItem
    <3>3. Handle(q) = IF q \in DOMAIN boxes THEN boxes[q] ELSE Reference
      BY <1>1 DEF Handle
    <3> QED
      BY <1>3, <1>4, <3>1, <3>2, <3>3
  <2> QED
    BY <1>2, <2>1, <2>2 DEF ContainersInv, ValueInv
<1> QED
  BY <1>6, <1>7, <1>8 DEF ContainersInv

LEMMA RemoveStep ==
    ASSUME ContainersInv, NEW k \in MapKeys, remove(k), ~Locked(map)
    PROVE  ContainersInv'
<1> PICK p : p = elems[k]
  OBVIOUS
<1>1. /\ MapFree /\ borrow = None /\ map # None /\ ~HasItem /\ ~Locked(map) /\ k \in DOMAIN elems
      /\ contents[At(k)][1] = p
  BY FreeMap, MapEntry DEF remove, MapFree
<1>2. p \in InMap /\ p \in DOMAIN expected /\ p \notin DOMAIN boxes /\ p \notin abandoned
      /\ BoxKey(p) \in DOMAIN contents
  BY <1>1 DEF InMap, ContainersInv, OwnerInv, PlaceInv
<1>3. /\ contents' = Without(contents, {BoxKey(p)} \cup {At(k)}) /\ expected' = Without(expected, {p})
      /\ elems' = Without(elems, {k})
      /\ UNCHANGED <<locks, map, set, boxes, borrow, set_iter, trapped, members, abandoned, leaked>>
  BY <1>1, <1>2 DEF remove, Safely
<1>4. /\ DOMAIN contents' = DOMAIN contents \ {At(k), BoxKey(p)}
      /\ \A x \in DOMAIN contents :
           x # At(k) /\ x # BoxKey(p) => x \in DOMAIN contents' /\ contents'[x] = contents[x]
      /\ DOMAIN expected' = DOMAIN expected \ {p}
      /\ \A q \in DOMAIN expected : q # p => expected'[q] = expected[q]
  BY <1>3 DEF Without
<1>6. /\ (trapped = FALSE)' /\ PrefixInv' /\ PlaceInv' /\ BorrowInv' /\ StoredInv' /\ LockInv'
      /\ DOMAIN elems' \subseteq MapKeys /\ InMap' = InMap \ {p} /\ Injective(elems)'
  <2>1. At(k) \notin DOMAIN contents' /\ DOMAIN contents' \subseteq DOMAIN contents
    BY <1>4
  <2>2. \A x \in DOMAIN contents : x # At(k) /\ x # BoxKey(elems[k]) => Stays(x)
    BY <1>4 DEF Stays
  <2>3. BoxKey(elems[k]) \in DOMAIN contents' <=> elems[k] \in DOMAIN expected'
    BY <1>4
  <2>4. /\ DOMAIN expected' \subseteq DOMAIN expected
        /\ \A q \in DOMAIN expected : q # elems[k] => q \in DOMAIN expected' /\ expected'[q] = expected[q]
    BY <1>4
  <2> QED
    BY <1>1, <1>3, <2>1, <2>2, <2>3, <2>4, TakeFrame
<1>7. OwnerInv'
  <2>2. DOMAIN expected' = DOMAIN boxes' \cup InMap' \cup abandoned'
    BY <1>2, <1>3, <1>4, <1>6 DEF ContainersInv, OwnerInv
  <2>3. DOMAIN boxes' \cap InMap' = {}
    BY <1>3, <1>6 DEF ContainersInv, OwnerInv
  <2>4. abandoned' \cap (DOMAIN boxes' \cup InMap') = {}
    BY <1>3, <1>6 DEF ContainersInv, OwnerInv
  <2> QED
    BY <1>1, <1>3, <1>6, <2>2, <2>3, <2>4 DEF ContainersInv, OwnerInv, Injective
<1>8. ValueInv'
  <2>2. ASSUME NEW q \in DOMAIN expected'
        PROVE  /\ q \in DOMAIN expected /\ expected'[q] = expected[q]
               /\ Handle(q)' = Handle(q) /\ contents'[BoxKey(q)] = contents[BoxKey(q)]
    <3>1. contents'[BoxKey(q)] = contents[BoxKey(q)]
      BY <1>4, <2>2, KeyFacts DEF ContainersInv, PlaceInv, At
    <3> QED
      BY <1>3, <1>4, <3>1, HandleStays
  <2> QED
    BY <1>3, <2>2 DEF ContainersInv, ValueInv
<1> QED
  BY <1>6, <1>7, <1>8 DEF ContainersInv

(* The map is emptied, and perhaps consumed. *)
LEMMA ClearStep == ASSUME ContainersInv, clear \/ map_delete, ~Locked(map) PROVE ContainersInv'
<1>1. /\ MapFree /\ borrow = None /\ map # None /\ map \in ItemPrefixes /\ ~HasItem /\ ~Locked(map)
      /\ \A j \in DOMAIN elems : contents[At(j)][1] = elems[j]
  BY FreeMap DEF clear, map_delete, MapFree
<1>2. DOMAIN elems \subseteq MapKeys /\ \A k : At(k) \in DOMAIN contents <=> k \in DOMAIN elems
  BY <1>1, MapEntry DEF ContainersInv, OwnerInv
<1>3. MapEntries = {At(k) : k \in DOMAIN elems}
  BY <1>2 DEF MapEntries
<1>4. Pointed = InMap
  BY <1>1, <1>3 DEF Pointed, InMap
<1>5. CanClear
  BY <1>1, <1>4 DEF CanClear, ContainersInv, OwnerInv, PlaceInv
<1>6. /\ contents' = Without(contents, {At(k) : k \in DOMAIN elems} \cup {BoxKey(p) : p \in InMap})
      /\ elems' = << >> /\ expected' = Without(expected, InMap) /\ map' \in {map, None}
      /\ UNCHANGED <<locks, set, boxes, borrow, set_iter, trapped, members, abandoned, leaked>>
  BY <1>3, <1>4, <1>5 DEF clear, map_delete, Safely, Cleared
<1>7. /\ \A x \in DOMAIN contents' : x \in DOMAIN contents /\ contents'[x] = contents[x]
      /\ \A x \in DOMAIN contents :
           (\A k \in DOMAIN elems : x # At(k)) /\ (\A p \in InMap : x # BoxKey(p)) => x \in DOMAIN contents'
      /\ \A k \in DOMAIN elems : At(k) \notin DOMAIN contents'
      /\ \A p \in InMap : BoxKey(p) \notin DOMAIN contents'
  BY <1>6 DEF Without
<1>8. /\ DOMAIN expected' = DOMAIN expected \ InMap
      /\ \A q \in DOMAIN expected' : expected'[q] = expected[q]
  BY <1>6 DEF Without
<1>9. DOMAIN elems' = {} /\ InMap' = {}
  <2>1. DOMAIN elems' = {}
    BY <1>6
  <2> QED
    BY <2>1 DEF InMap
<1>10. /\ (trapped = FALSE)' /\ PrefixInv' /\ PlaceInv' /\ next_item_prefix' = next_item_prefix
  <2>0. map # set /\ \A q \in DOMAIN expected : q # 0
    BY <1>1, PrefixFacts DEF ContainersInv, PrefixInv, PrefixesDiffer
  <2>1. Stays(NEXT_ITEM_PREFIX_KEY) /\ \A e \in members : Stays(EntryKey(set, e))
    <3>1. \A p \in InMap : p # 0
      BY <2>0 DEF ContainersInv, OwnerInv
    <3> QED
      BY <1>7, <2>0, <3>1, KeyFacts DEF Stays, At
  <2>2. \A q \in DOMAIN expected : BoxKey(q) \in DOMAIN contents' <=> q \in DOMAIN expected'
    BY <1>7, <1>8, KeyFacts DEF ContainersInv, PlaceInv, At
  <2>3. \A j \in MapKeys : EntryKey(map, j) \notin DOMAIN contents'
    BY <1>2, <1>7 DEF At
  <2> QED
    BY <1>1, <1>6, <1>7, <1>8, <1>9, <2>1, <2>2, <2>3, MapFrame
<1>11. OwnerInv'
  <2>1. DOMAIN expected' = DOMAIN boxes \cup abandoned
    BY <1>8 DEF ContainersInv, OwnerInv
  <2> QED
    BY <1>6, <1>9, <2>1 DEF ContainersInv, OwnerInv
<1>12. BorrowInv' /\ StoredInv'
  BY <1>1, <1>6, <1>9, FreeMapStays
<1>13. ValueInv'
  <2>1. ASSUME NEW q \in DOMAIN expected'
        PROVE  /\ q \in DOMAIN expected /\ expected'[q] = expected[q]
               /\ Handle(q)' = Handle(q) /\ contents'[BoxKey(q)] = contents[BoxKey(q)]
    <3>1. q \in DOMAIN expected /\ q \notin InMap /\ expected'[q] = expected[q]
      BY <1>8
    <3>2. BoxKey(q) \in DOMAIN contents'
      BY <1>7, <3>1, KeyFacts DEF ContainersInv, PlaceInv, At
    <3> QED
      BY <1>6, <1>7, <3>1, <3>2, HandleStays
  <2> QED
    BY <1>6, <2>1 DEF ContainersInv, ValueInv
<1>14. LockInv'
  <2>1. IterLocks' = 0 /\ IterLocks = 0
    BY <1>1, <1>6 DEF IterLocks
  <2> QED
    BY <1>6, <1>10, <2>1 DEF ContainersInv, LockInv
<1> QED
  BY <1>10, <1>11, <1>12, <1>13, <1>14 DEF ContainersInv

(* A borrowed item with the box p in memory *)
LEMMA ItemIs ==
    ASSUME NEW k \in MapKeys, NEW p \in ItemPrefixes, NEW inner, Sound(inner)
    PROVE  Item(k, p, inner) \in Items
  BY DEF Item, Items, Sound

LEMMA EntryInsertStep ==
    ASSUME ContainersInv, NEW k \in MapKeys, NEW p \in DOMAIN boxes, entry_insert(k, p), ~Locked(map)
    PROVE  ContainersInv'
<1> PICK inner : inner = boxes[p]
  OBVIOUS
<1>1. /\ MapFree /\ borrow = None /\ map # None /\ ~HasItem /\ ~Locked(map) /\ map \in ItemPrefixes
      /\ \A j \in DOMAIN elems : contents[At(j)] = <<elems[j]>>
      /\ k \notin DOMAIN elems
  BY FreeMap, MapEntry DEF entry_insert, MapFree
<1>2. /\ contents' = With(contents, At(k), <<p>>) /\ boxes' = Without(boxes, {p})
      /\ borrow' = Borrow("entry", {}, Item(k, p, inner)) /\ elems' = With(elems, k, p)
      /\ UNCHANGED <<locks, map, set, set_iter, trapped, members, expected, abandoned, leaked>>
  BY <1>1 DEF entry_insert, Safely
<1>3. /\ p \in DOMAIN expected /\ p \notin InMap /\ p \notin abandoned /\ p \in ItemPrefixes
      /\ Sound(inner) /\ p # None
  BY OwnBox, PrefixFacts
<1>4. /\ DOMAIN contents' = DOMAIN contents \cup {At(k)} /\ contents'[At(k)] = <<p>>
      /\ \A x \in DOMAIN contents : x # At(k) => contents'[x] = contents[x]
      /\ DOMAIN boxes' = DOMAIN boxes \ {p} /\ \A q \in DOMAIN boxes' : boxes'[q] = boxes[q]
      /\ DOMAIN elems' = DOMAIN elems \cup {k} /\ elems'[k] = p
      /\ \A j \in DOMAIN elems : j # k => elems'[j] = elems[j]
  BY <1>2 DEF With, Without
<1>5. /\ borrow' \in Borrows /\ borrow' # None /\ borrow'.kind = "entry" /\ borrow'.left = {}
      /\ borrow'.item # None /\ borrow'.item.key = k /\ borrow'.item.prefix = p
      /\ borrow'.item.inner = inner /\ borrow'.item.modified = FALSE
  <2>1. PICK it : it = Item(k, p, inner)
    OBVIOUS
  <2>2. /\ it \in Items /\ it # None /\ it.key = k /\ it.prefix = p /\ it.inner = inner
        /\ it.modified = FALSE
    <3>1. k \in MapKeys /\ p \in ItemPrefixes /\ Sound(inner)
      BY <1>3
    <3>2. it \in Items
      BY <2>1, <3>1, ItemIs
    <3>3. it # None
      BY <3>2, NoneAssumption
    <3> QED
      BY <2>1, <3>2, <3>3 DEF Item
  <2>3. borrow' \in Borrows /\ borrow'.kind = "entry" /\ borrow'.left = {} /\ borrow'.item = it
    BY <1>2, <2>1, <2>2 DEF Borrow, Borrows
  <2> QED
    BY <2>2, <2>3, NoneAssumption
<1>6. HasItem'
  BY <1>5 DEF HasItem
<1>7. InMap' = InMap \cup {p} /\ Injective(elems)'
  <2>1. Had(k) = {}
    BY <1>1 DEF Had
  <2> QED
    BY <1>3, <1>4, <2>1, PutInMap
<1>8. OwnerInv'
  <2>2. DOMAIN expected' = DOMAIN boxes' \cup InMap' \cup abandoned'
    BY <1>2, <1>4, <1>7 DEF ContainersInv, OwnerInv
  <2>3. DOMAIN boxes' \cap InMap' = {}
    BY <1>4, <1>7 DEF ContainersInv, OwnerInv
  <2>4. abandoned' \cap (DOMAIN boxes' \cup InMap') = {}
    BY <1>2, <1>3, <1>4, <1>7 DEF ContainersInv, OwnerInv
  <2> QED
    BY <1>1, <1>2, <1>4, <1>7, <2>2, <2>3, <2>4 DEF ContainersInv, OwnerInv, Injective
<1>9. /\ (trapped = FALSE)' /\ PrefixInv' /\ PlaceInv' /\ next_item_prefix' = next_item_prefix
  <2>1. Stays(NEXT_ITEM_PREFIX_KEY) /\ \A e \in members : Stays(EntryKey(set, e))
    <3>1. map # set
      BY <1>1 DEF ContainersInv, PrefixInv, PrefixesDiffer
    <3> QED
      BY <1>4, <3>1, KeyFacts DEF Stays, At
  <2>2. \A q \in DOMAIN expected : BoxKey(q) \in DOMAIN contents'
    BY <1>4 DEF ContainersInv, PlaceInv
  <2>3. \A j \in MapKeys : EntryKey(map, j) \in DOMAIN contents' <=> j \in DOMAIN elems'
    BY <1>1, <1>4, MapEntry, KeyFacts DEF At
  <2>4. \A x \in DOMAIN contents' : x \in DOMAIN contents \/ \E j \in MapKeys : x = EntryKey(map, j)
    BY <1>4 DEF At
  <2>5. DOMAIN elems' \subseteq MapKeys
    BY <1>4 DEF ContainersInv, OwnerInv
  <2> QED
    BY <1>1, <1>2, <2>1, <2>2, <2>3, <2>4, <2>5, MapFrame
<1>10. BorrowInv'
  <2>1. At(k)' = At(k) /\ map' # None /\ k \in DOMAIN elems'
    BY <1>1, <1>2, <1>4 DEF At
  <2>2. (set_iter # None => set_iter \subseteq SetKeys)'
    BY <1>2 DEF ContainersInv, BorrowInv
  <2>3. borrow'.kind # "iter" /\ borrow'.left \subseteq DOMAIN elems'
    BY <1>5
  <2> QED
    BY <1>3, <1>4, <1>5, <1>6, <2>1, <2>2, <2>3 DEF BorrowInv, At
<1>11. StoredInv'
  <2>1. ASSUME NEW j \in DOMAIN elems', j # k
        PROVE  contents'[EntryKey(map', j)] = <<elems'[j]>>
    <3>1. j \in DOMAIN elems /\ elems'[j] = elems[j]
      BY <1>4, <2>1
    <3>2. At(j) \in DOMAIN contents /\ At(j) # At(k)
      BY <1>1, <2>1, <3>1, MapEntry, KeyFacts DEF At
    <3> QED
      BY <1>1, <1>2, <1>4, <3>1, <3>2 DEF At
  <2> QED
    BY <1>3, <1>4, <1>5, <1>6, <2>1 DEF StoredInv
<1>12. ValueInv'
  <2>1. \A q \in DOMAIN boxes' : Sound(boxes'[q])
    BY <1>4 DEF ContainersInv, ValueInv
  <2>2. ASSUME NEW q \in DOMAIN expected
        PROVE  Handle(q)' = Handle(q) /\ contents'[BoxKey(q)] = contents[BoxKey(q)]
    <3>1. contents'[BoxKey(q)] = contents[BoxKey(q)]
      BY <1>4, KeyFacts DEF ContainersInv, PlaceInv, At
    <3>2. CASE q = p
      BY <1>4, <1>5, <1>6, <3>1, <3>2 DEF Handle
    <3>3. CASE q # p
      <4>1. Handle(q)' = IF q \in DOMAIN boxes' THEN boxes'[q] ELSE Reference
        BY <1>5, <3>3 DEF Handle, Reference
      <4>2. Handle(q) = IF q \in DOMAIN boxes THEN boxes[q] ELSE Reference
        BY <1>1 DEF Handle
      <4> QED
        BY <1>4, <3>1, <3>3, <4>1, <4>2
    <3> QED
      BY <3>2, <3>3
  <2> QED
    BY <1>2, <2>1, <2>2 DEF ContainersInv, ValueInv
<1>13. LockInv'
  <2>1. IterLocks' = 0 /\ IterLocks = 0
    BY <1>1, <1>5 DEF IterLocks
  <2> QED
    BY <1>2, <1>9, <2>1, LocksStay
<1> QED
  BY <1>8, <1>9, <1>10, <1>11, <1>12, <1>13 DEF ContainersInv

-----------------------------------------------------------------------------
(* Steps of a borrowed item *)

(* The item refers to the box that was put at its key. *)
LEMMA BorrowedItem ==
    ASSUME ContainersInv, HasItem
    PROVE  /\ LoadedItem \in Items /\ LoadedItem.key = borrow.item.key
           /\ LoadedItem.inner = borrow.item.inner /\ LoadedItem.modified = borrow.item.modified
           /\ LoadedItem.key \in DOMAIN elems /\ LoadedItem.prefix = elems[LoadedItem.key]
           /\ borrow.item.prefix \in {None, LoadedItem.prefix}
<1> PICK k : k = borrow.item.key
  OBVIOUS
<1>1. borrow \in Borrows /\ borrow.item \in Items /\ k \in DOMAIN elems /\ map # None
  <2>1. borrow \in Borrows /\ borrow.item # None
    BY DEF HasItem, ContainersInv, BorrowInv
  <2>2. borrow.item \in Items \cup {None}
    BY <2>1 DEF Borrows
  <2> QED
    BY <2>1, <2>2 DEF HasItem, ContainersInv, BorrowInv
<1>2. elems[k] \in ItemPrefixes /\ elems[k] # None
  BY <1>1, PrefixFacts DEF ContainersInv, OwnerInv, PrefixInv, InMap
<1>3. CASE borrow.item.prefix # None
  <2>1. LoadedItem = borrow.item
    BY <1>3 DEF LoadedItem
  <2>2. borrow.item.prefix = elems[k]
    BY <1>1, <1>3 DEF ContainersInv, StoredInv
  <2> QED
    BY <1>1, <2>1, <2>2
<1>4. CASE borrow.item.prefix = None
  <2>1. contents[At(k)] = <<elems[k]>>
    BY <1>1, <1>4 DEF ContainersInv, StoredInv, At
  <2>2. LoadedItem = [borrow.item EXCEPT !.prefix = elems[k]]
    BY <1>4, <2>1 DEF LoadedItem
  <2> QED
    BY <1>1, <1>2, <1>4, <2>2 DEF Items
<1> QED
  BY <1>3, <1>4

(* So it has a handle of a box that is in the state. *)
LEMMA BorrowedBox ==
    ASSUME ContainersInv, HasItem, NEW p, p = LoadedItem.prefix, NEW inner, inner = LoadedItem.inner
    PROVE  /\ p \in InMap /\ p \in DOMAIN expected /\ p \in ItemPrefixes /\ p \notin DOMAIN boxes
           /\ p \notin abandoned /\ p # None /\ p # 0
           /\ Handle(p) = inner /\ Sound(inner) /\ expected[p] \in Values
           /\ BoxKey(p) \in DOMAIN contents /\ contents[BoxKey(p)] \in Seq(Nat)
           /\ Fits(inner, contents[BoxKey(p)], expected[p])
           /\ CanLoad(p, inner) /\ CanDrop(p, inner)
           /\ \A q \in DOMAIN expected : q # p =>
                Handle(q) = IF q \in DOMAIN boxes THEN boxes[q] ELSE Reference
           /\ map # None /\ map \in ItemPrefixes
           /\ borrow \in Borrows /\ borrow # None /\ borrow.kind \in {"iter_mut", "ref_mut", "entry"}
           /\ borrow.left \subseteq DOMAIN elems
<1>1. p \in InMap
  BY BorrowedItem DEF InMap
<1>2. p \in DOMAIN expected /\ p \notin DOMAIN boxes /\ p \notin abandoned
  BY <1>1 DEF ContainersInv, OwnerInv
<1>3. p \in ItemPrefixes /\ p # None /\ p # 0
  BY <1>2, PrefixFacts DEF ContainersInv, PrefixInv
<1>4. BoxKey(p) \in DOMAIN contents /\ contents[BoxKey(p)] \in Seq(Nat) /\ expected[p] \in Values
  BY <1>2 DEF ContainersInv, PlaceInv, ValueInv
<1>5. Sound(inner) /\ (borrow.item.prefix = None => inner = Reference)
  BY BorrowedItem DEF ContainersInv, BorrowInv
<1>6. Handle(p) = inner
  <2>1. CASE borrow.item.prefix = None
    BY <1>2, <1>3, <1>5, <2>1 DEF Handle
  <2>2. CASE borrow.item.prefix # None
    <3>1. borrow.item.prefix = p /\ borrow.item.inner = inner
      BY <2>2, BorrowedItem
    <3> QED
      BY <1>2, <3>1 DEF Handle
  <2> QED
    BY <2>1, <2>2
<1>7. Fits(inner, contents[BoxKey(p)], expected[p])
  BY <1>2, <1>6 DEF ContainersInv, ValueInv
<1>8. ASSUME NEW q \in DOMAIN expected, q # p
      PROVE  Handle(q) = IF q \in DOMAIN boxes THEN boxes[q] ELSE Reference
  <2>1. borrow.item.prefix # q
    <3>1. q # None
      BY <1>8, PrefixFacts DEF ContainersInv, PrefixInv
    <3> QED
      BY <1>8, <3>1, BorrowedItem
  <2> QED
    BY <2>1 DEF Handle
<1>9. /\ map # None /\ map \in ItemPrefixes
      /\ borrow \in Borrows /\ borrow # None /\ borrow.left \subseteq DOMAIN elems /\ borrow.kind # "iter"
  BY DEF HasItem, ContainersInv, BorrowInv, PrefixInv
<1>10. borrow.kind \in {"iter_mut", "ref_mut", "entry"}
  BY <1>9 DEF Borrows
<1> QED
  BY <1>1, <1>2, <1>3, <1>4, <1>5, <1>6, <1>7, <1>8, <1>9, <1>10 DEF CanLoad, CanDrop

(* The item is another one. *)
LEMMA ItemChanges ==
    ASSUME borrow \in Borrows, NEW it \in Items, borrow' = [borrow EXCEPT !.item = it]
    PROVE  /\ borrow' \in Borrows /\ borrow' # None /\ HasItem' /\ borrow'.kind = borrow.kind
           /\ borrow'.left = borrow.left /\ borrow'.item = it
<1>1. borrow' \in Borrows /\ borrow'.kind = borrow.kind /\ borrow'.left = borrow.left
      /\ borrow'.item = it
  BY DEF Borrows
<1> QED
  BY <1>1, NoneAssumption DEF HasItem

(* The box of the item is in memory, the others are where the state has them. *)
LEMMA ItemInMemory ==
    ASSUME HasItem', NEW k, borrow'.item.key = k, borrow'.item.prefix # None,
           borrow'.item.prefix = elems'[k],
           \A j \in DOMAIN elems' : j # k => contents'[EntryKey(map', j)] = <<elems'[j]>>
    PROVE  StoredInv'
<1> SUFFICES ASSUME NEW j \in DOMAIN elems'
             PROVE  IF HasItem' /\ borrow'.item.key = j /\ borrow'.item.prefix # None
                      THEN borrow'.item.prefix = elems'[j]
                      ELSE contents'[EntryKey(map', j)] = <<elems'[j]>>
  BY DEF StoredInv
<1>1. CASE j = k
  BY <1>1
<1>2. CASE j # k
  BY <1>2
<1> QED
  BY <1>1, <1>2

LEMMA ItemGetMutStep == ASSUME ContainersInv, NEW v \in Values, item_get_mut(v) PROVE ContainersInv'
<1> PICK it : it = LoadedItem
  OBVIOUS
<1> PICK p : p = it.prefix
  OBVIOUS
<1> PICK c : c = Loaded(v, TRUE)
  OBVIOUS
<1> PICK it2 : it2 = [it EXCEPT !.inner = c, !.modified = TRUE]
  OBVIOUS
<1>1. HasItem
  BY DEF item_get_mut
<1>2. /\ it \in Items /\ it.key = borrow.item.key /\ it.inner = borrow.item.inner
      /\ it.key \in DOMAIN elems /\ p = elems[it.key]
  BY <1>1, BorrowedItem
<1>3. /\ p \in DOMAIN expected /\ p \in ItemPrefixes /\ p \notin DOMAIN boxes /\ p # None
      /\ contents[BoxKey(p)] \in Seq(Nat) /\ CanLoad(p, it.inner)
      /\ \A q \in DOMAIN expected : q # p => Handle(q) = IF q \in DOMAIN boxes THEN boxes[q] ELSE Reference
      /\ borrow \in Borrows /\ borrow # None /\ borrow.kind \in {"iter_mut", "ref_mut", "entry"}
      /\ map # None /\ borrow.left \subseteq DOMAIN elems
  BY <1>1, BorrowedBox
<1>4. /\ borrow' = [borrow EXCEPT !.item = it2] /\ expected' = [expected EXCEPT ![p] = v]
      /\ UNCHANGED <<contents, locks, map, set, boxes, set_iter, trapped, elems, members, abandoned,
                     leaked>>
  BY <1>3 DEF item_get_mut, Safely
<1>5. Sound(c) /\ c.loaded = TRUE /\ c.value = v /\ c.modified = TRUE /\ c \in Inner
  BY LoadedIs DEF Sound
<1>6. it2 \in Items /\ it2.key = it.key /\ it2.prefix = p /\ it2.inner = c /\ it2.modified = TRUE
  BY <1>2, <1>5 DEF Items
<1>7. /\ borrow' \in Borrows /\ borrow' # None /\ HasItem' /\ borrow'.kind = borrow.kind
      /\ borrow'.left = borrow.left /\ borrow'.item = it2
  BY <1>3, <1>4, <1>6, ItemChanges
<1>8. /\ DOMAIN expected' = DOMAIN expected /\ expected'[p] = v
      /\ \A q \in DOMAIN expected : q # p => expected'[q] = expected[q]
  BY <1>3, <1>4
<1>9. next_item_prefix' = next_item_prefix /\ InMap' = InMap
  BY <1>4 DEF next_item_prefix, InMap
<1>10. PrefixInv' /\ (trapped = FALSE)'
  BY <1>4, <1>8, <1>9 DEF ContainersInv, PrefixInv, PrefixesDiffer
<1>11. OwnerInv' /\ PlaceInv'
  BY <1>4, <1>8, <1>9 DEF ContainersInv, OwnerInv, PlaceInv
<1>12. BorrowInv'
  <2>1. (set_iter # None => set_iter \subseteq SetKeys)'
    BY <1>4 DEF ContainersInv, BorrowInv
  <2>2. borrow'.kind # "iter" /\ map' # None /\ borrow'.left \subseteq DOMAIN elems'
    BY <1>3, <1>4, <1>7
  <2> QED
    BY <1>2, <1>3, <1>4, <1>5, <1>6, <1>7, <2>1, <2>2 DEF BorrowInv
<1>13. StoredInv'
  <2>1. \A j \in DOMAIN elems : j # it.key => contents[EntryKey(map, j)] = <<elems[j]>>
    BY <1>2 DEF ContainersInv, StoredInv
  <2>2. /\ HasItem' /\ borrow'.item.key = it.key /\ borrow'.item.prefix # None
        /\ borrow'.item.prefix = elems'[it.key]
    BY <1>2, <1>3, <1>4, <1>6, <1>7
  <2>3. \A j \in DOMAIN elems' : j # it.key => contents'[EntryKey(map', j)] = <<elems'[j]>>
    BY <1>4, <2>1
  <2> QED
    BY <2>2, <2>3, ItemInMemory
<1>14. ValueInv'
  <2>1. Handle(p)' = c
    BY <1>3, <1>4, <1>6, <1>7 DEF Handle
  <2>2. ASSUME NEW q \in DOMAIN expected, q # p
        PROVE  Handle(q)' = Handle(q)
    BY <1>3, <1>4, <1>6, <1>7, <2>2 DEF Handle
  <2>3. Fits(c, contents[BoxKey(p)], v)
    BY <1>5 DEF Fits
  <2> QED
    BY <1>3, <1>4, <1>8, <2>1, <2>2, <2>3 DEF ContainersInv, ValueInv
<1>15. LockInv'
  <2>1. IterLocks' = IterLocks
    BY <1>3, <1>7 DEF IterLocks
  <2> QED
    BY <1>4, <1>9, <2>1, LocksStay
<1> QED
  BY <1>10, <1>11, <1>12, <1>13, <1>14, <1>15 DEF ContainersInv

(* The box p takes the place of the one of the item, old, which is kept by *)
(* the contract or lost.                                                   *)
Swaps(it, old, p) ==
    /\ borrow' \in Borrows /\ HasItem' /\ borrow'.kind = borrow.kind /\ borrow'.left = borrow.left
    /\ borrow'.item.key = it.key /\ borrow'.item.prefix = p /\ borrow'.item.inner = boxes[p]
    /\ borrow.kind = "entry" /\ ~borrow'.item.modified => contents'[At(it.key)] = <<p>>
    /\ DOMAIN elems' = DOMAIN elems /\ elems'[it.key] = p
    /\ \A j \in DOMAIN elems : j # it.key => elems'[j] = elems[j]
    /\ DOMAIN contents' = DOMAIN contents
    /\ \A x \in DOMAIN contents : x # At(it.key) /\ x # BoxKey(old) => contents'[x] = contents[x]
    /\ contents'[BoxKey(old)] \in Seq(Nat)
    /\ \/ DOMAIN boxes' = (DOMAIN boxes \ {p}) \cup {old} /\ abandoned' = abandoned
       \/ DOMAIN boxes' = DOMAIN boxes \ {p} /\ abandoned' = abandoned \cup {old}
    /\ \A q \in DOMAIN boxes : q # p => boxes'[q] = boxes[q]
    /\ old \in DOMAIN boxes' =>
         Sound(boxes'[old]) /\ Fits(boxes'[old], contents'[BoxKey(old)], expected[old])
    /\ old \notin DOMAIN boxes' => Deserial(contents'[BoxKey(old)]) = expected[old]
    /\ UNCHANGED <<locks, map, set, set_iter, trapped, members, expected, leaked>>

LEMMA SwapFrame ==
    ASSUME ContainersInv, HasItem, NEW p \in DOMAIN boxes, NEW it, it = LoadedItem,
           NEW old, old = it.prefix, Swaps(it, old, p)
    PROVE  ContainersInv'
<1> PICK k : k = it.key
  OBVIOUS
<1> PICK inner : inner = boxes[p]
  OBVIOUS
<1> USE DEF Swaps
<1>1. /\ it \in Items /\ k = borrow.item.key /\ k \in DOMAIN elems /\ old = elems[k]
  BY BorrowedItem
<1>2. /\ old \in InMap /\ old \in DOMAIN expected /\ old \notin DOMAIN boxes /\ old \notin abandoned
      /\ old # None /\ old # 0 /\ expected[old] \in Values
      /\ \A q \in DOMAIN expected : q # old => Handle(q) = IF q \in DOMAIN boxes THEN boxes[q] ELSE Reference
      /\ map # None /\ borrow \in Borrows /\ borrow # None
      /\ borrow.kind \in {"iter_mut", "ref_mut", "entry"} /\ borrow.left \subseteq DOMAIN elems
  BY BorrowedBox
<1>3. UNCHANGED <<locks, map, set, set_iter, trapped, members, expected, leaked>>
  OBVIOUS
<1>4. /\ p \in DOMAIN expected /\ p \in ItemPrefixes /\ p \notin InMap /\ p \notin abandoned /\ p # None
      /\ Sound(inner) /\ inner \in Inner /\ p # old
  BY <1>2, OwnBox, PrefixFacts DEF Sound
<1>6. /\ borrow' \in Borrows /\ borrow' # None /\ HasItem' /\ borrow'.kind = borrow.kind
      /\ borrow'.left = borrow.left /\ borrow'.item.key = k /\ borrow'.item.prefix = p
      /\ borrow'.item.inner = inner
  BY DEF HasItem
<1>7. /\ DOMAIN elems' = DOMAIN elems /\ elems'[k] = p
      /\ \A j \in DOMAIN elems : j # k => elems'[j] = elems[j]
  OBVIOUS
<1>8. InMap' = (InMap \ {old}) \cup {p} /\ Injective(elems)'
  <2>1. Had(k) = {old}
    BY <1>1 DEF Had
  <2>2. DOMAIN elems' = DOMAIN elems \cup {k}
    BY <1>1, <1>7
  <2> QED
    BY <1>4, <1>7, <2>1, <2>2, PutInMap
<1>9. /\ (trapped = FALSE)' /\ PrefixInv' /\ PlaceInv' /\ next_item_prefix' = next_item_prefix
  <2>1. Stays(NEXT_ITEM_PREFIX_KEY) /\ \A e \in members : Stays(EntryKey(set, e))
    <3>1. BoxKey(old) # NEXT_ITEM_PREFIX_KEY /\ map # set
      BY <1>2, KeyFacts DEF ContainersInv, PrefixInv, PrefixesDiffer
    <3> QED
      BY <3>1, KeyFacts DEF Stays, At
  <2>2. \A q \in DOMAIN expected : BoxKey(q) \in DOMAIN contents'
    BY DEF ContainersInv, PlaceInv
  <2>3. \A j \in MapKeys : EntryKey(map, j) \in DOMAIN contents' <=> j \in DOMAIN elems'
    BY <1>2, <1>7, MapEntry DEF At
  <2>4. DOMAIN elems' \subseteq MapKeys
    BY <1>7 DEF ContainersInv, OwnerInv
  <2> QED
    BY <1>2, <1>3, <2>1, <2>2, <2>3, <2>4, MapFrame
<1>10. OwnerInv'
  <2>2. DOMAIN expected' = DOMAIN boxes' \cup InMap' \cup abandoned'
    BY <1>2, <1>3, <1>4, <1>8 DEF ContainersInv, OwnerInv
  <2>3. DOMAIN boxes' \cap InMap' = {}
    BY <1>2, <1>4, <1>8 DEF ContainersInv, OwnerInv
  <2>4. abandoned' \cap (DOMAIN boxes' \cup InMap') = {}
    BY <1>2, <1>4, <1>8 DEF ContainersInv, OwnerInv
  <2> QED
    BY <1>2, <1>3, <1>7, <1>8, <2>2, <2>3, <2>4 DEF ContainersInv, OwnerInv, Injective
<1>11. BorrowInv'
  <2>1. (set_iter # None => set_iter \subseteq SetKeys)'
    BY <1>3 DEF ContainersInv, BorrowInv
  <2>2. /\ borrow'.kind # "iter" /\ map' # None /\ borrow'.left \subseteq DOMAIN elems'
        /\ k \in DOMAIN elems' /\ At(k)' = At(k)
    BY <1>1, <1>2, <1>3, <1>6, <1>7 DEF At
  <2> QED
    BY <1>4, <1>6, <2>1, <2>2 DEF BorrowInv, At
<1>12. StoredInv'
  <2>1. ASSUME NEW j \in DOMAIN elems, j # k
        PROVE  contents'[EntryKey(map, j)] = <<elems'[j]>>
    <3>1. contents[At(j)] = <<elems[j]>>
      BY <1>1, <2>1 DEF ContainersInv, StoredInv, At
    <3>2. At(j) \in DOMAIN contents /\ At(j) # At(k) /\ At(j) # BoxKey(old)
      BY <1>2, <2>1, MapEntry, KeyFacts DEF At
    <3> QED
      BY <1>7, <2>1, <3>1, <3>2 DEF At
  <2>2. HasItem' /\ borrow'.item.key = k /\ borrow'.item.prefix # None /\ borrow'.item.prefix = elems'[k]
    BY <1>4, <1>6, <1>7
  <2>3. \A j \in DOMAIN elems' : j # k => contents'[EntryKey(map', j)] = <<elems'[j]>>
    BY <1>3, <1>7, <2>1
  <2> QED
    BY <2>2, <2>3, ItemInMemory
<1>13. ValueInv'
  <2>1. \A q \in DOMAIN boxes' : Sound(boxes'[q])
    BY DEF ContainersInv, ValueInv
  <2>2. \A q \in DOMAIN expected' :
          Handle(q)' = IF q \in DOMAIN boxes' THEN boxes'[q] ELSE IF q = p THEN inner ELSE Reference
    BY <1>6 DEF Handle, Reference
  <2>3. ASSUME NEW q \in DOMAIN expected, q # old
        PROVE  Handle(q)' = Handle(q) /\ contents'[BoxKey(q)] = contents[BoxKey(q)]
    <3>1. contents'[BoxKey(q)] = contents[BoxKey(q)]
      BY <2>3, KeyFacts DEF ContainersInv, PlaceInv, At
    <3>2. CASE q = p
      BY <1>2, <1>3, <1>4, <2>2, <2>3, <3>1, <3>2
    <3>3. CASE q # p
      BY <1>2, <1>3, <2>2, <2>3, <3>1, <3>3
    <3> QED
      BY <3>2, <3>3
  <2>4. Fits(Handle(old)', contents'[BoxKey(old)], expected[old])
    <3>1. CASE old \in DOMAIN boxes'
      BY <1>2, <1>3, <2>2, <3>1
    <3>2. CASE old \notin DOMAIN boxes'
      BY <1>2, <1>3, <1>4, <2>2, <3>2, ReferenceIs DEF Fits
    <3> QED
      BY <3>1, <3>2
  <2> QED
    BY <1>2, <1>3, <2>1, <2>3, <2>4 DEF ContainersInv, ValueInv
<1>14. LockInv'
  <2>1. IterLocks' = IterLocks
    BY <1>2, <1>6 DEF IterLocks
  <2> QED
    BY <1>3, <1>9, <2>1, LocksStay
<1> QED
  BY <1>9, <1>10, <1>11, <1>12, <1>13, <1>14 DEF ContainersInv

(* What the item and the map are after that *)
LEMMA SwappedItem ==
    ASSUME ContainersInv, HasItem, NEW p \in DOMAIN boxes, NEW m \in BOOLEAN, NEW it, it = LoadedItem,
           Swapped(it, p, m)
    PROVE  /\ borrow' \in Borrows /\ HasItem' /\ borrow'.kind = borrow.kind
           /\ borrow'.left = borrow.left /\ borrow'.item.key = it.key /\ borrow'.item.prefix = p
           /\ borrow'.item.inner = boxes[p] /\ borrow'.item.modified = m
           /\ DOMAIN elems' = DOMAIN elems /\ elems'[it.key] = p
           /\ \A j \in DOMAIN elems : j # it.key => elems'[j] = elems[j]
           /\ UNCHANGED <<locks, map, set, set_iter, members, expected, leaked>>
<1> PICK it2 : it2 = [it EXCEPT !.prefix = p, !.inner = boxes[p], !.modified = m]
  OBVIOUS
<1>1. it \in Items /\ it.key \in DOMAIN elems /\ borrow \in Borrows
  BY BorrowedItem, BorrowedBox
<1>2. p \in ItemPrefixes /\ boxes[p] \in Inner
  BY OwnBox DEF Sound
<1>3. it2 \in Items /\ it2.key = it.key /\ it2.prefix = p /\ it2.inner = boxes[p] /\ it2.modified = m
  BY <1>1, <1>2 DEF Items
<1>4. borrow' = [borrow EXCEPT !.item = it2] /\ elems' = [elems EXCEPT ![it.key] = p]
  BY DEF Swapped
<1>5. /\ borrow' \in Borrows /\ HasItem' /\ borrow'.kind = borrow.kind
      /\ borrow'.left = borrow.left /\ borrow'.item = it2
  BY <1>1, <1>3, <1>4, ItemChanges
<1>6. /\ DOMAIN elems' = DOMAIN elems /\ elems'[it.key] = p
      /\ \A j \in DOMAIN elems : j # it.key => elems'[j] = elems[j]
  BY <1>1, <1>4
<1> QED
  BY <1>3, <1>5, <1>6 DEF Swapped

(* The contract gets the box that was in the item. *)
LEMMA ItemSwapStep ==
    ASSUME ContainersInv, NEW p \in DOMAIN boxes, item_swap(p) \/ entry_modify(p)
    PROVE  ContainersInv'
<1> PICK it : it = LoadedItem
  OBVIOUS
<1> PICK old : old = it.prefix
  OBVIOUS
<1> PICK inner : inner = it.inner
  OBVIOUS
<1>1. HasItem
  BY DEF item_swap, entry_modify
<1>2. it \in Items /\ it.key \in DOMAIN elems
  BY <1>1, BorrowedItem
<1>3. /\ old \notin DOMAIN boxes /\ Sound(inner) /\ BoxKey(old) \in DOMAIN contents
      /\ contents[BoxKey(old)] \in Seq(Nat) /\ Fits(inner, contents[BoxKey(old)], expected[old])
      /\ map # None
  BY <1>1, BorrowedBox
<1>4. /\ boxes' = With(Without(boxes, {p}), old, inner) /\ UNCHANGED <<trapped, abandoned>>
      /\ \/ Swapped(it, p, TRUE) /\ contents' = contents
         \/ Swapped(it, p, it.modified) /\ contents' = [contents EXCEPT ![At(it.key)] = <<p>>]
  BY DEF item_swap, entry_modify
<1>5. /\ DOMAIN boxes' = (DOMAIN boxes \ {p}) \cup {old} /\ boxes'[old] = inner
      /\ \A q \in DOMAIN boxes : q # p => boxes'[q] = boxes[q]
  BY <1>3, <1>4 DEF With, Without
<1>6. At(it.key) \in DOMAIN contents /\ BoxKey(old) # At(it.key)
  BY <1>2, <1>3, MapEntry, KeyFacts DEF At
<1>7. PICK m \in BOOLEAN :
        Swapped(it, p, m) /\ (borrow.kind = "entry" /\ ~m => contents'[At(it.key)] = <<p>>)
  <2>1. it.modified \in BOOLEAN
    BY <1>2 DEF Items
  <2> QED
    BY <1>4, <1>6, <2>1
<1>11. /\ borrow' \in Borrows /\ HasItem' /\ borrow'.kind = borrow.kind
       /\ borrow'.left = borrow.left /\ borrow'.item.key = it.key /\ borrow'.item.prefix = p
       /\ borrow'.item.inner = boxes[p] /\ borrow'.item.modified = m
       /\ DOMAIN elems' = DOMAIN elems /\ elems'[it.key] = p
       /\ \A j \in DOMAIN elems : j # it.key => elems'[j] = elems[j]
       /\ UNCHANGED <<locks, map, set, set_iter, members, expected, leaked>>
  BY <1>1, <1>7, SwappedItem
<1>12. borrow.kind = "entry" /\ ~borrow'.item.modified => contents'[At(it.key)] = <<p>>
  BY <1>7, <1>11
<1>8. /\ DOMAIN contents' = DOMAIN contents
      /\ \A x \in DOMAIN contents : x # At(it.key) => contents'[x] = contents[x]
  BY <1>4
<1>9. contents'[BoxKey(old)] = contents[BoxKey(old)]
  BY <1>3, <1>6, <1>8
<1>10. /\ contents'[BoxKey(old)] \in Seq(Nat) /\ old \in DOMAIN boxes' /\ Sound(boxes'[old])
       /\ Fits(boxes'[old], contents'[BoxKey(old)], expected[old])
  BY <1>3, <1>5, <1>9
<1>13. Swaps(it, old, p)
  BY <1>4, <1>5, <1>8, <1>10, <1>11, <1>12 DEF Swaps
<1> QED
  BY <1>1, <1>13, SwapFrame

(* It is dropped, and lost. *)
LEMMA ItemSetStep == ASSUME ContainersInv, NEW p \in DOMAIN boxes, item_set(p) PROVE ContainersInv'
<1> PICK it : it = LoadedItem
  OBVIOUS
<1> PICK old : old = it.prefix
  OBVIOUS
<1> PICK inner : inner = it.inner
  OBVIOUS
<1> DEFINE put == [contents EXCEPT ![At(it.key)] = <<p>>]
<1>1. HasItem
  BY DEF item_set
<1>2. it \in Items /\ it.key \in DOMAIN elems
  BY <1>1, BorrowedItem
<1>3. /\ old \notin DOMAIN boxes /\ Sound(inner) /\ BoxKey(old) \in DOMAIN contents
      /\ contents[BoxKey(old)] \in Seq(Nat) /\ Fits(inner, contents[BoxKey(old)], expected[old])
      /\ map # None /\ CanDrop(old, inner) /\ expected[old] \in Values
  BY <1>1, BorrowedBox
<1>4. /\ Swapped(it, p, TRUE) /\ contents' = DropBox(put, old, inner) /\ boxes' = Without(boxes, {p})
      /\ abandoned' = abandoned \cup {old} /\ UNCHANGED trapped /\ borrow.kind # "entry"
  BY <1>3 DEF item_set, Safely
<1>5. /\ DOMAIN boxes' = DOMAIN boxes \ {p} /\ \A q \in DOMAIN boxes : q # p => boxes'[q] = boxes[q]
  BY <1>4 DEF Without
<1>6. At(it.key) \in DOMAIN contents /\ BoxKey(old) # At(it.key)
  BY <1>2, <1>3, MapEntry, KeyFacts DEF At
<1>7. /\ DOMAIN put = DOMAIN contents
      /\ \A x \in DOMAIN contents : x # At(it.key) => put[x] = contents[x]
  OBVIOUS
<1> HIDE DEF put
<1>8. /\ DOMAIN contents' = DOMAIN contents
      /\ \A x \in DOMAIN contents : x # At(it.key) /\ x # BoxKey(old) => contents'[x] = contents[x]
      /\ contents'[BoxKey(old)] \in Seq(Nat) /\ Deserial(contents'[BoxKey(old)]) = expected[old]
  <2>1. BoxKey(old) \in DOMAIN put /\ put[BoxKey(old)] = contents[BoxKey(old)]
    BY <1>3, <1>6, <1>7
  <2>2. /\ DOMAIN contents' = DOMAIN put
        /\ \A x \in DOMAIN put : x # BoxKey(old) => contents'[x] = put[x]
        /\ contents'[BoxKey(old)] \in Seq(Nat) /\ Deserial(contents'[BoxKey(old)]) = expected[old]
    BY <1>3, <1>4, <2>1, Dropped
  <2> QED
    BY <1>7, <2>2
<1>9. old \notin DOMAIN boxes'
  BY <1>3, <1>5
<1>10. /\ borrow' \in Borrows /\ HasItem' /\ borrow'.kind = borrow.kind
       /\ borrow'.left = borrow.left /\ borrow'.item.key = it.key /\ borrow'.item.prefix = p
       /\ borrow'.item.inner = boxes[p] /\ borrow'.item.modified = TRUE
       /\ DOMAIN elems' = DOMAIN elems /\ elems'[it.key] = p
       /\ \A j \in DOMAIN elems : j # it.key => elems'[j] = elems[j]
       /\ UNCHANGED <<locks, map, set, set_iter, members, expected, leaked>>
  BY <1>1, <1>4, SwappedItem
<1>11. Swaps(it, old, p)
  BY <1>4, <1>5, <1>8, <1>9, <1>10 DEF Swaps
<1> QED
  BY <1>1, <1>11, SwapFrame

(* The item is dropped: its box is stored where it belongs. *)
LEMMA DropItemStep == ASSUME ContainersInv, drop_item PROVE ContainersInv'
<1> PICK it : it = borrow.item
  OBVIOUS
<1> PICK k : k = it.key
  OBVIOUS
<1> PICK p : p = elems[k]
  OBVIOUS
<1> PICK inner : inner = it.inner
  OBVIOUS
<1> PICK stores : stores = IF borrow.kind = "entry" THEN it.modified ELSE it.prefix # None
  OBVIOUS
<1> DEFINE state == IF stores THEN [contents EXCEPT ![At(k)] = <<it.prefix>>] ELSE contents
<1>1. HasItem
  BY DEF drop_item
<1>2. /\ k \in DOMAIN elems /\ p = LoadedItem.prefix /\ inner = LoadedItem.inner
      /\ it.prefix \in {None, p}
  BY <1>1, BorrowedItem
<1>3. /\ p \in DOMAIN expected /\ p \notin DOMAIN boxes /\ p # None /\ p # 0
      /\ Handle(p) = inner /\ Sound(inner) /\ expected[p] \in Values
      /\ BoxKey(p) \in DOMAIN contents /\ contents[BoxKey(p)] \in Seq(Nat)
      /\ Fits(inner, contents[BoxKey(p)], expected[p]) /\ CanDrop(p, inner)
      /\ \A q \in DOMAIN expected : q # p => Handle(q) = IF q \in DOMAIN boxes THEN boxes[q] ELSE Reference
      /\ map # None
      /\ borrow \in Borrows /\ borrow # None /\ borrow.kind \in {"iter_mut", "ref_mut", "entry"}
      /\ borrow.left \subseteq DOMAIN elems
  BY <1>1, <1>2, BorrowedBox
<1>4. it.prefix = None => inner = Reference /\ inner.loaded = FALSE
  BY <1>1, ReferenceIs DEF ContainersInv, BorrowInv
<1>5. /\ contents' = DropBox(state, it.prefix, inner)
      /\ borrow' = IF borrow.kind = "iter_mut" THEN [borrow EXCEPT !.item = None] ELSE None
      /\ UNCHANGED <<locks, map, set, boxes, set_iter, trapped, elems, members, expected, abandoned,
                     leaked>>
  <2>1. CanDrop(it.prefix, inner)
    BY <1>2, <1>3, <1>4 DEF CanDrop
  <2> QED
    BY <2>1 DEF drop_item, Safely, ghosts
<1>6. At(k) \in DOMAIN contents /\ BoxKey(p) # At(k)
  BY <1>2, <1>3, MapEntry, KeyFacts DEF At
<1>7. state[At(k)] = <<p>>
  <2>1. CASE it.prefix = None
    <3>1. borrow.kind # "entry"
      BY <1>1, <2>1 DEF ContainersInv, BorrowInv
    <3>2. contents[At(k)] = <<p>>
      BY <1>1, <1>2, <2>1 DEF ContainersInv, StoredInv, At
    <3> QED
      BY <2>1, <3>1, <3>2
  <2>2. CASE it.prefix # None
    <3>1. it.prefix = p
      BY <1>2, <2>2
    <3>2. ~stores => contents[At(k)] = <<p>>
      BY <1>1, <2>2, <3>1 DEF ContainersInv, BorrowInv
    <3> QED
      BY <1>6, <3>1, <3>2
  <2> QED
    BY <2>1, <2>2
<1>8. /\ DOMAIN state = DOMAIN contents
      /\ \A x \in DOMAIN contents : x # At(k) => state[x] = contents[x]
  OBVIOUS
<1> HIDE DEF state
<1>9. /\ DOMAIN contents' = DOMAIN contents /\ contents'[At(k)] = <<p>>
      /\ \A x \in DOMAIN contents : x # At(k) /\ x # BoxKey(p) => contents'[x] = contents[x]
      /\ contents'[BoxKey(p)] \in Seq(Nat) /\ Deserial(contents'[BoxKey(p)]) = expected[p]
  <2>0. BoxKey(p) \in DOMAIN state /\ state[BoxKey(p)] = contents[BoxKey(p)]
    BY <1>3, <1>6, <1>8
  <2>1. contents' = DropBox(state, p, inner)
    <3>1. CASE it.prefix = None
      BY <1>4, <1>5, <3>1 DEF DropBox
    <3>2. CASE it.prefix # None
      BY <1>2, <1>5, <3>2
    <3> QED
      BY <3>1, <3>2
  <2>2. /\ DOMAIN contents' = DOMAIN state
        /\ \A x \in DOMAIN state : x # BoxKey(p) => contents'[x] = state[x]
        /\ contents'[BoxKey(p)] \in Seq(Nat) /\ Deserial(contents'[BoxKey(p)]) = expected[p]
    BY <1>3, <2>0, <2>1, Dropped
  <2> QED
    BY <1>6, <1>7, <1>8, <2>2
<1>10. /\ ~HasItem' /\ borrow' \in Borrows \cup {None}
       /\ borrow' # None => borrow'.kind = "iter_mut" /\ borrow'.left \subseteq DOMAIN elems
                            /\ borrow'.item = None
  <2>1. CASE borrow.kind = "iter_mut"
    <3>1. /\ borrow' \in Borrows /\ borrow'.kind = "iter_mut" /\ borrow'.left = borrow.left
          /\ borrow'.item = None
      BY <1>3, <1>5, <2>1 DEF Borrows
    <3> QED
      BY <1>3, <3>1 DEF HasItem
  <2>2. CASE borrow.kind # "iter_mut"
    BY <1>5, <2>2 DEF HasItem
  <2> QED
    BY <2>1, <2>2
<1>11. next_item_prefix' = next_item_prefix
  BY <1>3, <1>9, KeyFacts, CounterStays DEF At
<1>12. PrefixInv' /\ (trapped = FALSE)'
  BY <1>5, <1>11 DEF ContainersInv, PrefixInv, PrefixesDiffer
<1>13. OwnerInv' /\ PlaceInv'
  <2>1. InMap' = InMap
    BY <1>5 DEF InMap
  <2> QED
    BY <1>5, <1>9, <2>1 DEF ContainersInv, OwnerInv, PlaceInv
<1>14. BorrowInv'
  BY <1>3, <1>5, <1>10 DEF ContainersInv, BorrowInv
<1>15. StoredInv'
  <2>1. ASSUME NEW j \in DOMAIN elems
        PROVE  contents'[EntryKey(map, j)] = <<elems[j]>>
    <3>1. CASE j = k
      BY <1>9, <3>1 DEF At
    <3>2. CASE j # k
      <4>1. contents[At(j)] = <<elems[j]>>
        BY <3>2 DEF ContainersInv, StoredInv, At
      <4>2. At(j) \in DOMAIN contents /\ At(j) # At(k) /\ At(j) # BoxKey(p)
        BY <1>3, <3>2, MapEntry, KeyFacts DEF At
      <4> QED
        BY <1>9, <4>1, <4>2 DEF At
    <3> QED
      BY <3>1, <3>2
  <2> QED
    BY <1>5, <1>10, <2>1 DEF StoredInv
<1>16. ValueInv'
  <2>1. \A q : Handle(q)' = IF q \in DOMAIN boxes THEN boxes[q] ELSE Reference
    BY <1>5, <1>10 DEF Handle
  <2>2. \A q \in DOMAIN expected : q # p => contents'[BoxKey(q)] = contents[BoxKey(q)]
    BY <1>9, KeyFacts DEF ContainersInv, PlaceInv, At
  <2>3. Fits(Handle(p)', contents'[BoxKey(p)], expected[p])
    BY <1>3, <1>9, <2>1, ReferenceIs DEF Fits
  <2> QED
    BY <1>3, <1>5, <1>9, <2>1, <2>2, <2>3 DEF ContainersInv, ValueInv
<1>17. LockInv'
  <2>1. IterLocks' = IterLocks
    BY <1>3, <1>10 DEF IterLocks
  <2> QED
    BY <1>5, <1>11, <2>1, LocksStay
<1> QED
  BY <1>12, <1>13, <1>14, <1>15, <1>16, <1>17 DEF ContainersInv

-----------------------------------------------------------------------------
(* The theorems *)

LEMMA InitInv == Init => ContainersInv
<1> SUFFICES ASSUME Init PROVE ContainersInv
  OBVIOUS
<1>1. /\ DOMAIN contents = {} /\ DOMAIN boxes = {} /\ DOMAIN elems = {} /\ DOMAIN expected = {}
      /\ map = None /\ set = None /\ borrow = None /\ set_iter = None /\ members = {}
      /\ abandoned = {} /\ trapped = FALSE /\ locks = [p \in ItemPrefixes |-> 0]
  BY DEF Init, ItemPrefixes
<1>2. next_item_prefix = 2 /\ InMap = {} /\ ~HasItem
  BY <1>1 DEF next_item_prefix, INITIAL_NEXT_ITEM_PREFIX, InMap, HasItem
<1>3. PrefixInv /\ OwnerInv /\ PlaceInv
  BY <1>1, <1>2 DEF PrefixInv, PrefixesDiffer, OwnerInv, PlaceInv
<1>4. BorrowInv /\ StoredInv /\ ValueInv
  BY <1>1, <1>2 DEF BorrowInv, StoredInv, ValueInv
<1>5. LockInv
  BY <1>1, ContainersAssumption DEF LockInv
<1> QED
  BY <1>1, <1>3, <1>4, <1>5 DEF ContainersInv

(* What the invariant says about the contents *)
LEMMA InvContents == ContainersInv => ContentsAgree
<1> SUFFICES ASSUME ContainersInv PROVE ContentsAgree
  OBVIOUS
<1>1. TypeOK
  <2>1. DOMAIN contents \subseteq Keys
    <3> SUFFICES ASSUME NEW x \in DOMAIN contents PROVE x \in Keys
      OBVIOUS
    <3>1. DOMAIN expected \subseteq ItemPrefixes /\ DOMAIN elems \subseteq MapKeys /\ members \subseteq SetKeys
      BY DEF ContainersInv, PrefixInv, OwnerInv
    <3>2. (DOMAIN elems # {} => map \in ItemPrefixes) /\ (members # {} => set \in ItemPrefixes)
      BY DEF ContainersInv, PrefixInv, OwnerInv
    <3>3. \/ x = NEXT_ITEM_PREFIX_KEY
          \/ \E p \in ItemPrefixes : x = BoxKey(p)
          \/ \E p \in ItemPrefixes : \E k \in MapKeys \cup SetKeys : x = EntryKey(p, k)
      BY <3>1, <3>2 DEF ContainersInv, PlaceInv
    <3> QED
      BY <3>3 DEF Keys
  <2>2. DOMAIN boxes \subseteq ItemPrefixes /\ \A p \in DOMAIN boxes : boxes[p] \in Inner
    BY OwnBox DEF Sound
  <2> QED
    BY <2>1, <2>2 DEF TypeOK, ContainersInv, PrefixInv, BorrowInv, LockInv
<1>2. MapAgrees
  <2> SUFFICES ASSUME map # None
               PROVE  /\ {k \in MapKeys : At(k) \in DOMAIN contents} = DOMAIN elems
                      /\ \A k \in DOMAIN elems :
                           IF HasItem /\ borrow.item.key = k /\ borrow.item.prefix # None
                             THEN borrow.item.prefix = elems[k]
                             ELSE contents[At(k)] = <<elems[k]>>
    BY DEF MapAgrees
  <2>1. {k \in MapKeys : At(k) \in DOMAIN contents} = DOMAIN elems
    BY MapEntry DEF ContainersInv, OwnerInv
  <2> QED
    BY <2>1 DEF ContainersInv, StoredInv, At
<1>3. SetAgrees
  BY SetEntry DEF SetAgrees, ContainersInv, OwnerInv
<1>4. BoxesAgree
  BY DEF BoxesAgree, ContainersInv, PlaceInv, ValueInv, Fits
<1> QED
  BY <1>1, <1>2, <1>3, <1>4 DEF ContentsAgree

LEMMA InvNothingLeft == ContainersInv => NothingLeftBehind
<1> SUFFICES ASSUME ContainersInv PROVE NothingLeftBehind
  OBVIOUS
<1>1. /\ DOMAIN expected = DOMAIN boxes \cup InMap \cup abandoned
      /\ DOMAIN boxes \cap InMap = {}
      /\ \A j, k \in DOMAIN elems : elems[j] = elems[k] => j = k
  BY DEF ContainersInv, OwnerInv
<1>2. \A k \in DOMAIN contents :
        \/ k = NEXT_ITEM_PREFIX_KEY
        \/ Len(k) = 1 /\ k[1] \in DOMAIN expected
        \/ Len(k) = 2 /\ (\/ k[1] = map /\ k[2] \in DOMAIN elems
                          \/ k[1] = set /\ k[2] \in members)
  BY KeyFacts DEF ContainersInv, PlaceInv
<1> QED
  BY <1>1, <1>2 DEF NothingLeftBehind, InMap

-----------------------------------------------------------------------------
(* Maps that are locked *)

(* An operation has aborted; the state is as before. *)
Aborted == trapped /\ leaked /\ ContentsAgree /\ NothingLeftBehind /\ PrefixesDiffer

(* Something was removed, and its entry is still there. *)
Kept == kept /\ ~trapped /\ PrefixesDiffer

StateInv == ContainersInv \/ Aborted \/ Kept

(* Nothing changes but that the execution is over. *)
LEMMA TrapStep == ASSUME ContainersInv, Traps, leaked PROVE Aborted'
<1>1. /\ UNCHANGED <<contents, locks, map, set, boxes, borrow, set_iter, elems, members,
                    expected, abandoned, leaked, kept>>
      /\ trapped' = TRUE
  BY DEF Traps, ghosts
<1>2. ContentsAgree /\ NothingLeftBehind /\ PrefixesDiffer
  BY InvContents, InvNothingLeft DEF ContainersInv, PrefixInv
<1>3. PrefixesDiffer'
  BY <1>1, <1>2 DEF PrefixesDiffer, next_item_prefix
<1>4. NothingLeftBehind'
  BY <1>1, <1>2 DEF NothingLeftBehind
<1>5. ASSUME TypeOK PROVE TypeOK'
  BY <1>1, <1>5 DEF TypeOK
<1>6. ASSUME MapAgrees PROVE MapAgrees'
  BY <1>1, <1>6 DEF MapAgrees, At, HasItem
<1>7. ASSUME SetAgrees PROVE SetAgrees'
  BY <1>1, <1>7 DEF SetAgrees, In
<1>8. ASSUME BoxesAgree PROVE BoxesAgree'
  BY <1>1, <1>8 DEF BoxesAgree, Handle, HasItem
<1>9. ContentsAgree'
  BY <1>1, <1>2, <1>5, <1>6, <1>7, <1>8 DEF ContentsAgree
<1> QED
  BY <1>1, <1>3, <1>4, <1>9 DEF Aborted

(* Only iter_mut leaves the map locked when nothing borrows it. *)
LEMMA LockedLeaked == ASSUME ContainersInv, MapFree, Locked(map) PROVE leaked
  BY FreeMap

(* The entries of a locked map stay, so do the prefixes. *)
LEMMA RemoveLockedStep ==
    ASSUME ContainersInv, NEW k \in MapKeys, remove_and_get(k) \/ remove(k), Locked(map)
    PROVE  Kept'
<1>1. /\ MapFree /\ map # None /\ k \in DOMAIN elems /\ contents[At(k)][1] = elems[k]
  BY FreeMap, MapEntry DEF remove_and_get, remove, MapFree
<1>2. elems[k] \in DOMAIN expected /\ BoxKey(elems[k]) \in DOMAIN contents
  BY <1>1 DEF InMap, ContainersInv, OwnerInv, PlaceInv
<1>3. /\ UNCHANGED <<map, set, trapped>> /\ kept'
      /\ contents' \in {contents, Without(contents, {BoxKey(elems[k])})}
      /\ DOMAIN expected' \subseteq DOMAIN expected
  <2>1. CASE remove_and_get(k)
    BY <2>1 DEF remove_and_get
  <2>2. CASE remove(k)
    <3>1. /\ contents' = Without(contents, {BoxKey(elems[k])} \cup {})
          /\ expected' = Without(expected, {elems[k]})
          /\ UNCHANGED <<map, set, trapped>> /\ kept'
      BY <1>1, <1>2, <2>2 DEF remove, Safely
    <3>2. {BoxKey(elems[k])} \cup {} = {BoxKey(elems[k])}
      OBVIOUS
    <3> QED
      BY <3>1, <3>2 DEF Without
  <2> QED
    BY <2>1, <2>2
<1>4. next_item_prefix' = next_item_prefix
  <2>1. BoxKey(elems[k]) # NEXT_ITEM_PREFIX_KEY
    BY <1>2, KeyFacts, PrefixFacts DEF ContainersInv, PrefixInv
  <2>2. /\ NEXT_ITEM_PREFIX_KEY \in DOMAIN contents' <=> NEXT_ITEM_PREFIX_KEY \in DOMAIN contents
        /\ NEXT_ITEM_PREFIX_KEY \in DOMAIN contents =>
             contents'[NEXT_ITEM_PREFIX_KEY] = contents[NEXT_ITEM_PREFIX_KEY]
    BY <1>3, <2>1 DEF Without
  <2> QED
    BY <2>2, CounterStays
<1>5. PrefixesDiffer'
  BY <1>3, <1>4 DEF PrefixesDiffer, ContainersInv, PrefixInv
<1> QED
  BY <1>3, <1>5 DEF Kept, ContainersInv

-----------------------------------------------------------------------------
(* Induction *)

LEMMA MapStepInv == ASSUME ContainersInv, MapStep PROVE StateInv'
<1>1. CASE clear \/ map_delete
  <2>1. CASE ~Locked(map)
    BY <1>1, <2>1, ClearStep DEF StateInv
  <2>2. CASE Locked(map)
    <3>1. MapFree /\ Traps
      BY <1>1, <2>2 DEF clear, map_delete, Safely, CanClear
    <3> QED
      BY <2>2, <3>1, LockedLeaked, TrapStep DEF StateInv
  <2> QED
    BY <2>1, <2>2
<1>2. ASSUME NEW k \in MapKeys, remove_and_get(k) \/ remove(k)
      PROVE  StateInv'
  BY <1>2, RemoveAndGetStep, RemoveStep, RemoveLockedStep DEF StateInv
<1>3. ASSUME NEW k \in MapKeys, NEW p \in DOMAIN boxes, insert(k, p)
      PROVE  StateInv'
  <2>1. CASE ~Locked(map) \/ At(k) \in DOMAIN contents
    BY <1>3, <2>1, InsertStep DEF StateInv
  <2>2. CASE Locked(map) /\ At(k) \notin DOMAIN contents
    <3>1. MapFree /\ Traps
      BY <1>3, <2>2 DEF insert, Safely
    <3> QED
      BY <2>2, <3>1, LockedLeaked, TrapStep DEF StateInv
  <2> QED
    BY <2>1, <2>2
<1>4. ASSUME NEW k \in MapKeys, NEW p \in DOMAIN boxes, entry_insert(k, p)
      PROVE  StateInv'
  <2>1. CASE ~Locked(map)
    BY <1>4, <2>1, EntryInsertStep DEF StateInv
  <2>2. CASE Locked(map)
    <3>1. MapFree /\ Traps
      BY <1>4, <2>2 DEF entry_insert, Safely
    <3> QED
      BY <2>2, <3>1, LockedLeaked, TrapStep DEF StateInv
  <2> QED
    BY <2>1, <2>2
<1>5. CASE new_map
  BY <1>5, NewMapStep DEF StateInv
<1>6. ASSUME NEW k \in MapKeys, get_mut(k) \/ entry(k)
      PROVE  StateInv'
  BY <1>6, GetMutStep, EntryStep DEF StateInv
<1> QED
  BY <1>1, <1>2, <1>3, <1>4, <1>5, <1>6 DEF MapStep

(* A state with what ended it stays as it is. *)
LEMMA EndedStays == ASSUME Aborted \/ Kept, UNCHANGED vars PROVE Aborted' \/ Kept'
<1>1. UNCHANGED <<contents, locks, map, set, boxes, borrow, set_iter, trapped, elems, members,
                  expected, abandoned, leaked, kept>>
  BY DEF vars
<1>2. PrefixesDiffer => PrefixesDiffer'
  BY <1>1 DEF PrefixesDiffer, next_item_prefix
<1>3. CASE Kept
  BY <1>1, <1>2, <1>3 DEF Kept
<1>4. CASE Aborted
  <2>1. NothingLeftBehind'
    BY <1>1, <1>4 DEF NothingLeftBehind, Aborted
  <2>2. ASSUME TypeOK PROVE TypeOK'
    BY <1>1, <2>2 DEF TypeOK
  <2>3. ASSUME MapAgrees PROVE MapAgrees'
    BY <1>1, <2>3 DEF MapAgrees, At, HasItem
  <2>4. ASSUME SetAgrees PROVE SetAgrees'
    BY <1>1, <2>4 DEF SetAgrees, In
  <2>5. ASSUME BoxesAgree PROVE BoxesAgree'
    BY <1>1, <2>5 DEF BoxesAgree, Handle, HasItem
  <2>6. ContentsAgree'
    BY <1>1, <1>4, <2>2, <2>3, <2>4, <2>5 DEF ContentsAgree, Aborted
  <2> QED
    BY <1>1, <1>2, <1>4, <2>1, <2>6 DEF Aborted
<1> QED
  BY <1>3, <1>4

LEMMA NextInv == ASSUME StateInv, [Next]_vars PROVE StateInv'
<1>1. CASE ContainersInv /\ BoxStep
  BY <1>1, NewBoxStep, BoxGetStep, BoxDeleteStep, BoxGetMutStep, BoxUpdateStep
     DEF BoxStep, StateInv
<1>2. CASE ContainersInv /\ MapStep
  BY <1>2, MapStepInv
<1>3. CASE ContainersInv /\ BorrowStep
  BY <1>3, IterStep, IterMutStep, NextStep, DropIterStep, DropIterMutStep, DropItemStep,
     ItemGetMutStep, ItemSwapStep, ItemSetStep DEF BorrowStep, StateInv
<1>4. CASE ContainersInv /\ SetStep
  BY <1>4, NewSetStep, SetClearStep, SetIterateStep, SetNextStep, DropSetIterStep, SetInsertStep,
     SetRemoveStep DEF SetStep, StateInv
<1>5. CASE ContainersInv /\ reload
  BY <1>5, ReloadStep DEF StateInv
<1>6. CASE ContainersInv /\ UNCHANGED vars
  <2>1. /\ StateStays /\ UNCHANGED <<borrow, locks, set_iter, leaked>>
    BY <1>6 DEF vars, StateStays
  <2>2. BorrowInv' /\ StoredInv'
    BY <1>6, <2>1 DEF ContainersInv, BorrowInv, StoredInv, HasItem, At, StateStays
  <2>3. ValueInv'
    BY <1>6, <2>1, ValuesStay
  <2>4. IterLocks' = IterLocks
    BY <2>1 DEF IterLocks, StateStays
  <2>5. LockInv'
    BY <1>6, <2>1, <2>4, SetLocksStay
  <2> QED
    BY <1>6, <2>1, <2>2, <2>3, <2>5, StateStaysFacts DEF ContainersInv, StateInv
<1>7. CASE (Aborted \/ Kept) /\ UNCHANGED vars
  BY <1>7, EndedStays DEF StateInv
<1>8. Next => ~trapped /\ ~kept /\ (BoxStep \/ MapStep \/ BorrowStep \/ SetStep \/ reload)
  BY DEF Next
<1>9. Aborted \/ Kept => trapped \/ kept
  BY DEF Aborted, Kept
<1> QED
  BY <1>1, <1>2, <1>3, <1>4, <1>5, <1>6, <1>7, <1>8, <1>9 DEF StateInv

LEMMA InvHolds == Spec => []StateInv
<1>1. Init => StateInv
  BY InitInv DEF StateInv
<1>2. StateInv /\ [Next]_vars => StateInv'
  BY NextInv
<1> QED
  BY <1>1, <1>2, PTL DEF Spec

-----------------------------------------------------------------------------
(* The theorems *)

(* No operation of the containers aborts, whatever containers are made and *)
(* deleted, boxes moved in and out of the map, and handles dropped late:   *)
(* except in an execution that has called StateMap::iter_mut.              *)
THEOREM ContainersDoNotTrap == Spec => []TrapNeedsLeak
<1>1. StateInv => TrapNeedsLeak
  BY DEF StateInv, Aborted, Kept, ContainersInv, TrapNeedsLeak
<1> QED
  BY <1>1, InvHolds, PTL

(* A map, a set and boxes hold what was put into them, though handles that *)
(* cache values are dropped late, moved and reloaded, until something is   *)
(* removed from a map that iter_mut has left locked.                       *)
THEOREM ContainersHoldContents == Spec => []ContentsAgree
<1>1. StateInv => ContentsAgree
  BY InvContents DEF StateInv, Aborted, Kept, ContentsAgree
<1> QED
  BY <1>1, InvHolds, PTL

(* The state holds what the containers in use refer to, and nothing else,  *)
(* and a box belongs either to the contract or to one key of the map,      *)
(* until something is removed from a map that iter_mut has left locked.    *)
THEOREM ContainersLeaveNothing == Spec => []NothingLeftBehind
<1>1. StateInv => NothingLeftBehind
  BY InvNothingLeft DEF StateInv, Aborted, Kept, NothingLeftBehind
<1> QED
  BY <1>1, InvHolds, PTL

(* StateBuilder gives a prefix to one container only, also after the       *)
(* container that had it is gone, and in a later execution.                *)
THEOREM PrefixesStayApart == Spec => []PrefixesDiffer
<1>1. StateInv => PrefixesDiffer
  BY DEF StateInv, Aborted, Kept, ContainersInv, PrefixInv
<1> QED
  BY <1>1, InvHolds, PTL

=============================================================================
