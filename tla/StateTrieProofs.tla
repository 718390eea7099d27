-------------------------- MODULE StateTrieProofs --------------------------
(***************************************************************************)
(* The trie of the test infrastructure implements what HasStateApi         *)
(* promises, for any keys, bytes and bounds.                               *)
(***************************************************************************)
EXTENDS StateTrie, FiniteSetTheorems, SequenceTheorems, TLAPS

-----------------------------------------------------------------------------
(* Keys and their order *)

(* A prefix agrees with the sequence as far as it goes. *)
LEMMA PrefixAgrees ==
    ASSUME NEW s \in Seq(Nat), NEW t \in Seq(Nat)
    PROVE  IsPrefix(s, t) <=> Len(s) <= Len(t) /\ \A n \in 1 .. Len(s) : s[n] = t[n]
<1>1. Len(s) \in Nat /\ Len(t) \in Nat /\ SubSeq(s, 1, Len(s)) = s
  BY SubSeqFull, LenProperties
<1>2. ASSUME Len(s) <= Len(t)
      PROVE  /\ SubSeq(t, 1, Len(s)) \in Seq(Nat) /\ Len(SubSeq(t, 1, Len(s))) = Len(s)
             /\ \A n \in 1 .. Len(s) : SubSeq(t, 1, Len(s))[n] = t[n]
  <2>1. \A n \in 1 .. Len(s) : t[n] \in Nat
    BY <1>1, <1>2, ElementOfSeq
  <2>2. /\ SubSeq(t, 1, Len(s)) \in Seq(Nat)
        /\ Len(SubSeq(t, 1, Len(s))) = IF 1 <= Len(s) THEN Len(s) - 1 + 1 ELSE 0
        /\ \A n \in 1 .. Len(s) - 1 + 1 : SubSeq(t, 1, Len(s))[n] = t[1 + n - 1]
    BY <1>1, <2>1, SubSeqProperties
  <2>3. Len(s) - 1 + 1 = Len(s) /\ \A n \in 1 .. Len(s) : 1 + n - 1 = n
    BY <1>1
  <2> QED
    BY <1>1, <2>2, <2>3
<1>3. CASE Len(s) <= Len(t)
  <2> DEFINE u == SubSeq(t, 1, Len(s))
  <2>1. /\ u \in Seq(Nat) /\ Len(u) = Len(s)
        /\ \A n \in 1 .. Len(s) : u[n] = t[n]
    BY <1>2, <1>3
  <2> HIDE DEF u
  <2>2. (s = u) <=> \A n \in 1 .. Len(s) : s[n] = t[n]
    BY <2>1, SeqEqual
  <2> QED
    BY <1>1, <1>3, <2>2 DEF IsPrefix, u
<1> QED
  BY <1>1, <1>3 DEF IsPrefix

(* A set of subsets of a finite set has a least one in the order of inclusion. *)
LEMMA LeastSubset ==
    ASSUME NEW S, IsFiniteSet(S), NEW T, T \subseteq SUBSET S, T # {}
    PROVE  \E s \in T : \A u \in T : u \subseteq s => u = s
<1> DEFINE R == StrictSubsetOrdering(S)
<1>1. IsWellFoundedOn(R, SUBSET S)
  BY FS_StrictSubsetOrderingWellFounded, FS_FiniteSubsetsOfFinite
<1>2. \E s \in T : \A u \in T : ~(<<u, s>> \in R)
  <2> HIDE DEF R
  <2> QED BY <1>1, WFMin
<1>3. \A u, s \in T : <<u, s>> \in R <=> (u \subseteq s /\ u # s)
  BY DEF StrictSubsetOrdering
<1> QED
  BY <1>2, <1>3

(* The first place where a set of numbers begins *)
LEMMA LeastNumber ==
    ASSUME NEW T, T \subseteq Nat, T # {}
    PROVE  \E n \in T : \A m \in T : n <= m
<1>1. \E n \in T : \A m \in T : ~(<<m, n>> \in OpToRel(<, Nat))
  BY NatLessThanWellFounded, WFMin
<1>2. \A m, n \in Nat : <<m, n>> \in OpToRel(<, Nat) <=> m < n
  <2>1. ASSUME NEW m \in Nat, NEW n \in Nat
        PROVE  <<m, n>> \in {ss \in Nat \X Nat : ss[1] < ss[2]} <=> m < n
    OBVIOUS
  <2> QED
    BY <2>1 DEF OpToRel
<1>3. \A m, n \in Nat : ~(m < n) => n <= m
  OBVIOUS
<1> QED
  BY <1>1, <1>2, <1>3

(* Keys are totally ordered. *)
LEMMA BeforeTotal ==
    ASSUME NEW k \in Seq(Nat), NEW l \in Seq(Nat), k # l
    PROVE  Before(k, l) \/ Before(l, k)
<1>1. /\ Len(k) \in Nat /\ DOMAIN k = 1 .. Len(k)
      /\ Len(l) \in Nat /\ DOMAIN l = 1 .. Len(l)
  BY LenProperties
<1> DEFINE T == {n \in 1 .. Len(k) : n <= Len(l) /\ k[n] # l[n]}
<1>2. CASE T = {}
  <2>1. IsPrefix(k, l) \/ IsPrefix(l, k)
    <3>1. \A n \in 1 .. Len(k) : n <= Len(l) => k[n] = l[n]
      BY <1>2
    <3>2. CASE Len(k) <= Len(l)
      <4>1. \A n \in 1 .. Len(k) : k[n] = l[n]
        BY <1>1, <3>1, <3>2
      <4> QED
        BY <3>2, <4>1, PrefixAgrees
    <3>3. CASE Len(l) <= Len(k)
      <4>1. \A n \in 1 .. Len(l) : l[n] = k[n]
        BY <1>1, <3>1, <3>3
      <4> QED
        BY <3>3, <4>1, PrefixAgrees
    <3> QED
      BY <1>1, <3>2, <3>3
  <2> QED
    BY <2>1 DEF Before, IsStrictPrefix
<1>3. CASE T # {}
  <2>1. T \subseteq Nat
    BY <1>1
  <2> HIDE DEF T
  <2>2. PICK n \in T : \A m \in T : n <= m
    BY <1>3, <2>1, LeastNumber
  <2> USE DEF T
  <2>3. /\ n \in 1 .. Len(k) /\ n \in 1 .. Len(l) /\ k[n] # l[n]
        /\ \A m \in 1 .. n - 1 : k[m] = l[m]
    BY <1>1, <2>2
  <2>4. k[n] \in Nat /\ l[n] \in Nat
    BY <2>3, ElementOfSeq
  <2>5. k[n] < l[n] \/ l[n] < k[n]
    BY <2>3, <2>4
  <2> HIDE DEF T
  <2> QED
    BY <1>1, <2>3, <2>5 DEF Before
<1> QED
  BY <1>2, <1>3

(* What comes before in the order has a first difference that is smaller,  *)
(* or is shorter.                                                          *)
LEMMA BeforeAt ==
    ASSUME NEW k \in Seq(Nat), NEW l \in Seq(Nat), Before(k, l)
    PROVE  \E n \in 1 .. Len(l) :
             /\ n <= Len(k) + 1
             /\ n <= Len(k) => k[n] < l[n]
             /\ \A m \in 1 .. n - 1 : k[m] = l[m]
<1>1. /\ Len(k) \in Nat /\ DOMAIN k = 1 .. Len(k)
      /\ Len(l) \in Nat /\ DOMAIN l = 1 .. Len(l)
  BY LenProperties
<1>2. CASE IsStrictPrefix(k, l)
  <2>1. Len(k) <= Len(l) /\ \A n \in 1 .. Len(k) : k[n] = l[n]
    BY <1>2, PrefixAgrees DEF IsStrictPrefix
  <2>2. Len(k) # Len(l)
    BY <1>2, <2>1, SeqEqual DEF IsStrictPrefix
  <2> DEFINE n == Len(k) + 1
  <2>3. n \in 1 .. Len(l) /\ ~(n <= Len(k)) /\ n <= Len(k) + 1 /\ n - 1 = Len(k)
    <3>1. \A i, j \in Nat : i <= j /\ i # j =>
            i + 1 \in 1 .. j /\ ~(i + 1 <= i) /\ i + 1 <= i + 1 /\ (i + 1) - 1 = i
      OBVIOUS
    <3> QED
      BY <1>1, <2>1, <2>2, <3>1
  <2> HIDE DEF n
  <2>4. \A m \in 1 .. n - 1 : k[m] = l[m]
    BY <2>1, <2>3
  <2> QED
    BY <2>3, <2>4
<1>3. CASE \E n \in DOMAIN k \cap DOMAIN l :
             k[n] < l[n] /\ \A m \in 1 .. n - 1 : k[m] = l[m]
  BY <1>1, <1>3
<1> QED
  BY <1>2, <1>3 DEF Before

LEMMA BeforeTransitive ==
    ASSUME NEW k \in Seq(Nat), NEW l \in Seq(Nat), NEW x \in Seq(Nat),
           Before(k, l), Before(l, x)
    PROVE  Before(k, x)
<1>1. /\ Len(k) \in Nat /\ DOMAIN k = 1 .. Len(k)
      /\ Len(l) \in Nat /\ DOMAIN l = 1 .. Len(l)
      /\ Len(x) \in Nat /\ DOMAIN x = 1 .. Len(x)
  BY LenProperties
<1>2. PICK a \in 1 .. Len(l) : /\ a <= Len(k) + 1
                               /\ a <= Len(k) => k[a] < l[a]
                               /\ \A m \in 1 .. a - 1 : k[m] = l[m]
  BY BeforeAt
<1>3. PICK b \in 1 .. Len(x) : /\ b <= Len(l) + 1
                               /\ b <= Len(l) => l[b] < x[b]
                               /\ \A m \in 1 .. b - 1 : l[m] = x[m]
  BY BeforeAt
<1> DEFINE n == IF a <= b THEN a ELSE b
<1>4. n \in 1 .. Len(x) /\ n <= Len(k) + 1 /\ \A m \in 1 .. n - 1 : k[m] = x[m]
  BY <1>1, <1>2, <1>3
<1>5. \A m \in 1 .. Len(k) : k[m] \in Nat
  BY ElementOfSeq
<1>6. \A m \in 1 .. Len(l) : l[m] \in Nat
  BY ElementOfSeq
<1>7. \A m \in 1 .. Len(x) : x[m] \in Nat
  BY ElementOfSeq
<1>8. ASSUME n <= Len(k) PROVE k[n] < x[n]
  <2>1. n \in 1 .. Len(k) /\ n \in 1 .. Len(l)
    BY <1>1, <1>2, <1>3, <1>8
  <2>2. k[n] \in Nat /\ l[n] \in Nat /\ x[n] \in Nat
    BY <1>4, <1>5, <1>6, <1>7, <2>1
  <2>3. CASE a < b
    BY <1>2, <1>3, <1>8, <2>1, <2>2, <2>3
  <2>4. CASE b < a
    BY <1>2, <1>3, <1>8, <2>1, <2>2, <2>4
  <2>5. CASE a = b
    BY <1>2, <1>3, <1>8, <2>1, <2>2, <2>5
  <2> QED
    BY <2>3, <2>4, <2>5
<1> HIDE DEF n
<1>9. CASE n <= Len(k)
  <2>1. n \in DOMAIN k \cap DOMAIN x
    BY <1>1, <1>4, <1>9
  <2> QED
    BY <1>4, <1>8, <1>9, <2>1 DEF Before
<1>10. CASE n = Len(k) + 1
  <2>1. Len(k) <= Len(x) /\ \A m \in 1 .. Len(k) : k[m] = x[m]
    BY <1>1, <1>4, <1>10
  <2>2. k # x
    BY <1>1, <1>4, <1>10
  <2> QED
    BY <2>1, <2>2, PrefixAgrees DEF Before, IsStrictPrefix
<1>11. n <= Len(k) \/ n = Len(k) + 1
  BY <1>1, <1>4
<1> QED
  BY <1>9, <1>10, <1>11

(* Of finitely many keys one is the last. *)
LEMMA LastKey ==
    ASSUME NEW S, IsFiniteSet(S), S \subseteq Seq(Nat), S # {}
    PROVE  \E x \in S : \A y \in S : y # x => Before(y, x)
<1> DEFINE Good(s) == \E x \in s : \A y \in s : y # x => Before(y, x)
           T == {s \in SUBSET S : s # {} /\ ~Good(s)}
<1> SUFFICES ASSUME T # {} PROVE FALSE
  OBVIOUS
<1>1. T \subseteq SUBSET S
  OBVIOUS
<1>2. PICK s \in T : \A u \in T : u \subseteq s => u = s
  <2> HIDE DEF T
  <2> QED
    BY <1>1, LeastSubset
<1>3. PICK x \in s : TRUE
  OBVIOUS
<1> DEFINE u == s \ {x}
<1>4. CASE u = {}
  BY <1>3, <1>4
<1>5. CASE u # {}
  <2>1. Good(u)
    <3>1. u \in SUBSET S /\ u \subseteq s /\ u # s
      BY <1>2, <1>3
    <3>2. u \notin T
      BY <1>2, <3>1
    <3> HIDE DEF u
    <3> QED
      BY <1>5, <3>1, <3>2
  <2>2. PICK y \in u : \A z \in u : z # y => Before(z, y)
    BY <2>1
  <2>3. x \in Seq(Nat) /\ y \in Seq(Nat) /\ x # y /\ s \subseteq Seq(Nat)
    BY <1>2, <1>3
  <2>4. CASE Before(x, y)
    <3>1. \A z \in s : z # y => Before(z, y)
      BY <2>2, <2>4
    <3> QED
      BY <2>2, <3>1
  <2>5. CASE Before(y, x)
    <3>1. \A z \in s : z # x => Before(z, x)
      BY <2>2, <2>3, <2>5, BeforeTransitive
    <3> QED
      BY <3>1
  <2> QED
    BY <2>3, <2>4, <2>5, BeforeTotal
<1> QED
  BY <1>4, <1>5

(* An enumeration of S in order *)
Enumerates(s, S) ==
    /\ s \in [1 .. Cardinality(S) -> S]
    /\ \A m, n \in 1 .. Cardinality(S) : m < n => Before(s[m], s[n])

(* Finitely many keys can be enumerated in order.                          *)
LEMMA OrderExists ==
    ASSUME NEW S, IsFiniteSet(S), S \subseteq Seq(Nat)
    PROVE  \E s : Enumerates(s, S)
<1> DEFINE T == {u \in SUBSET S : ~ \E s : Enumerates(s, u)}
<1> SUFFICES ASSUME T # {} PROVE FALSE
  OBVIOUS
<1>1. T \subseteq SUBSET S
  OBVIOUS
<1>2. PICK u \in T : \A v \in T : v \subseteq u => v = u
  <2> HIDE DEF T
  <2> QED
    BY <1>1, LeastSubset
<1>3. IsFiniteSet(u) /\ u \subseteq Seq(Nat) /\ Cardinality(u) \in Nat
  BY <1>2, FS_Subset, FS_CardinalityType
<1>4. CASE u = {}
  <2>1. Cardinality(u) = 0
    BY <1>4, FS_EmptySet
  <2>2. Enumerates([n \in 1 .. 0 |-> 0], u)
    BY <2>1 DEF Enumerates
  <2> QED
    BY <1>2, <2>2
<1>5. CASE u # {}
  <2>1. PICK x \in u : \A y \in u : y # x => Before(y, x)
    BY <1>3, <1>5, LastKey
  <2> DEFINE v == u \ {x}
             c == Cardinality(u)
  <2>2. Cardinality(v) = c - 1 /\ v \subseteq u /\ v # u /\ v \in SUBSET S
    BY <1>2, <1>3, FS_RemoveElement
  <2>3. PICK s : Enumerates(s, v)
    BY <1>2, <2>2
  <2>4. c \in Nat \ {0}
    BY <1>3, <1>5, FS_EmptySet
  <2> DEFINE r == [n \in 1 .. c |-> IF n = c THEN x ELSE s[n]]
  <2> HIDE DEF c, v
  <2>5. /\ s \in [1 .. c - 1 -> v]
        /\ \A m, n \in 1 .. c - 1 : m < n => Before(s[m], s[n])
    BY <2>2, <2>3 DEF Enumerates
  <2>6. \A n \in 1 .. c : n # c => n \in 1 .. c - 1
    BY <2>4
  <2>7. \A y \in v : y \in u /\ y # x
    BY DEF v
  <2>8. r \in [1 .. c -> u]
    BY <2>4, <2>5, <2>6, <2>7
  <2>9. ASSUME NEW m \in 1 .. c, NEW n \in 1 .. c, m < n
        PROVE  Before(r[m], r[n])
    <3>1. m # c /\ m \in 1 .. c - 1
      BY <2>4, <2>9
    <3>2. s[m] \in v /\ r[m] = s[m]
      BY <2>5, <3>1
    <3>3. CASE n = c
      <4>1. r[n] = x
        BY <3>3
      <4> QED
        BY <2>1, <2>7, <3>2, <4>1
    <3>4. CASE n # c
      <4>1. r[n] = s[n] /\ n \in 1 .. c - 1
        BY <2>6, <3>4
      <4> QED
        BY <2>5, <2>9, <3>1, <3>2, <4>1
    <3> QED
      BY <3>3, <3>4
  <2> HIDE DEF r
  <2>10. Enumerates(r, u)
    BY <2>8, <2>9 DEF Enumerates, c
  <2> QED
    BY <1>2, <2>10
<1> QED
  BY <1>4, <1>5

(* The enumeration that an iterator is made from has the keys of the set.  *)
LEMMA InOrderType ==
    ASSUME NEW S, IsFiniteSet(S), S \subseteq Seq(Nat)
    PROVE  /\ InOrder(S) \in [1 .. Cardinality(S) -> S]
           /\ Cardinality(S) \in Nat
           /\ Len(InOrder(S)) = Cardinality(S)
           /\ DOMAIN InOrder(S) = 1 .. Cardinality(S)
<1>1. Enumerates(InOrder(S), S)
  BY OrderExists DEF Enumerates, InOrder
<1>2. Cardinality(S) \in Nat
  BY FS_CardinalityType
<1> QED
  BY <1>1, <1>2 DEF Enumerates

-----------------------------------------------------------------------------
(* The inductive invariant *)

(* Nodes refer to data of their own that exists. *)
NodesInv ==
    /\ IsFiniteSet(DOMAIN nodes) /\ DOMAIN nodes \subseteq Keys
    /\ cells \in Seq(Cell)
    /\ \A k \in DOMAIN nodes : nodes[k] \in 1 .. Len(cells) /\ cells[nodes[k]] # Deleted
    /\ \A k, l \in DOMAIN nodes : nodes[k] = nodes[l] => k = l

(* A handle that delete_entry finds under its number. *)
Known(h) ==
    /\ h \in [state_entry_id: 0 .. MaxIds, key: Keys, cell: 1 .. Len(cells), offset: 0 .. MaxLen]
    /\ h.state_entry_id \in DOMAIN entry_map
    /\ entry_map[h.state_entry_id] = h.key

NumbersInv ==
    /\ next_entry_id \in 0 .. MaxIds
    /\ DOMAIN entry_map \subseteq 0 .. next_entry_id - 1
    /\ \A id \in DOMAIN entries : Known(entries[id]) /\ entries[id].state_entry_id = id

HandleRecord == [state_entry_id: Nat, key: Keys, cell: Nat, offset: Nat]

(* A handle is in one place only, so that deleting an entry leaves every   *)
(* other handle its number.                                                *)
QueuesInv ==
    /\ \A i \in DOMAIN iterators :
         /\ iterators[i] \in [prefix: Keys, queue: Seq(HandleRecord)]
         /\ \A n \in 1 .. Len(iterators[i].queue) :
              /\ Known(iterators[i].queue[n])
              /\ iterators[i].queue[n].state_entry_id \notin DOMAIN entries
    /\ \A i, j \in DOMAIN iterators :
         \A m \in 1 .. Len(iterators[i].queue), n \in 1 .. Len(iterators[j].queue) :
           iterators[i].queue[m].state_entry_id = iterators[j].queue[n].state_entry_id
             => i = j /\ m = n

IteratorsOf(p) == {i \in DOMAIN iterators : iterators[i].prefix = p}

(* The locks are the iterators that live. *)
LocksInv ==
    /\ DOMAIN iterators \subseteq 1 .. MaxIterators
    /\ DOMAIN iterator_counts \subseteq Keys
    /\ \A p \in DOMAIN iterator_counts :
         iterator_counts[p] = Cardinality(IteratorsOf(p)) /\ iterator_counts[p] > 0
    /\ \A i \in DOMAIN iterators : iterators[i].prefix \in DOMAIN iterator_counts

TrieInv == NodesInv /\ NumbersInv /\ QueuesInv /\ LocksInv /\ IteratorsSeeTheTrie

-----------------------------------------------------------------------------
(* What the steps keep *)

(* The shapes of what is in the invariant *)
LEMMA TrieTypes ==
    ASSUME NodesInv
    PROVE  /\ Len(cells) \in Nat /\ DOMAIN cells = 1 .. Len(cells)
           /\ \A c \in 1 .. Len(cells) : cells[c] \in Cell
           /\ Keys \subseteq Seq(Nat)
           /\ {MaxCount, MaxIds, MaxCells, MaxLen, MaxIterators} \subseteq Nat
<1>1. cells \in Seq(Cell)
  BY DEF NodesInv
<1>2. Len(cells) \in Nat /\ DOMAIN cells = 1 .. Len(cells)
  BY <1>1, LenProperties
<1>3. \A c \in 1 .. Len(cells) : cells[c] \in Cell
  BY <1>1, ElementOfSeq
<1> QED
  BY <1>2, <1>3, TrieAssumption

LEMMA EmptyCell == << >> \in Cell /\ << >> # Deleted
<1>1. << >> \in [1 .. 0 -> Bytes] /\ 0 \in 0 .. MaxLen
  BY TrieAssumption
<1> QED
  BY <1>1, TrieAssumption DEF Cell

(* The queue of an iterator that is made now *)
LEMMA QueueFacts ==
    ASSUME NodesInv, next_entry_id \in Nat, NEW prefix \in Keys
    PROVE  /\ Cardinality(KeysBelow(prefix)) \in Nat
           /\ BelowPrefix(prefix) \in [1 .. Cardinality(KeysBelow(prefix)) -> KeysBelow(prefix)]
           /\ Len(BelowPrefix(prefix)) = Cardinality(KeysBelow(prefix))
           /\ QueueHandles(prefix) \in Seq(HandleRecord)
           /\ Len(QueueHandles(prefix)) = Cardinality(KeysBelow(prefix))
           /\ DOMAIN QueueHandles(prefix) = 1 .. Cardinality(KeysBelow(prefix))
           /\ \A n \in 1 .. Cardinality(KeysBelow(prefix)) :
                QueueHandles(prefix)[n] =
                  Handle(next_entry_id + n - 1, BelowPrefix(prefix)[n],
                         nodes[BelowPrefix(prefix)[n]])
<1> DEFINE S == KeysBelow(prefix)
           c == Cardinality(S)
           q == QueueHandles(prefix)
           ks == BelowPrefix(prefix)
<1>1. IsFiniteSet(S) /\ S \subseteq Seq(Nat) /\ S \subseteq DOMAIN nodes /\ S \subseteq Keys
  BY FS_Subset, TrieAssumption DEF NodesInv, KeysBelow
<1>2. c \in Nat /\ ks \in [1 .. c -> S] /\ Len(ks) = c /\ DOMAIN ks = 1 .. c
  BY <1>1, InOrderType DEF BelowPrefix
<1>3. q = [n \in 1 .. c |-> Handle(next_entry_id + n - 1, ks[n], nodes[ks[n]])]
  BY <1>2 DEF QueueHandles
<1>4. ASSUME NEW n \in 1 .. c
      PROVE  Handle(next_entry_id + n - 1, ks[n], nodes[ks[n]]) \in HandleRecord
  <2>1. ks[n] \in Keys /\ ks[n] \in DOMAIN nodes
    BY <1>1, <1>2
  <2>2. nodes[ks[n]] \in Nat
    BY <2>1, TrieTypes DEF NodesInv
  <2>3. next_entry_id + n - 1 \in Nat
    BY <1>2
  <2> HIDE DEF ks, c, S
  <2> QED
    BY <2>1, <2>2, <2>3 DEF Handle, HandleRecord
<1> HIDE DEF q, ks, c, S
<1>5. q \in [1 .. c -> HandleRecord]
  BY <1>3, <1>4
<1>6. q \in Seq(HandleRecord) /\ Len(q) = c /\ DOMAIN q = 1 .. c
  BY <1>2, <1>5
<1>7. \A n \in 1 .. c : q[n] = Handle(next_entry_id + n - 1, ks[n], nodes[ks[n]])
  BY <1>3
<1> QED
  BY <1>2, <1>6, <1>7 DEF q, ks, c, S

(* A handle stays known as long as its number is kept. *)
LEMMA KnownKept ==
    ASSUME NEW h, Known(h), Len(cells) \in Nat, Len(cells') \in Nat, Len(cells) <= Len(cells'),
           h.state_entry_id \in DOMAIN entry_map',
           entry_map'[h.state_entry_id] = entry_map[h.state_entry_id]
    PROVE  Known(h)'
<1>1. h.cell \in 1 .. Len(cells')
  BY DEF Known
<1> QED
  BY <1>1 DEF Known

(* Iterators keep their queues when nothing is done to them and to the     *)
(* numbers of their handles.                                               *)
LEMMA QueuesKept ==
    ASSUME QueuesInv, iterators' = iterators,
           Len(cells) \in Nat, Len(cells') \in Nat, Len(cells) <= Len(cells'),
           \A x \in DOMAIN entry_map \ DOMAIN entries :
             x \in DOMAIN entry_map' /\ entry_map'[x] = entry_map[x],
           \A x \in DOMAIN entries' : x \in DOMAIN entries \/ x \notin DOMAIN entry_map
    PROVE  QueuesInv'
<1>1. ASSUME NEW i \in DOMAIN iterators, NEW n \in 1 .. Len(iterators[i].queue)
      PROVE  /\ Known(iterators[i].queue[n])'
             /\ iterators[i].queue[n].state_entry_id \notin DOMAIN entries'
  <2> DEFINE h == iterators[i].queue[n]
  <2>1. Known(h) /\ h.state_entry_id \notin DOMAIN entries
    BY <1>1 DEF QueuesInv
  <2>2. h' = h
    OBVIOUS
  <2> HIDE DEF h
  <2>3. h.state_entry_id \in DOMAIN entry_map
    BY <2>1 DEF Known
  <2>4. h.state_entry_id \in DOMAIN entry_map'
        /\ entry_map'[h.state_entry_id] = entry_map[h.state_entry_id]
    BY <2>1, <2>3
  <2>5. \E x : x = h
    OBVIOUS
  <2>6. PICK x : x = h
    BY <2>5
  <2>7. Known(x)'
    BY <2>1, <2>4, <2>6, KnownKept
  <2>8. Known(h)'
    BY <2>2, <2>6, <2>7 DEF Known
  <2> QED
    BY <2>1, <2>3, <2>8 DEF h
<1> QED
  BY <1>1 DEF QueuesInv

(* The keys that an iterator for the prefix visits *)
LEMMA BelowFacts ==
    ASSUME NodesInv, NEW prefix \in Keys
    PROVE  /\ Cardinality(KeysBelow(prefix)) \in Nat
           /\ BelowPrefix(prefix) \in [1 .. Cardinality(KeysBelow(prefix)) -> KeysBelow(prefix)]
           /\ Len(BelowPrefix(prefix)) = Cardinality(KeysBelow(prefix))
<1>1. IsFiniteSet(KeysBelow(prefix)) /\ KeysBelow(prefix) \subseteq Seq(Nat)
  BY FS_Subset, TrieAssumption DEF NodesInv, KeysBelow
<1> QED
  BY <1>1, InOrderType DEF BelowPrefix

(* The queue holds what an iterator for the prefix has yet to visit. *)
YetToVisit(p, q) ==
    /\ p \in Keys /\ q \in Seq(HandleRecord)
    /\ Len(q) \in Nat /\ DOMAIN q = 1 .. Len(q)
    /\ Len(q) <= Len(BelowPrefix(p)) /\ Len(BelowPrefix(p)) \in Nat
    /\ \A n \in 1 .. Len(q) :
         /\ Len(BelowPrefix(p)) - Len(q) + n \in 1 .. Len(BelowPrefix(p))
         /\ q[n].key = BelowPrefix(p)[Len(BelowPrefix(p)) - Len(q) + n]
         /\ q[n].key \in KeysBelow(p)
         /\ q[n].cell = nodes[q[n].key]

LEMMA SeenFacts ==
    ASSUME NodesInv, QueuesInv, IteratorsSeeTheTrie, NEW i \in DOMAIN iterators,
           NEW p, p = iterators[i].prefix, NEW q, q = iterators[i].queue
    PROVE  YetToVisit(p, q)
<1>1. iterators[i] \in [prefix: Keys, queue: Seq(HandleRecord)]
  BY DEF QueuesInv
<1>2. p \in Keys /\ q \in Seq(HandleRecord)
  BY <1>1
<1>3. Len(q) \in Nat /\ DOMAIN q = 1 .. Len(q)
  BY <1>2, LenProperties
<1>4. /\ Len(BelowPrefix(p)) \in Nat
      /\ BelowPrefix(p) \in [1 .. Len(BelowPrefix(p)) -> KeysBelow(p)]
  BY <1>2, BelowFacts
<1> DEFINE keys == BelowPrefix(p)
           seen == Len(keys) - Len(q)
<1>5. /\ seen >= 0
      /\ \A n \in DOMAIN q : q[n].key = keys[seen + n] /\ q[n].cell = nodes[q[n].key]
  BY DEF IteratorsSeeTheTrie
<1> HIDE DEF keys
<1>6. Len(keys) \in Nat /\ keys \in [1 .. Len(keys) -> KeysBelow(p)]
  BY <1>4 DEF keys
<1>7. Len(q) <= Len(keys)
  BY <1>3, <1>5, <1>6
<1>8. \A n \in 1 .. Len(q) : seen + n \in 1 .. Len(keys)
  BY <1>3, <1>6, <1>7
<1> HIDE DEF seen
<1>9. \A n \in 1 .. Len(q) : keys[seen + n] \in KeysBelow(p)
  BY <1>6, <1>8
<1> QED
  BY <1>2, <1>3, <1>5, <1>6, <1>7, <1>8, <1>9 DEF keys, seen, YetToVisit

(* Iterators see the trie when nothing is done to them and to what is      *)
(* below their prefixes.                                                   *)
LEMMA SeeKept ==
    ASSUME NodesInv, QueuesInv, IteratorsSeeTheTrie, iterators' = iterators,
           \A i \in DOMAIN iterators :
             {k \in DOMAIN nodes' : IsStrictPrefix(iterators[i].prefix, k)} =
               KeysBelow(iterators[i].prefix),
           \A i \in DOMAIN iterators : \A k \in KeysBelow(iterators[i].prefix) :
             nodes'[k] = nodes[k]
    PROVE  IteratorsSeeTheTrie'
<1> SUFFICES ASSUME NEW i \in DOMAIN iterators
             PROVE  LET queue == iterators[i].queue
                        keys  == BelowPrefix(iterators[i].prefix)'
                        seen  == Len(keys) - Len(queue)
                    IN  /\ seen >= 0
                        /\ \A n \in DOMAIN queue : /\ queue[n].key = keys[seen + n]
                                                   /\ queue[n].cell = nodes'[queue[n].key]
  BY DEF IteratorsSeeTheTrie
<1>1. PICK p : p = iterators[i].prefix
  OBVIOUS
<1>2. PICK q : q = iterators[i].queue
  OBVIOUS
<1>3. KeysBelow(p) = {k \in DOMAIN nodes' : IsStrictPrefix(p, k)}
  BY <1>1
<1>4. BelowPrefix(iterators[i].prefix)' = BelowPrefix(p)
  BY <1>1, <1>3 DEF BelowPrefix, KeysBelow
<1>5. YetToVisit(p, q)
  BY <1>1, <1>2, SeenFacts
<1> DEFINE keys == BelowPrefix(p)
           seen == Len(keys) - Len(q)
<1>6. /\ seen >= 0
      /\ \A n \in DOMAIN q : q[n].key = keys[seen + n] /\ q[n].cell = nodes'[q[n].key]
  BY <1>1, <1>5 DEF YetToVisit
<1> QED
  BY <1>2, <1>4, <1>6

(* Two prefixes of one key: one is a prefix of the other. *)
LEMMA PrefixesComparable ==
    ASSUME NEW s \in Seq(Nat), NEW t \in Seq(Nat), NEW k \in Seq(Nat),
           IsPrefix(s, k), IsPrefix(t, k)
    PROVE  IsPrefix(s, t) \/ IsPrefix(t, s)
<1>1. Len(s) \in Nat /\ Len(t) \in Nat
  BY LenProperties
<1>2. /\ \A n \in 1 .. Len(s) : s[n] = k[n]
      /\ \A n \in 1 .. Len(t) : t[n] = k[n]
  BY PrefixAgrees
<1>3. CASE Len(s) <= Len(t)
  <2>1. \A n \in 1 .. Len(s) : s[n] = t[n]
    BY <1>1, <1>2, <1>3
  <2> QED
    BY <1>3, <2>1, PrefixAgrees
<1>4. CASE Len(t) <= Len(s)
  <2>1. \A n \in 1 .. Len(t) : t[n] = s[n]
    BY <1>1, <1>2, <1>4
  <2> QED
    BY <1>4, <2>1, PrefixAgrees
<1> QED
  BY <1>1, <1>3, <1>4

(* A key that is not locked is not below the prefix of an iterator. *)
LEMMA UnlockedApart ==
    ASSUME NodesInv, QueuesInv, LocksInv, NEW key \in Keys, ~is_locked(key),
           NEW i \in DOMAIN iterators, NEW k \in Keys
    PROVE  /\ iterators[i].prefix \in Keys
           /\ ~IsPrefix(iterators[i].prefix, key) /\ ~IsPrefix(key, iterators[i].prefix)
           /\ ~(IsPrefix(iterators[i].prefix, k) /\ IsPrefix(key, k))
<1>1. iterators[i].prefix \in Keys /\ iterators[i].prefix \in DOMAIN iterator_counts
  BY DEF LocksInv
<1>2. ~IsPrefix(iterators[i].prefix, key) /\ ~IsPrefix(key, iterators[i].prefix)
  BY <1>1 DEF is_locked
<1>3. Keys \subseteq Seq(Nat)
  BY TrieAssumption
<1> QED
  BY <1>1, <1>2, <1>3, PrefixesComparable

-----------------------------------------------------------------------------
(* The invariant is kept *)

(* A new handle for a key that has data *)
LEMMA NewHandle ==
    ASSUME NumbersInv, MaxIds \in Nat, MaxLen \in Nat, NEW key \in Keys, NEW cell,
           Len(cells) \in Nat, Len(cells') \in Nat, Len(cells) <= Len(cells'),
           cell \in 1 .. Len(cells'),
           construct_state_entry_test(key, cell)
    PROVE  /\ NumbersInv'
           /\ \A x \in DOMAIN entry_map : x \in DOMAIN entry_map' /\ entry_map'[x] = entry_map[x]
           /\ \A x \in DOMAIN entries' : x \in DOMAIN entries \/ x \notin DOMAIN entry_map
<1> DEFINE e == next_entry_id
           h == Handle(e, key, cell)
<1>1. /\ e \in 0 .. MaxIds /\ e < MaxIds /\ e + 1 \in 0 .. MaxIds
      /\ 0 .. e - 1 \subseteq 0 .. e /\ e \notin 0 .. e - 1 /\ (e + 1) - 1 = e
      /\ e \in 0 .. e
  BY DEF NumbersInv, construct_state_entry_test
<1>2. /\ next_entry_id' = e + 1
      /\ entry_map' = With(entry_map, e, key)
      /\ entries' = With(entries, e, h)
  BY DEF construct_state_entry_test
<1>3. DOMAIN entry_map \subseteq 0 .. e - 1
  BY DEF NumbersInv
<1>4. /\ DOMAIN entry_map' = DOMAIN entry_map \cup {e} /\ entry_map'[e] = key
      /\ \A x \in DOMAIN entry_map : entry_map'[x] = entry_map[x]
  BY <1>1, <1>2, <1>3 DEF With
<1>5. DOMAIN entry_map' \subseteq 0 .. next_entry_id' - 1
  BY <1>1, <1>2, <1>3, <1>4
<1>6. DOMAIN entries' = DOMAIN entries \cup {e} /\ entries'[e] = h
      /\ \A x \in DOMAIN entries : x # e => entries'[x] = entries[x]
  BY <1>2 DEF With
<1>7. /\ h \in [state_entry_id: 0 .. MaxIds, key: Keys, cell: 1 .. Len(cells'), offset: 0 .. MaxLen]
      /\ h.state_entry_id = e /\ h.key = key
  BY <1>1 DEF Handle
<1> HIDE DEF h, e
<1>8. ASSUME NEW id \in DOMAIN entries'
      PROVE  Known(entries[id])' /\ entries'[id].state_entry_id = id
  <2>1. CASE id = e
    <3>1. entries'[id] = h
      BY <1>6, <2>1
    <3> QED
      BY <1>4, <1>7, <2>1, <3>1 DEF Known
  <2>2. CASE id # e
    <3>1. id \in DOMAIN entries /\ entries'[id] = entries[id]
      BY <1>6, <2>2
    <3>2. PICK x : x = entries[id]
      OBVIOUS
    <3>3. Known(x) /\ x.state_entry_id = id
      BY <3>1, <3>2 DEF NumbersInv
    <3>4. Known(x)'
      BY <1>4, <3>3, KnownKept DEF Known
    <3> QED
      BY <3>1, <3>2, <3>3, <3>4 DEF Known
  <2> QED
    BY <2>1, <2>2
<1>9. NumbersInv'
  BY <1>1, <1>2, <1>5, <1>8 DEF NumbersInv, e
<1>10. \A x \in DOMAIN entries' : x \in DOMAIN entries \/ x \notin DOMAIN entry_map
  BY <1>1, <1>3, <1>6
<1> QED
  BY <1>4, <1>9, <1>10

LEMMA CreateKeeps ==
    ASSUME TrieInv, NEW key \in Keys, create_entry(key)
    PROVE  TrieInv'
<1> DEFINE c == Len(cells) + 1
<1>1. /\ NodesInv /\ NumbersInv /\ QueuesInv /\ LocksInv /\ IteratorsSeeTheTrie
      /\ ~is_locked(key) /\ cells' = Append(cells, << >>) /\ nodes' = With(nodes, key, c)
      /\ iterator_counts' = iterator_counts /\ iterators' = iterators
      /\ construct_state_entry_test(key, c)
  BY DEF TrieInv, create_entry
<1>2. /\ Len(cells) \in Nat /\ MaxIds \in Nat /\ MaxLen \in Nat
      /\ cells \in Seq(Cell)
  BY <1>1, TrieTypes DEF NodesInv
<1>3. /\ cells' \in Seq(Cell) /\ Len(cells') = c
      /\ \A n \in 1 .. Len(cells) : cells'[n] = cells[n]
      /\ cells'[c] = << >>
  BY <1>1, <1>2, EmptyCell, AppendProperties
<1>4. /\ DOMAIN nodes' = DOMAIN nodes \cup {key} /\ nodes'[key] = c
      /\ \A k \in DOMAIN nodes : k # key => nodes'[k] = nodes[k]
  BY <1>1 DEF With
<1>5. NodesInv'
  <2>1. IsFiniteSet(DOMAIN nodes') /\ DOMAIN nodes' \subseteq Keys
    BY <1>1, <1>4, FS_AddElement DEF NodesInv
  <2>2. c \in 1 .. c /\ c \notin 1 .. Len(cells) /\ \A n \in 1 .. Len(cells) : n \in 1 .. c
    BY <1>2
  <2> HIDE DEF c
  <2>3. \A k \in DOMAIN nodes' : nodes'[k] \in 1 .. Len(cells') /\ cells'[nodes'[k]] # Deleted
    BY <1>1, <1>3, <1>4, <2>2, EmptyCell DEF NodesInv
  <2>4. \A k, l \in DOMAIN nodes' : nodes'[k] = nodes'[l] => k = l
    BY <1>1, <1>4, <2>2 DEF NodesInv
  <2> QED
    BY <1>3, <2>1, <2>3, <2>4 DEF NodesInv
<1>6. c \in Nat /\ c \in 1 .. c /\ Len(cells) <= c
  BY <1>2
<1> HIDE DEF c
<1>7. /\ NumbersInv'
      /\ \A x \in DOMAIN entry_map : x \in DOMAIN entry_map' /\ entry_map'[x] = entry_map[x]
      /\ \A x \in DOMAIN entries' : x \in DOMAIN entries \/ x \notin DOMAIN entry_map
  BY <1>1, <1>2, <1>3, <1>6, NewHandle
<1>8. QueuesInv'
  BY <1>1, <1>2, <1>3, <1>6, <1>7, QueuesKept
<1>9. LocksInv'
  BY <1>1 DEF LocksInv, IteratorsOf
<1>10. ASSUME NEW i \in DOMAIN iterators
       PROVE  /\ {k \in DOMAIN nodes' : IsStrictPrefix(iterators[i].prefix, k)} =
                   KeysBelow(iterators[i].prefix)
              /\ \A k \in KeysBelow(iterators[i].prefix) : nodes'[k] = nodes[k]
  <2>1. ~IsStrictPrefix(iterators[i].prefix, key)
    BY <1>1, UnlockedApart DEF IsStrictPrefix
  <2> QED
    BY <1>4, <2>1 DEF KeysBelow
<1>11. IteratorsSeeTheTrie'
  BY <1>1, <1>10, SeeKept
<1> QED
  BY <1>5, <1>7, <1>8, <1>9, <1>11 DEF TrieInv

LEMMA LookupKeeps ==
    ASSUME TrieInv, NEW key \in Keys, lookup(key)
    PROVE  TrieInv'
<1>1. /\ NodesInv /\ NumbersInv /\ QueuesInv /\ LocksInv /\ IteratorsSeeTheTrie
      /\ key \in DOMAIN nodes /\ cells' = cells /\ nodes' = nodes
      /\ iterator_counts' = iterator_counts /\ iterators' = iterators
      /\ construct_state_entry_test(key, nodes[key])
  BY DEF TrieInv, lookup
<1>2. /\ Len(cells) \in Nat /\ MaxIds \in Nat /\ MaxLen \in Nat
      /\ nodes[key] \in 1 .. Len(cells)
  BY <1>1, TrieTypes DEF NodesInv
<1>3. NodesInv'
  BY <1>1 DEF NodesInv, Cell
<1>4. Len(cells) <= Len(cells)
  BY <1>2
<1>5. /\ NumbersInv'
      /\ \A x \in DOMAIN entry_map : x \in DOMAIN entry_map' /\ entry_map'[x] = entry_map[x]
      /\ \A x \in DOMAIN entries' : x \in DOMAIN entries \/ x \notin DOMAIN entry_map
  BY <1>1, <1>2, <1>4, NewHandle
<1>6. QueuesInv'
  BY <1>1, <1>2, <1>4, <1>5, QueuesKept
<1>7. LocksInv'
  BY <1>1 DEF LocksInv, IteratorsOf
<1>8. IteratorsSeeTheTrie'
  BY <1>1, SeeKept DEF KeysBelow
<1> QED
  BY <1>3, <1>5, <1>6, <1>7, <1>8 DEF TrieInv

(* Handles that are left, with the numbers that are left *)
LEMMA NumbersKept ==
    ASSUME NumbersInv, Len(cells) \in Nat, Len(cells') = Len(cells),
           next_entry_id' = next_entry_id,
           DOMAIN entries' \subseteq DOMAIN entries,
           DOMAIN entry_map' \subseteq DOMAIN entry_map,
           \A x \in DOMAIN entries' :
             /\ entries'[x] = entries[x]
             /\ x \in DOMAIN entry_map' /\ entry_map'[x] = entry_map[x]
    PROVE  NumbersInv'
<1>1. Len(cells) <= Len(cells')
  OBVIOUS
<1>2. ASSUME NEW id \in DOMAIN entries'
      PROVE  Known(entries[id])' /\ entries'[id].state_entry_id = id
  <2>1. PICK x : x = entries[id]
    OBVIOUS
  <2>2. Known(x) /\ x.state_entry_id = id
    BY <2>1 DEF NumbersInv
  <2>3. Known(x)'
    BY <1>1, <2>2, KnownKept
  <2> QED
    BY <2>1, <2>2, <2>3 DEF Known
<1> QED
  BY <1>2 DEF NumbersInv

LEMMA DeleteEntryKeeps ==
    ASSUME TrieInv, NEW id \in DOMAIN entries, delete_entry(id)
    PROVE  TrieInv'
<1> DEFINE key == entries[id].key
<1>1. /\ NodesInv /\ NumbersInv /\ QueuesInv /\ LocksInv /\ IteratorsSeeTheTrie
      /\ entries' = WithoutKeys(entries, {id})
      /\ cells' = cells /\ next_entry_id' = next_entry_id
      /\ iterator_counts' = iterator_counts /\ iterators' = iterators
  BY DEF TrieInv, delete_entry
<1>2. /\ key \in Keys /\ id \in DOMAIN entry_map /\ entry_map[id] = key
      /\ entries[id].state_entry_id = id
  BY <1>1 DEF NumbersInv, Known
<1>3. Len(cells) \in Nat /\ Len(cells) <= Len(cells)
  BY <1>1, TrieTypes
<1>4. \/ entry_map' = entry_map /\ nodes' = nodes
      \/ /\ ~is_locked(key)
         /\ entry_map' = WithoutKeys(entry_map, {id}) /\ nodes' = WithoutKeys(nodes, {key})
  BY <1>2 DEF delete_entry
<1> HIDE DEF key
<1>5. /\ DOMAIN entries' = DOMAIN entries \ {id}
      /\ \A x \in DOMAIN entries' : entries'[x] = entries[x]
  BY <1>1 DEF WithoutKeys
<1>6. /\ DOMAIN entry_map' \subseteq DOMAIN entry_map
      /\ \A x \in DOMAIN entry_map : x # id => x \in DOMAIN entry_map' /\ entry_map'[x] = entry_map[x]
  BY <1>4 DEF WithoutKeys
<1>7. /\ DOMAIN nodes' \subseteq DOMAIN nodes
      /\ \A k \in DOMAIN nodes' : nodes'[k] = nodes[k]
  BY <1>4 DEF WithoutKeys
<1>8. NodesInv'
  <2>1. IsFiniteSet(DOMAIN nodes')
    BY <1>1, <1>7, FS_Subset DEF NodesInv
  <2> QED
    BY <1>1, <1>7, <2>1 DEF NodesInv, Cell
<1>9. NumbersInv'
  <2>1. \A x \in DOMAIN entries' : x \in DOMAIN entry_map /\ x # id
    BY <1>1, <1>5 DEF NumbersInv, Known
  <2> QED
    BY <1>1, <1>3, <1>5, <1>6, <2>1, NumbersKept
<1>10. QueuesInv'
  BY <1>1, <1>3, <1>5, <1>6, QueuesKept
<1>11. LocksInv'
  BY <1>1 DEF LocksInv, IteratorsOf
<1>12. ASSUME NEW i \in DOMAIN iterators
       PROVE  /\ {k \in DOMAIN nodes' : IsStrictPrefix(iterators[i].prefix, k)} =
                   KeysBelow(iterators[i].prefix)
              /\ \A k \in KeysBelow(iterators[i].prefix) : nodes'[k] = nodes[k]
  <2>1. CASE nodes' = nodes
    BY <2>1 DEF KeysBelow
  <2>2. CASE ~is_locked(key) /\ nodes' = WithoutKeys(nodes, {key})
    <3>1. ~IsStrictPrefix(iterators[i].prefix, key)
      BY <1>1, <1>2, <2>2, UnlockedApart DEF IsStrictPrefix
    <3> QED
      BY <2>2, <3>1 DEF KeysBelow, WithoutKeys
  <2> QED
    BY <1>4, <2>1, <2>2
<1>13. IteratorsSeeTheTrie'
  BY <1>1, <1>12, SeeKept
<1> QED
  BY <1>8, <1>9, <1>10, <1>11, <1>13 DEF TrieInv

(* The numbers after a queue has been built *)
LEMMA QueueNumbers ==
    ASSUME NodesInv, NumbersInv, NEW prefix \in Keys,
           QueueNumbered(QueueHandles(prefix)),
           entry_map' = EntryMapWith(QueueHandles(prefix))
    PROVE  /\ next_entry_id' \in 0 .. MaxIds
           /\ DOMAIN entry_map' \subseteq 0 .. next_entry_id' - 1
           /\ \A x \in DOMAIN entry_map : x \in DOMAIN entry_map' /\ entry_map'[x] = entry_map[x]
           /\ \A n \in 1 .. Len(QueueHandles(prefix)) :
                LET h == QueueHandles(prefix)[n]
                IN  /\ h \in [state_entry_id: 0 .. MaxIds, key: Keys,
                              cell: 1 .. Len(cells), offset: 0 .. MaxLen]
                    /\ h.state_entry_id = next_entry_id + n - 1
                    /\ h.state_entry_id \notin DOMAIN entry_map
                    /\ h.state_entry_id \in DOMAIN entry_map'
                    /\ entry_map'[h.state_entry_id] = h.key
                    /\ h.key = BelowPrefix(prefix)[n]
                    /\ h.key \in KeysBelow(prefix)
                    /\ h.cell = nodes[h.key]
<1> DEFINE e == next_entry_id
           q == QueueHandles(prefix)
           ks == BelowPrefix(prefix)
           c == Len(q)
<1>1. MaxIds \in Nat /\ MaxLen \in Nat /\ Len(cells) \in Nat /\ e \in 0 .. MaxIds
      /\ DOMAIN entry_map \subseteq 0 .. e - 1
  BY TrieTypes DEF NumbersInv
<1>2. e \in Nat
  BY <1>1
<1>3. /\ c \in Nat /\ DOMAIN q = 1 .. c /\ ks \in [1 .. c -> KeysBelow(prefix)]
      /\ \A n \in 1 .. c : q[n] = Handle(e + n - 1, ks[n], nodes[ks[n]])
  BY <1>2, QueueFacts
<1>4. e + c <= MaxIds /\ next_entry_id' = e + c
  BY DEF QueueNumbered
<1>5. entry_map' = [i \in DOMAIN entry_map \cup {q[n].state_entry_id : n \in DOMAIN q} |->
                      IF i \in DOMAIN entry_map THEN entry_map[i] ELSE q[i - e + 1].key]
  BY DEF EntryMapWith
<1> DEFINE num == [n \in 1 .. c |-> e + n - 1]
<1> HIDE DEF e, q, ks, c
<1>6. ASSUME NEW n \in 1 .. c
      PROVE  /\ num[n] = e + n - 1
             /\ num[n] \in 0 .. MaxIds /\ num[n] \notin DOMAIN entry_map
             /\ num[n] - e + 1 = n /\ num[n] \in 0 .. (e + c) - 1
  <2>1. /\ e + n - 1 \in 0 .. MaxIds /\ e + n - 1 \notin 0 .. e - 1
        /\ (e + n - 1) - e + 1 = n /\ e + n - 1 \in 0 .. (e + c) - 1
    BY <1>1, <1>2, <1>3, <1>4
  <2>2. num[n] = e + n - 1
    OBVIOUS
  <2> HIDE DEF num
  <2> QED
    BY <1>1, <2>1, <2>2
<1> HIDE DEF num
<1>7. ASSUME NEW n \in 1 .. c
      PROVE  /\ q[n].state_entry_id = num[n] /\ q[n].key = ks[n]
             /\ q[n].cell = nodes[ks[n]] /\ q[n].offset = 0
             /\ q[n] \in [state_entry_id: 0 .. MaxIds, key: Keys,
                          cell: 1 .. Len(cells), offset: 0 .. MaxLen]
             /\ ks[n] \in KeysBelow(prefix)
  <2>1. q[n] = Handle(num[n], ks[n], nodes[ks[n]])
    BY <1>3, <1>6
  <2>2. ks[n] \in KeysBelow(prefix)
    BY <1>3
  <2>3. ks[n] \in Keys /\ nodes[ks[n]] \in 1 .. Len(cells) /\ 0 \in 0 .. MaxLen
    BY <1>1, <2>2 DEF KeysBelow, NodesInv
  <2>4. num[n] \in 0 .. MaxIds
    BY <1>6
  <2> QED
    BY <2>1, <2>2, <2>3, <2>4 DEF Handle
<1>8. DOMAIN entry_map' = DOMAIN entry_map \cup {num[n] : n \in 1 .. c}
  <2>1. {q[n].state_entry_id : n \in DOMAIN q} = {num[n] : n \in 1 .. c}
    <3>1. \A n \in DOMAIN q : n \in 1 .. c /\ q[n].state_entry_id = num[n]
      BY <1>3, <1>7
    <3>2. \A n \in 1 .. c : n \in DOMAIN q
      BY <1>3
    <3> QED
      BY <3>1, <3>2
  <2> QED
    BY <1>5, <2>1
<1>9. \A x \in DOMAIN entry_map : x \in DOMAIN entry_map' /\ entry_map'[x] = entry_map[x]
  BY <1>5, <1>8
<1>10. ASSUME NEW n \in 1 .. c
       PROVE  num[n] \in DOMAIN entry_map' /\ entry_map'[num[n]] = ks[n]
  <2>1. num[n] \in DOMAIN entry_map' /\ num[n] \notin DOMAIN entry_map
    BY <1>6, <1>8
  <2>2. entry_map'[num[n]] = q[num[n] - e + 1].key
    BY <1>5, <2>1
  <2> QED
    BY <1>6, <1>7, <2>1, <2>2
<1>11. DOMAIN entry_map' \subseteq 0 .. next_entry_id' - 1
  <2>1. 0 .. e - 1 \subseteq 0 .. (e + c) - 1
    BY <1>2, <1>3
  <2>2. \A n \in 1 .. c : num[n] \in 0 .. (e + c) - 1
    BY <1>6
  <2>3. next_entry_id' - 1 = (e + c) - 1
    BY <1>4
  <2> QED
    BY <1>1, <1>8, <2>1, <2>2, <2>3
<1>12. next_entry_id' \in 0 .. MaxIds
  BY <1>1, <1>2, <1>3, <1>4
<1>13. ASSUME NEW n \in 1 .. c
       PROVE  /\ q[n] \in [state_entry_id: 0 .. MaxIds, key: Keys,
                           cell: 1 .. Len(cells), offset: 0 .. MaxLen]
              /\ q[n].state_entry_id = e + n - 1
              /\ q[n].state_entry_id \notin DOMAIN entry_map
              /\ q[n].state_entry_id \in DOMAIN entry_map'
              /\ entry_map'[q[n].state_entry_id] = q[n].key
              /\ q[n].key = ks[n]
              /\ q[n].key \in KeysBelow(prefix)
              /\ q[n].cell = nodes[q[n].key]
  BY <1>6, <1>7, <1>10
<1> QED
  BY <1>9, <1>11, <1>12, <1>13 DEF e, q, ks, c

(* The data that are marked are not those of a node that is left. *)
LEMMA CutOff ==
    ASSUME TrieInv, NEW prefix \in Keys, delete_prefix(prefix)
    PROVE  /\ DOMAIN nodes' = {k \in DOMAIN nodes : ~IsPrefix(prefix, k)}
           /\ \A k \in DOMAIN nodes' : nodes'[k] = nodes[k] /\ cells'[nodes[k]] = cells[nodes[k]]
           /\ cells' \in Seq(Cell) /\ Len(cells') = Len(cells)
<1> DEFINE q == QueueHandles(prefix)
           below == {q[n].cell : n \in DOMAIN q}
           gone == {k \in DOMAIN nodes : IsPrefix(prefix, k)}
<1>1. /\ NodesInv /\ NumbersInv /\ QueuesInv /\ LocksInv /\ IteratorsSeeTheTrie
      /\ ~is_locked(prefix) /\ QueueNumbered(q) /\ entry_map' = EntryMapWith(q)
      /\ cells' = [c \in DOMAIN cells |-> IF c \in below THEN Deleted ELSE cells[c]]
      /\ nodes' = WithoutKeys(nodes, gone)
      /\ iterator_counts' = iterator_counts /\ iterators' = iterators /\ entries' = entries
  BY DEF TrieInv, delete_prefix
<1>2. /\ Len(cells) \in Nat /\ DOMAIN cells = 1 .. Len(cells) /\ cells \in Seq(Cell)
      /\ \A c \in 1 .. Len(cells) : cells[c] \in Cell
      /\ Len(cells) <= Len(cells)
  BY <1>1, TrieTypes DEF NodesInv
<1>3. /\ next_entry_id' \in 0 .. MaxIds
      /\ DOMAIN entry_map' \subseteq 0 .. next_entry_id' - 1
      /\ \A x \in DOMAIN entry_map : x \in DOMAIN entry_map' /\ entry_map'[x] = entry_map[x]
      /\ \A n \in 1 .. Len(q) : q[n].key \in KeysBelow(prefix) /\ q[n].cell = nodes[q[n].key]
  BY <1>1, QueueNumbers
<1>4. DOMAIN q = 1 .. Len(q)
  <2>1. next_entry_id \in Nat
    BY <1>1, TrieTypes DEF NumbersInv
  <2> QED
    BY <1>1, <2>1, QueueFacts
<1> HIDE DEF q
<1>5. /\ DOMAIN nodes' = DOMAIN nodes \ gone
      /\ \A k \in DOMAIN nodes' : nodes'[k] = nodes[k]
  BY <1>1 DEF WithoutKeys
<1>6. \A k \in DOMAIN nodes' : nodes[k] \notin below
  <2> SUFFICES ASSUME NEW k \in DOMAIN nodes', NEW n \in DOMAIN q, nodes[k] = q[n].cell
               PROVE  FALSE
    OBVIOUS
  <2>1. q[n].key \in KeysBelow(prefix) /\ nodes[k] = nodes[q[n].key]
    BY <1>3, <1>4
  <2>2. k = q[n].key
    BY <1>1, <1>5, <2>1 DEF NodesInv, KeysBelow
  <2> QED
    BY <1>5, <2>1, <2>2 DEF KeysBelow, IsStrictPrefix
<1>7. cells' \in Seq(Cell) /\ Len(cells') = Len(cells)
      /\ \A k \in DOMAIN nodes' : cells'[nodes[k]] = cells[nodes[k]]
  <2>1. Deleted \in Cell
    BY DEF Cell
  <2> HIDE DEF below
  <2>2. cells' \in [1 .. Len(cells) -> Cell]
    BY <1>1, <1>2, <2>1
  <2>3. cells' \in Seq(Cell) /\ Len(cells') = Len(cells)
    BY <1>2, <2>2
  <2>4. \A k \in DOMAIN nodes' : nodes[k] \in DOMAIN cells
    BY <1>1, <1>2, <1>5 DEF NodesInv
  <2> QED
    BY <1>1, <1>6, <2>3, <2>4
<1> QED
  BY <1>5, <1>7

LEMMA DeletePrefixKeeps ==
    ASSUME TrieInv, NEW prefix \in Keys, delete_prefix(prefix)
    PROVE  TrieInv'
<1>1. /\ NodesInv /\ NumbersInv /\ QueuesInv /\ LocksInv /\ IteratorsSeeTheTrie
      /\ ~is_locked(prefix) /\ QueueNumbered(QueueHandles(prefix))
      /\ entry_map' = EntryMapWith(QueueHandles(prefix))
      /\ iterator_counts' = iterator_counts /\ iterators' = iterators /\ entries' = entries
  BY DEF TrieInv, delete_prefix
<1>2. Len(cells) \in Nat /\ Len(cells) <= Len(cells)
  BY <1>1, TrieTypes
<1>3. /\ next_entry_id' \in 0 .. MaxIds
      /\ DOMAIN entry_map' \subseteq 0 .. next_entry_id' - 1
      /\ \A x \in DOMAIN entry_map : x \in DOMAIN entry_map' /\ entry_map'[x] = entry_map[x]
  BY <1>1, QueueNumbers
<1> DEFINE gone == {k \in DOMAIN nodes : IsPrefix(prefix, k)}
<1>5. /\ DOMAIN nodes' = DOMAIN nodes \ gone
      /\ \A k \in DOMAIN nodes' : nodes'[k] = nodes[k]
  BY CutOff
<1>7. cells' \in Seq(Cell) /\ Len(cells') = Len(cells)
      /\ \A k \in DOMAIN nodes' : cells'[nodes[k]] = cells[nodes[k]]
  BY CutOff
<1>8. NodesInv'
  <2>1. IsFiniteSet(DOMAIN nodes') /\ DOMAIN nodes' \subseteq DOMAIN nodes
    BY <1>1, <1>5, FS_Subset DEF NodesInv
  <2>2. \A k \in DOMAIN nodes' : nodes'[k] \in 1 .. Len(cells') /\ cells'[nodes'[k]] # Deleted
    BY <1>1, <1>5, <1>7, <2>1 DEF NodesInv
  <2>3. \A k, l \in DOMAIN nodes' : nodes'[k] = nodes'[l] => k = l
    BY <1>1, <1>5, <2>1 DEF NodesInv
  <2>4. DOMAIN nodes' \subseteq Keys
    BY <1>1, <2>1 DEF NodesInv
  <2> QED
    BY <1>7, <2>1, <2>2, <2>3, <2>4 DEF NodesInv
<1>9. NumbersInv'
  <2>1. ASSUME NEW id \in DOMAIN entries
        PROVE  Known(entries[id])' /\ entries'[id].state_entry_id = id
    <3>1. PICK x : x = entries[id]
      OBVIOUS
    <3>2. Known(x) /\ x.state_entry_id = id /\ entries'[id] = x
      BY <1>1, <3>1 DEF NumbersInv
    <3>3. id \in DOMAIN entry_map
      BY <3>2 DEF Known
    <3>4. Known(x)'
      BY <1>2, <1>3, <1>7, <3>2, <3>3, KnownKept
    <3> QED
      BY <3>2, <3>4 DEF Known
  <2> QED
    BY <1>1, <1>3, <2>1 DEF NumbersInv
<1>10. QueuesInv'
  BY <1>1, <1>2, <1>3, <1>7, QueuesKept
<1>11. LocksInv'
  BY <1>1 DEF LocksInv, IteratorsOf
<1>12. ASSUME NEW i \in DOMAIN iterators
       PROVE  /\ {k \in DOMAIN nodes' : IsStrictPrefix(iterators[i].prefix, k)} =
                   KeysBelow(iterators[i].prefix)
              /\ \A k \in KeysBelow(iterators[i].prefix) : nodes'[k] = nodes[k]
  <2>1. \A k \in DOMAIN nodes : IsStrictPrefix(iterators[i].prefix, k) => k \notin gone
    BY <1>1, UnlockedApart DEF IsStrictPrefix, NodesInv
  <2> HIDE DEF gone
  <2> QED
    BY <1>5, <2>1 DEF KeysBelow
<1>13. IteratorsSeeTheTrie'
  BY <1>1, <1>12, SeeKept
<1> QED
  BY <1>8, <1>9, <1>10, <1>11, <1>13 DEF TrieInv

(* Iterators see the trie when each has in its queue what it has yet to    *)
(* visit, and the nodes stay.                                              *)
LEMMA VisitorsSee ==
    ASSUME nodes' = nodes,
           \A i \in DOMAIN iterators' : YetToVisit(iterators'[i].prefix, iterators'[i].queue)
    PROVE  IteratorsSeeTheTrie'
<1> SUFFICES ASSUME NEW i \in DOMAIN iterators'
             PROVE  LET queue == iterators'[i].queue
                        keys  == BelowPrefix(iterators[i].prefix)'
                        seen  == Len(keys) - Len(queue)
                    IN  /\ seen >= 0
                        /\ \A n \in DOMAIN queue : /\ queue[n].key = keys[seen + n]
                                                   /\ queue[n].cell = nodes'[queue[n].key]
  BY DEF IteratorsSeeTheTrie
<1>1. PICK p : p = iterators'[i].prefix
  OBVIOUS
<1>2. PICK q : q = iterators'[i].queue
  OBVIOUS
<1>3. BelowPrefix(iterators[i].prefix)' = BelowPrefix(p)
  BY <1>1 DEF BelowPrefix, KeysBelow
<1>4. YetToVisit(p, q)
  BY <1>1, <1>2
<1> DEFINE keys == BelowPrefix(p)
           seen == Len(keys) - Len(q)
<1>5. /\ seen >= 0
      /\ \A n \in DOMAIN q : q[n].key = keys[seen + n] /\ q[n].cell = nodes'[q[n].key]
  BY <1>4 DEF YetToVisit
<1> QED
  BY <1>2, <1>3, <1>5

(* Iterators are finitely many. *)
LEMMA FewIterators ==
    ASSUME LocksInv, NEW p
    PROVE  IsFiniteSet(IteratorsOf(p)) /\ Cardinality(IteratorsOf(p)) \in Nat
<1>1. IsFiniteSet(1 .. MaxIterators)
  BY TrieAssumption, FS_Interval
<1>2. IteratorsOf(p) \subseteq 1 .. MaxIterators
  BY DEF LocksInv, IteratorsOf
<1> QED
  BY <1>1, <1>2, FS_Subset, FS_CardinalityType

LEMMA IteratorKeeps ==
    ASSUME TrieInv, NEW i \in 1 .. MaxIterators, NEW prefix \in Keys, iterator(i, prefix)
    PROVE  TrieInv'
<1> DEFINE q == QueueHandles(prefix)
           new == [prefix |-> prefix, queue |-> q]
           count == IF prefix \in DOMAIN iterator_counts THEN iterator_counts[prefix] ELSE 0
<1>1. /\ NodesInv /\ NumbersInv /\ QueuesInv /\ LocksInv /\ IteratorsSeeTheTrie
      /\ i \notin DOMAIN iterators
      /\ QueueNumbered(q) /\ entry_map' = EntryMapWith(q)
      /\ iterators' = With(iterators, i, new)
      /\ iterator_counts' = With(iterator_counts, prefix, count + 1)
      /\ cells' = cells /\ nodes' = nodes /\ entries' = entries
  BY DEF TrieInv, iterator
<1>2. Len(cells) \in Nat /\ Len(cells) <= Len(cells) /\ MaxIds \in Nat
  BY <1>1, TrieTypes
<1>3. /\ next_entry_id' \in 0 .. MaxIds
      /\ DOMAIN entry_map' \subseteq 0 .. next_entry_id' - 1
      /\ \A x \in DOMAIN entry_map : x \in DOMAIN entry_map' /\ entry_map'[x] = entry_map[x]
  BY <1>1, QueueNumbers
<1>4. ASSUME NEW n \in 1 .. Len(q)
      PROVE  /\ q[n] \in [state_entry_id: 0 .. MaxIds, key: Keys,
                          cell: 1 .. Len(cells), offset: 0 .. MaxLen]
             /\ q[n].state_entry_id = next_entry_id + n - 1
             /\ q[n].state_entry_id \notin DOMAIN entry_map
             /\ q[n].state_entry_id \in DOMAIN entry_map'
             /\ entry_map'[q[n].state_entry_id] = q[n].key
             /\ q[n].key = BelowPrefix(prefix)[n]
             /\ q[n].key \in KeysBelow(prefix)
             /\ q[n].cell = nodes[q[n].key]
  BY <1>1, QueueNumbers
<1>5. /\ next_entry_id \in Nat /\ Len(q) \in Nat /\ DOMAIN q = 1 .. Len(q)
      /\ q \in Seq(HandleRecord) /\ Len(BelowPrefix(prefix)) = Len(q)
  <2>1. next_entry_id \in Nat
    BY <1>1, <1>2 DEF NumbersInv
  <2> QED
    BY <1>1, <2>1, QueueFacts
<1> HIDE DEF q
<1>6. NodesInv'
  BY <1>1 DEF NodesInv, Cell
<1>7. NumbersInv'
  <2>1. ASSUME NEW id \in DOMAIN entries
        PROVE  Known(entries[id])' /\ entries'[id].state_entry_id = id
    <3>1. PICK x : x = entries[id]
      OBVIOUS
    <3>2. Known(x) /\ x.state_entry_id = id /\ entries'[id] = x
      BY <1>1, <3>1 DEF NumbersInv
    <3>3. id \in DOMAIN entry_map
      BY <3>2 DEF Known
    <3>4. Known(x)'
      BY <1>1, <1>2, <1>3, <3>2, <3>3, KnownKept
    <3> QED
      BY <3>2, <3>4 DEF Known
  <2> QED
    BY <1>1, <1>3, <2>1 DEF NumbersInv
<1>8. /\ DOMAIN iterators' = DOMAIN iterators \cup {i} /\ iterators'[i] = new
      /\ \A j \in DOMAIN iterators : iterators'[j] = iterators[j]
  BY <1>1 DEF With
<1>9. new.prefix = prefix /\ new.queue = q /\ new \in [prefix: Keys, queue: Seq(HandleRecord)]
  BY <1>5
<1> HIDE DEF new
<1>10. QueuesInv'
  <2>1. ASSUME NEW j \in DOMAIN iterators'
        PROVE  iterators'[j] \in [prefix: Keys, queue: Seq(HandleRecord)]
    BY <1>1, <1>8, <1>9 DEF QueuesInv
  <2>2. ASSUME NEW n \in 1 .. Len(q)
        PROVE  /\ q[n].state_entry_id \notin DOMAIN entries
               /\ q[n].state_entry_id \notin DOMAIN entry_map
               /\ q[n].state_entry_id = next_entry_id + n - 1
    BY <1>1, <1>4 DEF NumbersInv, Known
  <2>3. ASSUME NEW j \in DOMAIN iterators, NEW n \in 1 .. Len(iterators[j].queue)
        PROVE  /\ iterators[j].queue[n].state_entry_id \notin DOMAIN entries
               /\ iterators[j].queue[n].state_entry_id \in DOMAIN entry_map
    BY <1>1 DEF QueuesInv, Known
  <2>4. ASSUME NEW j \in DOMAIN iterators', NEW n \in 1 .. Len(iterators'[j].queue)
        PROVE  /\ Known(iterators[j].queue[n])'
               /\ iterators'[j].queue[n].state_entry_id \notin DOMAIN entries'
    <3>1. PICK x : x = iterators'[j].queue[n]
      OBVIOUS
    <3>2. CASE j = i
      <4>1. x = q[n] /\ n \in 1 .. Len(q)
        BY <1>8, <1>9, <3>1, <3>2
      <4>2. Known(x)'
        BY <1>1, <1>4, <4>1 DEF Known
      <4> QED
        BY <1>1, <2>2, <3>1, <4>1, <4>2 DEF Known
    <3>3. CASE j # i
      <4>1. j \in DOMAIN iterators /\ x = iterators[j].queue[n]
            /\ n \in 1 .. Len(iterators[j].queue)
        BY <1>8, <3>1, <3>3
      <4>2. Known(x) /\ x.state_entry_id \in DOMAIN entry_map
        BY <1>1, <2>3, <4>1 DEF QueuesInv
      <4>3. Known(x)'
        BY <1>1, <1>2, <1>3, <4>2, KnownKept
      <4> QED
        BY <1>1, <2>3, <3>1, <4>1, <4>3 DEF Known
    <3> QED
      BY <3>2, <3>3
  <2>5. ASSUME NEW j \in DOMAIN iterators', NEW l \in DOMAIN iterators',
               NEW m \in 1 .. Len(iterators'[j].queue), NEW n \in 1 .. Len(iterators'[l].queue),
               iterators'[j].queue[m].state_entry_id = iterators'[l].queue[n].state_entry_id
        PROVE  j = l /\ m = n
    <3>2. CASE j = i /\ l = i
      <4>1. next_entry_id + m - 1 = next_entry_id + n - 1 /\ m \in 1 .. Len(q) /\ n \in 1 .. Len(q)
        BY <1>8, <1>9, <2>2, <2>5, <3>2
      <4> QED
        BY <1>5, <3>2, <4>1
    <3>3. CASE j = i /\ l # i
      BY <1>8, <1>9, <2>2, <2>3, <2>5, <3>3
    <3>4. CASE j # i /\ l = i
      BY <1>8, <1>9, <2>2, <2>3, <2>5, <3>4
    <3>5. CASE j # i /\ l # i
      BY <1>1, <1>8, <2>5, <3>5 DEF QueuesInv
    <3> QED
      BY <3>2, <3>3, <3>4, <3>5
  <2> QED
    BY <2>1, <2>4, <2>5 DEF QueuesInv
<1>11. LocksInv'
  <2>1. count = Cardinality(IteratorsOf(prefix)) /\ count \in Nat
    <3>1. Cardinality(IteratorsOf(prefix)) \in Nat
      BY <1>1, FewIterators
    <3>2. CASE prefix \in DOMAIN iterator_counts
      BY <1>1, <3>1, <3>2 DEF LocksInv
    <3>3. CASE prefix \notin DOMAIN iterator_counts
      <4>1. IteratorsOf(prefix) = {}
        BY <1>1, <3>3 DEF LocksInv, IteratorsOf
      <4> QED
        BY <3>3, <4>1, FS_EmptySet
    <3> QED
      BY <3>2, <3>3
  <2> HIDE DEF count
  <2>2. /\ DOMAIN iterator_counts' = DOMAIN iterator_counts \cup {prefix}
        /\ iterator_counts'[prefix] = count + 1
        /\ \A p \in DOMAIN iterator_counts : p # prefix => iterator_counts'[p] = iterator_counts[p]
    BY <1>1 DEF With
  <2>3. IteratorsOf(prefix)' = IteratorsOf(prefix) \cup {i}
    BY <1>8, <1>9 DEF IteratorsOf
  <2>4. \A p : p # prefix => IteratorsOf(p)' = IteratorsOf(p)
    BY <1>8, <1>9 DEF IteratorsOf
  <2>5. Cardinality(IteratorsOf(prefix)') = count + 1
    <3>1. i \notin IteratorsOf(prefix)
      BY <1>1 DEF IteratorsOf
    <3> QED
      BY <1>1, <2>1, <2>3, <3>1, FewIterators, FS_AddElement
  <2>6. ASSUME NEW p \in DOMAIN iterator_counts'
        PROVE  iterator_counts'[p] = Cardinality(IteratorsOf(p)') /\ iterator_counts'[p] > 0
    <3>1. CASE p = prefix
      BY <2>1, <2>2, <2>5, <3>1
    <3>2. CASE p # prefix
      BY <1>1, <2>2, <2>4, <3>2 DEF LocksInv
    <3> QED
      BY <3>1, <3>2
  <2>7. DOMAIN iterators' \subseteq 1 .. MaxIterators /\ DOMAIN iterator_counts' \subseteq Keys
    BY <1>1, <1>8, <2>2 DEF LocksInv
  <2>8. \A j \in DOMAIN iterators' : iterators'[j].prefix \in DOMAIN iterator_counts'
    BY <1>1, <1>8, <1>9, <2>2 DEF LocksInv
  <2> QED
    BY <2>6, <2>7, <2>8 DEF LocksInv
<1>12. IteratorsSeeTheTrie'
  <2>1. YetToVisit(prefix, q)
    BY <1>4, <1>5 DEF YetToVisit
  <2>2. ASSUME NEW j \in DOMAIN iterators
        PROVE  YetToVisit(iterators[j].prefix, iterators[j].queue)
    BY <1>1, SeenFacts
  <2>3. \A j \in DOMAIN iterators' : YetToVisit(iterators'[j].prefix, iterators'[j].queue)
    BY <1>8, <1>9, <2>1, <2>2
  <2> QED
    BY <1>1, <2>3, VisitorsSee
<1> QED
  BY <1>6, <1>7, <1>10, <1>11, <1>12 DEF TrieInv

LEMMA NextKeeps ==
    ASSUME TrieInv, NEW i \in DOMAIN iterators, next(i)
    PROVE  TrieInv'
<1>1. /\ NodesInv /\ NumbersInv /\ QueuesInv /\ LocksInv /\ IteratorsSeeTheTrie
      /\ iterators[i].queue # << >>
      /\ iterators' = [iterators EXCEPT ![i].queue = Tail(@)]
      /\ entries' = With(entries, Head(iterators[i].queue).state_entry_id, Head(iterators[i].queue))
      /\ nodes' = nodes /\ cells' = cells /\ entry_map' = entry_map
      /\ next_entry_id' = next_entry_id /\ iterator_counts' = iterator_counts
  BY DEF TrieInv, next
<1>2. PICK q : q = iterators[i].queue
  OBVIOUS
<1>3. PICK p : p = iterators[i].prefix
  OBVIOUS
<1>4. YetToVisit(p, q)
  BY <1>1, <1>2, <1>3, SeenFacts
<1>5. q \in Seq(HandleRecord) /\ q # << >> /\ p \in Keys /\ Len(q) \in Nat /\ DOMAIN q = 1 .. Len(q)
  BY <1>1, <1>2, <1>4 DEF YetToVisit
<1>6. /\ Tail(q) \in Seq(HandleRecord) /\ Len(Tail(q)) = Len(q) - 1 /\ Len(q) > 0
      /\ \A n \in 1 .. Len(q) - 1 : Tail(q)[n] = q[n + 1]
      /\ Head(q) = q[1]
  <2>1. Len(q) # 0
    BY <1>5, EmptySeq
  <2>2. /\ Tail(q) \in Seq(HandleRecord) /\ Len(Tail(q)) = Len(q) - 1
        /\ \A n \in 1 .. Len(q) - 1 : Tail(q)[n] = q[n + 1]
        /\ Head(q) = q[1]
    BY <1>5, HeadTailProperties
  <2> QED
    BY <1>5, <2>1, <2>2
<1>7. PICK h : h = q[1]
  OBVIOUS
<1>8. /\ 1 \in 1 .. Len(q) /\ Len(q) - 1 \in Nat
      /\ \A n \in 1 .. Len(q) - 1 : n + 1 \in 1 .. Len(q) /\ n + 1 # 1
  BY <1>5, <1>6
<1>9. iterators[i] \in [prefix: Keys, queue: Seq(HandleRecord)]
  BY <1>1 DEF QueuesInv
<1>10. PICK t : t = Tail(q)
  OBVIOUS
<1>11. /\ DOMAIN iterators' = DOMAIN iterators
       /\ iterators'[i] = [prefix |-> p, queue |-> t]
       /\ \A j \in DOMAIN iterators : j # i => iterators'[j] = iterators[j]
  BY <1>1, <1>2, <1>3, <1>9, <1>10
<1>12. iterators'[i].prefix = p /\ iterators'[i].queue = t
       /\ iterators'[i] \in [prefix: Keys, queue: Seq(HandleRecord)]
  BY <1>5, <1>6, <1>10, <1>11
<1>13. /\ Len(t) = Len(q) - 1 /\ t \in Seq(HandleRecord)
       /\ \A n \in 1 .. Len(t) : t[n] = q[n + 1]
  BY <1>6, <1>10
<1>14. /\ DOMAIN entries' = DOMAIN entries \cup {h.state_entry_id}
       /\ entries'[h.state_entry_id] = h
       /\ \A x \in DOMAIN entries : x # h.state_entry_id => entries'[x] = entries[x]
  BY <1>1, <1>2, <1>6, <1>7 DEF With
<1>15. Known(h) /\ h.state_entry_id \notin DOMAIN entries
  BY <1>1, <1>2, <1>7, <1>8 DEF QueuesInv
<1>16. NodesInv'
  BY <1>1 DEF NodesInv, Cell
<1>17. \A x : Known(x) => Known(x)'
  BY <1>1 DEF Known
<1>18. NumbersInv'
  <2>1. ASSUME NEW id \in DOMAIN entries'
        PROVE  Known(entries[id])' /\ entries'[id].state_entry_id = id
    <3>1. PICK x : x = entries'[id]
      OBVIOUS
    <3>2. Known(x) /\ x.state_entry_id = id
      BY <1>1, <1>14, <1>15, <3>1 DEF NumbersInv
    <3>3. Known(x)'
      BY <1>17, <3>2
    <3> QED
      BY <3>1, <3>2, <3>3 DEF Known
  <2> QED
    BY <1>1, <2>1 DEF NumbersInv
<1>19. ASSUME NEW j \in DOMAIN iterators', NEW n \in 1 .. Len(iterators'[j].queue)
       PROVE  \E m \in 1 .. Len(iterators[j].queue) :
                /\ iterators'[j].queue[n] = iterators[j].queue[m]
                /\ j = i => m = n + 1
                /\ j # i => m = n
  <2>1. CASE j = i
    <3>1. iterators'[j].queue = t /\ n \in 1 .. Len(q) - 1 /\ iterators[j].queue = q
      BY <1>2, <1>12, <1>13, <2>1
    <3>2. n + 1 \in 1 .. Len(q) /\ t[n] = q[n + 1]
      BY <1>8, <1>13, <3>1
    <3> QED
      BY <2>1, <3>1, <3>2
  <2>2. CASE j # i
    BY <1>11, <2>2
  <2> QED
    BY <2>1, <2>2
<1>20. QueuesInv'
  <2>1. ASSUME NEW j \in DOMAIN iterators'
        PROVE  iterators'[j] \in [prefix: Keys, queue: Seq(HandleRecord)]
    BY <1>1, <1>11, <1>12 DEF QueuesInv
  <2>2. ASSUME NEW j \in DOMAIN iterators', NEW n \in 1 .. Len(iterators'[j].queue)
        PROVE  /\ Known(iterators[j].queue[n])'
               /\ iterators'[j].queue[n].state_entry_id \notin DOMAIN entries'
    <3>1. PICK x : x = iterators'[j].queue[n]
      OBVIOUS
    <3>2. PICK m \in 1 .. Len(iterators[j].queue) :
            x = iterators[j].queue[m] /\ (j = i => m = n + 1)
      BY <1>19, <3>1
    <3>3. Known(x) /\ x.state_entry_id \notin DOMAIN entries /\ j \in DOMAIN iterators
      BY <1>1, <1>11, <3>2 DEF QueuesInv
    <3>4. x.state_entry_id # h.state_entry_id
      <4>1. j = i => m # 1
        BY <1>8, <1>12, <1>13, <3>2
      <4>2. 1 \in 1 .. Len(iterators[i].queue) /\ h = iterators[i].queue[1]
        BY <1>2, <1>7, <1>8
      <4> QED
        BY <1>1, <3>2, <3>3, <4>1, <4>2 DEF QueuesInv
    <3>5. Known(x)'
      BY <1>17, <3>3
    <3> QED
      BY <1>14, <3>1, <3>3, <3>4, <3>5 DEF Known
  <2>3. ASSUME NEW j \in DOMAIN iterators', NEW l \in DOMAIN iterators',
               NEW m \in 1 .. Len(iterators'[j].queue), NEW n \in 1 .. Len(iterators'[l].queue),
               iterators'[j].queue[m].state_entry_id = iterators'[l].queue[n].state_entry_id
        PROVE  j = l /\ m = n
    <3>1. PICK a \in 1 .. Len(iterators[j].queue) :
            /\ iterators'[j].queue[m] = iterators[j].queue[a]
            /\ (j = i => a = m + 1) /\ (j # i => a = m)
      BY <1>19
    <3>2. PICK b \in 1 .. Len(iterators[l].queue) :
            /\ iterators'[l].queue[n] = iterators[l].queue[b]
            /\ (l = i => b = n + 1) /\ (l # i => b = n)
      BY <1>19
    <3>3. j = l /\ a = b
      BY <1>1, <1>11, <2>3, <3>1, <3>2 DEF QueuesInv
    <3>4. m \in Int /\ n \in Int
      OBVIOUS
    <3> QED
      BY <3>1, <3>2, <3>3, <3>4
  <2> QED
    BY <2>1, <2>2, <2>3 DEF QueuesInv
<1>21. \A x : IteratorsOf(x)' = IteratorsOf(x)
  <2>1. \A j \in DOMAIN iterators : iterators'[j].prefix = iterators[j].prefix
    BY <1>3, <1>11, <1>12
  <2> QED
    BY <1>11, <2>1 DEF IteratorsOf
<1>22. LocksInv'
  <2>1. \A j \in DOMAIN iterators : iterators'[j].prefix = iterators[j].prefix
    BY <1>3, <1>11, <1>12
  <2> QED
    BY <1>1, <1>11, <1>21, <2>1 DEF LocksInv
<1>23. IteratorsSeeTheTrie'
  <2>1. YetToVisit(p, t)
    <3> DEFINE ks == BelowPrefix(p)
    <3>1. /\ Len(q) <= Len(ks) /\ Len(ks) \in Nat
          /\ \A n \in 1 .. Len(q) :
               /\ Len(ks) - Len(q) + n \in 1 .. Len(ks)
               /\ q[n].key = ks[Len(ks) - Len(q) + n]
               /\ q[n].key \in KeysBelow(p)
               /\ q[n].cell = nodes[q[n].key]
      BY <1>4 DEF YetToVisit
    <3> HIDE DEF ks
    <3>2. Len(t) \in Nat /\ DOMAIN t = 1 .. Len(t) /\ Len(t) <= Len(ks)
      BY <1>5, <1>8, <1>13, <3>1, LenProperties
    <3>3. ASSUME NEW n \in 1 .. Len(t)
          PROVE  /\ Len(ks) - Len(t) + n \in 1 .. Len(ks)
                 /\ t[n].key = ks[Len(ks) - Len(t) + n]
                 /\ t[n].key \in KeysBelow(p)
                 /\ t[n].cell = nodes[t[n].key]
      <4>1. n + 1 \in 1 .. Len(q) /\ t[n] = q[n + 1]
        BY <1>8, <1>13
      <4>2. Len(ks) - Len(t) + n = Len(ks) - Len(q) + (n + 1)
        BY <1>5, <1>13, <3>1
      <4> QED
        BY <3>1, <4>1, <4>2
    <3> QED
      BY <1>5, <1>13, <3>1, <3>2, <3>3 DEF YetToVisit, ks
  <2>2. ASSUME NEW j \in DOMAIN iterators
        PROVE  YetToVisit(iterators[j].prefix, iterators[j].queue)
    BY <1>1, SeenFacts
  <2>3. \A j \in DOMAIN iterators' : YetToVisit(iterators'[j].prefix, iterators'[j].queue)
    BY <1>11, <1>12, <2>1, <2>2
  <2> QED
    BY <1>1, <2>3, VisitorsSee
<1> QED
  BY <1>16, <1>18, <1>20, <1>22, <1>23 DEF TrieInv

LEMMA DeleteIteratorKeeps ==
    ASSUME TrieInv, NEW i \in DOMAIN iterators, delete_iterator(i)
    PROVE  TrieInv'
<1>1. /\ NodesInv /\ NumbersInv /\ QueuesInv /\ LocksInv /\ IteratorsSeeTheTrie
      /\ iterators' = WithoutKeys(iterators, {i})
      /\ nodes' = nodes /\ cells' = cells /\ entry_map' = entry_map
      /\ next_entry_id' = next_entry_id /\ entries' = entries
  BY DEF TrieInv, delete_iterator
<1>2. PICK p : p = iterators[i].prefix
  OBVIOUS
<1>3. /\ p \in DOMAIN iterator_counts
      /\ iterator_counts' = IF iterator_counts[p] = 1
                              THEN WithoutKeys(iterator_counts, {p})
                              ELSE [iterator_counts EXCEPT ![p] = @ - 1]
  BY <1>2 DEF delete_iterator
<1>4. /\ DOMAIN iterators' = DOMAIN iterators \ {i}
      /\ \A j \in DOMAIN iterators' : iterators'[j] = iterators[j]
  BY <1>1 DEF WithoutKeys
<1>5. NodesInv'
  BY <1>1 DEF NodesInv, Cell
<1>6. \A x : Known(x) => Known(x)'
  BY <1>1 DEF Known
<1>7. NumbersInv'
  BY <1>1, TrieTypes, NumbersKept DEF NumbersInv, Known
<1>8. QueuesInv'
  <2>1. ASSUME NEW j \in DOMAIN iterators', NEW n \in 1 .. Len(iterators'[j].queue)
        PROVE  /\ Known(iterators[j].queue[n])'
               /\ iterators'[j].queue[n].state_entry_id \notin DOMAIN entries'
    <3>1. PICK x : x = iterators'[j].queue[n]
      OBVIOUS
    <3>2. Known(x) /\ x.state_entry_id \notin DOMAIN entries
      BY <1>1, <1>4, <3>1 DEF QueuesInv
    <3>3. Known(x)'
      BY <1>6, <3>2
    <3> QED
      BY <1>1, <3>1, <3>2, <3>3 DEF Known
  <2>2. ASSUME NEW j \in DOMAIN iterators', NEW l \in DOMAIN iterators',
               NEW m \in 1 .. Len(iterators'[j].queue), NEW n \in 1 .. Len(iterators'[l].queue),
               iterators'[j].queue[m].state_entry_id = iterators'[l].queue[n].state_entry_id
        PROVE  j = l /\ m = n
    <3>1. /\ j \in DOMAIN iterators /\ iterators'[j] = iterators[j]
          /\ l \in DOMAIN iterators /\ iterators'[l] = iterators[l]
      BY <1>4
    <3> QED
      BY <1>1, <2>2, <3>1 DEF QueuesInv
  <2>3. \A j \in DOMAIN iterators' : iterators'[j] \in [prefix: Keys, queue: Seq(HandleRecord)]
    BY <1>1, <1>4 DEF QueuesInv
  <2> QED
    BY <2>1, <2>2, <2>3 DEF QueuesInv
<1>9. LocksInv'
  <2> DEFINE c == Cardinality(IteratorsOf(p))
  <2>1. iterator_counts[p] = c /\ c \in Nat /\ c > 0
    BY <1>1, <1>3, FewIterators DEF LocksInv
  <2>2. IteratorsOf(p)' = IteratorsOf(p) \ {i} /\ i \in IteratorsOf(p)
    BY <1>2, <1>4 DEF IteratorsOf
  <2>3. \A x : x # p => IteratorsOf(x)' = IteratorsOf(x)
    BY <1>2, <1>4 DEF IteratorsOf
  <2>4. Cardinality(IteratorsOf(p)') = c - 1
    BY <1>1, <2>2, FewIterators, FS_RemoveElement
  <2> HIDE DEF c
  <2>5. \A x \in DOMAIN iterator_counts : x # p =>
          x \in DOMAIN iterator_counts' /\ iterator_counts'[x] = iterator_counts[x]
    BY <1>3 DEF WithoutKeys
  <2>6. DOMAIN iterator_counts' \subseteq DOMAIN iterator_counts
    BY <1>3 DEF WithoutKeys
  <2>7. CASE c = 1
    <3>1. p \notin DOMAIN iterator_counts'
      BY <1>3, <2>1, <2>7 DEF WithoutKeys
    <3>2. IteratorsOf(p)' = {}
      <4>1. IsFiniteSet(IteratorsOf(p)')
        BY <1>1, <2>2, FewIterators, FS_RemoveElement
      <4>2. Cardinality(IteratorsOf(p)') = 0
        BY <2>4, <2>7
      <4> QED
        BY <4>1, <4>2, FS_EmptySet
    <3>3. \A j \in DOMAIN iterators' : iterators'[j].prefix # p
      BY <3>2 DEF IteratorsOf
    <3>4. \A j \in DOMAIN iterators' : iterators'[j].prefix \in DOMAIN iterator_counts'
      BY <1>1, <1>4, <2>5, <3>3 DEF LocksInv
    <3>5. \A x \in DOMAIN iterator_counts' :
            iterator_counts'[x] = Cardinality(IteratorsOf(x)') /\ iterator_counts'[x] > 0
      BY <1>1, <2>3, <2>5, <2>6, <3>1 DEF LocksInv
    <3> QED
      BY <1>1, <1>4, <2>6, <3>4, <3>5 DEF LocksInv
  <2>8. CASE c # 1
    <3>1. p \in DOMAIN iterator_counts' /\ iterator_counts'[p] = c - 1
      BY <1>3, <2>1, <2>8
    <3>2. c - 1 > 0
      BY <2>1, <2>8
    <3>3. \A j \in DOMAIN iterators' : iterators'[j].prefix \in DOMAIN iterator_counts'
      BY <1>1, <1>4, <2>5, <3>1 DEF LocksInv
    <3>4. \A x \in DOMAIN iterator_counts' :
            iterator_counts'[x] = Cardinality(IteratorsOf(x)') /\ iterator_counts'[x] > 0
      BY <1>1, <2>3, <2>4, <2>5, <2>6, <3>1, <3>2 DEF LocksInv
    <3> QED
      BY <1>1, <1>4, <2>6, <3>3, <3>4 DEF LocksInv
  <2> QED
    BY <2>7, <2>8
<1>10. IteratorsSeeTheTrie'
  <2>1. ASSUME NEW j \in DOMAIN iterators
        PROVE  YetToVisit(iterators[j].prefix, iterators[j].queue)
    BY <1>1, SeenFacts
  <2>2. \A j \in DOMAIN iterators' : YetToVisit(iterators'[j].prefix, iterators'[j].queue)
    BY <1>4, <2>1
  <2> QED
    BY <1>1, <2>2, VisitorsSee
<1> QED
  BY <1>5, <1>7, <1>8, <1>9, <1>10 DEF TrieInv

(* An operation on a handle changes data, never whether they are deleted. *)
LEMMA UpdateKeeps ==
    ASSUME TrieInv, NEW id \in DOMAIN entries, NEW offset \in 0 .. MaxLen, NEW data \in Cell,
           cells[entries[id].cell] # Deleted => data # Deleted,
           Updates(id, offset, data)
    PROVE  TrieInv'
<1> DEFINE c == entries[id].cell
<1>1. /\ NodesInv /\ NumbersInv /\ QueuesInv /\ LocksInv /\ IteratorsSeeTheTrie
      /\ cells' = [cells EXCEPT ![c] = data]
      /\ entries' = [entries EXCEPT ![id].offset = offset]
      /\ nodes' = nodes /\ entry_map' = entry_map /\ next_entry_id' = next_entry_id
      /\ iterator_counts' = iterator_counts /\ iterators' = iterators
  BY DEF TrieInv, Updates
<1>2. /\ Len(cells) \in Nat /\ DOMAIN cells = 1 .. Len(cells) /\ Len(cells) <= Len(cells)
      /\ \A x \in 1 .. Len(cells) : cells[x] \in Cell
      /\ cells \in Seq(Cell)
  BY <1>1, TrieTypes DEF NodesInv
<1>3. PICK e : e = entries[id]
  OBVIOUS
<1>4. Known(e) /\ e.state_entry_id = id
  BY <1>1, <1>3 DEF NumbersInv
<1>5. c \in 1 .. Len(cells)
  BY <1>3, <1>4 DEF Known
<1>6. PICK f : f = [e EXCEPT !.offset = offset]
  OBVIOUS
<1>7. /\ DOMAIN entries' = DOMAIN entries /\ entries'[id] = f
      /\ \A x \in DOMAIN entries : x # id => entries'[x] = entries[x]
  BY <1>1, <1>3, <1>6
<1>8. Known(f) /\ f.state_entry_id = id
  BY <1>4, <1>6 DEF Known
<1> HIDE DEF c
<1>9. /\ cells' \in Seq(Cell) /\ Len(cells') = Len(cells)
      /\ cells'[c] = data
      /\ \A x \in 1 .. Len(cells) : x # c => cells'[x] = cells[x]
  <2>1. cells' \in [1 .. Len(cells) -> Cell]
    BY <1>1, <1>2, <1>5
  <2> QED
    BY <1>1, <1>2, <1>5, <2>1
<1>10. NodesInv'
  <2>1. \A k \in DOMAIN nodes : nodes[k] \in 1 .. Len(cells') /\ cells'[nodes[k]] # Deleted
    BY <1>1, <1>9 DEF NodesInv, c
  <2> QED
    BY <1>1, <1>9, <2>1 DEF NodesInv
<1>11. \A x : Known(x) => Known(x)'
  BY <1>1, <1>9 DEF Known
<1>12. NumbersInv'
  <2>1. ASSUME NEW j \in DOMAIN entries'
        PROVE  Known(entries[j])' /\ entries'[j].state_entry_id = j
    <3>1. PICK x : x = entries'[j]
      OBVIOUS
    <3>2. Known(x) /\ x.state_entry_id = j
      BY <1>1, <1>7, <1>8, <3>1 DEF NumbersInv
    <3>3. Known(x)'
      BY <1>11, <3>2
    <3> QED
      BY <3>1, <3>2, <3>3 DEF Known
  <2> QED
    BY <1>1, <2>1 DEF NumbersInv
<1>13. QueuesInv'
  BY <1>1, <1>2, <1>7, <1>9, QueuesKept
<1>14. LocksInv'
  BY <1>1 DEF LocksInv, IteratorsOf
<1>15. IteratorsSeeTheTrie'
  BY <1>1, SeeKept DEF KeysBelow
<1> QED
  BY <1>10, <1>12, <1>13, <1>14, <1>15 DEF TrieInv

(* The step changes the data and the offset of a handle. *)
Changes(id) ==
    \E offset \in 0 .. MaxLen, data \in Cell :
      /\ cells[entries[id].cell] # Deleted => data # Deleted
      /\ Updates(id, offset, data)

(* The data of a handle and its size *)
LEMMA HandleData ==
    ASSUME TrieInv, NEW id \in DOMAIN entries
    PROVE  /\ MaxLen \in Nat /\ entries[id].offset \in 0 .. MaxLen
           /\ cells[entries[id].cell] \in Cell
           /\ Exists(id) => /\ Size(id) \in 0 .. MaxLen
                            /\ cells[entries[id].cell] \in [1 .. Size(id) -> Bytes]
<1> DEFINE d == cells[entries[id].cell]
<1>1. MaxLen \in Nat /\ \A c \in 1 .. Len(cells) : cells[c] \in Cell
  BY TrieTypes DEF TrieInv
<1>2. entries[id].offset \in 0 .. MaxLen /\ entries[id].cell \in 1 .. Len(cells)
  BY DEF TrieInv, NumbersInv, Known
<1>3. d \in Cell
  BY <1>1, <1>2
<1> HIDE DEF d
<1>4. ASSUME d # Deleted
      PROVE  Len(d) \in 0 .. MaxLen /\ d \in [1 .. Len(d) -> Bytes]
  <2>1. PICK n \in 0 .. MaxLen : d \in [1 .. n -> Bytes]
    BY <1>3, <1>4 DEF Cell
  <2>2. n \in Nat
    BY <1>1
  <2>3. Len(d) = n
    BY <2>1, <2>2
  <2> QED
    BY <2>1, <2>3
<1> QED
  BY <1>1, <1>2, <1>3, <1>4 DEF d, Exists, Size

(* Data that are cut off or filled *)
LEMMA ResizedData ==
    ASSUME TrieInv, NEW id \in DOMAIN entries, Exists(id), NEW size \in 0 .. MaxLen
    PROVE  Resized(id, size) \in [1 .. size -> Bytes]
<1>1. Size(id) \in 0 .. MaxLen /\ cells[entries[id].cell] \in [1 .. Size(id) -> Bytes]
  BY HandleData
<1>2. 0 \in Bytes /\ MaxLen \in Nat
  BY TrieAssumption
<1>3. \A n \in 1 .. size : n <= Size(id) => n \in 1 .. Size(id)
  BY <1>1, <1>2
<1>4. \A n \in 1 .. size : n <= Size(id) => cells[entries[id].cell][n] \in Bytes
  BY <1>1, <1>3
<1> QED
  BY <1>2, <1>4 DEF Resized

LEMMA DataCell ==
    ASSUME NEW n \in 0 .. MaxLen, NEW d \in [1 .. n -> Bytes]
    PROVE  d \in Cell /\ d # Deleted
  BY TrieAssumption DEF Cell

LEMMA TwoNumbers ==
    ASSUME NEW m \in Nat, NEW n \in Nat
    PROVE  /\ Min({m, n}) \in {m, n} /\ Min({m, n}) <= m /\ Min({m, n}) <= n
           /\ Max({m, n}) \in {m, n} /\ Max({m, n}) >= m /\ Max({m, n}) >= n
<1>1. \E x \in {m, n} : \A y \in {m, n} : x <= y
  OBVIOUS
<1>2. \E x \in {m, n} : \A y \in {m, n} : x >= y
  OBVIOUS
<1>3. Min({m, n}) \in {m, n} /\ \A y \in {m, n} : Min({m, n}) <= y
  BY <1>1 DEF Min
<1>4. Max({m, n}) \in {m, n} /\ \A y \in {m, n} : Max({m, n}) >= y
  BY <1>2 DEF Max
<1> QED
  BY <1>3, <1>4

LEMMA ResizeChanges ==
    ASSUME TrieInv, NEW id \in DOMAIN entries, NEW size \in 0 .. MaxLen, resize(id, size)
    PROVE  Changes(id)
<1>1. Exists(id) /\ Updates(id, Min({entries[id].offset, size}), Resized(id, size))
  BY DEF resize
<1>2. MaxLen \in Nat /\ entries[id].offset \in 0 .. MaxLen
  BY HandleData
<1>3. Min({entries[id].offset, size}) \in 0 .. MaxLen
  BY <1>2, TwoNumbers
<1>4. Resized(id, size) \in Cell /\ Resized(id, size) # Deleted
  BY <1>1, ResizedData, DataCell
<1> QED
  BY <1>1, <1>3, <1>4 DEF Changes

LEMMA ReadChanges ==
    ASSUME TrieInv, NEW id \in DOMAIN entries, read(id)
    PROVE  Changes(id) \/ UNCHANGED <<nodes, cells, entry_map, next_entry_id, iterator_counts,
                                      entries, iterators>>
<1>1. CASE entries[id].offset <= Size(id)
           /\ Updates(id, Min({entries[id].offset + 1, Size(id)}), cells[entries[id].cell])
  <2>1. /\ MaxLen \in Nat /\ entries[id].offset \in 0 .. MaxLen
        /\ cells[entries[id].cell] \in Cell /\ Size(id) \in 0 .. MaxLen
    BY HandleData DEF read
  <2>2. entries[id].offset + 1 \in Nat /\ Size(id) \in Nat
    BY <2>1
  <2>3. Min({entries[id].offset + 1, Size(id)}) \in 0 .. MaxLen
    BY <2>1, <2>2, TwoNumbers
  <2> QED
    BY <1>1, <2>1, <2>3 DEF Changes
<1> QED
  BY <1>1 DEF read

LEMMA WriteChanges ==
    ASSUME TrieInv, NEW id \in DOMAIN entries, NEW byte \in Bytes, write(id, byte)
    PROVE  Changes(id)
<1> DEFINE end == entries[id].offset + 1
           size == Max({Size(id), end})
           data == [Resized(id, size) EXCEPT ![end] = byte]
<1>1. Exists(id) /\ end <= MaxLen /\ Updates(id, end, data)
  BY DEF write
<1>2. MaxLen \in Nat /\ entries[id].offset \in 0 .. MaxLen /\ Size(id) \in 0 .. MaxLen
  BY <1>1, HandleData
<1>3. end \in Nat /\ end > 0 /\ Size(id) \in Nat /\ end \in 0 .. MaxLen
  BY <1>1, <1>2
<1> HIDE DEF end
<1>4. size \in {Size(id), end} /\ size >= end
  BY <1>3, TwoNumbers
<1>5. size \in 0 .. MaxLen /\ end \in 1 .. size
  BY <1>2, <1>3, <1>4
<1> HIDE DEF size
<1>6. Resized(id, size) \in [1 .. size -> Bytes]
  BY <1>1, <1>5, ResizedData
<1>7. data \in [1 .. size -> Bytes]
  BY <1>5, <1>6
<1> HIDE DEF data
<1>8. data \in Cell /\ data # Deleted
  BY <1>5, <1>7, DataCell
<1> QED
  BY <1>1, <1>3, <1>8 DEF Changes

LEMMA MoveChanges ==
    ASSUME TrieInv, NEW id \in DOMAIN entries, NEW offset \in 0 .. MaxLen,
           Updates(id, offset, cells[entries[id].cell])
    PROVE  Changes(id)
  BY HandleData DEF Changes

(* A step on the trie, on an iterator, or on a handle; only a read that    *)
(* underflows changes nothing else than that it panics.                    *)
LEMMA StepKinds ==
    ASSUME TrieInv, [Next]_trieVars
    PROVE  \/ \E k \in Keys : \/ create_entry(k) \/ lookup(k) \/ delete_prefix(k)
                              \/ \E i \in 1 .. MaxIterators : iterator(i, k)
           \/ \E i \in DOMAIN iterators : next(i) \/ delete_iterator(i)
           \/ \E id \in DOMAIN entries : delete_entry(id) \/ Changes(id)
           \/ UNCHANGED <<nodes, cells, entry_map, next_entry_id, iterator_counts,
                          entries, iterators>>
<1>1. CASE \E k \in Keys : \/ create_entry(k) \/ lookup(k) \/ delete_prefix(k)
                           \/ \E i \in 1 .. MaxIterators : iterator(i, k)
  BY <1>1
<1>2. CASE \E i \in DOMAIN iterators : next(i) \/ delete_iterator(i)
  BY <1>2
<1>3. ASSUME NEW id \in DOMAIN entries,
             \/ delete_entry(id)
             \/ read(id) \/ move_to_start(id)
             \/ \E b \in Bytes : write(id, b)
             \/ \E n \in 0 .. MaxLen : resize(id, n) \/ truncate(id, n) \/ seek(id, n)
      PROVE  \/ delete_entry(id) \/ Changes(id)
             \/ UNCHANGED <<nodes, cells, entry_map, next_entry_id, iterator_counts,
                            entries, iterators>>
  <2>1. CASE read(id)
    BY <2>1, ReadChanges
  <2>2. CASE move_to_start(id)
    <3>1. 0 \in 0 .. MaxLen
      BY TrieAssumption
    <3> QED
      BY <2>2, <3>1, MoveChanges DEF move_to_start
  <2>3. ASSUME NEW b \in Bytes, write(id, b) PROVE Changes(id)
    BY <2>3, WriteChanges
  <2>4. ASSUME NEW n \in 0 .. MaxLen, resize(id, n) PROVE Changes(id)
    BY <2>4, ResizeChanges
  <2>5. ASSUME NEW n \in 0 .. MaxLen, truncate(id, n) PROVE Changes(id)
    BY <2>5, ResizeChanges DEF truncate
  <2>6. ASSUME NEW n \in 0 .. MaxLen, seek(id, n) PROVE Changes(id)
    BY <2>6, MoveChanges DEF seek
  <2> QED
    BY <1>3, <2>1, <2>2, <2>3, <2>4, <2>5, <2>6
<1>4. CASE UNCHANGED trieVars
  BY <1>4 DEF trieVars
<1> QED
  BY <1>1, <1>2, <1>3, <1>4 DEF Next

LEMMA StepKeeps ==
    ASSUME TrieInv, [Next]_trieVars
    PROVE  TrieInv'
<1>1. ASSUME NEW k \in Keys, create_entry(k) PROVE TrieInv'
  BY <1>1, CreateKeeps
<1>2. ASSUME NEW k \in Keys, lookup(k) PROVE TrieInv'
  BY <1>2, LookupKeeps
<1>3. ASSUME NEW k \in Keys, delete_prefix(k) PROVE TrieInv'
  BY <1>3, DeletePrefixKeeps
<1>4. ASSUME NEW k \in Keys, NEW i \in 1 .. MaxIterators, iterator(i, k) PROVE TrieInv'
  BY <1>4, IteratorKeeps
<1>5. ASSUME NEW i \in DOMAIN iterators, next(i) PROVE TrieInv'
  BY <1>5, NextKeeps
<1>6. ASSUME NEW i \in DOMAIN iterators, delete_iterator(i) PROVE TrieInv'
  BY <1>6, DeleteIteratorKeeps
<1>7. ASSUME NEW id \in DOMAIN entries, delete_entry(id) PROVE TrieInv'
  BY <1>7, DeleteEntryKeeps
<1>8. ASSUME NEW id \in DOMAIN entries, Changes(id) PROVE TrieInv'
  BY <1>8, UpdateKeeps DEF Changes
<1>9. CASE UNCHANGED <<nodes, cells, entry_map, next_entry_id, iterator_counts,
                       entries, iterators>>
  <2>1. NodesInv /\ NumbersInv /\ QueuesInv /\ LocksInv /\ IteratorsSeeTheTrie
    BY DEF TrieInv
  <2>2. NodesInv'
    BY <1>9, <2>1 DEF NodesInv, Cell
  <2>3. Len(cells) \in Nat /\ Len(cells) <= Len(cells)
    BY <2>1, TrieTypes
  <2>4. NumbersInv'
    BY <1>9, <2>1, <2>3, NumbersKept DEF NumbersInv, Known
  <2>5. QueuesInv'
    BY <1>9, <2>1, <2>3, QueuesKept
  <2>6. LocksInv'
    BY <1>9, <2>1 DEF LocksInv, IteratorsOf
  <2>7. IteratorsSeeTheTrie'
    BY <1>9, <2>1, SeeKept DEF KeysBelow
  <2> QED
    BY <2>2, <2>4, <2>5, <2>6, <2>7 DEF TrieInv
<1> QED
  BY <1>1, <1>2, <1>3, <1>4, <1>5, <1>6, <1>7, <1>8, <1>9, StepKinds

LEMMA InitHolds ==
    ASSUME Init
    PROVE  TrieInv
<1>1. DOMAIN nodes = {} /\ DOMAIN entry_map = {} /\ DOMAIN entries = {}
      /\ DOMAIN iterators = {} /\ DOMAIN iterator_counts = {}
      /\ cells = << >> /\ next_entry_id = 0
  BY DEF Init
<1>2. NodesInv
  BY <1>1, FS_EmptySet DEF NodesInv
<1>3. NumbersInv
  BY <1>1, TrieAssumption DEF NumbersInv
<1>4. QueuesInv /\ LocksInv /\ IteratorsSeeTheTrie
  BY <1>1 DEF QueuesInv, LocksInv, IteratorsSeeTheTrie
<1> QED
  BY <1>2, <1>3, <1>4 DEF TrieInv

LEMMA InvConsistent ==
    ASSUME TrieInv
    PROVE  Consistent
<1>1. NodesInv /\ NumbersInv /\ QueuesInv /\ IteratorsSeeTheTrie
  BY DEF TrieInv
<1>2. /\ Len(cells) \in Nat /\ DOMAIN cells = 1 .. Len(cells) /\ MaxIds \in Nat
      /\ \A c \in 1 .. Len(cells) : cells[c] \in Cell
  BY <1>1, TrieTypes
<1>3. \A h : Known(h) => /\ h \in HandleType
                         /\ h.state_entry_id \in DOMAIN entry_map
                         /\ entry_map[h.state_entry_id] = h.key
  BY <1>2 DEF Known, HandleType
<1>4. LookupsExist
  BY <1>1 DEF NodesInv, LookupsExist
<1>5. /\ DOMAIN nodes \subseteq Keys
      /\ \A k \in DOMAIN nodes : nodes[k] \in DOMAIN cells
  BY <1>1, <1>2 DEF NodesInv
<1>6. \A id \in DOMAIN entries : /\ entries[id] \in HandleType
                                 /\ entries[id].state_entry_id = id
                                 /\ id \in DOMAIN entry_map
                                 /\ entry_map[id] = entries[id].key
  BY <1>1, <1>3 DEF NumbersInv
<1>7. ASSUME NEW i \in DOMAIN iterators, NEW n \in DOMAIN iterators[i].queue
      PROVE  LET h == iterators[i].queue[n]
             IN  /\ h \in HandleType
                 /\ h.state_entry_id \in DOMAIN entry_map
                 /\ entry_map[h.state_entry_id] = h.key
  <2>1. iterators[i] \in [prefix: Keys, queue: Seq(HandleRecord)]
    BY <1>1 DEF QueuesInv
  <2>2. n \in 1 .. Len(iterators[i].queue)
    BY <2>1, LenProperties
  <2> QED
    BY <1>1, <1>3, <2>2 DEF QueuesInv
<1>8. (\A x \in DOMAIN entry_map : x < next_entry_id) /\ next_entry_id <= MaxIds
  BY <1>1, <1>2 DEF NumbersInv
<1>9. TypeOK
  BY <1>2, <1>5, <1>6, <1>7, <1>8 DEF TypeOK
<1> QED
  BY <1>1, <1>4, <1>9 DEF Consistent

(* Handles, queues and nodes refer to each other consistently in every     *)
(* state: handles find their keys, iterators the nodes they have yet to    *)
(* visit, and lookups data that exist.                                     *)
THEOREM TrieConsistent == Spec => []Consistent
<1>1. Init => TrieInv
  BY InitHolds
<1>2. TrieInv /\ [Next]_trieVars => TrieInv'
  BY StepKeeps
<1>3. TrieInv => Consistent
  BY InvConsistent
<1> QED
  BY <1>1, <1>2, <1>3, PTL DEF Spec

-----------------------------------------------------------------------------
(* The trie implements HasStateApi *)

Contents == [k \in DOMAIN nodes |-> cells[nodes[k]]]

Locks == [p \in Keys |-> Cardinality({i \in DOMAIN iterators : iterators[i].prefix = p})]

LEMMA LocksType ==
    ASSUME TrieInv
    PROVE  /\ \A p \in Keys : Locks[p] = Cardinality(IteratorsOf(p)) /\ Locks[p] \in Nat
           /\ \A p \in Keys : Locks[p] > 0 => p \in DOMAIN iterator_counts
<1>1. LocksInv
  BY DEF TrieInv
<1>2. \A p \in Keys : Locks[p] = Cardinality(IteratorsOf(p)) /\ Locks[p] \in Nat
  BY <1>1, FewIterators DEF Locks, IteratorsOf
<1>3. ASSUME NEW p \in Keys, Locks[p] > 0
      PROVE  p \in DOMAIN iterator_counts
  <2>1. IteratorsOf(p) # {}
    BY <1>2, <1>3, FS_EmptySet
  <2> QED
    BY <1>1, <2>1 DEF LocksInv, IteratorsOf
<1> QED
  BY <1>2, <1>3

LEMMA ApiPrefix == \A s, t : Api!IsPrefix(s, t) <=> IsPrefix(s, t)
  BY DEF Api!IsPrefix, IsPrefix

(* A key that is not locked in the trie is not for users of the API. *)
LEMMA UnlockedForUsers ==
    ASSUME TrieInv, NEW key \in Keys, ~is_locked(key)
    PROVE  /\ ~Api!Locked(key)
           /\ \A p \in Keys : IsPrefix(key, p) => Locks[p] = 0
<1>1. \A p \in Keys : Locks[p] > 0 => ~IsPrefix(p, key) /\ ~IsPrefix(key, p)
  BY LocksType DEF is_locked
<1>2. \A p \in Keys : IsPrefix(key, p) => Locks[p] = 0
  BY <1>1, LocksType
<1>3. ~Api!Locked(key)
  BY <1>1, ApiPrefix DEF Api!Locked, Locks
<1> QED
  BY <1>2, <1>3

LEMMA CreateImplements ==
    ASSUME TrieInv, NEW key \in Keys, create_entry(key)
    PROVE  Api!CreateEntry(key)
<1> DEFINE c == Len(cells) + 1
<1>1. /\ ~is_locked(key) /\ cells' = Append(cells, << >>) /\ nodes' = With(nodes, key, c)
      /\ iterators' = iterators /\ cells \in Seq(Cell) /\ NodesInv
  BY DEF create_entry, TrieInv, NodesInv
<1>2. /\ \A n \in 1 .. Len(cells) : cells'[n] = cells[n]
      /\ cells'[c] = << >>
  BY <1>1, EmptyCell, AppendProperties
<1> HIDE DEF c
<1>3. /\ DOMAIN nodes' = DOMAIN nodes \cup {key} /\ nodes'[key] = c
      /\ \A k \in DOMAIN nodes : k # key => nodes'[k] = nodes[k]
  BY <1>1 DEF With
<1>4. \A k \in DOMAIN nodes : k # key => cells'[nodes'[k]] = cells[nodes[k]]
  BY <1>1, <1>2, <1>3 DEF NodesInv
<1>5. Contents' = [k \in DOMAIN Contents \cup {key} |-> IF k = key THEN << >> ELSE Contents[k]]
  BY <1>2, <1>3, <1>4 DEF Contents
<1>6. Locks' = Locks
  BY <1>1 DEF Locks
<1>7. ~Api!Locked(key)
  BY <1>1, UnlockedForUsers
<1> QED
  BY <1>5, <1>6, <1>7 DEF Api!CreateEntry, Contents, Locks

LEMMA DeleteEntryImplements ==
    ASSUME TrieInv, NEW id \in DOMAIN entries, delete_entry(id)
    PROVE  \/ \E key \in Keys : Api!DeleteEntry(key)
           \/ Contents' = Contents /\ Locks' = Locks
<1>1. cells' = cells /\ iterators' = iterators
  BY DEF delete_entry
<1>2. Locks' = Locks
  BY <1>1 DEF Locks
<1>3. CASE nodes' = nodes
  BY <1>1, <1>2, <1>3 DEF Contents
<1>4. CASE nodes' # nodes
  <2>1. PICK key \in Keys : ~is_locked(key) /\ nodes' = WithoutKeys(nodes, {key})
    <3>1. entries[id].key \in Keys /\ entry_map[id] = entries[id].key
      BY DEF TrieInv, NumbersInv, Known
    <3> QED
      BY <1>4, <3>1 DEF delete_entry
  <2>2. /\ DOMAIN nodes' = DOMAIN nodes \ {key}
        /\ \A k \in DOMAIN nodes' : nodes'[k] = nodes[k]
    BY <2>1 DEF WithoutKeys
  <2>3. Contents' = [k \in DOMAIN Contents \ {key} |-> Contents[k]]
    BY <1>1, <2>2 DEF Contents
  <2>4. CASE key \in DOMAIN nodes
    <3>1. ~Api!Locked(key)
      BY <2>1, UnlockedForUsers
    <3>2. Api!DeleteEntry(key)
      BY <1>2, <2>3, <2>4, <3>1 DEF Api!DeleteEntry, Api!Without, Contents, Locks
    <3> QED
      BY <3>2
  <2>5. CASE key \notin DOMAIN nodes
    <3>1. Contents' = Contents
      BY <2>3, <2>5 DEF Contents
    <3> QED
      BY <1>2, <3>1
  <2> QED
    BY <2>4, <2>5
<1> QED
  BY <1>3, <1>4

LEMMA DeletePrefixImplements ==
    ASSUME TrieInv, NEW prefix \in Keys, delete_prefix(prefix)
    PROVE  Api!DeletePrefix(prefix)
<1> DEFINE below == {k \in Keys : IsPrefix(prefix, k)}
<1>1. ~is_locked(prefix) /\ iterators' = iterators /\ DOMAIN nodes \subseteq Keys
  BY DEF delete_prefix, TrieInv, NodesInv
<1>2. /\ DOMAIN nodes' = {k \in DOMAIN nodes : ~IsPrefix(prefix, k)}
      /\ \A k \in DOMAIN nodes' : nodes'[k] = nodes[k] /\ cells'[nodes[k]] = cells[nodes[k]]
  BY CutOff
<1>3. DOMAIN nodes' = DOMAIN nodes \ below
  BY <1>1, <1>2
<1>4. Contents' = [k \in DOMAIN Contents \ below |-> Contents[k]]
  BY <1>2, <1>3 DEF Contents
<1>5. Locks' = Locks
  BY <1>1 DEF Locks
<1>6. ~Api!Locked(prefix) /\ \A p \in below : Locks[p] = 0
  BY <1>1, UnlockedForUsers
<1>7. below = {k \in Keys : Api!IsPrefix(prefix, k)}
  BY ApiPrefix
<1> HIDE DEF below
<1> QED
  BY <1>4, <1>5, <1>6, <1>7 DEF Api!DeletePrefix, Api!Without, Contents, Locks

(* A write reaches the contents through the one key that has the data, if  *)
(* any still has.                                                          *)
LEMMA ChangeImplements ==
    ASSUME TrieInv, NEW id \in DOMAIN entries, Changes(id)
    PROVE  \/ \E k \in Keys, d \in Cell \ {Deleted} : Api!WriteEntry(k, d)
           \/ Contents' = Contents /\ Locks' = Locks
<1>1. PICK c : c = entries[id].cell
  OBVIOUS
<1>2. PICK offset \in 0 .. MaxLen, data \in Cell :
        (cells[c] # Deleted => data # Deleted) /\ Updates(id, offset, data)
  BY <1>1 DEF Changes
<1>3. /\ cells' = [cells EXCEPT ![c] = data] /\ nodes' = nodes /\ iterators' = iterators
  BY <1>1, <1>2 DEF Updates
<1>4. /\ NodesInv /\ DOMAIN cells = 1 .. Len(cells) /\ c \in 1 .. Len(cells)
  BY <1>1, TrieTypes DEF TrieInv, NumbersInv, Known
<1>5. \A x \in 1 .. Len(cells) : cells'[x] = IF x = c THEN data ELSE cells[x]
  BY <1>3, <1>4
<1>6. Locks' = Locks
  BY <1>3 DEF Locks
<1>7. \A k \in DOMAIN nodes : nodes[k] \in 1 .. Len(cells)
  BY <1>4 DEF NodesInv
<1>8. CASE \E k \in DOMAIN nodes : nodes[k] = c
  <2>1. PICK k \in DOMAIN nodes : nodes[k] = c
    BY <1>8
  <2>2. k \in Keys /\ cells[c] # Deleted /\ \A l \in DOMAIN nodes : nodes[l] = c => l = k
    BY <1>4, <2>1 DEF NodesInv
  <2>3. data \in Cell \ {Deleted}
    BY <1>2, <2>2
  <2>4. Contents' = [Contents EXCEPT ![k] = data]
    BY <1>3, <1>5, <1>7, <2>1, <2>2 DEF Contents
  <2>5. Api!WriteEntry(k, data)
    BY <1>6, <2>1, <2>4 DEF Api!WriteEntry, Contents, Locks
  <2> QED
    BY <2>2, <2>3, <2>5
<1>9. CASE ~ \E k \in DOMAIN nodes : nodes[k] = c
  <2>1. Contents' = Contents
    BY <1>3, <1>5, <1>7, <1>9 DEF Contents
  <2> QED
    BY <1>6, <2>1
<1> QED
  BY <1>8, <1>9

LEMMA IteratorImplements ==
    ASSUME TrieInv, NEW i \in 1 .. MaxIterators, NEW prefix \in Keys, iterator(i, prefix)
    PROVE  Api!GetIterator(prefix)
<1> DEFINE new == [prefix |-> prefix, queue |-> QueueHandles(prefix)]
<1>1. /\ i \notin DOMAIN iterators /\ iterators' = With(iterators, i, new)
      /\ nodes' = nodes /\ cells' = cells
  BY DEF iterator
<1>2. new.prefix = prefix
  OBVIOUS
<1> HIDE DEF new
<1>3. /\ DOMAIN iterators' = DOMAIN iterators \cup {i} /\ iterators'[i] = new
      /\ \A j \in DOMAIN iterators : iterators'[j] = iterators[j]
  BY <1>1 DEF With
<1>4. IteratorsOf(prefix)' = IteratorsOf(prefix) \cup {i} /\ i \notin IteratorsOf(prefix)
  BY <1>1, <1>2, <1>3 DEF IteratorsOf
<1>5. \A p : p # prefix => IteratorsOf(p)' = IteratorsOf(p)
  BY <1>2, <1>3 DEF IteratorsOf
<1>6. Cardinality(IteratorsOf(prefix)') = Cardinality(IteratorsOf(prefix)) + 1
  BY <1>4, FewIterators, FS_AddElement DEF TrieInv
<1>7. \A p \in Keys : Locks'[p] = Cardinality(IteratorsOf(p)')
  BY DEF Locks, IteratorsOf
<1>8. \A p \in Keys : Locks[p] = Cardinality(IteratorsOf(p))
  BY DEF Locks, IteratorsOf
<1>9. \A p \in Keys : Locks'[p] = IF p = prefix THEN Locks[p] + 1 ELSE Locks[p]
  BY <1>5, <1>6, <1>7, <1>8
<1>10. Locks' = [Locks EXCEPT ![prefix] = Locks[prefix] + 1]
  BY <1>9 DEF Locks
<1>11. Contents' = Contents
  BY <1>1 DEF Contents
<1> QED
  BY <1>10, <1>11 DEF Api!GetIterator, Contents, Locks

LEMMA DeleteIteratorImplements ==
    ASSUME TrieInv, NEW i \in DOMAIN iterators, delete_iterator(i)
    PROVE  \E prefix \in Keys : Api!DeleteIterator(prefix)
<1>1. PICK prefix : prefix = iterators[i].prefix
  OBVIOUS
<1>2. /\ iterators' = WithoutKeys(iterators, {i}) /\ nodes' = nodes /\ cells' = cells
  BY DEF delete_iterator
<1>3. prefix \in Keys
  BY <1>1 DEF TrieInv, LocksInv
<1>4. /\ DOMAIN iterators' = DOMAIN iterators \ {i}
      /\ \A j \in DOMAIN iterators' : iterators'[j] = iterators[j]
  BY <1>2 DEF WithoutKeys
<1>5. IteratorsOf(prefix)' = IteratorsOf(prefix) \ {i} /\ i \in IteratorsOf(prefix)
  BY <1>1, <1>4 DEF IteratorsOf
<1>6. \A p : p # prefix => IteratorsOf(p)' = IteratorsOf(p)
  BY <1>1, <1>4 DEF IteratorsOf
<1>7. /\ Cardinality(IteratorsOf(prefix)') = Cardinality(IteratorsOf(prefix)) - 1
      /\ Cardinality(IteratorsOf(prefix)) > 0
  <2>1. /\ IsFiniteSet(IteratorsOf(prefix)) /\ Cardinality(IteratorsOf(prefix)) \in Nat
    BY FewIterators DEF TrieInv
  <2>2. Cardinality(IteratorsOf(prefix)) # 0
    BY <1>5, <2>1, FS_EmptySet
  <2> QED
    BY <1>5, <2>1, <2>2, FS_RemoveElement
<1>8. \A p \in Keys : Locks'[p] = Cardinality(IteratorsOf(p)')
  BY DEF Locks, IteratorsOf
<1>9. \A p \in Keys : Locks[p] = Cardinality(IteratorsOf(p))
  BY DEF Locks, IteratorsOf
<1>10. \A p \in Keys : Locks'[p] = IF p = prefix THEN Locks[p] - 1 ELSE Locks[p]
  BY <1>6, <1>7, <1>8, <1>9
<1>11. Locks' = [Locks EXCEPT ![prefix] = Locks[prefix] - 1] /\ Locks[prefix] > 0
  BY <1>3, <1>7, <1>9, <1>10 DEF Locks
<1>12. Contents' = Contents
  BY <1>2 DEF Contents
<1>13. Api!DeleteIterator(prefix)
  BY <1>3, <1>11, <1>12 DEF Api!DeleteIterator, Contents, Locks
<1> QED
  BY <1>3, <1>13

LEMMA NextImplements ==
    ASSUME TrieInv, NEW i \in DOMAIN iterators, next(i)
    PROVE  Contents' = Contents /\ Locks' = Locks
<1>1. /\ iterators' = [iterators EXCEPT ![i].queue = Tail(@)]
      /\ nodes' = nodes /\ cells' = cells
  BY DEF next
<1>2. iterators[i] \in [prefix: Keys, queue: Seq(HandleRecord)]
  BY DEF TrieInv, QueuesInv
<1>3. /\ DOMAIN iterators' = DOMAIN iterators
      /\ \A j \in DOMAIN iterators : iterators'[j].prefix = iterators[j].prefix
  BY <1>1, <1>2
<1> QED
  BY <1>1, <1>3 DEF Contents, Locks

(* The trie does what HasStateApi promises: whatever handles users hold    *)
(* and however they share their data, each step changes the keys, the data *)
(* and the locks as one step of the abstract mapping, or not at all.       *)
THEOREM TrieImplementsApi == Spec => ImplementsApi
<1>1. Init => Api!ApiInit
  <2> SUFFICES ASSUME Init PROVE Api!ApiInit
    OBVIOUS
  <2>1. DOMAIN nodes = {} /\ DOMAIN iterators = {}
    BY DEF Init
  <2>2. [k \in DOMAIN nodes |-> cells[nodes[k]]] = << >>
    BY <2>1
  <2>3. \A p \in Keys : {i \in DOMAIN iterators : iterators[i].prefix = p} = {}
    BY <2>1
  <2>4. \A p \in Keys : Cardinality({i \in DOMAIN iterators : iterators[i].prefix = p}) = 0
    BY <2>3, FS_EmptySet
  <2> QED
    BY <2>2, <2>4 DEF Api!ApiInit
<1>2. TrieInv /\ [Next]_trieVars => [Api!ApiNext]_Api!apiVars
  <2> SUFFICES ASSUME TrieInv, [Next]_trieVars
               PROVE  Api!ApiNext \/ (Contents' = Contents /\ Locks' = Locks)
    BY DEF Api!apiVars, Contents, Locks
  <2>1. ASSUME NEW k \in Keys, create_entry(k) PROVE Api!ApiNext
    BY <2>1, CreateImplements DEF Api!ApiNext
  <2>2. ASSUME NEW k \in Keys, lookup(k) PROVE Contents' = Contents /\ Locks' = Locks
    BY <2>2 DEF lookup, Contents, Locks
  <2>3. ASSUME NEW k \in Keys, delete_prefix(k) PROVE Api!ApiNext
    BY <2>3, DeletePrefixImplements DEF Api!ApiNext
  <2>4. ASSUME NEW k \in Keys, NEW i \in 1 .. MaxIterators, iterator(i, k) PROVE Api!ApiNext
    BY <2>4, IteratorImplements DEF Api!ApiNext
  <2>5. ASSUME NEW i \in DOMAIN iterators, next(i) PROVE Contents' = Contents /\ Locks' = Locks
    BY <2>5, NextImplements
  <2>6. ASSUME NEW i \in DOMAIN iterators, delete_iterator(i) PROVE Api!ApiNext
    BY <2>6, DeleteIteratorImplements DEF Api!ApiNext
  <2>7. ASSUME NEW id \in DOMAIN entries, delete_entry(id)
        PROVE  Api!ApiNext \/ (Contents' = Contents /\ Locks' = Locks)
    BY <2>7, DeleteEntryImplements DEF Api!ApiNext
  <2>8. ASSUME NEW id \in DOMAIN entries, Changes(id)
        PROVE  Api!ApiNext \/ (Contents' = Contents /\ Locks' = Locks)
    BY <2>8, ChangeImplements DEF Api!ApiNext
  <2>9. CASE UNCHANGED <<nodes, cells, entry_map, next_entry_id, iterator_counts,
                         entries, iterators>>
    BY <2>9 DEF Contents, Locks
  <2> QED
    BY <2>1, <2>2, <2>3, <2>4, <2>5, <2>6, <2>7, <2>8, <2>9, StepKinds
<1>3. Init => TrieInv
  BY InitHolds
<1>4. TrieInv /\ [Next]_trieVars => TrieInv'
  BY StepKeeps
<1> QED
  BY <1>1, <1>2, <1>3, <1>4, PTL DEF Spec, ImplementsApi, Api!ApiSpec

=============================================================================
