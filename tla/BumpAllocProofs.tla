-------------------------- MODULE BumpAllocProofs --------------------------
(***************************************************************************)
(* The allocator is safe for every page size, heap base and memory limit,  *)
(* and for every set of layouts.                                           *)
(***************************************************************************)
EXTENDS BumpAlloc, FiniteSetTheorems, TLAPS

(* What the provers need to know about quotient and remainder. *)
LEMMA DivMod ==
    ASSUME NEW x \in Nat, NEW a \in Nat \ {0}
    PROVE  /\ x \div a \in Nat
           /\ x % a \in Nat
           /\ x % a < a
           /\ x = a * (x \div a) + (x % a)
  BY SMT

(* A multiple leaves no remainder. *)
LEMMA MultipleMod ==
    ASSUME NEW q \in Nat, NEW a \in Nat \ {0}
    PROVE  (a * q) % a = 0
  BY SMT

(* Rounding an address up gives a multiple of the alignment, not below it. *)
LEMMA AlignUp ==
    ASSUME NEW addr \in Nat, NEW align \in Nat \ {0}
    PROVE  /\ align_up(addr, align) \in Nat
           /\ align_up(addr, align) >= addr
           /\ align_up(addr, align) % align = 0
<1> DEFINE x == addr + align - 1
<1>1. x \in Nat
  OBVIOUS
<1>2. /\ x \div align \in Nat
      /\ x % align \in Nat
      /\ x % align < align
      /\ x = align * (x \div align) + (x % align)
  BY <1>1, DivMod
<1>3. align_up(addr, align) = x - (x % align)
  BY DEF align_up
<1> HIDE DEF x
<1>4. align_up(addr, align) = align * (x \div align)
  BY <1>1, <1>2, <1>3
<1>5. align_up(addr, align) % align = 0
  BY <1>2, <1>4, MultipleMod
<1>6. x = addr + align - 1
  BY DEF x
<1> QED
  BY <1>1, <1>2, <1>3, <1>5, <1>6

(* The pages requested hold the missing bytes. *)
LEMMA PagesEnough ==
    ASSUME NEW space \in Nat
    PROVE  /\ pages_to_request(space) \in Nat
           /\ space <= pages_to_request(space) * PageSize
<1> DEFINE q == space \div PageSize
           r == space % PageSize
<1>1. PageSize \in Nat \ {0}
  BY BumpAssumption
<1>2. q \in Nat /\ r \in Nat /\ r < PageSize /\ space = PageSize * q + r
  BY <1>1, DivMod
<1>3. pages_to_request(space) = q + (IF r = 0 THEN 0 ELSE 1)
  BY DEF pages_to_request
<1> HIDE DEF q, r
<1>4. CASE r = 0
  <2>1. pages_to_request(space) = q
    BY <1>2, <1>3, <1>4
  <2>2. space = q * PageSize
    BY <1>1, <1>2, <1>4
  <2> QED
    BY <1>2, <2>1, <2>2
<1>5. CASE r # 0
  <2>1. pages_to_request(space) = q + 1
    BY <1>2, <1>3, <1>5
  <2>2. (q + 1) * PageSize = PageSize * q + PageSize
    BY <1>1, <1>2
  <2>3. PageSize * q \in Nat
    BY <1>1, <1>2
  <2> QED
    BY <1>1, <1>2, <2>1, <2>2, <2>3
<1> QED
  BY <1>4, <1>5

-----------------------------------------------------------------------------

(* The inductive invariant: what the runs check, and that the blocks can be *)
(* counted.                                                                 *)
Inv == /\ TypeOK
       /\ IsFiniteSet(live)
       /\ LiveBlocksDisjoint
       /\ LiveBlocksInMemory
       /\ CountsLiveBlocks
       /\ HeapReclaimed
       /\ LastAllocIsTop

(* The cells h after the first allocation has initialised them, for memory  *)
(* of `bytes' bytes.                                                        *)
Ready(h, bytes) ==
    /\ h \in Heap
    /\ h.heap_start = HeapBase
    /\ h.heap_end = bytes
    /\ HeapBase <= h.last_alloc
    /\ h.last_alloc <= h.next
    /\ h.next <= h.heap_end
    /\ \A b \in live : /\ HeapBase <= b.start
                       /\ EndOf(b) <= h.next
                       /\ b.start = h.last_alloc \/ EndOf(b) <= h.last_alloc

(* The memory is never empty. *)
LEMMA MemoryPositive ==
    ASSUME TypeOK, LastAllocIsTop
    PROVE  /\ pages * PageSize \in Nat
           /\ heap.heap_end = 0 => HeapBase <= pages * PageSize
<1>1. pages \in Nat /\ PageSize \in Nat
  BY BumpAssumption DEF TypeOK
<1>2. heap.heap_end = 0 => pages = InitialPages
  BY DEF LastAllocIsTop
<1> QED
  BY <1>1, <1>2, BumpAssumption

(* A heap that is ready is not empty. *)
LEMMA ReadyFacts ==
    ASSUME NEW h, NEW bytes, Ready(h, bytes)
    PROVE  /\ h \in Heap
           /\ h.next \in Nat
           /\ h.heap_end \in Nat
           /\ h.heap_end = bytes
           /\ bytes # 0
  BY BumpAssumption DEF Ready, Heap

(* Whether or not it is the first allocation, alloc starts from sound cells.*)
LEMMA InitialisedReady ==
    ASSUME Inv
    PROVE  /\ Ready(Initialised(heap), pages * PageSize)
           /\ Initialised(heap).allocations = heap.allocations
<1>1. pages * PageSize \in Nat /\ (heap.heap_end = 0 => HeapBase <= pages * PageSize)
  BY MemoryPositive DEF Inv
<1>2. HeapBase \in Nat \ {0} /\ heap \in Heap /\ live \in SUBSET Block
  BY BumpAssumption DEF Inv, TypeOK
<1>3. CASE heap.heap_end = 0
  <2>1. live = {}
    BY <1>3 DEF Inv, LastAllocIsTop
  <2> DEFINE bytes == pages * PageSize
  <2>2. Initialised(heap) = [heap EXCEPT !.next       = HeapBase,
                                         !.heap_start = HeapBase,
                                         !.last_alloc = HeapBase,
                                         !.heap_end   = bytes]
    BY <1>3 DEF Initialised
  <2>3. bytes \in Nat /\ HeapBase <= bytes
    BY <1>1, <1>3
  <2> HIDE DEF bytes
  <2>4. /\ Initialised(heap).next = HeapBase
        /\ Initialised(heap).heap_start = HeapBase
        /\ Initialised(heap).last_alloc = HeapBase
        /\ Initialised(heap).heap_end = bytes
        /\ Initialised(heap).allocations = heap.allocations
        /\ Initialised(heap) \in Heap
    BY <1>2, <2>2, <2>3 DEF Heap
  <2>5. Ready(Initialised(heap), bytes)
    BY <1>2, <2>1, <2>3, <2>4 DEF Ready
  <2> QED
    BY <2>4, <2>5 DEF bytes
<1>4. CASE heap.heap_end # 0
  <2>1. Initialised(heap) = heap
    BY <1>4 DEF Initialised
  <2>2. Ready(heap, pages * PageSize)
    BY <1>2, <1>4 DEF Ready, Inv, LastAllocIsTop
  <2> QED
    BY <2>1, <2>2
<1> QED
  BY <1>3, <1>4

(* Handing out an aligned block above `next' and within the memory keeps    *)
(* the invariant.                                                           *)
LEMMA HandOutSafe ==
    ASSUME Inv,
           NEW h, Ready(h, pages' * PageSize),
           h.allocations = heap.allocations,
           pages' \in Nat, pages * PageSize <= pages' * PageSize,
           pages * PageSize \in Nat, pages' * PageSize \in Nat,
           pages' * PageSize # 0,
           NEW layout \in Layout,
           NEW start \in Nat, start >= h.next, start % layout.align = 0,
           start + layout.size <= h.heap_end,
           HandOut(h, start, layout)
    PROVE  Inv'
<1> DEFINE blk == [start |-> start, size |-> layout.size, align |-> layout.align]
<1>1. /\ layout.size \in Sizes
      /\ layout.align \in Aligns
      /\ layout.size \in Nat \ {0}
      /\ HeapBase \in Nat \ {0}
  BY BumpAssumption DEF Layout
<1>2. /\ h \in Heap
      /\ heap \in Heap
      /\ live \in SUBSET Block
      /\ \A b \in live : b.start \in Nat /\ b.size \in Nat \ {0}
  BY BumpAssumption DEF Inv, TypeOK, Ready, Block
<1>3. /\ heap' = [h EXCEPT !.allocations = @ + 1,
                           !.last_alloc  = start,
                           !.next        = start + layout.size]
      /\ live' = live \cup {blk}
  BY DEF HandOut
<1>4. /\ heap' \in Heap
      /\ heap'.next = start + layout.size
      /\ heap'.last_alloc = start
      /\ heap'.heap_start = HeapBase
      /\ heap'.heap_end = pages' * PageSize
      /\ heap'.allocations = heap.allocations + 1
  <2>1. /\ h.heap_start = HeapBase
        /\ h.heap_end = pages' * PageSize
    BY DEF Ready
  <2> DEFINE end == start + layout.size
             count == h.allocations + 1
  <2>2. end \in Nat /\ count \in Nat
    BY <1>1, <1>2 DEF Heap
  <2>3. heap' = [h EXCEPT !.allocations = count, !.last_alloc = start, !.next = end]
    BY <1>3
  <2> HIDE DEF end, count
  <2>4. /\ heap' \in Heap
        /\ heap'.next = end
        /\ heap'.last_alloc = start
        /\ heap'.heap_start = h.heap_start
        /\ heap'.heap_end = h.heap_end
        /\ heap'.allocations = count
    BY <1>2, <2>2, <2>3 DEF Heap
  <2> QED
    BY <2>1, <2>4 DEF end, count
<1>5. blk \in Block
  BY <1>1 DEF Block
<1>6. TypeOK'
  BY <1>2, <1>3, <1>4, <1>5 DEF TypeOK
<1>7. \A b \in live : EndOf(b) <= start /\ HeapBase <= b.start
  BY <1>1, <1>2 DEF Ready, EndOf, Heap
<1>8. EndOf(blk) = start + layout.size /\ HeapBase <= start
  BY <1>1, <1>2 DEF EndOf, Ready, Heap
<1>9. blk \notin live
  BY <1>1, <1>7, <1>8
<1>10. IsFiniteSet(live') /\ CountsLiveBlocks'
  <2>1. IsFiniteSet(live') /\ Cardinality(live') = Cardinality(live) + 1
    BY <1>3, <1>9, FS_AddElement DEF Inv
  <2> QED
    BY <2>1, <1>4 DEF Inv, CountsLiveBlocks
<1>11. LiveBlocksDisjoint'
  <2> SUFFICES ASSUME NEW a \in live', NEW b \in live', a # b
               PROVE  EndOf(a) <= b.start \/ EndOf(b) <= a.start
    BY DEF LiveBlocksDisjoint, EndOf
  <2>1. CASE a \in live /\ b \in live
    BY <2>1 DEF Inv, LiveBlocksDisjoint
  <2>2. CASE a = blk
    BY <2>2, <1>3, <1>7
  <2>3. CASE b = blk
    BY <2>3, <1>3, <1>7
  <2> QED
    BY <1>3, <2>1, <2>2, <2>3
<1>12. LiveBlocksInMemory'
  <2> SUFFICES ASSUME NEW b \in live'
               PROVE  /\ HeapBase <= b.start
                      /\ EndOf(b) <= pages' * PageSize
                      /\ b.start % b.align = 0
    BY DEF LiveBlocksInMemory, EndOf
  <2>1. CASE b \in live
    <3>1. /\ HeapBase <= b.start
          /\ EndOf(b) <= pages * PageSize
          /\ b.start % b.align = 0
      BY <2>1 DEF Inv, LiveBlocksInMemory
    <3>2. EndOf(b) \in Nat
      BY <2>1, <1>2 DEF EndOf
    <3> QED
      BY <3>1, <3>2
  <2>2. CASE b = blk
    BY <2>2, <1>8 DEF Ready
  <2> QED
    BY <1>3, <2>1, <2>2
<1>13. HeapReclaimed'
  BY <1>3 DEF HeapReclaimed
<1>14. LastAllocIsTop'
  <2>1. heap'.heap_end # 0
    BY <1>4
  <2>2. /\ HeapBase <= heap'.last_alloc
        /\ heap'.last_alloc <= heap'.next
        /\ heap'.next <= heap'.heap_end
    BY <1>1, <1>4, <1>8 DEF Ready
  <2>3. ASSUME NEW b \in live'
        PROVE  /\ HeapBase <= b.start
               /\ EndOf(b) <= heap'.next
               /\ b.start = heap'.last_alloc \/ EndOf(b) <= heap'.last_alloc
    <3>1. CASE b \in live
      <4>1. EndOf(b) \in Nat
        BY <3>1, <1>2 DEF EndOf
      <4> QED
        BY <3>1, <1>1, <1>4, <1>7, <4>1
    <3>2. CASE b = blk
      BY <3>2, <1>1, <1>4, <1>8
    <3> QED
      BY <1>3, <3>1, <3>2
  <2> QED
    BY <1>4, <2>1, <2>2, <2>3 DEF LastAllocIsTop, EndOf
<1> QED
  BY <1>6, <1>10, <1>11, <1>12, <1>13, <1>14 DEF Inv

(* alloc, when the block fits *)
LEMMA AllocFitsSafe ==
    ASSUME Inv, NEW layout \in Layout, AllocFits(layout)
    PROVE  Inv'
<1> DEFINE h     == Initialised(heap)
           start == align_up(h.next, layout.align)
<1>1. Ready(h, pages * PageSize) /\ h.allocations = heap.allocations
  BY InitialisedReady
<1>2. pages \in Nat /\ pages * PageSize \in Nat
  BY MemoryPositive DEF Inv, TypeOK
<1>3. /\ start + layout.size <= h.heap_end
      /\ HandOut(h, start, layout)
      /\ pages' = pages
  BY DEF AllocFits
<1>4. /\ h.next \in Nat
      /\ layout.align \in Nat \ {0}
      /\ pages * PageSize # 0
  BY <1>1, ReadyFacts, BumpAssumption DEF Layout
<1>5. start \in Nat /\ start >= h.next /\ start % layout.align = 0
  BY <1>4, AlignUp
<1> HIDE DEF h, start
<1>6. pages' \in Nat /\ pages' * PageSize = pages * PageSize
  BY <1>2, <1>3
<1>7. Ready(h, pages' * PageSize)
  BY <1>1, <1>6
<1>8. pages * PageSize <= pages' * PageSize /\ pages' * PageSize # 0 /\ pages' * PageSize \in Nat
  BY <1>2, <1>4, <1>6
<1> QED
  BY <1>1, <1>2, <1>3, <1>5, <1>6, <1>7, <1>8, HandOutSafe

(* alloc, when memory_grow supplies the missing pages *)
LEMMA AllocGrowsSafe ==
    ASSUME Inv, NEW layout \in Layout, AllocGrows(layout)
    PROVE  Inv'
<1> DEFINE h     == Initialised(heap)
           start == align_up(h.next, layout.align)
           space == start + layout.size - h.heap_end
           more  == pages_to_request(space)
           g     == [h EXCEPT !.heap_end = @ + more * PageSize]
<1>1. Ready(h, pages * PageSize) /\ h.allocations = heap.allocations
  BY InitialisedReady
<1>2. pages \in Nat /\ pages * PageSize \in Nat /\ PageSize \in Nat
  BY MemoryPositive, BumpAssumption DEF Inv, TypeOK
<1>3. /\ start + layout.size > h.heap_end
      /\ HandOut(g, start, layout)
      /\ pages' = pages + more
  BY DEF AllocGrows
<1>4. /\ h \in Heap
      /\ h.next \in Nat
      /\ h.heap_end \in Nat
      /\ h.heap_end = pages * PageSize
      /\ layout.size \in Nat \ {0}
      /\ layout.align \in Nat \ {0}
      /\ pages * PageSize # 0
  BY <1>1, ReadyFacts, BumpAssumption DEF Layout
<1>5. start \in Nat /\ start >= h.next /\ start % layout.align = 0
  BY <1>4, AlignUp
<1> HIDE DEF h, start
<1>6. space \in Nat
  BY <1>3, <1>4, <1>5
<1>7. more \in Nat /\ space <= more * PageSize
  BY <1>6, PagesEnough
<1>8. space = start + layout.size - h.heap_end
  OBVIOUS
<1> HIDE DEF more, space
<1>9. /\ pages' \in Nat
      /\ pages' * PageSize = pages * PageSize + more * PageSize
      /\ more * PageSize \in Nat
  BY <1>2, <1>3, <1>7
<1> DEFINE grown == more * PageSize
           old   == pages * PageSize
           new   == pages' * PageSize
<1>10. /\ grown \in Nat /\ old \in Nat /\ new = old + grown /\ old # 0
       /\ space <= grown /\ h.heap_end = old
  BY <1>2, <1>4, <1>7, <1>9
<1>11. g = [h EXCEPT !.heap_end = @ + grown]
  OBVIOUS
<1> HIDE DEF grown, old, new, g
<1>12. new \in Nat /\ old <= new /\ new # 0
  BY <1>10
<1>13. /\ g \in Heap
       /\ g.heap_end = new
       /\ g.next = h.next
       /\ g.last_alloc = h.last_alloc
       /\ g.heap_start = h.heap_start
       /\ g.allocations = h.allocations
  BY <1>4, <1>10, <1>11, <1>12 DEF Heap
<1>14. h.next <= old
  BY <1>1, <1>10 DEF Ready
<1>15. g.next <= g.heap_end
  BY <1>4, <1>10, <1>12, <1>13, <1>14
<1>16. Ready(g, new)
  BY <1>1, <1>13, <1>15 DEF Ready
<1>17. start + layout.size <= g.heap_end
  BY <1>4, <1>5, <1>8, <1>10, <1>13
<1>18. /\ Ready(g, pages' * PageSize)
       /\ pages * PageSize <= pages' * PageSize
       /\ pages' * PageSize # 0
       /\ pages' * PageSize \in Nat
  BY <1>12, <1>16 DEF old, new
<1>19. g.allocations = heap.allocations /\ start >= g.next
  BY <1>1, <1>5, <1>13
<1> QED
  BY <1>2, <1>3, <1>5, <1>9, <1>17, <1>18, <1>19, HandOutSafe

(* alloc, when it returns null *)
LEMMA AllocFailsSafe ==
    ASSUME Inv, NEW layout \in Layout, AllocFails(layout)
    PROVE  Inv'
<1> DEFINE h == Initialised(heap)
<1>1. Ready(h, pages * PageSize) /\ h.allocations = heap.allocations
  BY InitialisedReady
<1>2. heap' = h /\ pages' = pages /\ live' = live
  BY DEF AllocFails
<1>3. h.heap_end # 0
  BY <1>1, BumpAssumption DEF Ready, Heap
<1>4. live = {} => h.next = h.heap_start /\ h.last_alloc = h.heap_start
  <2>1. CASE heap.heap_end = 0
    <3>1. heap \in Heap
      BY DEF Inv, TypeOK
    <3> QED
      BY <2>1, <3>1 DEF Initialised, Heap
  <2>2. CASE heap.heap_end # 0
    BY <2>2 DEF Inv, HeapReclaimed, Initialised
  <2> QED
    BY <2>1, <2>2
<1> HIDE DEF h
<1>5. TypeOK'
  BY <1>1, <1>2 DEF Inv, TypeOK, Ready
<1>6. LiveBlocksDisjoint' /\ LiveBlocksInMemory' /\ IsFiniteSet(live')
  BY <1>2 DEF Inv, LiveBlocksDisjoint, LiveBlocksInMemory, EndOf
<1>7. CountsLiveBlocks' /\ HeapReclaimed'
  BY <1>1, <1>2, <1>4 DEF Inv, CountsLiveBlocks, HeapReclaimed
<1>8. LastAllocIsTop'
  BY <1>1, <1>2, <1>3 DEF LastAllocIsTop, Ready, EndOf
<1> QED
  BY <1>5, <1>6, <1>7, <1>8 DEF Inv

(* dealloc: only when the freed block is the last one handed out, or the    *)
(* last one live, does `next' move back, and no live block is above it.     *)
LEMMA DeallocSafe ==
    ASSUME Inv, NEW b \in live, Dealloc(b)
    PROVE  Inv'
<1> DEFINE rest == heap.allocations - 1
           h    == [heap EXCEPT !.allocations = rest]
<1>1. /\ heap \in Heap
      /\ live \in SUBSET Block
      /\ HeapBase \in Nat \ {0}
      /\ \A c \in live : c.start \in Nat /\ c.size \in Nat \ {0} /\ EndOf(c) = c.start + c.size
  BY BumpAssumption DEF Inv, TypeOK, Block, EndOf
<1>2. pages' = pages /\ live' = live \ {b}
  BY DEF Dealloc
<1>3. /\ IsFiniteSet(live')
      /\ Cardinality(live') = heap.allocations - 1
      /\ Cardinality(live') \in Nat
      /\ live' = {} <=> heap.allocations - 1 = 0
  <2>1. IsFiniteSet(live') /\ Cardinality(live') = Cardinality(live) - 1
    BY <1>2, FS_RemoveElement DEF Inv
  <2>2. Cardinality(live') \in Nat /\ (Cardinality(live') = 0 <=> live' = {})
    BY <2>1, FS_CardinalityType, FS_EmptySet
  <2> QED
    BY <2>1, <2>2 DEF Inv, CountsLiveBlocks
<1>4. /\ heap' = CASE h.allocations = 0 ->
                        [h EXCEPT !.next = h.heap_start, !.last_alloc = h.heap_start]
                   [] h.allocations # 0 /\ h.last_alloc = b.start ->
                        [h EXCEPT !.next = h.last_alloc]
                   [] OTHER -> h
      /\ rest \in Nat
      /\ live' = {} <=> rest = 0
  BY <1>3 DEF Dealloc
<1>5. heap.heap_end # 0
  BY DEF Inv, LastAllocIsTop
<1>6. /\ heap.heap_start = HeapBase
      /\ heap.heap_end = pages * PageSize
      /\ HeapBase <= heap.last_alloc
      /\ heap.last_alloc <= heap.next
      /\ heap.next <= heap.heap_end
  BY <1>5 DEF Inv, LastAllocIsTop
<1> HIDE DEF rest
<1>7. /\ h \in Heap
      /\ h.allocations = rest
      /\ h.next = heap.next
      /\ h.last_alloc = heap.last_alloc
      /\ h.heap_start = heap.heap_start
      /\ h.heap_end = heap.heap_end
  BY <1>1, <1>4 DEF Heap
<1> HIDE DEF h
<1>8. /\ heap' \in Heap
      /\ heap'.allocations = rest
      /\ heap'.heap_start = heap.heap_start
      /\ heap'.heap_end = heap.heap_end
      /\ rest = 0 => heap'.next = heap.heap_start /\ heap'.last_alloc = heap.heap_start
      /\ rest # 0 => /\ heap'.last_alloc = heap.last_alloc
                     /\ heap'.next = IF heap.last_alloc = b.start THEN heap.last_alloc
                                                                  ELSE heap.next
  <2>1. CASE rest = 0
    BY <2>1, <1>4, <1>7 DEF Heap
  <2>2. CASE rest # 0 /\ h.last_alloc = b.start
    BY <2>2, <1>4, <1>7 DEF Heap
  <2>3. CASE rest # 0 /\ h.last_alloc # b.start
    BY <2>3, <1>4, <1>7 DEF Heap
  <2> QED
    BY <2>1, <2>2, <2>3
<1>9. TypeOK'
  BY <1>1, <1>2, <1>8 DEF Inv, TypeOK
<1>10. LiveBlocksDisjoint' /\ LiveBlocksInMemory'
  BY <1>2 DEF Inv, LiveBlocksDisjoint, LiveBlocksInMemory, EndOf
<1>11. CountsLiveBlocks'
  BY <1>3, <1>8 DEF CountsLiveBlocks, rest
<1>12. HeapReclaimed'
  BY <1>4, <1>8 DEF HeapReclaimed
<1>13. LastAllocIsTop'
  <2>1. /\ HeapBase <= heap'.last_alloc
        /\ heap'.last_alloc <= heap'.next
        /\ heap'.next <= heap'.heap_end
    BY <1>1, <1>6, <1>8 DEF Heap
  <2>2. ASSUME NEW c \in live'
        PROVE  /\ HeapBase <= c.start
               /\ EndOf(c) <= heap'.next
               /\ c.start = heap'.last_alloc \/ EndOf(c) <= heap'.last_alloc
    <3>1. rest # 0 /\ c \in live /\ c # b
      BY <1>2, <1>4
    <3>2. /\ HeapBase <= c.start
          /\ EndOf(c) <= heap.next
          /\ c.start = heap.last_alloc \/ EndOf(c) <= heap.last_alloc
      BY <3>1 DEF Inv, LastAllocIsTop
    <3>3. heap.last_alloc = b.start => EndOf(c) <= heap.last_alloc
      <4>1. EndOf(c) <= b.start \/ EndOf(b) <= c.start
        BY <3>1 DEF Inv, LiveBlocksDisjoint
      <4>2. c.start # b.start
        BY <1>1, <3>1, <4>1
      <4> QED
        BY <3>2, <4>2
    <3> QED
      BY <1>8, <3>1, <3>2, <3>3
  <2> QED
    BY <1>2, <1>5, <1>6, <1>8, <2>1, <2>2 DEF LastAllocIsTop, EndOf
<1> QED
  BY <1>3, <1>9, <1>10, <1>11, <1>12, <1>13 DEF Inv

-----------------------------------------------------------------------------

(* The invariant holds before the first allocation. *)
LEMMA InitInv == Init => Inv
<1> SUFFICES ASSUME Init PROVE Inv
  OBVIOUS
<1>1. heap = New /\ pages = InitialPages /\ live = {}
  BY DEF Init
<1>2. TypeOK
  BY <1>1, BumpAssumption DEF TypeOK, New, Heap
<1>3. IsFiniteSet(live) /\ CountsLiveBlocks
  BY <1>1, FS_EmptySet DEF CountsLiveBlocks, New
<1>4. LiveBlocksDisjoint /\ LiveBlocksInMemory /\ HeapReclaimed /\ LastAllocIsTop
  BY <1>1 DEF LiveBlocksDisjoint, LiveBlocksInMemory, HeapReclaimed, LastAllocIsTop, New
<1> QED
  BY <1>2, <1>3, <1>4 DEF Inv

(* Every allocation and deallocation keeps it. *)
LEMMA NextInv == Inv /\ [Next]_vars => Inv'
<1> SUFFICES ASSUME Inv, [Next]_vars PROVE Inv'
  OBVIOUS
<1>1. ASSUME NEW layout \in Layout, AllocFits(layout) PROVE Inv'
  BY <1>1, AllocFitsSafe
<1>2. ASSUME NEW layout \in Layout, AllocGrows(layout) PROVE Inv'
  BY <1>2, AllocGrowsSafe
<1>3. ASSUME NEW layout \in Layout, AllocFails(layout) PROVE Inv'
  BY <1>3, AllocFailsSafe
<1>4. ASSUME NEW b \in live, Dealloc(b) PROVE Inv'
  BY <1>4, DeallocSafe
<1>5. CASE UNCHANGED vars
  BY <1>5 DEF vars, Inv, TypeOK, LiveBlocksDisjoint, LiveBlocksInMemory, EndOf,
              CountsLiveBlocks, HeapReclaimed, LastAllocIsTop, New
<1> QED
  BY <1>1, <1>2, <1>3, <1>4, <1>5 DEF Next

(* Every allocator cell stays unsigned, so dealloc's decrement of the       *)
(* counter never wraps around.                                              *)
THEOREM AllocatorTyped == Spec => []TypeOK
<1>1. Inv => TypeOK
  BY DEF Inv
<1> QED
  BY InitInv, NextInv, <1>1, PTL DEF Spec

(* alloc never hands out memory that is in use: live blocks are disjoint,   *)
(* although dealloc moves the bump pointer back.                            *)
THEOREM NoOverlap == Spec => []LiveBlocksDisjoint
<1>1. Inv => LiveBlocksDisjoint
  BY DEF Inv
<1> QED
  BY InitInv, NextInv, <1>1, PTL DEF Spec

(* Live blocks are aligned and lie within the memory the contract has.      *)
THEOREM InMemory == Spec => []LiveBlocksInMemory
<1>1. Inv => LiveBlocksInMemory
  BY DEF Inv
<1> QED
  BY InitInv, NextInv, <1>1, PTL DEF Spec

(* The counter that decides about the reset is the number of live blocks,   *)
(* and when it is zero the whole heap is available again.                   *)
THEOREM ResetExact == Spec => [](CountsLiveBlocks /\ HeapReclaimed)
<1>1. Inv => CountsLiveBlocks /\ HeapReclaimed
  BY DEF Inv
<1> QED
  BY InitInv, NextInv, <1>1, PTL DEF Spec

=============================================================================
