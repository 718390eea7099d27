----------------------------- MODULE BumpAlloc -----------------------------
(***************************************************************************)
(* The global allocator of concordium-std (concordium-std/src/             *)
(* bump_alloc.rs): a bump pointer that steps back when the block it handed *)
(* out last is freed, and restarts at the heap base when nothing is live.  *)
(*                                                                         *)
(* The allocator's five cells are one record `heap'.  `pages' is the Wasm  *)
(* memory, which only memory_grow changes.  `live' is the caller's side of *)
(* the GlobalAlloc contract: the blocks handed out and not yet given back; *)
(* a caller gives back a block it holds, once, and never asks for size 0.  *)
(* The node bounds a contract's memory far below the address space, so     *)
(* that align_up never wraps around; the end of a block may still overflow.*)
(***************************************************************************)
EXTENDS Integers, FiniteSets

CONSTANTS
    HeapBase,      \* the linker's __heap_base
    InitialPages,  \* pages of memory when the contract starts
    MaxPages,      \* memory_grow fails beyond this many pages
    PageSize,      \* bytes in a page (65536)
    UsizeMax,      \* largest address (2^32 - 1 on wasm32)
    Sizes,         \* layout.size() of the requests
    Aligns         \* layout.align() of the requests, powers of two

ASSUME BumpAssumption ==
    /\ PageSize \in Nat \ {0}
    /\ InitialPages \in Nat \ {0}
    /\ MaxPages \in Nat
    /\ HeapBase \in Nat \ {0}
    /\ HeapBase <= InitialPages * PageSize
    /\ UsizeMax \in Nat
    /\ Sizes \subseteq Nat \ {0}
    /\ Aligns \subseteq Nat \ {0}
    /\ \A align \in Aligns : MaxPages * PageSize + align - 1 <= UsizeMax

VARIABLES heap, pages, live

vars == <<heap, pages, live>>

Layout == [size: Sizes, align: Aligns]

Block == [start: Nat, size: Sizes, align: Aligns]

EndOf(b) == b.start + b.size

(* (addr + align - 1) & !(align - 1), for an align that is a power of two *)
align_up(addr, align) ==
    (addr + align - 1) - ((addr + align - 1) % align)

(* Mutant: the division rounds down. *)
pages_to_request_floor(space_needed) == space_needed \div PageSize

(* (space >> 16) + (space & 0xffff != 0) *)
pages_to_request(space_needed) ==
    (space_needed \div PageSize) + (IF space_needed % PageSize = 0 THEN 0 ELSE 1)

(* BumpAllocator::new: dummy values until the first allocation *)
New == [next        |-> 0,
        heap_start  |-> 0,
        heap_end    |-> 0,
        allocations |-> 0,
        last_alloc  |-> 0]

Init == /\ heap = New
        /\ pages = InitialPages
        /\ live = {}

(* The first allocation replaces the dummy values by the real addresses. *)
Initialised(h) ==
    IF h.heap_end = 0
      THEN [h EXCEPT !.next       = HeapBase,
                     !.heap_start = HeapBase,
                     !.last_alloc = HeapBase,
                     !.heap_end   = pages * PageSize]
      ELSE h

(* The block is handed out: the bump pointer moves past it. *)
HandOut(h, start, layout) ==
    /\ heap' = [h EXCEPT !.allocations = @ + 1,
                         !.last_alloc  = start,
                         !.next        = start + layout.size]
    /\ live' = live \cup {[start |-> start,
                           size  |-> layout.size,
                           align |-> layout.align]}

(* alloc, the block fits below heap_end *)
AllocFits(layout) ==
    LET h     == Initialised(heap)
        start == align_up(h.next, layout.align)
    IN  /\ start + layout.size <= UsizeMax
        /\ start + layout.size <= h.heap_end
        /\ HandOut(h, start, layout)
        /\ UNCHANGED pages

(* alloc, memory_grow supplies the missing pages *)
AllocGrows(layout) ==
    LET h     == Initialised(heap)
        start == align_up(h.next, layout.align)
        more  == pages_to_request(start + layout.size - h.heap_end)
    IN  /\ start + layout.size <= UsizeMax
        /\ start + layout.size > h.heap_end
        /\ pages + more <= MaxPages
        /\ pages' = pages + more
        /\ HandOut([h EXCEPT !.heap_end = @ + more * PageSize], start, layout)

(* alloc returns null: the end overflows, or memory_grow fails.  The cells *)
(* the first allocation initialised stay initialised.                      *)
AllocFails(layout) ==
    LET h     == Initialised(heap)
        start == align_up(h.next, layout.align)
        more  == pages_to_request(start + layout.size - h.heap_end)
    IN  /\ \/ start + layout.size > UsizeMax
           \/ /\ start + layout.size > h.heap_end
              /\ pages + more > MaxPages
        /\ heap' = h
        /\ UNCHANGED <<pages, live>>

(* Mutant: next moves back to whichever block is freed. *)
Dealloc_any_block(b) ==
    LET h == [heap EXCEPT !.allocations = @ - 1]
    IN  /\ live' = live \ {b}
        /\ heap' = IF h.allocations = 0
                     THEN [h EXCEPT !.next = h.heap_start, !.last_alloc = h.heap_start]
                     ELSE [h EXCEPT !.next = b.start]
        /\ UNCHANGED pages

(* Mutant: no reset when the last block is freed. *)
Dealloc_no_reset(b) ==
    /\ live' = live \ {b}
    /\ heap' = [heap EXCEPT !.allocations = @ - 1,
                            !.next = IF heap.last_alloc = b.start
                                       THEN heap.last_alloc ELSE @]
    /\ UNCHANGED pages

(* dealloc of the block b *)
Dealloc(b) ==
    LET h == [heap EXCEPT !.allocations = @ - 1]
    IN  /\ live' = live \ {b}
        /\ heap' = CASE h.allocations = 0 ->
                          [h EXCEPT !.next = h.heap_start, !.last_alloc = h.heap_start]
                     [] h.allocations # 0 /\ h.last_alloc = b.start ->
                          [h EXCEPT !.next = h.last_alloc]
                     [] OTHER -> h
        /\ UNCHANGED pages

Next == \/ \E layout \in Layout : \/ AllocFits(layout)
                                  \/ AllocGrows(layout)
                                  \/ AllocFails(layout)
        \/ \E b \in live : Dealloc(b)

Spec == Init /\ [][Next]_vars

-----------------------------------------------------------------------------

Heap == [next        : Nat,
         heap_start  : Nat,
         heap_end    : Nat,
         allocations : Nat,
         last_alloc  : Nat]

(* Every cell of the allocator is an unsigned number (Dealloc subtracts 1  *)
(* from the count of allocations), every live block is one of the requests.*)
TypeOK == /\ heap \in Heap
          /\ pages \in Nat
          /\ live \in SUBSET Block

(* No two live blocks share a byte, so stepping the bump pointer back in   *)
(* dealloc never hands out memory that is still in use.                    *)
LiveBlocksDisjoint ==
    \A a, b \in live : a # b => EndOf(a) <= b.start \/ EndOf(b) <= a.start

(* Every live block lies between the heap base and the end of the memory   *)
(* the contract has, at an address that is a multiple of its alignment.    *)
LiveBlocksInMemory ==
    \A b \in live : /\ HeapBase <= b.start
                    /\ EndOf(b) <= pages * PageSize
                    /\ b.start % b.align = 0

(* The counter dealloc compares with zero counts the live blocks, so the   *)
(* reset to heap_start happens exactly when nothing is live.               *)
CountsLiveBlocks == heap.allocations = Cardinality(live)

(* When the last live block is freed the whole heap is available again.    *)
HeapReclaimed ==
    live = {} => heap.next = heap.heap_start /\ heap.last_alloc = heap.heap_start

(* What dealloc relies on when it compares last_alloc with the pointer:    *)
(* nothing live ends above last_alloc except the block that starts there.  *)
LastAllocIsTop ==
    /\ heap.heap_end = 0 => live = {} /\ heap = New /\ pages = InitialPages
    /\ heap.heap_end # 0 => /\ heap.heap_start = HeapBase
                            /\ heap.heap_end = pages * PageSize
                            /\ HeapBase <= heap.last_alloc
                            /\ heap.last_alloc <= heap.next
                            /\ heap.next <= heap.heap_end
    /\ \A b \in live : /\ HeapBase <= b.start
                       /\ EndOf(b) <= heap.next
                       /\ b.start = heap.last_alloc \/ EndOf(b) <= heap.last_alloc

=============================================================================
