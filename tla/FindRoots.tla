------------------------------ MODULE FindRoots ------------------------------
(***************************************************************************)
(* The addresses of the heap: where h_init puts the pages (heap.c), which  *)
(* bits of the allocation map stand for a block (set_bits_in_alloc_map,    *)
(* allocation.c), and which bit is_allocated_on_heap (find_roots.c) tests  *)
(* for an address it finds on the stack.  The pages are those of module    *)
(* Heap, in every state its allocations and collections reach.             *)
(*                                                                         *)
(* An address is a number of bytes from heap_start, which h_init aligns to *)
(* 8.  A page_t precedes the bytes of each page, so pages are              *)
(* PAGE_SIZE + sizeof(page_t) apart; is_allocated_on_heap divides by       *)
(* either, at different places.                                            *)
(***************************************************************************)
EXTENDS Heap

CONSTANT SIZEOF_PAGE  \* sizeof(page_t); 40 in the code

\* page_t holds words, and one header is smaller than a page.
ASSUME FindRootsAssumption ==
  /\ SIZEOF_PAGE \in Nat /\ SIZEOF_PAGE % 8 = 0
  /\ SIZEOF_PAGE > 0 /\ SIZEOF_PAGE <= PAGE_SIZE
  /\ BITS_PER_PAGE % 2 = 0

-----------------------------------------------------------------------------
(* heap.c *)

PAGE_STRIDE == PAGE_SIZE + SIZEOF_PAGE

\* page_start of page p
PageStart(p) == p * PAGE_STRIDE + SIZEOF_PAGE

\* The pointer h_alloc_... returns for a block that begins at slot b of page p
ObjectAddress(p, b) == PageStart(p) + MIN_OBJECT_SIZE * b + HEADER_SIZE

-----------------------------------------------------------------------------
(* allocation.c *)

BITS_PER_WORD == BITS_PER_PAGE \div 2

\* set_bits_in_alloc_map: the word of alloc_map and the bit in it for slot b of
\* page p.  The first slot is the most significant bit of the first word.
MapBit(p, b) ==
  IF b < BITS_PER_WORD
    THEN <<2 * p, BITS_PER_WORD - 1 - b>>
    ELSE <<2 * p + 1, BITS_PER_WORD - 1 - (b - BITS_PER_WORD)>>

\* The bits of alloc_map that are set
SetBits == UNION {{MapBit(p, b) : b \in alloc_map[p]} : p \in Pages}

-----------------------------------------------------------------------------
(* find_roots.c *)

\* The test against heap_start and heap_start + heap_size
InScannedRange(a) == a > 0 /\ a < HeapSize

\* heap_ptr_offset; inside the first page_t the code's uint64_t wraps.
HeapPtrOffset(a) == a - SIZEOF_PAGE

\* Mutant of TestedSlot: the page headers before the address are not subtracted.
TestedSlotNoHeaders(a) ==
  (HeapPtrOffset(a) \div MIN_OBJECT_SIZE) % BITS_PER_PAGE

\* The slot whose bit is tested: pages_before_ptr counts in PAGE_SIZE, so it
\* runs ahead of the page by one once the headers before it fill a page.
TestedSlot(a) ==
  LET pagesBefore == HeapPtrOffset(a) \div PAGE_SIZE
  IN  ((HeapPtrOffset(a) - SIZEOF_PAGE * pagesBefore) \div MIN_OBJECT_SIZE)
        % BITS_PER_PAGE

\* alloc_map_index before the half is added
TestedPage(a) == HeapPtrOffset(a) \div PAGE_STRIDE

\* Mutant of TestedBit: the first slot is taken for the least significant bit.
TestedBitReversed(a) ==
  LET bit == TestedSlot(a)
  IN  <<2 * TestedPage(a) + (IF bit < BITS_PER_WORD THEN 1 ELSE 0),
        bit % BITS_PER_WORD>>

\* The word and bit of alloc_map that are tested for address a
TestedBit(a) ==
  LET bit == BITS_PER_PAGE - 1 - TestedSlot(a)
  IN  <<2 * TestedPage(a) + (IF bit < BITS_PER_WORD THEN 1 ELSE 0),
        bit % BITS_PER_WORD>>

\* The answer for address a, when the word tested lies in alloc_map
is_allocated_on_heap(a) ==
  /\ InScannedRange(a)
  /\ HeapPtrOffset(a) % 8 = 0
  /\ TestedBit(a) \in SetBits

-----------------------------------------------------------------------------
(* Properties *)

\* The headers of the pages up to p together are no larger than a page.
BelowDrift(p) == (p + 1) * SIZEOF_PAGE <= PAGE_SIZE

\* No object is lost by the scan, in a heap whose page headers fill no page:
\* the pointer to each marked slot below heap_start + heap_size is accepted,
\* although the bit tested need not be the slot's own.  Otherwise
\* find_gc_roots overlooks a variable and the collection frees its object.
SlotsRecognised ==
  \A p \in Pages : BelowDrift(p) =>
    \A b \in alloc_map[p] :
      InScannedRange(ObjectAddress(p, b)) =>
        is_allocated_on_heap(ObjectAddress(p, b))

\* What is accepted lies at most one page header beyond the allocated bytes of
\* its page: neither free pages nor the unused rest of a page are taken for
\* objects, but the header of the page after a full one is.
AcceptedNearAllocation ==
  \A p \in Pages : BelowDrift(p) =>
    \A r \in 0 .. PAGE_STRIDE - 1 :
      is_allocated_on_heap(PageStart(p) + r) =>
        r < next_empty_space[p] + SIZEOF_PAGE

=============================================================================
