-------------------------------- MODULE Heap --------------------------------
(***************************************************************************)
(* The pages of the heap: heap.c, the page side of allocation.c            *)
(* (find_next_available, h_alloc_struct, h_alloc_raw) and of compacting.c  *)
(* (traverse_and_move).  What an object is, and which objects a collection *)
(* reaches, is the business of module Compacting, whose steps take the     *)
(* steps of this module on the pages.                                      *)
(*                                                                         *)
(* A page is named by its index in page_array.  next_empty_space is an     *)
(* offset from page_start, remaining_size a number of bytes, and alloc_map *)
(* holds the set of marked 16-byte slots of each page (the code keeps them *)
(* as 128 bits of two words).                                              *)
(*                                                                         *)
(* pc is where the single thread is: in the program ("mutator"), in        *)
(* find_gc_roots ("scan"), traverse_and_move ("move"),                     *)
(* traverse_and_forward ("forward"), at the call of find_next_available    *)
(* ("place"), at a failed assert (AbortPcs), past an access to             *)
(* page_array[-1] ("undefined") or through a word that is no pointer       *)
(* ("wild_pointer"), or after h_delete ("deleted").                        *)
(***************************************************************************)
EXTENDS Integers, FiniteSets, FiniteSetsExt

CONSTANTS
  BITS_PER_PAGE,  \* slots of a page; 128 in the code
  HeapSize,       \* heap_size: the bytes argument of h_init
  GC_threshold,   \* in percent of heap_size
  Layouts,        \* the layout strings passed to h_alloc_struct
  RawSizes,       \* the requests passed to h_alloc_raw
  ObjectSize,     \* bytes of each of them, without header and padding
  NONE            \* no allocation is waiting for the collection

MIN_OBJECT_SIZE == 16
HEADER_SIZE == 8
PAGE_SIZE == MIN_OBJECT_SIZE * BITS_PER_PAGE
page_amount == HeapSize \div PAGE_SIZE
Pages == 0 .. page_amount - 1
Bits == 0 .. BITS_PER_PAGE - 1
Kinds == Layouts \cup RawSizes

\* h_init refuses a heap without a page.  A size that does not fit the int
\* total_size of the allocation functions is outside this module.
ASSUME HeapAssumption ==
  /\ BITS_PER_PAGE \in Nat \ {0}
  /\ HeapSize \in Nat /\ HeapSize >= PAGE_SIZE
  /\ GC_threshold \in Nat
  /\ ObjectSize \in [Kinds -> Nat]
  /\ Layouts \cap RawSizes = {}
  /\ NONE \notin Kinds

VARIABLES
  is_active, next_empty_space, remaining_size,  \* page_t, by page index
  alloc_map,
  pc,
  request,             \* what h_alloc_... was asked for
  active_page_array,   \* locals of traverse_and_move
  passive_page_array

pageVars == <<is_active, next_empty_space, remaining_size, alloc_map>>
snapshotVars == <<active_page_array, passive_page_array>>
heapVars == <<pageVars, pc, request, snapshotVars>>

AbortPcs == {"no_page", "no_passive_page", "not_a_bit_vector",
             "not_forwarded"}
StoppedPcs == AbortPcs \cup {"undefined", "wild_pointer", "deleted"}
CollectorPcs == {"scan", "move", "forward"}

-----------------------------------------------------------------------------

\* Bytes of a block: header, object, padding up to a multiple of a slot.
TotalSize(objectBytes) ==
  LET bytesToAdd == (16 - ((objectBytes + HEADER_SIZE) % 16)) % 16
  IN  objectBytes + HEADER_SIZE + bytesToAdd

\* The bits a block of total bytes at offset next of its page gets.
BitsOf(next, total) ==
  next \div MIN_OBJECT_SIZE .. (next + total) \div MIN_OBJECT_SIZE - 1

\* The sum of function f over set S
Total(f, S) == MapThenSumSet(LAMBDA x : f[x], S)

count_allocated_bytes_on_heap == Total(next_empty_space, Pages)

OverThreshold == count_allocated_bytes_on_heap * 100 > GC_threshold * HeapSize

\* p is the first page of S that satisfies Fits, in page_array order.
IsFirst(p, S, Fits(_)) ==
  /\ p \in S /\ Fits(p)
  /\ \A q \in S : Fits(q) => p <= q

\* find_next_available answers p: an active page if one has room, else a
\* passive one.
FindsPage(p, size) ==
  LET Fits(q) == size <= remaining_size[q]
      active  == {q \in Pages : is_active[q]}
  IN  IF \E q \in active : Fits(q)
        THEN IsFirst(p, active, Fits)
        ELSE IsFirst(p, Pages \ active, Fits)

NoPageFits(size) == \A q \in Pages : size > remaining_size[q]

\* The bump of the page after a block was written at its next empty space;
\* the page is active from then on.
Reserve(p, total) ==
  /\ is_active' = [is_active EXCEPT ![p] = TRUE]
  /\ alloc_map' = [alloc_map EXCEPT
                     ![p] = @ \cup BitsOf(next_empty_space[p], total)]
  /\ next_empty_space' = [next_empty_space EXCEPT ![p] = @ + total]
  /\ remaining_size' = [remaining_size EXCEPT ![p] = @ - total]

\* What traverse_and_move copies besides the header: a raw object counts as
\* empty, whatever its size.
MovedBytes(k) == IF k \in RawSizes THEN 0 ELSE ObjectSize[k]

\* Mutant of MovesTo: any page with room.
MovesToAnyPage(p, k) ==
  IsFirst(p, Pages,
          LAMBDA q : MovedBytes(k) + HEADER_SIZE < remaining_size[q])

\* traverse_and_move's choice: the first page that was passive when the
\* traversal started and is larger than the unpadded copy.
MovesTo(p, k) ==
  IsFirst(p, passive_page_array,
          LAMBDA q : MovedBytes(k) + HEADER_SIZE < remaining_size[q])

\* Mutant of Released: the two arrays of pages are exchanged.
ReleasedPassive(f, v) ==
  [p \in Pages |-> IF p \in passive_page_array THEN v ELSE f[p]]

\* Field f of the pages, with value v in those that were evacuated
Released(f, v) == [p \in Pages |-> IF p \in active_page_array THEN v ELSE f[p]]

NoPassivePageFits(k) ==
  \A q \in passive_page_array :
    MovedBytes(k) + HEADER_SIZE >= remaining_size[q]

-----------------------------------------------------------------------------

\* h_init, p_init
HeapInit ==
  /\ is_active = [p \in Pages |-> FALSE]
  /\ next_empty_space = [p \in Pages |-> 0]
  /\ remaining_size = [p \in Pages |-> PAGE_SIZE]
  /\ alloc_map = [p \in Pages |-> {}]
  /\ pc = "mutator"
  /\ request = NONE
  /\ active_page_array = {}
  /\ passive_page_array = {}

\* Entry of h_alloc_struct and h_alloc_raw up to the threshold test.
HAlloc(k) ==
  /\ pc = "mutator"
  /\ request' = k
  /\ pc' = IF OverThreshold THEN "scan" ELSE "place"
  /\ UNCHANGED <<pageVars, snapshotVars>>

\* h_gc called by the program
HGc ==
  /\ pc = "mutator"
  /\ pc' = "scan"
  /\ UNCHANGED <<pageVars, request, snapshotVars>>

\* h_delete and h_delete_dbg: the heap is freed, and nothing may use it again.
HDelete ==
  /\ pc = "mutator"
  /\ pc' = "deleted"
  /\ UNCHANGED <<pageVars, request, snapshotVars>>

\* find_gc_roots is done; traverse_and_move splits the pages by activity.
BeginMove ==
  /\ pc = "scan"
  /\ pc' = "move"
  /\ active_page_array' = {p \in Pages : is_active[p]}
  /\ passive_page_array' = {p \in Pages : ~is_active[p]}
  /\ UNCHANGED <<pageVars, request>>

\* One object of kind k is copied into page p.
Evacuate(k, p) ==
  /\ pc = "move"
  /\ MovesTo(p, k)
  /\ Reserve(p, TotalSize(MovedBytes(k)))
  /\ UNCHANGED <<pc, request, snapshotVars>>

\* assert(!"No page with enough size (traverse_and_move)")
EvacuateFails(k) ==
  /\ pc = "move"
  /\ NoPassivePageFits(k)
  /\ pc' = "no_passive_page"
  /\ UNCHANGED <<pageVars, request, snapshotVars>>

\* Mutants of EndMove: one field of the pages is not reset.
EndMoveKeepsMap ==
  /\ pc = "move"
  /\ pc' = "forward"
  /\ is_active' = Released(is_active, FALSE)
  /\ next_empty_space' = Released(next_empty_space, 0)
  /\ remaining_size' = Released(remaining_size, PAGE_SIZE)
  /\ UNCHANGED <<alloc_map, request, snapshotVars>>

EndMoveKeepsEmptySpace ==
  /\ pc = "move"
  /\ pc' = "forward"
  /\ is_active' = Released(is_active, FALSE)
  /\ remaining_size' = Released(remaining_size, PAGE_SIZE)
  /\ alloc_map' = Released(alloc_map, {})
  /\ UNCHANGED <<next_empty_space, request, snapshotVars>>

\* The queue is empty: the pages evacuated become passive and empty.
EndMove ==
  /\ pc = "move"
  /\ pc' = "forward"
  /\ is_active' = Released(is_active, FALSE)
  /\ next_empty_space' = Released(next_empty_space, 0)
  /\ remaining_size' = Released(remaining_size, PAGE_SIZE)
  /\ alloc_map' = Released(alloc_map, {})
  /\ UNCHANGED <<request, snapshotVars>>

\* Mutant of EndForward: the allocation that collected is forgotten.
EndForwardForgetsRequest ==
  /\ pc = "forward"
  /\ pc' = "mutator"
  /\ active_page_array' = {} /\ passive_page_array' = {}
  /\ UNCHANGED <<pageVars, request>>

\* h_gc_dbg returns, to the program or into the allocation that called it;
\* the arrays of traverse_and_move are gone.
EndForward ==
  /\ pc = "forward"
  /\ pc' = IF request = NONE THEN "mutator" ELSE "place"
  /\ active_page_array' = {} /\ passive_page_array' = {}
  /\ UNCHANGED <<pageVars, request>>

\* The asserts of interpret_header and traverse_and_forward, and what C leaves
\* undefined in traverse_and_move.
HeaderAssertFails ==
  /\ \/ pc \in {"move", "forward"} /\ pc' = "not_a_bit_vector"
     \/ pc = "move" /\ pc' = "wild_pointer"
     \/ pc = "forward" /\ pc' = "not_forwarded"
  /\ UNCHANGED <<pageVars, request, snapshotVars>>

\* Mutant of Place: the page is chosen by the size without header and padding.
PlaceUnpadded(p) ==
  /\ pc = "place"
  /\ FindsPage(p, ObjectSize[request])
  /\ Reserve(p, TotalSize(ObjectSize[request]))
  /\ pc' = "mutator"
  /\ request' = NONE
  /\ UNCHANGED snapshotVars

\* The rest of h_alloc_struct and h_alloc_raw, when a page is found.
Place(p) ==
  /\ pc = "place"
  /\ LET total == TotalSize(ObjectSize[request])
     IN  FindsPage(p, total) /\ Reserve(p, total)
  /\ pc' = "mutator"
  /\ request' = NONE
  /\ UNCHANGED snapshotVars

\* find_next_available answers -1: h_alloc_struct asserts, h_alloc_raw goes
\* on with page_array[-1].
PlaceFails ==
  /\ pc = "place"
  /\ NoPageFits(TotalSize(ObjectSize[request]))
  /\ pc' = IF request \in Layouts THEN "no_page" ELSE "undefined"
  /\ UNCHANGED <<pageVars, request, snapshotVars>>

\* An aborted program stays as it is, and so does a heap that is no more.
Stopped == pc \in StoppedPcs /\ UNCHANGED heapVars

HeapNext ==
  \/ \E k \in Kinds : HAlloc(k) \/ EvacuateFails(k)
  \/ \E k \in Kinds, p \in Pages : Evacuate(k, p)
  \/ \E p \in Pages : Place(p)
  \/ HGc \/ HDelete \/ BeginMove \/ EndMove \/ EndForward
  \/ HeaderAssertFails \/ PlaceFails \/ Stopped

HeapSpec == HeapInit /\ [][HeapNext]_heapVars

-----------------------------------------------------------------------------

HeapTypeOK ==
  /\ is_active \in [Pages -> BOOLEAN]
  /\ next_empty_space \in [Pages -> 0 .. PAGE_SIZE]
  /\ remaining_size \in [Pages -> 0 .. PAGE_SIZE]
  /\ alloc_map \in [Pages -> SUBSET Bits]
  /\ pc \in {"mutator", "place"} \cup CollectorPcs \cup StoppedPcs
  /\ request \in Kinds \cup {NONE}
  /\ pc \in {"place", "no_page", "undefined"} => request \in Kinds
  /\ active_page_array \subseteq Pages
  /\ passive_page_array \subseteq Pages

\* The three records of how full a page is agree, whatever sequence of
\* allocations, moves and resets led here: remaining_size complements
\* next_empty_space (it never wraps below zero, although traverse_and_move
\* tests the unpadded size and subtracts the padded one), blocks start on slot
\* boundaries, and exactly the slots below next_empty_space are marked in the
\* allocation map, which is what is_allocated_on_heap believes.
PageAccounting ==
  \A p \in Pages :
    /\ remaining_size[p] = PAGE_SIZE - next_empty_space[p]
    /\ next_empty_space[p] % MIN_OBJECT_SIZE = 0
    /\ alloc_map[p] = {b \in Bits : b * MIN_OBJECT_SIZE < next_empty_space[p]}

\* is_active is the collector's only record of which pages hold objects:
\* a page is active exactly when something was allocated in it, so the split
\* by activity of traverse_and_move leaves no object out of the evacuation and
\* hands it only empty pages to fill.
ActiveIffUsed == \A p \in Pages : is_active[p] <=> next_empty_space[p] > 0

\* While objects are moved, and until the old pages are reset, nothing is
\* allocated in a page being evacuated: the copy never overwrites an object
\* that is still to be copied.
EvacuatedPagesFrozen ==
  [][\A p \in Pages :
       pc = "move" /\ pc' = "move" /\ p \in active_page_array =>
         /\ next_empty_space'[p] = next_empty_space[p]
         /\ alloc_map'[p] = alloc_map[p]
         /\ is_active'[p]]_heapVars

\* When traverse_and_move ends, the pages it evacuated are all empty and every
\* byte in use was put there by the collection itself.
EvacuatedPagesReleased ==
  pc = "forward" =>
    /\ \A p \in active_page_array : ~is_active[p] /\ alloc_map[p] = {}
    /\ \A p \in Pages : is_active[p] => p \in passive_page_array

\* The inductive strengthening of the invariants above: what the snapshot of
\* traverse_and_move means while it runs, and that no request waits while the
\* program runs.
HeapIInv ==
  /\ HeapTypeOK
  /\ PageAccounting
  /\ ActiveIffUsed
  /\ EvacuatedPagesReleased
  /\ pc = "mutator" => request = NONE
  /\ pc \in {"move", "forward"} =>
       /\ active_page_array \cup passive_page_array = Pages
       /\ active_page_array \cap passive_page_array = {}
  /\ pc = "move" => \A p \in active_page_array : is_active[p]

=============================================================================
