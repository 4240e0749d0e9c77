# A model of the compacting garbage collector

TLA+ specifications of the C library in `src/`: a heap of pages, two
allocation functions and a collector that finds roots on the C stack, moves
every object it reaches to passive pages, and then rewrites the pointers. The
specifications are model-checked with TLC on small instances. Every safety
invariant and action property of the runs that pass is also proved with TLAPS
for every instance: the page accounting, the address arithmetic of the root
scan, the linked list and its refinement of a sequence, the encoding of object
headers, and what the two traversals of the collector do to the objects of the
program. The refinement of the managed heap and liveness are model-checked only.

## 1. Inventory

| Component | State | Operations | Interacts with |
|---|---|---|---|
| heap and pages (`heap.c`) | per page: `next_empty_space`, `remaining_size`, `is_active`; the allocation map; `heap_size`, `GC_threshold` | `h_init`, `p_init`, `h_delete`, `h_delete_dbg` | all the others work on its fields |
| allocation (`allocation.c`) | none of its own | `h_alloc_struct`, `h_alloc_raw`, `find_next_available`, `set_bits_in_alloc_map`, `set_layout_header`, `object_size` | calls `h_gc` above the threshold; bumps a page |
| root finding (`find_roots.c`) | the C stack, as it is | `find_gc_roots`, `is_allocated_on_heap` | reads the allocation map; hands three lists to the collector |
| collector (`compacting.c`) | headers overwritten by forwarding addresses; lists local to a call | `h_gc`, `h_gc_dbg`, `traverse_and_move`, `traverse_and_forward`, `interpret_header`, `count_allocated_bytes_on_heap`, `h_avail`, `h_used` | moves objects between pages, rewrites stack and heap words |
| linked list (`lib/`) | nodes, a sentinel, `last`, `size` | insert, remove, append, get, contains, ... | queues of the collector |
| public interface (`gc.h`) | | | what the program sees |
| debug output, tests, demos | | | not modelled |

What is hard here, and what makes each part correct:

- **Pages.** Four records of one fact (how full a page is) are updated by
  three functions; `traverse_and_move` tests the *unpadded* size and charges
  the *padded* one. Correct: the records agree, `remaining_size` (a `size_t`)
  never wraps, active pages are exactly those that hold objects, nothing is
  allocated in a page being evacuated.
- **Two traversals over a changing stack.** The collector is one thread, but
  its own calls overwrite stack words that it has scanned. Each traversal
  re-reads the words and compares them with what the scan saw
  (`expected_roots1`, `expected_roots2`); a comment in `find_roots.h` tells
  of the bug that led to this. Correct: no variable of the program is
  forgotten, no assert fails, nothing reachable is lost.
- **Object graphs.** Shared objects and cycles: copied once, forwarded
  everywhere, both traversals end, garbage cycles are reclaimed.
- **Allocation that collects.** The request must survive the collection.
- **Addresses.** A `page_t` precedes every page, and `is_allocated_on_heap`
  divides by `PAGE_SIZE` at one place and by `PAGE_SIZE + sizeof(page_t)` at
  another. Correct: it accepts every object, and nothing far from one.
- **Headers.** A layout is written from its last field to its first, in bits
  of one or two per field, and read the other way. Correct: what is read is
  what was written, and the array of pointers is large enough.
- **Lists.** Insertion at the end uses `last`, everything else walks from the
  sentinel. Correct: both see the same sequence; no node is used after it was
  freed, or lost; every loop ends.
- **Limits.** A full heap, no passive page, sizes that do not fit an `int`,
  layout strings that do not fit a header.

`PROJECT.json` lists every hazard at its line, with the properties that
cover it or the reason why none does yet.

## 2. Modules

| Module | What it is |
|---|---|
| `Heap` | the pages: allocation as far as pages are concerned, the page side of a collection, all failing asserts |
| `HeapProofs` | proofs about `Heap` |
| `FindRoots` | extends `Heap` with addresses: where pages and objects lie, the bits of the allocation map, `is_allocated_on_heap` |
| `FindRootsProofs` | proofs about `FindRoots` |
| `ObjectHeader` | `object_size`, `set_layout_header`, `interpret_header` round by round, and the sizes in ints and size_ts |
| `ObjectHeaderProofs` | proofs about `ObjectHeader` |
| `ListCalls` | the calls of a list, what they answer |
| `AbstractList` | the abstract specification: a list is a sequence |
| `LinkedList` | the nodes, the sentinel, `last`; one round of a loop a step |
| `LinkedListProofs` | proofs about `LinkedList`, and that it implements `AbstractList` |
| `Compacting` | extends `Heap` with objects, memory words, the stack, the program, the root scan and both traversals |
| `CompactingProofs` | `Compacting` implements `Heap` |
| `CollectorInvariant` | the inductive invariants of `Compacting`: for any stack, and for stacks without stale words |
| `MemoryProofs` | what the operations on memory do: addresses, objects, copies, the queue's entries |
| `CollectorProofs` | proofs about `Compacting` with any stale words |
| `PreciseProofs` | proofs about `Compacting` without stale words |
| `ManagedHeap` | the abstract specification: objects keep their identity and fields while the program can reach them |
| `MCHeap`, `MCCompacting` | sizes and pointer fields of the kinds of objects used for TLC; `MCHeap` instantiates `FindRoots`, and with it `Heap` |
| `MCRoots` | the objects of `Compacting` at the addresses of `FindRoots`: what the scan says of objects that were allocated and moved |
| `MCObjectHeader`, `MCLinkedList` | the layouts, indices, predicates and updates used for TLC |
| `MCRefinement` | the refinement of `ManagedHeap` by `Compacting`, with the mapped state kept in a variable so that TLC computes it once per state |

### Heap

Variables are the fields of `page_t` by page index, the allocation map as a
set of slots per page, the arrays `active_page_array` and
`passive_page_array` of `traverse_and_move`, the allocation request that
waits (`request`), and `pc`, which says where the one thread is. `HAlloc` is
the entry of both allocation functions up to the threshold test, `Place` and
`PlaceFails` the rest; `BeginMove`, `Evacuate`, `EndMove`, `EndForward` are
the page side of a collection. In `Heap` which objects are moved is arbitrary:
any kind at any time, so its theorems hold for whatever roots there are. Page
size, heap size, threshold, the kinds of objects and their sizes are constants.

The threshold comparison is done in integers (percent) where the code divides
two `float`s; the two can differ when the quotient is within rounding of the
threshold, which only moves the moment of a collection.

`HDelete` is `h_delete` and `h_delete_dbg`: the program is done with the heap.

### FindRoots

No variables of its own: it adds to each state of `Heap` where `h_init` puts
the pages, where the blocks lie in them, which bits of the allocation map
`set_bits_in_alloc_map` sets for a block (two words a page, most significant
bit first) and which bit `is_allocated_on_heap` tests for an address. An
address is a number of bytes from `heap_start`. `sizeof(page_t)` is a constant.

The bit that is tested need not be the object's first one: `pages_before_ptr`
is one too large near the end of a page with many headers before it, and then
the address is taken back by one header too many, to an earlier slot of the
same page. `SlotsRecognised` says why this does no harm while the headers up to
a page are together no larger than a page (`BelowDrift`: the first 51 pages
with the code's sizes): pages are filled from the start, so an earlier slot is
marked too.

### ObjectHeader

The life of one header, a round of a loop a step: `SizeField` (`object_size`),
`SetField` and `SetStart` (`set_layout_header`), `Store` for the program's
writes, then `Interpret`, `SkipPadding`, `ReadStart`, `ReadNull`,
`ReadPointer`, `ReadData` and `InterpretEnds` for `interpret_header`. `bits`
are the bits of the header from the fourth on that are 1; bits 0 to 2 are
constant in a layout header and only tested on entry. `endAt` and `bitAt`
record where each field's bytes end and its bits begin.
`TotalSize` is the computation common to both allocation functions, through
`int` and `size_t` (`ToInt`, `ToSize`), with their widths as constants.
`Compacting` and `Heap` take headers by their meaning; `InterpretsLayout` is
what entitles them to it, for layouts that fit.

### LinkedList and AbstractList

A call is made (`Begin`), runs round by round, and answers. Its first step is
`Entry`: where `find_previous_node` and `find_previous_ptr` begin, which is
`last` for the index of the end. `append` and `prepend` are insertions at `size`
and 0. A freed node is taken out of `allocated` and erased, so that anything
that depended on it would go wrong; `malloc` returns any node that is not
allocated, so nodes are reused. `path` and `before` are history variables.

In `AbstractList` a call takes effect in one step between being made and being
answered. The refinement mapping is the sequence of the elements on the
path; while `apply_to_all` changes elements in place, or `clear` and `destroy`
free nodes, it is the sequence from before the call.

### Compacting

Memory is an array of 8-byte words. A pointer is the index of the word after a
header, and every word keeps what was last written there: reused memory shows
old headers and old fields, as in C. A header is a `layout`, a `size` or a
`forward` word; each carries the identity and kind of its object for the
properties' sake only.

The stack that is scanned consists of `Locals`, the program's variables, and
`Temps`, words of frames that are dead or the collector's own. `LeaveStale`
puts a pointer in a temp (a function that returned); `Clobber` changes a temp
at any point during a collection to NULL or to a pointer that the collector has
in its frames at that time (`CollectorWords`): what it scanned, what it took from
its list of expected pointers, moved or not, what it forwarded and where to. So
a word may change and change back, and the second traversal then trusts an
address that the first never moved; it stops at its assert. Temps are scanned first, as frames nearer the top
of the stack are. The program loads, stores, clears, writes raw objects,
allocates and calls `h_gc`; each iteration of a collector loop is one action
(`ScanWord`, `MoveSkip`/`MoveObject`/`MoveFails`,
`ForwardSkip`/`ForwardPointer`/`ForwardFails`).

A queue holds addresses of words, and what lies there when its turn comes may
be no pointer (the field of a stale object, over which a copy was made) or one
whose copy would be made over the object itself. C defines neither; the model
stops in state "wild_pointer" (`Readable`, `Overlaps`), as the failing assert of
`interpret_header` stops it in "not_a_bit_vector".

A copy is made in whole words (`MovedWords`): of an object whose size is no
multiple of 8 the last word is copied whole, where the code copies its first
four bytes and leaves padding. No pointer lies there.

`blocks`, `copies`, `allocations` and `collections` are history variables.
`blocks` is what the heap holds: it grows with an allocation, and when pages
are released it keeps exactly the objects whose slots are still marked in the
allocation map.

### ManagedHeap

`var` and `graph`: what each variable refers to and the kind and pointer
fields of each object. In any step objects to which nothing that stays refers
may disappear. The refinement mapping takes identities for addresses,
resolving forwarding addresses while a collection is under way. A pointer that
leads to no readable header is mapped to a value no abstract state has, so a
dangling variable breaks the refinement.

## 3. Runs

| Run | Bounds | Properties and what they show |
|---|---|---|
| `pages` | three pages of four slots and headers of 24 bytes, the heap's size no multiple of either; sizes 8, 12, 24 and raw 3, 40; 60 % | `HeapTypeOK`, `PageAccounting`, `ActiveIffUsed`, `EvacuatedPagesReleased`, `EvacuatedPagesFrozen`; `SlotsRecognised`, `AcceptedNearAllocation` of the root scan |
| `collector` | three pages of three slots; two objects "**", two variables, one changing stack word, three collections; 20 % | `CompactingTypeOK`, the two traversal invariants `NothingLostByMove` and `NoPointerForgotten`, the inductive invariant `CollectorIInv` they follow from, and `RefinesManagedHeap` |
| `precise` | two pages of three slots; three objects ("*" or "**i"), two variables, no stale word, two collections; 40 % | `NoDanglingPointer`, `CopiedOnce`, `HeadersReadable`, `ReclaimedIsNotNegative`, `GarbageReclaimed` |
| `stale` | two pages of three slots; two objects ("*" or a raw 8 bytes) and raw requests larger than a page, one variable, two changing stack words, three collections; 10 %, so that allocations collect | `ReachablePointersValid`, `NoPointerForgotten`; the liveness properties `CollectionEnds`, `AllocationEnds` |
| `linked_list` | four nodes, two elements, lists of up to three elements, indices from -1 to 4 | `ListTypeOK`, `PathIntact`, `MemorySafe`, the refinement `RefinesAbstractList`, and `CallsReturn` |
| `object_header` | headers of 12 bits, all layouts of up to five fields of the types "*", "l", "i", each pointer NULL or not; ints of 8 and size_ts of 10 bits, all raw sizes, pages of 64 bytes | `HeaderTypeOK`, `InterpretsLayout`, `WithinArray`, `RequestHonoured` |
| `raw_contents` | one raw object, one variable, one collection | violates `CopiesWholeObjects` |
| `passive_pages` | a page filled by a "*" and a "**", one empty page, one collection | violates `PassivePagesSuffice` |
| `stale_fields` | two objects "*", one variable, one changing word, two collections | violates `NoDanglingPointer` when one stack word is stale |
| `negative_reclaim` | one object "*", one variable, two changing words, three collections | violates `ReclaimedIsNotNegative` with stale words and three collections |
| `roots_tail` | two pages of four slots, headers of 24 bytes, two objects "*", one collection; 60 % | violates `ObjectsRecognised` |
| `header_capacity` | headers of 12 bits, layouts of up to eight fields, the most the assert lets through | violates `LayoutsDescribed` |

**Why the bounds are enough.** Two pointer fields and two variables give
sharing, cycles, garbage cycles and aliasing; three objects give chains and
objects reached only through moved ones. Two collections bring objects back
to the page they came from, over the remains of the first; three are needed
for a dangling field to be met at an address in use again. Three or four slots
a page make full pages, exact fits and the strict comparison of
`traverse_and_move` common. A changing stack word can be overwritten before and
after it is scanned, within each traversal and between the two. In `pages` the
headers of the later pages take more than a slot and the scanned range ends
inside the last page, so that both divisions round differently and the tested
bit differs from the object's own.
Lists of up to three elements have a first, an inner and a last one; the
fourth node is the sentinel, so a full list uses all memory and each freed node
comes back. Five fields of two bits overrun a header of 12 bits by two, so
layouts that fit, that lose the start bit and whose loop ends early all occur;
the raw sizes cover both overflows of an int and the wrap of a size_t.

**Fairness.** `FairSpec` has weak fairness of `Collector` and of `Placement`:
`h_gc` and the rest of an allocation are loops and straight-line code of the one
thread, which nothing else blocks. The program's own actions have none. In
the same way `FairSpec` of `LinkedList` has weak fairness of `Steps`, a call that
was made; making calls has none.
`AllocationEnds` counts a failed assert as an answer, because the code aborts.

**Deadlock** is checked everywhere: an aborted program takes `Stopped`.

**Mutants.** Each property of a passing run has a plausible bug of the code,
given as an operator before the definition it would replace (`...NotZeroed`,
`...KeepsMap`, `DropNothing`, ...), with which TLC finds the property violated.

### What the violated runs show

1. **Raw objects lose their contents when moved.** `interpret_header` returns
   NULL for a size header and `traverse_and_move` then sets `obj_size = 0`
   (`compacting.c:213`), although the comment above it promises to copy "all
   the objects (including headers)" (`compacting.c:145`). The copy gets one slot,
   whatever was requested: a program that then fills an object of more than 8
   bytes overwrites the header of the next one. Everything proved about objects
   is proved under the hypothesis `RawFitsSlot` for this reason.
2. **An empty page is not enough for a full one.** The strict `<` at
   `compacting.c:222` refuses the last slot, so a full page does not fit an
   empty one and the assert at line 229 stops the program. The comment at
   line 149 leaves it to allocation to ensure the room, and no allocation
   does.
3. **Fields left behind.** A word that the first traversal still trusted and
   that has changed before the second one: its object is moved, but its
   fields keep old addresses, against `compacting.c:148` ("to be remedied by
   a later traversal"). The program cannot reach such an object, so
   `collector` and `stale` still pass: `ReachablePointersValid`,
   `NothingLostByMove` and `NoPointerForgotten` are about what the program can
   reach (`Reachable`), and so hold however many collections there are. But
4. **the count goes below zero.** If a stale word brings such an object back
   in a later collection, its dangling field can lead to a copy made by that
   collection, which is copied again. `h_gc` returns the difference of two
   `size_t`, "number of bytes reclaimed" (`compacting.h:48`), and it wraps. In
   the same way the asserts of both traversals can fail, or a field lead into the
   middle of another object ("wild_pointer"). Hence `CopiedOnce`, `HeadersReadable` and
   `ReclaimedIsNotNegative` are claimed only for stacks without stale words.
5. **The end of the last pages is not scanned for.** `is_allocated_on_heap`
   refuses addresses from `heap_start + heap_size` on (`find_roots.c:28`), but
   with their headers the pages reach beyond it, by up to a page in a heap of
   52. An object there is allocated, marked, and lost at the next
   collection, against `find_roots.h:67`. In the run an object is allocated on
   the first of two pages, `h_gc` moves it to the second, the next one is placed
   beside it, and the scan does not know that one.
6. **60 fields are too many.** An "l" or "d" takes two bits of the header, and
   the assert counts fields (`allocation.c:34`). A layout that passes it may
   not fit: then the start bit is lost or the loop ends early, and
   `interpret_header` reads fewer fields than there are. What it does find
   still fits its array (`WithinArray`).

## 4. Proofs

`HeapProofs` proves that every reachable state of `Heap` satisfies `HeapIInv`,
for all values of the constants allowed by `HeapAssumption` (at least one
page, natural sizes). `PageAccounting` and `ActiveIffUsed` are not inductive
alone: `EndMove` resets the pages of a snapshot taken by `BeginMove`, so the
invariant must say that while the pages are evacuated the two arrays partition
the pages and the pages of the active array are all active. Then

- `TotalSizeFacts`: padding gives the least multiple of 16 that holds header
  and object;
- `UnpaddedTestSuffices`: if the free space is a multiple of 16 and larger
  than the unpadded size, the padded size fits. This is why testing one size and
  charging another is harmless;
- `BitsOfExtends`: the slots marked for a block extend exactly the slots below
  the next empty space;
- `ReservePreserves` and `EndMovePreserves` carry the page invariant over the
  two operations that change pages, and `HeapNextInv` puts the actions together.

`HeapInvariant` gives `HeapTypeCorrect`, `PageAccountingHolds`,
`ActiveIffUsedHolds`, `EvacuatedPagesReleasedHolds`; the action property
`EvacuatedPagesFrozenHolds` follows from the partition: the page chosen by a
move is in the passive array.

`CompactingProofs` proves `CompactingImplementsHeap`, `Spec => HeapSpec`: each
action of the program and the collector is a step of `Heap` or leaves the
pages alone. No invariant is needed, because a move happens only with a header
that `interpret_header` accepts. The page theorems so hold for the
composed system (`CompactingPageAccounting`,
`CompactingEvacuatedPagesFrozen`).

`FindRootsProofs`, from `FindRootsAssumption` (a `page_t` is whole words and no
larger than a page; two words of the map a page) and the page accounting of
`HeapProofs`: the bit tested for an address of page `p` belongs to `p`, and its
slot is that of the address or, when `pages_before_ptr` is one ahead, of the
address less a page header. Both lie below `next_empty_space` when the address does
(`SlotsRecognisedHolds`), and a marked slot found in this way is at most a
header away (`AcceptedNearAllocationHolds`).

`LinkedListProofs`, for any set of nodes and any arguments allowed by
`ListCallsAssumption` and `LinkedListAssumption`. `PathIntact` and
`MemorySafe` need `ListShape` (the nodes on the path are distinct: otherwise
linking one could cut the list elsewhere) and, for the loops, where each one is:
`CallPosition`, `SearchedSoFar`, `AppliedSoFar`, `FreedSoFar`. With this
invariant (`ListInvariant`) each step maps to a step of `AbstractList` or a
stutter (`ListRefinement`): the loops to stutters, the last step of a call to
`Return`, because what the loop has found out about the elements it has
passed is exactly the abstract answer.

`ObjectHeaderProofs`, for any header width, layouts and int width allowed by
`ObjectHeaderAssumption`. The invariant says how far each loop has come.
`Ends` lays the fields end to end in bytes, `Bits` end to end in bits,
downwards from the start bit to bit 3; `ReadSoFar` says that the reader is
between two fields, or in the middle of one of 8 bytes, at the matching bit
and byte, and has found the pointers of the fields before; `Counted` that the array
has room for as many as there are ones left. `Laid` and `NextField` turn this
into the next step of the reader. Hence `InterpretsLayoutHolds` for every layout
that fits and `WithinArrayHolds` for every layout. `GrantedSize` follows a
request through the int and back: below `2 * INT_LIMIT - 24` it is either
exact, or negative and so larger than a page as a `size_t`
(`RequestHonouredHolds`).

### The collector

`CollectorProofs`, for any heap, layouts, number of variables, stale words and
collections, from `CompactingAssumption` (the pointer fields of a layout lie in
the object, in order, at multiples of 8 bytes, whatever its size; a heap has two
pages at least) and the hypothesis
`RawFitsSlot`: raw objects are requested with at most 8 bytes. Without it the
theorems are false (finding 1): with raw objects of 24 bytes TLC finds
`ReachablePointersValid` violated after one collection. `stale` has requests of 48
bytes all the same; they never fit a page there.

None of the run's invariants is inductive. Stale words make the collector move
objects whose fields dangle, so what it reads and writes must be described for
*all* of memory, garbage and the remains in released pages included.
`CollectorIInv` has these parts.

- `HeapIInv`, and `TypesOK`: every word that is taken for a pointer has an odd
  index (headers lie at slots).
- `MemoryIntact`: after every header, be it old, new or a forwarding address,
  come the words of its object, in the same page and none of them a header; its
  pointer fields hold pointers or NULL; an object that begins below its page's
  `next_empty_space` ends there too. This is what a copy, which is placed over the
  remains of earlier objects, can rely on; `MemoryProofs` shows that
  `WriteObject`, `Relocate` and the writes to fields keep it.
- `RootsOK`: the lists of expected pointers are aligned with the queues, and
  every variable of the program is in them; stale entries are bound to nothing.
- `ReachableOK`: there is a set `S` of objects that the variables lead into and
  that is closed under fields. Between collections it is `Sound` (headers can be
  read, objects in use). While objects move it is `Moved`: the variables and the
  fields of moved objects lead to moved ones or wait in the queue, a moved object
  and its copy have the same kind, identity and fields, and no two have the same
  copy. While pointers are forwarded it is `Forwarded`: a field of a copy still
  has the old pointer, and waits in the queue once the copy was met, or has the new
  one.

The set is a witness and not `Reachable` itself, because it must survive the
program's writes, which make it smaller or not without any traversal of the
graph; that `Reachable` lies within every such set is immediate. Each action
has a lemma that carries `CollectorIInv` and the set over it (`MoveObjectKeeps`,
`ForwardPointerKeeps`, ...). At the end of a traversal the empty queue
removes the second alternative everywhere: that is the argument of both
`NothingIsLostByMove` and `NoPointerIsForgotten`. `ReachablePointersStayValid`
is what the program sees between collections, and `CompactingTypeCorrect` the
types.

`PreciseProofs`, with the hypothesis `NoStaleWords` besides (no words of the
stack but the program's variables; findings 3 and 4 show that it is needed).
Then the set is known: it is `blocks`, garbage included, and `PreciseIInv` adds

- `Identified`: no two objects have the same identity;
- `Expected`, `MovingFields`, `ForwardingFields`: whatever is in a list or a queue
  belongs to an object of the set, so no assert about headers fails
  (`HeadersStayReadable`), and in the second traversal no word waits twice;
- `AllMoved`: only what the program can reach is moved, each with the copy its
  header names (`EveryObjectIsCopiedOnce`);
- `AllForwarded`: in the second traversal the blocks are exactly the copies, and
  one that was not met has the fields of the original;
- `AllReached`: every closed subset of the old objects that the variables lead
  into is the whole set. When the queue is empty, the old objects of a closed set
  of copies are such a subset, so there is no garbage (`AllGarbageIsReclaimed`);
  and all fields are new ones (`NoPointerDangles`).

`CollectionNeverGrowsTheHeap` adds `BytesOK`: the sum of `next_empty_space`
over the pages is the sum of the sizes of the blocks, in the passive pages that
of the copies, which is that of the objects they are of. The sums are folds; the
lemmas about `Total` in `HeapProofs` (a summand changed, fewer summands,
zero) are proved by induction over the size of a set, with a set of numbers where
the library's induction theorems have an operator.

`CollectorIInv` is checked by the run `collector`. `PreciseIInv` and `BytesOK`
hold in all states of `precise` too (add them to the INVARIANTS of
`CollectorPrecise.cfg`), but take TLC longer than the run is worth.

### What is only model-checked

- Liveness (`CollectionEnds`, `AllocationEnds`, `CallsReturn`): fairness and
  ENABLED are out of the prover's reach.
- `RefinesManagedHeap`: the mapping goes through `Live`, a recursive function over
  the object graph, and what it computes for every graph would need an induction
  over data. `CollectorIInv` has what the step simulation needs otherwise
  (copies keep kind, identity and fields).
- The violated runs, naturally: a counterexample is its own proof.

## 5. Limits of the model

- The build is `-O0` (`Makefile:1`), so the program's variables live in its
  frames; `Dump_registers` in `find_roots.c` is never used, and a pointer held
  only in a register is not in the model.
- Stack words hold object addresses. Integers that look like addresses,
  addresses of headers and addresses inside objects, all of which the scan
  accepts, are left out.
- In `Compacting` `is_allocated_on_heap` is exact for the addresses of objects.
  `FindRoots` shows where that is so: for objects below
  `heap_start + heap_size` in the pages before the drift. The function reads
  `page_array[1]`, hence the assumption of two pages; for addresses inside the
  first `page_t` its offset wraps, and what it reads then is not modelled.
- In `Compacting` layouts fit their header (`Fits`); what is read of others is
  in `ObjectHeader`. Its pointer fields lie at multiples of 8 bytes: "**i" is
  among its layouts; "*i*", with a pointer at byte 12, is read in `ObjectHeader`
  but never moved. The program's structs are packed, as the layout strings
  assume: a C compiler pads an "i" before a "*".
- `interpret_header` is never called with NULL by the library, and that early
  return is left out.
- Lists have fewer than 2^31 elements, so that a size fits an index. A freed
  node is erased in the model; in C it keeps or loses its contents.
  `ioopm_list_iterator` is declared in `linked_list.h` and defined nowhere.
- `malloc`, `calloc` and `posix_memalign` succeed; `calloc(0)` returns
  non-NULL, as glibc's does (`interpret_header` of an object without
  pointers relies on it for the object's size).
- `h_alloc_raw` goes on with `page_array[-1]` when no page has room
  (`allocation.c:215`); the model stops there in state "undefined".
- In `Heap` sizes fit an `int`; `ObjectHeader` has those that do not. What the
  program writes never looks like a header.
- The read-only `h_avail` and `h_used` are left out.

## 6. Not modelled

`debug.h` and `print_linked_list` print. The demos and the CUnit tests are
programs that use the library; `Program` in `Compacting` makes any sequence of
calls they can make. `ioopm_ptr_cmp_func` is given to lists that are never
searched. Registers, signals and threads are not used by the library.

## 7. What could follow

1. The step simulation of `ManagedHeap`, with `Reachable` in the place of `Live`:
   both are the smallest closed set, and `Reachable` is defined without
   recursion.
2. `Compacting` with addresses that only look like pointers, using
   `FindRoots` for which of them the scan accepts.
