----------------------------- MODULE Compacting -----------------------------
(***************************************************************************)
(* The program's objects and the moving collection: h_alloc_struct and     *)
(* h_alloc_raw (allocation.c), find_gc_roots (find_roots.c), h_gc_dbg,     *)
(* traverse_and_move and traverse_and_forward (compacting.c), over the     *)
(* pages of module Heap.                                                   *)
(*                                                                         *)
(* Memory is an array of 8-byte words, page after page.  A pointer to an   *)
(* object is the index of the word after its header, as in the code, so a  *)
(* pointer that is no longer the start of an object meets whatever word    *)
(* lies before it.  Nothing is ever erased except by h_alloc_struct.       *)
(*                                                                         *)
(* The stack that find_gc_roots scans has two parts.  Locals are the       *)
(* program's pointer variables.  Temps are words of dead or of the         *)
(* collector's own frames, scanned first: they keep what an earlier call   *)
(* left in them and change while the collector runs.  Pointers the program *)
(* keeps only in registers do not exist here (the Makefile builds with     *)
(* -O0, and find_gc_roots does not look at registers).                     *)
(***************************************************************************)
EXTENDS Heap, Sequences

CONSTANTS
  PointerOffsets,  \* the pointer fields of a kind, as word offsets, in order
  NumTemps, NumLocals,
  MaxAllocations,  \* bound: how many objects the program asks for
  MaxCollections,  \* bound: how many collections there are
  NULL,
  DATA             \* what the program writes into a raw object

WORDS_PER_PAGE == 2 * BITS_PER_PAGE
Words == 0 .. page_amount * WORDS_PER_PAGE - 1
Slots == 1 .. NumTemps + NumLocals
Temps == 1 .. NumTemps
Locals == Slots \ Temps
Ids == 1 .. MaxAllocations

\* is_allocated_on_heap reads page_array[1], so a heap has two pages at least.
ASSUME CompactingAssumption ==
  /\ page_amount >= 2
  /\ PointerOffsets \in [Kinds -> Seq(Nat)]
  /\ \A k \in RawSizes : PointerOffsets[k] = <<>>
  /\ \A k \in Layouts : \A i \in DOMAIN PointerOffsets[k] :
       /\ PointerOffsets[k][i] < ObjectSize[k] \div 8
       /\ \A j \in 1 .. i - 1 : PointerOffsets[k][j] < PointerOffsets[k][i]
  /\ NumTemps \in Nat /\ NumLocals \in Nat \ {0}
  /\ MaxAllocations \in Nat /\ MaxCollections \in Nat
  /\ NULL \notin Int /\ DATA \notin Int /\ NULL # DATA

VARIABLES
  stack,               \* the scanned words: slots to pointers
  mem,
  dest,                \* the local that receives the allocation under way
  cursor,              \* current of find_gc_roots
  roots, expected1, expected2,
  queue, visited,      \* locals of the traversals
  initial_size_usage,  \* local of h_gc_dbg
  blocks,              \* history: the objects of the heap, by their pointers
  copies,              \* history: where the collection under way put them
  allocations,         \* history: how many objects were allocated
  collections          \* history: how many collections were begun

rootVars == <<cursor, roots, expected1, expected2>>
traversalVars == <<queue, visited>>
gcVars == <<rootVars, traversalVars, initial_size_usage>>
historyVars == <<blocks, copies, allocations, collections>>
vars == <<heapVars, stack, mem, dest, gcVars, historyVars>>

-----------------------------------------------------------------------------

PointerFields ==
  [k \in Kinds |-> {PointerOffsets[k][i] : i \in DOMAIN PointerOffsets[k]}]

\* The words of an object, the last one perhaps only in part.
ObjectWords(k) == (ObjectSize[k] + 7) \div 8

\* The words memory holds.  id names an object through its moves; it is in the
\* model only, as is everything of a forwarding address but the address.
Plain(v) == [tag |-> "plain", value |-> v]
Layout(k, i) == [tag |-> "layout", kind |-> k, id |-> i]
Size(k, i) == [tag |-> "size", kind |-> k, id |-> i]
Forward(a, k, i) == [tag |-> "forward", to |-> a, kind |-> k, id |-> i]

Word ==
  [tag : {"plain"}, value : Words \cup {NULL, DATA}]
    \cup [tag : {"layout"}, kind : Layouts, id : Ids]
    \cup [tag : {"size"}, kind : RawSizes, id : Ids]
    \cup [tag : {"forward"}, to : Words, kind : Kinds, id : Ids]

PageOf(v) == v \div WORDS_PER_PAGE
BitOf(v) == (v % WORDS_PER_PAGE) \div 2

\* Where the next object of page p will be.
ObjectAt(p) ==
  p * WORDS_PER_PAGE + next_empty_space[p] \div 8 + HEADER_SIZE \div 8

\* A word of the stack is taken for a pointer when its slot is marked.
is_allocated_on_heap(v) == v # NULL /\ BitOf(v) \in alloc_map[PageOf(v)]

header_is_forwarding_address(v) == mem[v - 1].tag = "forward"

\* interpret_header does not fail its assert.
Interpretable(v) ==
  mem[v - 1].tag \in {"layout", "size"} /\ mem[v - 1].kind \in Kinds

\* The words pointers are read from and written to: a void** of the code.
StackWord(s) == [area |-> "stack", at |-> s]
HeapWord(w) == [area |-> "heap", at |-> w]
Deref(loc) == IF loc.area = "stack" THEN stack[loc.at] ELSE mem[loc.at].value

\* What lies at loc can be followed.  A word that joined the queue with a stale
\* object may since be part of a copy, and no longer hold a pointer.
Readable(loc) ==
  loc.area = "heap" => mem[loc.at].tag = "plain" /\ mem[loc.at].value \in Words

\* The pointer fields of the object at v that are not NULL in memory m, by their
\* positions in PointerOffsets
NonNullFields(v, m) ==
  LET offsets == PointerOffsets[m[v - 1].kind]
  IN  {i \in DOMAIN offsets : m[v + offsets[i]].value # NULL}

\* Mutant of PointersOf: interpret_header stops at the first pointer.
PointersOfFirstOnly(v, m) ==
  [j \in 1 .. Cardinality({i \in NonNullFields(v, m) : i = 1}) |->
     HeapWord(v + PointerOffsets[m[v - 1].kind][1])]

\* interpret_header: where the pointers of the object at v are, except those
\* that are NULL, in the order of the fields.
PointersOf(v, m) ==
  LET fields == NonNullFields(v, m)
      nth(j) == CHOOSE i \in fields : Cardinality({l \in fields : l <= i}) = j
  IN  [j \in 1 .. Cardinality(fields) |->
         HeapWord(v + PointerOffsets[m[v - 1].kind][nth(j)])]

\* Mutant of WriteObject: no memset.
WriteObjectNotZeroed(m, v, k, i) ==
  [m EXCEPT ![v - 1] = IF k \in Layouts THEN Layout(k, i) ELSE Size(k, i)]

\* The header and the contents of a new object; h_alloc_struct zeroes it.
WriteObject(m, v, k, i) ==
  IF k \in Layouts
    THEN [w \in Words |-> IF w = v - 1 THEN Layout(k, i)
                         ELSE IF w \in v .. v + ObjectWords(k) - 1
                                THEN Plain(NULL)
                                ELSE m[w]]
    ELSE [m EXCEPT ![v - 1] = Size(k, i)]

\* The words traverse_and_move copies after the header, the last one perhaps
\* only in part: the rest of it is padding.
MovedWords(k) == (MovedBytes(k) + 7) \div 8

\* Mutant of CopyObject: the size does not count the header.
CopyObjectShort(m, from, to, n) ==
  [w \in Words |-> IF w \in to - 1 .. to + n - 2 THEN m[from + w - to]
                                                 ELSE m[w]]

\* memcpy of the header and of n words after it
CopyObject(m, from, to, n) ==
  [w \in Words |-> IF w \in to - 1 .. to + n - 1 THEN m[from + w - to]
                                                 ELSE m[w]]

\* Mutant of Relocate: the forwarding address is not left behind.
RelocateSilently(m, from, to) ==
  CopyObject(m, from, to, MovedWords(m[from - 1].kind))

\* The object is copied, then its old header says where to.
Relocate(m, from, to) ==
  LET k == m[from - 1].kind
  IN  [CopyObject(m, from, to, MovedWords(k))
         EXCEPT ![from - 1] = Forward(to, k, m[from - 1].id)]

\* memcpy is undefined on regions that overlap: the copy at to would be made
\* over the object at from, in the free space of its page.
Overlaps(from, to) ==
  from - to \in 0 .. MovedWords(mem[from - 1].kind)

\* Mutant of Drop: the list of expected pointers is never advanced.
DropNothing(s) == s

Drop(s) == IF s = <<>> THEN <<>> ELSE Tail(s)

\* The pointer at the head of the queue, and whether it is no longer what
\* find_gc_roots saw there.
Current == Deref(Head(queue))

Changed(expected) == expected # <<>> /\ Head(expected) # Current

-----------------------------------------------------------------------------

Init ==
  /\ HeapInit
  /\ stack = [s \in Slots |-> NULL]
  /\ mem = [w \in Words |-> Plain(NULL)]
  /\ dest = NONE
  /\ cursor = 1
  /\ roots = <<>> /\ expected1 = <<>> /\ expected2 = <<>>
  /\ queue = <<>> /\ visited = {}
  /\ initial_size_usage = 0
  /\ blocks = {} /\ copies = {} /\ allocations = 0 /\ collections = 0

(* The program between its calls of the heap *)

\* x = y->f
Load(x, y, f) ==
  /\ pc = "mutator"
  /\ stack[y] # NULL /\ f \in PointerFields[mem[stack[y] - 1].kind]
  /\ stack' = [stack EXCEPT ![x] = mem[stack[y] + f].value]
  /\ UNCHANGED <<heapVars, mem, dest, gcVars, historyVars>>

\* y->f = x
Store(y, f, x) ==
  /\ pc = "mutator"
  /\ stack[y] # NULL /\ f \in PointerFields[mem[stack[y] - 1].kind]
  /\ mem' = [mem EXCEPT ![stack[y] + f] = Plain(stack[x])]
  /\ UNCHANGED <<heapVars, stack, dest, gcVars, historyVars>>

\* x = NULL
Clear(x) ==
  /\ pc = "mutator"
  /\ stack' = [stack EXCEPT ![x] = NULL]
  /\ UNCHANGED <<heapVars, mem, dest, gcVars, historyVars>>

\* The program fills a raw object.
WriteRaw(x) ==
  /\ pc = "mutator"
  /\ stack[x] # NULL /\ mem[stack[x] - 1].tag = "size"
  /\ LET v == stack[x]
         n == ObjectWords(mem[v - 1].kind)
     IN  mem' = [w \in Words |-> IF w \in v .. v + n - 1 THEN Plain(DATA)
                                                         ELSE mem[w]]
  /\ UNCHANGED <<heapVars, stack, dest, gcVars, historyVars>>

\* A function the program calls keeps a copy of x in its frame and returns.
LeaveStale(t, x) ==
  /\ pc = "mutator"
  /\ stack' = [stack EXCEPT ![t] = stack[x]]
  /\ UNCHANGED <<heapVars, mem, dest, gcVars, historyVars>>

\* x = h_alloc_struct(h, k) or x = h_alloc_raw(h, k), as far as the threshold
Alloc(x, k) ==
  /\ allocations < MaxAllocations
  /\ OverThreshold => collections < MaxCollections
  /\ HAlloc(k)
  /\ dest' = x
  /\ IF OverThreshold
       THEN /\ initial_size_usage' = count_allocated_bytes_on_heap
            /\ collections' = collections + 1
       ELSE UNCHANGED <<initial_size_usage, collections>>
  /\ UNCHANGED <<stack, mem, rootVars, traversalVars, blocks, copies,
                 allocations>>

\* h_gc(h)
Gc ==
  /\ collections < MaxCollections
  /\ HGc
  /\ initial_size_usage' = count_allocated_bytes_on_heap
  /\ collections' = collections + 1
  /\ UNCHANGED <<stack, mem, dest, rootVars, traversalVars, blocks, copies,
                 allocations>>

\* The rest of an allocation: the header, the zeroed object, the page.
PlaceObject(p) ==
  /\ Place(p)
  /\ LET v == ObjectAt(p)
         i == allocations + 1
     IN  /\ stack' = [stack EXCEPT ![dest] = v]
         /\ mem' = WriteObject(mem, v, request, i)
         /\ blocks' = blocks \cup {v}
         /\ allocations' = i
  /\ dest' = NONE
  /\ UNCHANGED <<gcVars, copies, collections>>

PlaceObjectFails ==
  PlaceFails /\ UNCHANGED <<stack, mem, dest, gcVars, historyVars>>

-----------------------------------------------------------------------------
(* The collection *)

\* The pointers to objects that the collector has in its frames: those it
\* scanned; those it took from its list of expected pointers, moved or not, and
\* those it moved (a copy's address is tagged or points to the header there);
\* and those it forwarded, with their new addresses.
CollectorWords ==
  CASE pc = "scan" -> {expected1[i] : i \in DOMAIN expected1}
    [] pc = "move" ->
         {expected2[i] : i \in 1 .. Len(expected2) - Len(expected1)}
           \cup {b \in blocks : header_is_forwarding_address(b)}
    [] pc = "forward" -> visited \cup {mem[v - 1].to : v \in visited}

\* While the collector runs, its calls overwrite words it has scanned.
Clobber(t) ==
  /\ pc \in CollectorPcs
  /\ \E v \in CollectorWords \cup {NULL} : stack' = [stack EXCEPT ![t] = v]
  /\ UNCHANGED <<heapVars, mem, dest, gcVars, historyVars>>

\* One round of the loop of find_gc_roots
ScanWord ==
  /\ pc = "scan" /\ cursor \in Slots
  /\ cursor' = cursor + 1
  /\ LET v == stack[cursor]
     IN  IF is_allocated_on_heap(v)
           THEN /\ roots' = Append(roots, StackWord(cursor))
                /\ expected1' = Append(expected1, v)
                /\ expected2' = Append(expected2, v)
           ELSE UNCHANGED <<roots, expected1, expected2>>
  /\ UNCHANGED <<heapVars, stack, mem, dest, traversalVars,
                 initial_size_usage, historyVars>>

StartMove ==
  /\ BeginMove /\ cursor \notin Slots
  /\ queue' = roots
  /\ UNCHANGED <<stack, mem, dest, rootVars, visited, initial_size_usage,
                 historyVars>>

\* Mutant of MoveSkip: the skipped pointer stays in the queue.
MoveSkipNotRemoved ==
  /\ pc = "move" /\ queue # <<>>
  /\ ~Changed(expected1) =>
       Readable(Head(queue)) /\ header_is_forwarding_address(Current)
  /\ UNCHANGED vars

\* The head of the queue changed since it was scanned, or was moved before.
MoveSkip ==
  /\ pc = "move" /\ queue # <<>>
  /\ ~Changed(expected1) =>
       Readable(Head(queue)) /\ header_is_forwarding_address(Current)
  /\ queue' = Tail(queue)
  /\ expected1' = Drop(expected1)
  /\ UNCHANGED <<heapVars, stack, mem, dest, cursor, roots, expected2,
                 visited, initial_size_usage, historyVars>>

\* The head of the queue is to be moved now.
Moving ==
  /\ pc = "move" /\ queue # <<>>
  /\ ~Changed(expected1)
  /\ Readable(Head(queue)) => ~header_is_forwarding_address(Current)

MoveObject(p) ==
  /\ Moving /\ Readable(Head(queue)) /\ Interpretable(Current)
  /\ LET from == Current
         to   == ObjectAt(p)
     IN  /\ Evacuate(mem[from - 1].kind, p)
         /\ ~Overlaps(from, to)
         /\ mem' = Relocate(mem, from, to)
         /\ copies' = copies \cup {to}
         /\ queue' = Tail(queue) \o PointersOf(from, mem)
  /\ expected1' = Drop(expected1)
  /\ UNCHANGED <<stack, dest, cursor, roots, expected2, visited,
                 initial_size_usage, blocks, allocations, collections>>

\* The head of the queue is no pointer, leads to no header or cannot be copied.
MoveFails ==
  /\ Moving
  /\ \/ /\ ~Readable(Head(queue))
        /\ HeaderAssertFails /\ pc' = "wild_pointer"
     \/ /\ Readable(Head(queue)) /\ ~Interpretable(Current)
        /\ HeaderAssertFails /\ pc' = "not_a_bit_vector"
     \/ /\ Readable(Head(queue)) /\ Interpretable(Current)
        /\ LET k == mem[Current - 1].kind
           IN  \/ EvacuateFails(k)
               \/ /\ \E p \in Pages :
                       MovesTo(p, k) /\ Overlaps(Current, ObjectAt(p))
                  /\ HeaderAssertFails /\ pc' = "wild_pointer"
  /\ UNCHANGED <<stack, mem, dest, gcVars, historyVars>>

\* The evacuated pages are emptied; what the allocation maps still mark is what
\* the heap holds.
StartForward ==
  /\ EndMove /\ queue = <<>>
  /\ queue' = roots
  /\ blocks' = {b \in blocks \cup copies : is_allocated_on_heap(b)'}
  /\ UNCHANGED <<stack, mem, dest, rootVars, visited, initial_size_usage,
                 copies, allocations, collections>>

\* Mutant of FirstVisit: no list of visited objects.
FirstVisitAlways(from) == TRUE

\* traverse_and_forward follows the pointers of a copy once.
FirstVisit(from) == from \notin visited

ForwardSkip ==
  /\ pc = "forward" /\ queue # <<>> /\ Changed(expected2)
  /\ queue' = Tail(queue)
  /\ expected2' = Drop(expected2)
  /\ UNCHANGED <<heapVars, stack, mem, dest, cursor, roots, expected1,
                 visited, initial_size_usage, historyVars>>

\* The pointer at the head of the queue is replaced, and the pointers of the
\* copy join the queue when it is met for the first time.
ForwardPointer ==
  /\ pc = "forward" /\ queue # <<>> /\ ~Changed(expected2)
  /\ header_is_forwarding_address(Current)
  /\ LET from == Current
         to   == mem[from - 1].to
         loc  == Head(queue)
     IN  /\ IF loc.area = "stack"
              THEN /\ stack' = [stack EXCEPT ![loc.at] = to]
                   /\ UNCHANGED mem
              ELSE /\ mem' = [mem EXCEPT ![loc.at] = Plain(to)]
                   /\ UNCHANGED stack
         /\ FirstVisit(from) => Interpretable(to)
         /\ visited' = visited \cup {from}
         /\ queue' = IF FirstVisit(from)
                       THEN Tail(queue) \o PointersOf(to, mem')
                       ELSE Tail(queue)
  /\ expected2' = Drop(expected2)
  /\ UNCHANGED <<heapVars, dest, cursor, roots, expected1,
                 initial_size_usage, historyVars>>

ForwardFails ==
  /\ pc = "forward" /\ queue # <<>> /\ ~Changed(expected2)
  /\ HeaderAssertFails
  /\ IF header_is_forwarding_address(Current)
       THEN /\ pc' = "not_a_bit_vector"
            /\ FirstVisit(Current) /\ ~Interpretable(mem[Current - 1].to)
       ELSE pc' = "not_forwarded"
  /\ UNCHANGED <<stack, mem, dest, gcVars, historyVars>>

\* h_gc_dbg returns; its lists are destroyed.
FinishGc ==
  /\ EndForward /\ queue = <<>>
  /\ cursor' = 1
  /\ roots' = <<>> /\ expected1' = <<>> /\ expected2' = <<>>
  /\ visited' = {}
  /\ initial_size_usage' = 0
  /\ copies' = {}
  /\ UNCHANGED <<stack, mem, dest, queue, blocks, allocations, collections>>

-----------------------------------------------------------------------------

Program ==
  \/ \E x \in Locals, k \in Kinds : Alloc(x, k)
  \/ \E x, y \in Locals : \E f \in UNION {PointerFields[k] : k \in Kinds} :
       Load(x, y, f) \/ Store(y, f, x)
  \/ \E x \in Locals : Clear(x) \/ WriteRaw(x)
  \/ \E t \in Temps, x \in Locals : LeaveStale(t, x)
  \/ Gc

\* What h_gc and the rest of an allocation do by themselves.
Collector ==
  \/ ScanWord \/ StartMove
  \/ MoveSkip \/ MoveFails \/ \E p \in Pages : MoveObject(p)
  \/ StartForward
  \/ ForwardSkip \/ ForwardPointer \/ ForwardFails
  \/ FinishGc

Placement == PlaceObjectFails \/ \E p \in Pages : PlaceObject(p)

Next ==
  \/ Program
  \/ Collector
  \/ Placement
  \/ \E t \in Temps : Clobber(t)
  \/ Stopped /\ UNCHANGED <<stack, mem, dest, gcVars, historyVars>>

Spec == Init /\ [][Next]_vars

\* One thread runs: inside h_gc and h_alloc_... it keeps taking steps.  The
\* program itself need not call anything.
FairSpec == Spec /\ WF_vars(Collector) /\ WF_vars(Placement)

-----------------------------------------------------------------------------
(* Properties *)

\* The page a block lies in is being evacuated or has been (and not yet
\* filled again): v is an address of before the collection.
IsOld(v) == PageOf(v) \in active_page_array

IsForwarded(v) == header_is_forwarding_address(v)

\* The object a pointer stands for while a collection moves objects
Resolve(v) == IF v # NULL /\ IsOld(v) /\ IsForwarded(v) THEN mem[v - 1].to ELSE v

KindOf(v) == mem[v - 1].kind
IdOf(v) == mem[v - 1].id

\* The words that hold the pointers of the object at v.
FieldsOf(v) == {v + f : f \in PointerFields[KindOf(v)]}

Pending(loc) == \E i \in DOMAIN queue : queue[i] = loc

CompactingTypeOK ==
  /\ HeapTypeOK
  /\ stack \in [Slots -> Words \cup {NULL}]
  /\ mem \in [Words -> Word]
  /\ dest \in Locals \cup {NONE}
  /\ cursor \in 1 .. NumTemps + NumLocals + 1
  /\ \A i \in DOMAIN roots : roots[i] \in {StackWord(s) : s \in Slots}
  /\ expected1 \in Seq(Words) /\ expected2 \in Seq(Words)
  /\ \A i \in DOMAIN queue :
       queue[i] \in {StackWord(s) : s \in Slots} \cup
                    {HeapWord(w) : w \in Words}
  /\ visited \subseteq Words
  /\ initial_size_usage \in Nat
  /\ blocks \subseteq Words /\ copies \subseteq Words
  /\ allocations \in 0 .. MaxAllocations
  /\ collections \in 0 .. MaxCollections

\* Whenever the program runs, or an allocation is about to be made, no
\* variable and no pointer field of an object, reachable or not, dangles: each
\* is NULL or points to an object with a readable header.
NoDanglingPointer ==
  pc \in {"mutator", "scan", "place"} =>
    /\ \A x \in Locals : stack[x] \in blocks \cup {NULL}
    /\ \A b \in blocks :
         /\ Interpretable(b)
         /\ \A w \in FieldsOf(b) :
              mem[w] \in {Plain(v) : v \in blocks \cup {NULL}}

\* A set of objects closed under the pointers of its members
Closed(S) ==
  \A b \in S : \A w \in FieldsOf(b) : mem[w].value \in S \cup {NULL}

\* The objects the program can reach: those that are in every closed set its
\* variables point into
Reachable ==
  {b \in blocks : \A S \in SUBSET blocks :
     (\A x \in Locals : stack[x] \in S \cup {NULL}) /\ Closed(S) => b \in S}

\* Whatever stale words an earlier collection met: whenever the program runs, or
\* an allocation is about to be made, every pointer that can be reached from a
\* variable is NULL or leads to an object with a readable header.
ReachablePointersValid ==
  pc \in {"mutator", "scan", "place"} =>
    /\ \A x \in Locals : stack[x] \in Reachable \cup {NULL}
    /\ \A b \in Reachable : Interpretable(b)
    /\ Closed(Reachable)

\* The tri-colour invariant of traverse_and_move: a pointer of the program, or
\* of an object the program can reach that was already moved, leads to an object
\* that was moved or is waiting in the queue.  An object is lost exactly when
\* this breaks.
NothingLostByMove ==
  pc = "move" =>
    /\ \A x \in Locals :
         stack[x] # NULL => IsForwarded(stack[x]) \/ Pending(StackWord(x))
    /\ \A b \in Reachable : IsForwarded(b) =>
         /\ mem[b - 1].to \in copies
         /\ \A w \in FieldsOf(b) :
              mem[w].value # NULL =>
                IsForwarded(mem[w].value) \/ Pending(HeapWord(w))

\* The same for traverse_and_forward: there is a set of copies the traversal has
\* met such that each variable, and each field of a copy in the set, leads into
\* the set or is waiting in the queue.  When the queue is empty, the set is the
\* heap the program goes on with.
NoPointerForgotten ==
  pc = "forward" =>
    \E S \in SUBSET (copies \cap {mem[v - 1].to : v \in visited}) :
      /\ \A x \in Locals :
           stack[x] \in S \cup {NULL} \/ Pending(StackWord(x))
      /\ \A c \in S : \A w \in FieldsOf(c) :
           mem[w].value \in S \cup {NULL} \/ Pending(HeapWord(w))

\* An object reached over several paths, or round a cycle, is copied once.
CopiedOnce ==
  /\ \A a, b \in copies : IdOf(a) = IdOf(b) => a = b
  /\ pc = "move" =>
       \A a, b \in blocks :
         /\ IsForwarded(a) /\ IsForwarded(b) /\ Resolve(a) = Resolve(b) => a = b
         /\ IsForwarded(a) => a \notin copies

\* As long as no scanned word is stale, no assert of the collector fails but the
\* one about the room left in passive pages.
HeadersReadable ==
  pc \notin {"not_a_bit_vector", "not_forwarded", "wild_pointer"}

\* h_gc_dbg returns the difference of two size_t: it must not go below zero.
ReclaimedIsNotNegative ==
  pc = "forward" => count_allocated_bytes_on_heap <= initial_size_usage

\* When h_gc returns, every object left is reachable from a word of the stack:
\* cycles of garbage are reclaimed too.
GarbageReclaimed ==
  [][pc = "forward" /\ pc' \in {"mutator", "place"} =>
       \A S \in SUBSET blocks :
         (\A s \in Slots : stack[s] \in S \cup {NULL}) /\ Closed(S)
           => S = blocks]_vars

\* A collection comes to its end, whatever cycles the objects form, and the
\* allocation that asked for it is answered, unless an assert stops the program.
CollectionEnds == pc \in CollectorPcs ~> pc \notin CollectorPcs
AllocationEnds == request # NONE ~> (request = NONE \/ pc \in StoppedPcs)

\* "copies all the objects (including headers)": header and contents
CopiesWholeObjects ==
  [][\A b \in blocks :
       ~IsForwarded(b) /\ IsForwarded(b)' =>
         \A i \in 0 .. ObjectWords(mem[b - 1].kind) - 1 :
           mem'[mem'[b - 1].to + i] = mem[b + i]]_vars

\* "that there are sufficiently many passive pages to fit all currently active
\* objects [...] allocation must ensure they exist!": at least when as many
\* pages are passive as are active.
PassivePagesSuffice ==
  Cardinality(active_page_array) <= Cardinality(passive_page_array)
    => pc # "no_passive_page"

\* The objects the program can reach, one field further with each step
Objects(V) == {v \in V \ {NULL} : Interpretable(v)}

Reach(S) ==
  S \cup Objects({Resolve(mem[w].value) : w \in UNION {FieldsOf(b) : b \in S}})

Live ==
  LET within[n \in 0 .. MaxAllocations] ==
        IF n = 0 THEN Objects({Resolve(stack[x]) : x \in Locals})
                 ELSE Reach(within[n - 1])
  IN  within[MaxAllocations]

\* What the program takes a pointer for: DATA when it leads to no object
Identity(v) ==
  IF v = NULL THEN NULL
  ELSE IF Interpretable(Resolve(v)) THEN IdOf(Resolve(v)) ELSE DATA

\* The objects of S with their pointers, by identity
GraphOf(S) ==
  [i \in {IdOf(b) : b \in S} |->
     LET b == CHOOSE c \in S : IdOf(c) = i
     IN  [kind |-> KindOf(b),
          fields |-> [f \in PointerFields[KindOf(b)] |->
                        Identity(mem[b + f].value)]]]

=============================================================================
