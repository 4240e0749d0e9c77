------------------------- MODULE CollectorInvariant -------------------------
(***************************************************************************)
(* The inductive invariant of module Compacting: what memory looks like in *)
(* every reachable state, garbage and the remains in released pages        *)
(* included, and what holds of the objects the program can reach at each   *)
(* stage of a collection, whatever stale words the stack has.              *)
(***************************************************************************)
EXTENDS Compacting

\* A moved raw object keeps one slot, whatever was requested
\* (traverse_and_move takes its size for 0).  The program may write all it
\* requested, so only requests of up to that slot are safe to move at all.
RawFitsSlot ==
  \A k \in RawSizes : ObjectSize[k] <= MIN_OBJECT_SIZE - HEADER_SIZE

\* Headers lie at even words, objects at odd ones.
Pointers == {v \in Words : v % 2 = 1}

Offset(w) == w % WORDS_PER_PAGE

\* Words of page p in use
Used(p) == next_empty_space[p] \div 8

InUse(w) == Offset(w) < Used(PageOf(w))

IsHeader(h) == mem[h].tag # "plain"

\* The words memory comes to hold: every pointer in it is one of an object that
\* is or was there.
MemoryWord ==
  [tag : {"plain"}, value : Pointers \cup {NULL, DATA}]
    \cup [tag : {"layout"}, kind : Layouts, id : Ids]
    \cup [tag : {"size"}, kind : RawSizes, id : Ids]
    \cup [tag : {"forward"}, to : Pointers, kind : Kinds, id : Ids]

\* After the header h come the words of its object, in the same page and
\* holding no header, its pointer fields among them; of an object that begins
\* in use, all words are in use.
HeaderIntact(h) ==
  LET n == ObjectWords(mem[h].kind)
  IN  /\ h % 2 = 0
      /\ Offset(h) + n < WORDS_PER_PAGE
      /\ \A i \in 1 .. n : ~IsHeader(h + i)
      /\ \A f \in PointerFields[mem[h].kind] :
           mem[h + 1 + f].value \in Pointers \cup {NULL}
      /\ InUse(h) => Offset(h) + n < Used(PageOf(h))

MemoryIntact == \A h \in Words : IsHeader(h) => HeaderIntact(h)

\* w holds a pointer field of an object whose header can be read.
IsField(w) ==
  \E b \in Pointers : Interpretable(b) /\ w \in FieldsOf(b)

StackWords == {StackWord(s) : s \in Slots}
QueueWords == StackWords \cup {HeapWord(w) : w \in Words}

\* The types of the variables; those of the pages are HeapIInv's business.
TypesOK ==
  /\ stack \in [Slots -> Pointers \cup {NULL}]
  /\ mem \in [Words -> MemoryWord]
  /\ dest \in Locals \cup {NONE}
  /\ cursor \in 1 .. NumTemps + NumLocals + 1
  /\ roots \in Seq(StackWords)
  /\ expected1 \in Seq(Pointers) /\ expected2 \in Seq(Pointers)
  /\ queue \in Seq(QueueWords)
  /\ visited \subseteq Pointers
  /\ blocks \subseteq Pointers /\ copies \subseteq Pointers
  /\ allocations \in 0 .. MaxAllocations
  /\ collections \in 0 .. MaxCollections
  /\ request # NONE => dest \in Locals /\ allocations < MaxAllocations

-----------------------------------------------------------------------------
(* The lists of find_gc_roots *)

\* List q begins with words of the stack st, each once, with what was found in
\* them in e.  The program's variables do not change, so they still hold it.
Matches(q, e, st) ==
  /\ Len(e) <= Len(q)
  /\ \A i \in 1 .. Len(e) :
       /\ q[i] \in StackWords
       /\ q[i].at \in Locals => st[q[i].at] = e[i]
       /\ \A j \in 1 .. i - 1 : q[j].at < q[i].at
  /\ \A i \in Len(e) + 1 .. Len(q) : q[i].area = "heap"

InList(q, loc) == \E i \in DOMAIN q : q[i] = loc

RootsOK ==
  /\ pc \in {"mutator", "place"} =>
       /\ cursor = 1
       /\ roots = <<>> /\ expected1 = <<>> /\ expected2 = <<>>
       /\ visited = {} /\ copies = {}
  /\ pc \in {"mutator", "place", "scan"} => queue = <<>>
  /\ pc = "scan" =>
       /\ Matches(roots, expected1, stack) /\ Matches(roots, expected2, stack)
       /\ Len(roots) = Len(expected1) /\ Len(roots) = Len(expected2)
       /\ \A i \in DOMAIN roots : roots[i].at < cursor
       /\ \A x \in Locals :
            x < cursor /\ stack[x] # NULL => InList(roots, StackWord(x))
  /\ pc \in {"scan", "move"} => visited = {}
  /\ pc = "scan" => copies = {}
  /\ pc = "move" =>
       /\ Matches(queue, expected1, stack) /\ Matches(roots, expected2, stack)
       /\ Len(roots) = Len(expected2)
       /\ \A x \in Locals : stack[x] # NULL => InList(roots, StackWord(x))
  /\ pc = "forward" =>
       /\ Matches(queue, expected2, stack)
       /\ \A v \in visited : IsForwarded(v)
       /\ \A i \in DOMAIN queue : queue[i].area = "heap" =>
            IsField(queue[i].at) /\ mem[queue[i].at].value # NULL

-----------------------------------------------------------------------------
(* The objects the program can reach: S is a set of objects that its        *)
(* variables point into and that is closed under their pointers.            *)

FieldsWithin(b, S) == \A w \in FieldsOf(b) : mem[w].value \in S \cup {NULL}

\* Between collections, and until the objects move
Sound(S) ==
  /\ \A x \in Locals : stack[x] \in S \cup {NULL}
  /\ \A b \in S : Interpretable(b) /\ InUse(b - 1) /\ FieldsWithin(b, S)

\* The object at c is the copy of the one at b, whose header says so.
CopyOf(b, c) ==
  /\ IsForwarded(b) /\ mem[b - 1].to = c
  /\ c \in copies
  /\ PageOf(c - 1) \in passive_page_array /\ InUse(c - 1)
  /\ IsHeader(c - 1)
  /\ KindOf(c) = KindOf(b) /\ IdOf(c) = IdOf(b)

SameFields(b, c) ==
  \A f \in PointerFields[KindOf(b)] : mem[c + f].value = mem[b + f].value

\* No two objects of S have the same copy.
CopiesDistinct(S) ==
  \A a, b \in S :
    IsForwarded(a) /\ IsForwarded(b) /\ mem[a - 1].to = mem[b - 1].to => a = b

\* While traverse_and_move runs
Moved(S) ==
  /\ \A x \in Locals : stack[x] # NULL =>
       stack[x] \in S /\ (IsForwarded(stack[x]) \/ Pending(StackWord(x)))
  /\ \A b \in S :
       /\ PageOf(b - 1) \in active_page_array
       /\ IsHeader(b - 1) /\ FieldsWithin(b, S)
       /\ IsForwarded(b) =>
            /\ CopyOf(b, mem[b - 1].to) /\ SameFields(b, mem[b - 1].to)
            /\ \A w \in FieldsOf(b) : mem[w].value # NULL =>
                 IsForwarded(mem[w].value) \/ Pending(HeapWord(w))
  /\ CopiesDistinct(S)

\* Field f of the copy of b: still the old pointer, or the new one, and then the
\* object it leads to was met.
FieldForwarded(b, f) ==
  LET old == mem[b + f].value
  IN  old \in visited /\ mem[mem[b - 1].to + f].value = mem[old - 1].to

\* While traverse_and_forward runs, S are the old objects
Forwarded(S) ==
  /\ \A x \in Locals :
       \/ stack[x] = NULL
       \/ stack[x] \in S /\ Pending(StackWord(x))
       \/ \E b \in S \cap visited : stack[x] = mem[b - 1].to
  /\ \A b \in S :
       /\ PageOf(b - 1) \in active_page_array
       /\ CopyOf(b, mem[b - 1].to) /\ mem[b - 1].to \in blocks
       /\ FieldsWithin(b, S)
       /\ b \in visited => Interpretable(mem[b - 1].to)
       /\ \A f \in PointerFields[KindOf(b)] :
            LET old == mem[b + f].value
                c   == mem[b - 1].to
            IN  /\ mem[c + f].value = old \/ FieldForwarded(b, f)
                /\ b \in visited /\ old # NULL =>
                     FieldForwarded(b, f) \/ Pending(HeapWord(c + f))
  /\ CopiesDistinct(S)

ReachableOK ==
  /\ pc \in {"mutator", "place", "scan"} => \E S \in SUBSET blocks : Sound(S)
  /\ pc = "move" => \E S \in SUBSET blocks : Moved(S)
  /\ pc = "forward" =>
       \E S \in SUBSET {v \in Pointers : IsForwarded(v)} : Forwarded(S)

CollectorIInv ==
  /\ HeapIInv
  /\ TypesOK
  /\ MemoryIntact
  /\ RootsOK
  /\ ReachableOK

-----------------------------------------------------------------------------
(* Without stale words, everything the collector meets is an object of the  *)
(* program: the invariant is then about the whole heap, garbage included.   *)

NoStaleWords == NumTemps = 0

\* Objects keep their identities, and no two have the same.
Identified(S) ==
  /\ \A b \in S : IdOf(b) <= allocations
  /\ \A a, b \in S : IdOf(a) = IdOf(b) => a = b

CopiesOf(S) == {mem[b - 1].to : b \in S}

\* The words of the queue in traverse_and_move are fields of objects it moved.
MovingFields(S) ==
  \A i \in DOMAIN queue : queue[i].area = "heap" =>
    \E b \in S : /\ IsForwarded(b) /\ queue[i].at \in FieldsOf(b)
                 /\ mem[queue[i].at].value # NULL

\* Only what can be reached was moved.
AllMoved(S) ==
  /\ copies = CopiesOf({b \in S : IsForwarded(b)})
  /\ \A b \in S : IsForwarded(b) =>
       b \in Reachable /\ Interpretable(mem[b - 1].to)

\* The words of the queue in traverse_and_forward are fields of copies it met,
\* each of them once, and still have the old pointers.
ForwardingFields(S) ==
  /\ \A i \in DOMAIN queue : queue[i].area = "heap" =>
       \E b \in S \cap visited : \E f \in PointerFields[KindOf(b)] :
         /\ queue[i] = HeapWord(mem[b - 1].to + f)
         /\ mem[b + f].value # NULL
         /\ mem[mem[b - 1].to + f].value = mem[b + f].value
  /\ \A i, j \in DOMAIN queue : queue[i] = queue[j] => i = j

\* The old objects S are what the program could reach when the collection began:
\* they are in every closed set of them its variables lead into.
AllReached(S) ==
  \A Q \in SUBSET S :
    /\ \A x \in Locals :
         stack[x] \in Q \cup {NULL} \/ \E b \in Q : stack[x] = mem[b - 1].to
    /\ \A b \in Q : FieldsWithin(b, Q)
    => Q = S

AllForwarded(S) ==
  /\ copies = CopiesOf(S) /\ blocks = copies
  /\ visited \subseteq S
  /\ \A b \in S :
       /\ Interpretable(mem[b - 1].to)
       /\ b \notin visited => SameFields(b, mem[b - 1].to)

\* What find_gc_roots found were objects.
Expected(e, S) == \A i \in DOMAIN e : e[i] \in S

PreciseOK ==
  /\ pc \in {"mutator", "place", "scan"} => Sound(blocks) /\ Identified(blocks)
  /\ pc = "scan" => Expected(expected1, blocks) /\ Expected(expected2, blocks)
  /\ pc = "move" =>
       /\ Moved(blocks) /\ Identified(blocks)
       /\ Expected(expected1, blocks) /\ Expected(expected2, blocks)
       /\ MovingFields(blocks) /\ AllMoved(blocks)
  /\ pc = "forward" =>
       \E S \in SUBSET {v \in Pointers : IsForwarded(v)} :
         /\ Forwarded(S) /\ Identified(S) /\ Expected(expected2, S)
         /\ ForwardingFields(S) /\ AllForwarded(S) /\ AllReached(S)

PreciseIInv == CollectorIInv /\ PreciseOK /\ HeadersReadable

\* The bytes of the blocks of the objects in B, header and padding included,
\* when memory is m
BlockBytes(m, B) ==
  [v \in Words |-> IF v \in B THEN TotalSize(ObjectSize[m[v - 1].kind]) ELSE 0]

BytesOf(m, B) == Total(BlockBytes(m, B), Words)

\* What was put into the pages that were passive when the traversal started
CopiedBytes ==
  [p \in Pages |-> IF p \in passive_page_array THEN next_empty_space[p] ELSE 0]

PassiveBytes == Total(CopiedBytes, Pages)

\* The pages hold the blocks and nothing else; the copies take no more than the
\* objects they are of.
BytesOK ==
  /\ pc \in {"mutator", "place", "scan"} =>
       count_allocated_bytes_on_heap = BytesOf(mem, blocks)
  /\ pc \in {"scan", "move"} => initial_size_usage = BytesOf(mem, blocks)
  /\ pc = "move" =>
       /\ PassiveBytes = BytesOf(mem, copies)
       /\ PassiveBytes = BytesOf(mem, {b \in blocks : IsForwarded(b)})
  /\ pc = "forward" =>
       /\ count_allocated_bytes_on_heap = BytesOf(mem, blocks)
       /\ count_allocated_bytes_on_heap <= initial_size_usage

=============================================================================
