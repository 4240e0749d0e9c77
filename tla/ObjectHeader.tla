---------------------------- MODULE ObjectHeader ----------------------------
(***************************************************************************)
(* The header of an object: h_alloc_struct works out the object's size and *)
(* writes its layout down as bits (allocation.c), and interpret_header     *)
(* finds the object's pointers and its size from the bits again            *)
(* (compacting.c).  Heap and Compacting take for granted that what is read *)
(* is what was written; here each round of the loops is a step.  Objects   *)
(* of h_alloc_raw have their size in the header instead.                   *)
(***************************************************************************)
EXTENDS Integers, Sequences, FiniteSets

CONSTANTS
  Layouts,      \* the layout strings, as sequences of field types
  RawSizes,     \* the sizes that are asked for
  HEADER_BITS,  \* HEADER_SIZE * 8: 64
  INT_LIMIT,    \* an int is less than this: 2^31
  SIZE_LIMIT,   \* a size_t is less than this: 2^64
  PAGE_SIZE     \* 2048

HEADER_SIZE == 8

FieldTypes == {"*", "l", "d", "i"}

\* The types that take two bits of the header
Wide == {"l", "d"}

ASSUME ObjectHeaderAssumption ==
  /\ Layouts \subseteq Seq(FieldTypes)
  /\ HEADER_BITS \in Nat /\ HEADER_BITS >= 8
  /\ INT_LIMIT \in Nat /\ PAGE_SIZE \in 0 .. INT_LIMIT - 1
  /\ SIZE_LIMIT \in Nat /\ SIZE_LIMIT > HEADER_BITS
  /\ SIZE_LIMIT >= 4 * INT_LIMIT
  /\ RawSizes \subseteq 0 .. SIZE_LIMIT - 1

VARIABLES
  pc, layout,
  request,        \* the size that is asked for
  reserved,       \* total_size
  filled,         \* the fields, by number, that hold something else than zeros
  index, offset,  \* the locals of the loops of h_alloc_struct
  bits,           \* the bits of the header from b3 on that are 1
  i, current_offset, padding_cleared,   \* the locals of interpret_header,
  count, capacity, pointer_array,       \* capacity being what it allocates
  endAt,          \* history: the byte at which each field ends
  bitAt           \* history: the lowest bit of each field, and of the start

requestVars == <<layout, request, reserved>>
writeVars == <<index, offset, bits>>
readVars == <<i, current_offset, padding_cleared, count, capacity,
              pointer_array>>
historyVars == <<endAt, bitAt>>
vars == <<pc, requestVars, filled, writeVars, readVars, historyVars>>

-----------------------------------------------------------------------------

len_layout == Len(layout)

FieldSize(t) == IF t \in {"*"} \cup Wide THEN 8 ELSE 4

\* The bits of a field
Width(t) == IF t \in Wide THEN 2 ELSE 1

\* What is left of a size_t when it becomes an int, and of an int compared to
\* a size_t
ToInt(n) == ((n + INT_LIMIT) % (2 * INT_LIMIT)) - INT_LIMIT
ToSize(n) == n % SIZE_LIMIT

\* Mutant of TotalSize: the padding is worked out for the object alone.
TotalSizeUnpadded(n) ==
  LET bytes_to_add == (16 - (ToSize(n) % 16)) % 16
  IN  ToInt(ToSize(n + HEADER_SIZE + bytes_to_add))

\* The object, its header and the padding, as an int
TotalSize(n) ==
  LET bytes_to_add == (16 - (ToSize(n + HEADER_SIZE) % 16)) % 16
  IN  ToInt(ToSize(n + HEADER_SIZE + bytes_to_add))

\* No page has that much space.
Refused(n) == ToSize(TotalSize(n)) > PAGE_SIZE

Init ==
  /\ pc = "start"
  /\ layout = <<>> /\ request = 0 /\ reserved = 0 /\ filled = {}
  /\ index = 0 /\ offset = 0 /\ bits = {}
  /\ i = 0 /\ current_offset = 0 /\ padding_cleared = FALSE
  /\ count = 0 /\ capacity = 0 /\ pointer_array = <<>>
  /\ endAt = [f \in {0} |-> 0] /\ bitAt = <<>>

\* h_alloc_struct begins with object_size.  The memory is not cleared yet: it
\* holds what was there before.
AllocStruct(l) ==
  /\ pc = "start"
  /\ pc' = "object_size"
  /\ layout' = l
  /\ filled' = 1 .. Len(l)
  /\ UNCHANGED <<request, reserved, writeVars, readVars, historyVars>>

\* One round of the loop of object_size
SizeField ==
  /\ pc = "object_size" /\ index < len_layout
  /\ request' = request + FieldSize(layout[index + 1])
  /\ index' = index + 1
  /\ endAt' = [f \in 0 .. index + 1 |->
                 IF f <= index THEN endAt[f] ELSE request']
  /\ UNCHANGED <<pc, layout, reserved, filled, offset, bits, readVars, bitAt>>

\* The space is found, or the assert of h_alloc_struct fails; so does the
\* assert of set_layout_header.
SizeEnds ==
  /\ pc = "object_size" /\ index = len_layout
  /\ reserved' = TotalSize(request)
  /\ pc' = IF Refused(request) \/ len_layout > HEADER_BITS - 4
             THEN "stopped" ELSE "set_layout_header"
  /\ index' = 0 /\ offset' = 3 /\ bits' = {}
  /\ bitAt' = [f \in len_layout + 1 .. len_layout |-> 0]
  /\ UNCHANGED <<layout, request, filled, readVars, endAt>>

\* set_bit_vector, which ignores an index that is not of a bit
WithBit(b) == bits \cup ({b} \cap 0 .. HEADER_BITS - 1)

\* Mutant of SetField: a long or a double moves the offset before its index.
SetFieldOffsetFirst ==
  /\ pc = "set_layout_header"
  /\ index < len_layout /\ index < HEADER_BITS - offset
  /\ LET type == layout[len_layout - index]
     IN  /\ bits' = IF type = "*" THEN WithBit(index + offset + 1) ELSE bits
         /\ offset' = IF type \in Wide THEN offset + 1 ELSE offset
  /\ bitAt' = [f \in len_layout - index .. len_layout |->
                 IF f = len_layout - index THEN index + offset ELSE bitAt[f]]
  /\ index' = index + 1
  /\ UNCHANGED <<pc, requestVars, filled, readVars, endAt>>

\* One round of the loop of set_layout_header, from the last field on
SetField ==
  /\ pc = "set_layout_header"
  /\ index < len_layout /\ index < HEADER_BITS - offset
  /\ LET type == layout[len_layout - index]
     IN  /\ bits' = IF type = "*" THEN WithBit(index + offset) ELSE bits
         /\ offset' = IF type \in Wide THEN offset + 1 ELSE offset
  /\ bitAt' = [f \in len_layout - index .. len_layout |->
                 IF f = len_layout - index THEN index + offset ELSE bitAt[f]]
  /\ index' = index + 1
  /\ UNCHANGED <<pc, requestVars, filled, readVars, endAt>>

\* The start bit and b2, b1, b0; then h_alloc_struct clears the object.
SetStart ==
  /\ pc = "set_layout_header"
  /\ ~(index < len_layout /\ index < HEADER_BITS - offset)
  /\ bits' = WithBit(index + offset)
  /\ bitAt' = [f \in len_layout - index .. len_layout |->
                 IF f = len_layout - index THEN index + offset ELSE bitAt[f]]
  /\ filled' = {f \in filled : endAt[f] > request}
  /\ pc' = "object"
  /\ UNCHANGED <<requestVars, index, offset, readVars, endAt>>

\* The program stores something, or zeros, in a field.
Store(f) ==
  /\ pc \in {"object", "interpreted"}
  /\ pc' = "object"
  /\ \/ filled' = filled \cup {f}
     \/ filled' = filled \ {f}
  /\ UNCHANGED <<requestVars, writeVars, readVars, historyVars>>

\* h_alloc_raw: the header is the size, shifted by three; without space the
\* page at index -1 is used.
AllocRaw(n) ==
  /\ pc = "start"
  /\ request' = n
  /\ reserved' = TotalSize(n)
  /\ pc' = IF Refused(n) THEN "stopped" ELSE "raw"
  /\ UNCHANGED <<layout, filled, writeVars, readVars, historyVars>>

\* What interpret_header says of an object of h_alloc_raw: bits that were
\* shifted out of the header are missing from the size.
InterpretRaw ==
  /\ pc = "raw"
  /\ current_offset' = request % (SIZE_LIMIT \div 8)
  /\ count' = 0 /\ capacity' = 0 /\ pointer_array' = <<>>
  /\ pc' = "raw_interpreted"
  /\ UNCHANGED <<requestVars, filled, writeVars, historyVars, i,
                 padding_cleared>>

\* Mutant of Ones: the loop starts at the bit after the first three.
OnesAbove == Cardinality(bits \ {3})

\* The loop that counts the ones
Ones == Cardinality(bits)

\* interpret_header counts the ones but the first, which wraps when there is
\* none, and allocates the array for so many.
Interpret ==
  /\ pc \in {"object", "interpreted"}
  /\ capacity' = IF Ones = 0 THEN SIZE_LIMIT - 1 ELSE Ones - 1
  /\ count' = capacity'
  /\ i' = HEADER_BITS - 1
  /\ current_offset' = 0 /\ padding_cleared' = FALSE /\ pointer_array' = <<>>
  /\ pc' = "interpret_header"
  /\ UNCHANGED <<requestVars, filled, writeVars, historyVars>>

\* One round of its loop over the bits: before the first one
SkipPadding ==
  /\ pc = "interpret_header" /\ i > 2
  /\ i \notin bits /\ ~padding_cleared
  /\ i' = i - 1
  /\ UNCHANGED <<pc, requestVars, filled, writeVars, historyVars,
                 current_offset, padding_cleared, count, capacity,
                 pointer_array>>

ReadStart ==
  /\ pc = "interpret_header" /\ i > 2
  /\ i \in bits /\ ~padding_cleared
  /\ padding_cleared' = TRUE
  /\ i' = i - 1
  /\ UNCHANGED <<pc, requestVars, filled, writeVars, historyVars,
                 current_offset, count, capacity, pointer_array>>

\* The pointer field at byte o; a read where there is none finds anything.
PointersAt(o) == {f \in 1 .. len_layout : layout[f] = "*" /\ endAt[f - 1] = o}

ReadNull ==
  /\ pc = "interpret_header" /\ i > 2
  /\ i \in bits /\ padding_cleared
  /\ PointersAt(current_offset) \cap filled = {}
  /\ count' = count - 1
  /\ current_offset' = current_offset + 8
  /\ i' = i - 1
  /\ UNCHANGED <<pc, requestVars, filled, writeVars, historyVars,
                 padding_cleared, capacity, pointer_array>>

ReadPointer ==
  /\ pc = "interpret_header" /\ i > 2
  /\ i \in bits /\ padding_cleared
  /\ PointersAt(current_offset) \subseteq filled
  /\ pointer_array' = Append(pointer_array, current_offset)
  /\ current_offset' = current_offset + 8
  /\ i' = i - 1
  /\ UNCHANGED <<pc, requestVars, filled, writeVars, historyVars,
                 padding_cleared, count, capacity>>

ReadData ==
  /\ pc = "interpret_header" /\ i > 2
  /\ i \notin bits /\ padding_cleared
  /\ current_offset' = current_offset + 4
  /\ i' = i - 1
  /\ UNCHANGED <<pc, requestVars, filled, writeVars, historyVars,
                 padding_cleared, count, capacity, pointer_array>>

\* It returns the array, the number of pointers and the size.
InterpretEnds ==
  /\ pc = "interpret_header" /\ i = 2
  /\ pc' = "interpreted"
  /\ UNCHANGED <<requestVars, filled, writeVars, readVars, historyVars>>

\* Nothing follows an assert or the answer about an object of h_alloc_raw.
Stopped == pc \in {"stopped", "raw_interpreted"} /\ UNCHANGED vars

Next ==
  \/ \E l \in Layouts : AllocStruct(l)
  \/ SizeField \/ SizeEnds \/ SetField \/ SetStart
  \/ \E f \in 1 .. len_layout : Store(f)
  \/ \E n \in RawSizes : AllocRaw(n)
  \/ InterpretRaw \/ Interpret
  \/ SkipPadding \/ ReadStart \/ ReadNull \/ ReadPointer \/ ReadData
  \/ InterpretEnds
  \/ Stopped

Spec == Init /\ [][Next]_vars

-----------------------------------------------------------------------------
(* Properties *)

Stages ==
  {"start", "object_size", "set_layout_header", "object", "interpret_header",
   "interpreted", "raw", "raw_interpreted", "stopped"}

\* The stages of an object of h_alloc_struct that has its space
WrittenStages ==
  {"set_layout_header", "object", "interpret_header", "interpreted"}

HeaderTypeOK ==
  /\ pc \in Stages /\ layout \in Seq(FieldTypes)
  /\ request \in Nat /\ reserved \in Int
  /\ filled \subseteq 1 .. len_layout
  /\ index \in 0 .. len_layout /\ offset \in Nat
  /\ bits \subseteq 3 .. HEADER_BITS - 1
  /\ i \in 0 .. HEADER_BITS - 1 /\ current_offset \in Nat
  /\ padding_cleared \in BOOLEAN
  /\ count \in 0 .. SIZE_LIMIT - 1 /\ capacity \in 0 .. SIZE_LIMIT - 1
  /\ pointer_array \in Seq(Nat)

\* The fields of the program's object: its pointers are at the bytes after
\* the fields before them, and the struct is packed.
WideFields == {f \in 1 .. len_layout : layout[f] \in Wide}

\* The start bit is a bit of the header.
Fits == 3 + len_layout + Cardinality(WideFields) < HEADER_BITS

Pointers == {f \in filled : layout[f] = "*"}

\* What is read from the header is what the layout says, whatever the order of
\* the fields and whichever of them are NULL: exactly the pointers that are
\* not, each once and from the first to the last, with their number, and the
\* size that was allocated.  The collector follows and copies no more and no
\* less.
InterpretsLayout ==
  pc = "interpreted" /\ Fits =>
    /\ {pointer_array[k] : k \in 1 .. Len(pointer_array)} =
         {endAt[f - 1] : f \in Pointers}
    /\ \A k \in 1 .. Len(pointer_array) - 1 :
         pointer_array[k] < pointer_array[k + 1]
    /\ count = Len(pointer_array)
    /\ current_offset = request

\* Even where the layout does not fit, interpret_header writes no further than
\* it allocated, and what it says is in the array is there.
WithinArray ==
  /\ Len(pointer_array) <= capacity
  /\ pc = "interpreted" /\ bits # {} => count = Len(pointer_array)

\* A request is refused or gets whole slots for what it asks for and its
\* header, also where the size overflows an int; above this bound it wraps.
RequestHonoured ==
  pc \in {"object", "raw"} /\ request < 2 * INT_LIMIT - 24 =>
    /\ request + HEADER_SIZE <= reserved /\ reserved <= PAGE_SIZE
    /\ reserved % 16 = 0

\* The inductive strengthening: where the loops are in the layout.  At first
\* the fields are laid end to end ...
Ends(m) ==
  /\ endAt \in [0 .. m -> Nat] /\ endAt[0] = 0
  /\ \A f \in 1 .. m : endAt[f] = endAt[f - 1] + FieldSize(layout[f])
  /\ \A f, g \in 0 .. m : f < g => endAt[f] < endAt[g]

Sized ==
  IF pc = "object_size"
    THEN Ends(index) /\ request = endAt[index]
    ELSE /\ Ends(len_layout)
         /\ pc \in WrittenStages => request = endAt[len_layout]

\* ... then their bits, from the last field to the first, and the start bit
\* after them, if that is where the loop ended.
Unwritten == len_layout - index

Bits ==
  /\ offset = 3 + Cardinality({f \in WideFields : f > Unwritten})
  /\ bitAt \in [IF pc = "set_layout_header"
                  THEN Unwritten + 1 .. len_layout
                  ELSE Unwritten .. len_layout -> Nat]
  /\ \A f \in Unwritten + 1 .. len_layout :
       /\ bitAt[f] \in 3 .. HEADER_BITS - 1
       /\ bitAt[f] + Width(layout[f]) =
            IF f = Unwritten + 1 THEN index + offset ELSE bitAt[f - 1]
       /\ \A g \in Unwritten + 1 .. len_layout :
            f < g => bitAt[g] + Width(layout[g]) <= bitAt[f]
  /\ index = 0 => offset = 3
  /\ index > 0 => bitAt[len_layout] = 3

PointerBits ==
  {bitAt[f] : f \in {g \in Unwritten + 1 .. len_layout : layout[g] = "*"}}

Written ==
  /\ pc = "set_layout_header" => Bits /\ bits = PointerBits
  /\ pc \in WrittenStages \ {"set_layout_header"} =>
       /\ Bits /\ bitAt[Unwritten] = index + offset
       /\ Unwritten > 0 => index + offset >= HEADER_BITS
       /\ bits = PointerBits \cup
                   ({index + offset} \cap 0 .. HEADER_BITS - 1)

\* interpret_header has room in its array for the ones that are left ...
OnesLeft == Cardinality({b \in bits : b <= i})

Counted ==
  /\ Len(pointer_array) <= capacity
  /\ pc = "interpret_header" =>
       /\ i >= 2 /\ count <= capacity
       /\ IF padding_cleared
            THEN bits # {} /\ count = Len(pointer_array) + OnesLeft
            ELSE /\ pointer_array = <<>>
                 /\ \A b \in bits : b <= i
                 /\ bits # {} => count = Cardinality(bits) - 1
  /\ pc = "interpreted" /\ bits # {} => count = Len(pointer_array)

\* ... and has read the fields up to some field p, or half of the next one.
ReadUpTo(p) ==
  /\ \/ i = bitAt[p] - 1 /\ current_offset = endAt[p]
     \/ /\ p < len_layout /\ layout[p + 1] \in Wide
        /\ i = bitAt[p + 1] /\ current_offset = endAt[p] + 4
  /\ {pointer_array[k] : k \in 1 .. Len(pointer_array)} =
       {endAt[f - 1] : f \in {g \in Pointers : g <= p}}
  /\ \A k \in 1 .. Len(pointer_array) : pointer_array[k] < endAt[p]
  /\ \A k \in 1 .. Len(pointer_array) - 1 :
       pointer_array[k] < pointer_array[k + 1]

ReadSoFar ==
  pc = "interpret_header" /\ Fits =>
    IF padding_cleared
      THEN \E p \in 0 .. len_layout : ReadUpTo(p)
      ELSE i >= bitAt[0] /\ current_offset = 0 /\ pointer_array = <<>>

Reserves ==
  /\ pc = "start" => layout = <<>> /\ request = 0 /\ index = 0
  /\ pc = "object_size" => index <= len_layout
  /\ pc \in WrittenStages \cup {"raw", "raw_interpreted"} =>
       reserved = TotalSize(request) /\ ~Refused(request)

HeaderIInv ==
  /\ HeaderTypeOK /\ Reserves /\ Sized /\ Written /\ Counted /\ ReadSoFar
  /\ InterpretsLayout

\* "60 bits can describe the vector": a layout that the assert lets through is
\* read as it was written.
LayoutsDescribed ==
  pc = "interpreted" => current_offset = request

=============================================================================
