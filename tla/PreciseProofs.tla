---------------------------- MODULE PreciseProofs ----------------------------
(***************************************************************************)
(* Without stale words on the stack, the collector meets objects of the    *)
(* program only: the whole heap stays sound, garbage included, no assert   *)
(* about a header fails, and exactly what the program cannot reach is      *)
(* reclaimed.                                                              *)
(***************************************************************************)
EXTENDS CollectorProofs

\* Every word the collector scans is a variable of the program.
LEMMA NoTemps ==
  ASSUME NoStaleWords
  PROVE  Temps = {} /\ Slots = Locals
  BY SlotFacts DEF NoStaleWords, Temps, Slots, Locals

\* Objects whose headers stay keep their identities.
LEMMA IdentifiedKept ==
  ASSUME NEW B, Identified(B), \A b \in B : IdOf(b)' = IdOf(b),
         UNCHANGED allocations
  PROVE  Identified(B)'
  BY DEF Identified

\* What the invariant says between collections, and while roots are sought
LEMMA PreciseBetween ==
  ASSUME CollectorIInv', pc' \in {"mutator", "place", "scan"},
         NEW B, blocks' = B, Sound(B)', Identified(B)',
         pc' = "scan" => Expected(expected1, B)' /\ Expected(expected2, B)'
  PROVE  PreciseIInv'
<1>1. Sound(blocks)' /\ Identified(blocks)'
  BY DEF Sound, Identified, FieldsWithin
<1>2. pc' = "scan" => Expected(expected1, blocks)' /\ Expected(expected2, blocks)'
  BY DEF Expected
<1> QED
  BY <1>1, <1>2 DEF PreciseIInv, PreciseOK, HeadersReadable

\* What the program does between its calls, and its calls
LEMMA PreciseProgram ==
  ASSUME PreciseIInv, HeapIInv', Program
  PROVE  PreciseIInv'
<1>1. PICK B : B = blocks
  OBVIOUS
<1>2. /\ pc = "mutator" /\ pc' \in {"mutator", "place", "scan"}
      /\ UNCHANGED <<rootVars, traversalVars, blocks, copies, allocations>>
  BY DEF Program, Alloc, HAlloc, Gc, HGc, Load, Store, Clear, WriteRaw,
         LeaveStale, heapVars, gcVars, historyVars
<1>3. CollectorIInv /\ Sound(B) /\ Identified(B)
  BY <1>1, <1>2 DEF PreciseIInv, PreciseOK
<1>4. CollectorIInv' /\ Sound(B)' /\ \A b \in B : mem'[b - 1] = mem[b - 1]
  BY <1>1, <1>3, ProgramKeeps
<1>5. Identified(B)'
  BY <1>2, <1>3, <1>4, IdentifiedKept DEF IdOf
<1>6. expected1' = <<>> /\ expected2' = <<>>
  BY <1>2, <1>3 DEF CollectorIInv, RootsOK, rootVars
<1>7. Expected(expected1, B)' /\ Expected(expected2, B)'
  BY <1>6 DEF Expected
<1> QED
  BY <1>1, <1>2, <1>4, <1>5, <1>7, PreciseBetween

\* The new object has an identity of its own.
LEMMA PrecisePlace ==
  ASSUME RawFitsSlot, PreciseIInv, HeapIInv', NEW p \in Pages, PlaceObject(p)
  PROVE  PreciseIInv'
<1>1. PICK B, v, i : B = blocks /\ v = ObjectAt(p) /\ i = allocations + 1
  OBVIOUS
<1>2. /\ pc = "place" /\ pc' = "mutator"
      /\ blocks' = B \cup {v} /\ allocations' = i
  BY <1>1 DEF PlaceObject, Place
<1>3. CollectorIInv /\ Sound(B) /\ Identified(B)
  BY <1>1, <1>2 DEF PreciseIInv, PreciseOK
<1>4. /\ CollectorIInv' /\ Sound(B \cup {v})'
      /\ \A b \in B : mem'[b - 1] = mem[b - 1]
      /\ mem'[v - 1].id = i
  BY <1>1, <1>2, <1>3, PlaceObjectKeeps
<1>5. /\ \A b \in B : IdOf(b)' = IdOf(b) /\ IdOf(b) <= allocations
      /\ \A b \in B : IdOf(b) \in Nat
      /\ IdOf(v)' = i
  <2>1. ASSUME NEW b \in B
        PROVE  IdOf(b) \in Nat
    <3>1. b \in Pointers /\ IsHeader(b - 1)
      BY <1>1, <1>3, Typed, SoundObjects
    <3>2. mem[b - 1].id \in Ids
      BY <3>1, <1>3, HeaderWord, Typed, WordCases DEF IsHeader
    <3> QED
      BY <3>2 DEF IdOf, Ids
  <2> QED
    BY <2>1, <1>3, <1>4 DEF Identified, IdOf
<1>6. Identified(B \cup {v})'
  <2>1. allocations \in Nat
    BY <1>3, CompactingAssumption DEF CollectorIInv, TypesOK
  <2>2. \A b \in B : IdOf(b)' < i /\ IdOf(b)' \in Nat
    BY <2>1, <1>1, <1>5
  <2>3. ASSUME NEW a \in B \cup {v}, NEW b \in B \cup {v}, IdOf(a)' = IdOf(b)'
        PROVE  a = b
    BY <2>1, <2>2, <2>3, <1>1, <1>3, <1>5 DEF Identified
  <2> QED
    BY <2>1, <2>2, <2>3, <1>1, <1>2, <1>5 DEF Identified
<1> QED
  BY <1>2, <1>4, <1>6, PreciseBetween

\* What is found on the stack are objects.
LEMMA PreciseScanWord ==
  ASSUME NoStaleWords, PreciseIInv, HeapIInv', ScanWord
  PROVE  PreciseIInv'
<1>1. PICK B : B = blocks
  OBVIOUS
<1>2. /\ pc = "scan" /\ pc' = "scan" /\ cursor \in Locals
      /\ UNCHANGED <<mem, blocks, allocations>>
      /\ \/ /\ stack[cursor] # NULL
            /\ expected1' = Append(expected1, stack[cursor])
            /\ expected2' = Append(expected2, stack[cursor])
         \/ UNCHANGED <<expected1, expected2>>
  BY NoTemps DEF ScanWord, heapVars, historyVars, is_allocated_on_heap
<1>3. /\ CollectorIInv /\ Sound(B) /\ Identified(B)
      /\ Expected(expected1, B) /\ Expected(expected2, B)
  BY <1>1, <1>2 DEF PreciseIInv, PreciseOK
<1>4. CollectorIInv' /\ Sound(B)'
  BY <1>1, <1>3, ScanWordKeeps
<1>5. Identified(B)'
  BY <1>2, <1>3, IdentifiedKept DEF IdOf
<1>6. stack[cursor] # NULL => stack[cursor] \in B
  BY <1>2, <1>3 DEF Sound
<1>7. ASSUME NEW e \in Seq(Pointers), Expected(e, B), NEW v \in B
      PROVE  Expected(Append(e, v), B)
  BY <1>7 DEF Expected
<1>8. Expected(expected1, B)' /\ Expected(expected2, B)'
  <2>1. expected1 \in Seq(Pointers) /\ expected2 \in Seq(Pointers)
    BY <1>3 DEF CollectorIInv, TypesOK
  <2>2. CASE /\ stack[cursor] # NULL
             /\ expected1' = Append(expected1, stack[cursor])
             /\ expected2' = Append(expected2, stack[cursor])
    BY <2>1, <2>2, <1>3, <1>6, <1>7 DEF Expected
  <2>3. CASE UNCHANGED <<expected1, expected2>>
    BY <2>3, <1>3 DEF Expected
  <2> QED
    BY <2>2, <2>3, <1>2
<1> QED
  BY <1>1, <1>2, <1>4, <1>5, <1>8, PreciseBetween

-----------------------------------------------------------------------------
(* traverse_and_move *)

\* A list of expected pointers may advance.
LEMMA ExpectedRest ==
  ASSUME NEW e \in Seq(Pointers), NEW S, Expected(e, S)
  PROVE  Expected(Drop(e), S)
  BY DEF Expected, Drop

\* What the program reaches depends on the pointers of the objects only.
LEMMA ReachableKept ==
  ASSUME UNCHANGED <<stack, blocks>>,
         \A b \in blocks :
           /\ KindOf(b)' = KindOf(b)
           /\ \A f \in PointerFields[KindOf(b)] : mem'[b + f] = mem[b + f]
  PROVE  Reachable' = Reachable
<1>1. \A S \in SUBSET blocks : Closed(S)' <=> Closed(S)
  BY DEF Closed, FieldsOf
<1> QED
  BY <1>1 DEF Reachable

\* The invariant while traverse_and_move runs, by its parts
LEMMA PreciseMoveParts ==
  ASSUME PreciseIInv, pc = "move", NEW B, B = blocks
  PROVE  /\ CollectorIInv /\ Moved(B) /\ Identified(B) /\ B \subseteq Pointers
         /\ Expected(expected1, B) /\ Expected(expected2, B)
         /\ MovingFields(B) /\ AllMoved(B)
  BY Typed DEF PreciseIInv, PreciseOK

\* What the invariant says while objects move
LEMMA PreciseMoving ==
  ASSUME CollectorIInv', pc' = "move", NEW B, blocks' = B,
         Moved(B)', Identified(B)',
         Expected(expected1, B)', Expected(expected2, B)',
         MovingFields(B)', AllMoved(B)'
  PROVE  PreciseIInv'
<1>1. Moved(blocks)' /\ Identified(blocks)'
  BY DEF Moved, Identified, FieldsWithin, CopiesDistinct
<1>2. Expected(expected1, blocks)' /\ Expected(expected2, blocks)'
  BY DEF Expected
<1>3. MovingFields(blocks)' /\ AllMoved(blocks)'
  BY DEF MovingFields, AllMoved
<1> QED
  BY <1>1, <1>2, <1>3 DEF PreciseIInv, PreciseOK, HeadersReadable

\* When the traversal starts, no object was moved.
LEMMA PreciseStartMove ==
  ASSUME PreciseIInv, HeapIInv', StartMove
  PROVE  PreciseIInv'
<1>1. PICK B : B = blocks
  OBVIOUS
<1>2. /\ pc = "scan" /\ pc' = "move" /\ queue' = roots
      /\ UNCHANGED <<mem, blocks, allocations, copies, expected1, expected2>>
  BY DEF StartMove, BeginMove, rootVars, historyVars
<1>3. /\ CollectorIInv /\ Sound(B) /\ Identified(B)
      /\ Expected(expected1, B) /\ Expected(expected2, B)
  BY <1>1, <1>2 DEF PreciseIInv, PreciseOK
<1>4. CollectorIInv' /\ Moved(B)' /\ \A b \in B : ~IsForwarded(b)'
  BY <1>1, <1>3, StartMoveKeeps
<1>5. Identified(B)'
  BY <1>2, <1>3, IdentifiedKept DEF IdOf
<1>6. Expected(expected1, B)' /\ Expected(expected2, B)'
  BY <1>2, <1>3 DEF Expected
<1>7. MovingFields(B)'
  <2>1. \A i \in DOMAIN roots : roots[i].area = "stack"
    BY <1>3, Places DEF CollectorIInv, TypesOK, StackWords
  <2> QED
    BY <2>1, <1>2 DEF MovingFields
<1>8. AllMoved(B)'
  <2>1. copies' = {}
    BY <1>2, <1>3 DEF CollectorIInv, RootsOK
  <2> QED
    BY <2>1, <1>4 DEF AllMoved, CopiesOf
<1> QED
  BY <1>1, <1>2, <1>4, <1>5, <1>6, <1>7, <1>8, PreciseMoving

\* The head of the queue is a pointer to an object the program reaches.
LEMMA PreciseMoveHead ==
  ASSUME NoStaleWords, PreciseIInv, pc = "move", queue # <<>>,
         NEW B, B = blocks, NEW from, from = Current
  PROVE  /\ ~Changed(expected1) /\ Readable(Head(queue))
         /\ from \in B /\ from \in Reachable
         /\ from \in Pointers
         /\ IsForwarded(from) \/ Interpretable(from)
<1>1. /\ CollectorIInv /\ Moved(B) /\ B \subseteq Pointers
      /\ MovingFields(B) /\ AllMoved(B)
  BY PreciseMoveParts
<1>2. /\ queue \in Seq(QueueWords) /\ expected1 \in Seq(Pointers)
      /\ Matches(queue, expected1, stack)
  BY <1>1, MoveFacts
<1>3. /\ \A x \in Locals : stack[x] \in Reachable \cup {NULL}
      /\ Closed(Reachable)
  BY <1>1, ReachableWithin DEF Moved
<1>4. /\ ~Changed(expected1)
      /\ \/ \E s \in Locals : Head(queue) = StackWord(s) /\ from = stack[s]
            /\ from \in Pointers
         \/ \E w \in Words : Head(queue) = HeapWord(w) /\ from = mem[w].value
  BY <1>2, ChangedWord, NoTemps
<1>5. ASSUME NEW s \in Locals, Head(queue) = StackWord(s), from = stack[s],
             from \in Pointers
      PROVE  from \in B /\ from \in Reachable /\ Readable(Head(queue))
  <2>1. from \in B /\ from \in Reachable
    BY <1>1, <1>3, <1>5, NullFacts DEF Moved
  <2>2. Readable(Head(queue))
    BY <1>5, Places DEF Readable
  <2> QED
    BY <2>1, <2>2
<1>6. ASSUME NEW w \in Words, Head(queue) = HeapWord(w), from = mem[w].value
      PROVE  from \in B /\ from \in Reachable /\ Readable(Head(queue))
  <2>2. 1 \in DOMAIN queue /\ queue[1] = HeapWord(w)
    BY <1>6, <1>2
  <2>3. PICK b \in B : /\ IsForwarded(b) /\ w \in FieldsOf(b)
                       /\ mem[w].value # NULL
    BY <2>2, <1>1, Places DEF MovingFields
  <2>4. b \in Reachable /\ FieldsWithin(b, B) /\ IsHeader(b - 1)
    BY <2>3, <1>1 DEF AllMoved, Moved
  <2>5. from \in B /\ from \in Reachable
    BY <1>6, <2>3, <2>4, <1>3 DEF FieldsWithin, Closed
  <2>6. PICK f \in PointerFields[KindOf(b)] : w = b + f
    BY <2>3 DEF FieldsOf
  <2>7. mem[w].tag = "plain" /\ mem[w].value \in Pointers \cup {NULL}
    BY <2>4, <2>6, <1>1, Typed, FieldFacts
  <2>8. Readable(Head(queue))
    BY <1>6, <2>3, <2>7, HeaderWord, Places DEF Readable
  <2> QED
    BY <2>5, <2>8
<1>7. from \in B /\ from \in Pointers /\ from - 1 \in Words
  BY <1>1, <1>4, <1>5, <1>6, HeaderWord
<1>9. from \in Reachable /\ Readable(Head(queue))
  BY <1>4, <1>5, <1>6
<1>8. IsForwarded(from) \/ Interpretable(from)
  <2>1. IsHeader(from - 1)
    BY <1>1, <1>7 DEF Moved
  <2> QED
    BY <2>1, <1>1, <1>7, Typed, WordCases
       DEF IsHeader, IsForwarded, header_is_forwarding_address, Interpretable
<1> QED
  BY <1>4, <1>7, <1>8, <1>9

\* A skipped word leads to an object that was moved before.
LEMMA PreciseMoveSkip ==
  ASSUME PreciseIInv, HeapIInv', MoveSkip
  PROVE  PreciseIInv'
<1>1. PICK B : B = blocks
  OBVIOUS
<1>2. /\ pc = "move" /\ pc' = "move" /\ queue # <<>> /\ queue' = Tail(queue)
      /\ expected1' = Drop(expected1)
      /\ UNCHANGED <<stack, mem, blocks, allocations, copies, expected2>>
  BY DEF MoveSkip, heapVars, historyVars
<1>3. /\ CollectorIInv /\ Moved(B) /\ Identified(B) /\ B \subseteq Pointers
      /\ Expected(expected1, B) /\ Expected(expected2, B)
      /\ MovingFields(B) /\ AllMoved(B)
  BY <1>1, <1>2, PreciseMoveParts
<1>4. CollectorIInv' /\ Moved(B)'
  BY <1>1, <1>3, MoveSkipKeeps
<1>5. Identified(B)'
  BY <1>2, <1>3, IdentifiedKept DEF IdOf
<1>6. Expected(expected1, B)' /\ Expected(expected2, B)'
  <2>1. Expected(Drop(expected1), B)
    BY <1>2, <1>3, MoveFacts, ExpectedRest
  <2> QED
    BY <2>1, <1>2, <1>3 DEF Expected
<1>7. MovingFields(B)'
  <2>1. queue \in Seq(QueueWords)
    BY <1>2, <1>3, MoveFacts
  <2>2. \A i \in DOMAIN queue' :
          i + 1 \in DOMAIN queue /\ queue'[i] = queue[i + 1]
    BY <2>1, <1>2
  <2> QED
    BY <2>2, <1>2, <1>3
       DEF MovingFields, IsForwarded, header_is_forwarding_address, FieldsOf,
           KindOf
<1>8. AllMoved(B)'
  <2>1. Reachable' = Reachable
    BY <1>2, ReachableKept DEF KindOf
  <2> QED
    BY <2>1, <1>2, <1>3
       DEF AllMoved, CopiesOf, IsForwarded, header_is_forwarding_address,
           Interpretable
<1> QED
  BY <1>1, <1>2, <1>4, <1>5, <1>6, <1>7, <1>8, PreciseMoving

\* One more object the program could reach has its copy.
LEMMA PreciseMoveObject ==
  ASSUME RawFitsSlot, NoStaleWords, PreciseIInv, HeapIInv',
         NEW p \in Pages, MoveObject(p)
  PROVE  PreciseIInv'
<1>1. PICK B, from, to, k : /\ B = blocks /\ from = Current /\ to = ObjectAt(p)
                            /\ k = mem[from - 1].kind
  OBVIOUS
<1>2. /\ pc = "move" /\ pc' = "move" /\ queue # <<>>
      /\ Readable(Head(queue)) /\ ~IsForwarded(from) /\ Interpretable(from)
      /\ expected1' = Drop(expected1) /\ copies' = copies \cup {to}
      /\ UNCHANGED <<stack, blocks, allocations, expected2>>
  BY <1>1 DEF MoveObject, Moving, Evacuate, IsForwarded
<1>3. /\ CollectorIInv /\ Moved(B) /\ Identified(B) /\ B \subseteq Pointers
      /\ Expected(expected1, B) /\ Expected(expected2, B)
      /\ MovingFields(B) /\ AllMoved(B)
  BY <1>1, <1>2, PreciseMoveParts
<1>4. from \in B /\ from \in Reachable
  BY <1>1, <1>2, PreciseMoveHead
<1>5. /\ CollectorIInv' /\ Moved(B)' /\ KindOf(from) = k
      /\ mem'[from - 1].to = to /\ mem'[to - 1] = mem[from - 1]
  BY <1>1, <1>3, MoveObjectKeeps
<1>6. \A b \in B :
        /\ KindOf(b)' = KindOf(b) /\ IdOf(b)' = IdOf(b)
        /\ \A f \in PointerFields[KindOf(b)] : mem'[b + f] = mem[b + f]
        /\ b # from => mem'[b - 1] = mem[b - 1]
        /\ IsForwarded(b)' <=> b = from \/ IsForwarded(b)
  BY <1>1, <1>3, MoveObjectKeeps
<1>7. \A b \in B : \A c :
        CopyOf(b, c) => (c # from => mem'[c - 1] = mem[c - 1])
  BY <1>1, <1>3, MoveObjectKeeps
<1>8. Identified(B)'
  BY <1>2, <1>3, <1>6, IdentifiedKept
<1>9. Expected(expected1, B)' /\ Expected(expected2, B)'
  <2>1. Expected(Drop(expected1), B)
    BY <1>2, <1>3, MoveFacts, ExpectedRest
  <2> QED
    BY <2>1, <1>2, <1>3 DEF Expected
<1>10. ASSUME NEW loc, Pending(loc)', loc.area = "heap"
       PROVE  \E b \in B : /\ IsForwarded(b)' /\ loc.at \in FieldsOf(b)'
                           /\ mem'[loc.at].value # NULL
  <2>1. \/ Pending(loc)
        \/ \E f \in PointerFields[k] :
             mem[from + f].value # NULL /\ loc = HeapWord(from + f)
    BY <1>10, <1>1, <1>3, MoveObjectKeeps
  <2>2. \E b \in B : /\ b = from \/ IsForwarded(b)
                     /\ \E f \in PointerFields[KindOf(b)] :
                          loc.at = b + f /\ mem[b + f].value # NULL
    <3>1. CASE Pending(loc)
      <4>1. PICK i \in DOMAIN queue : queue[i] = loc
        BY <3>1 DEF Pending
      <4> QED
        BY <4>1, <1>3, <1>10 DEF MovingFields, FieldsOf
    <3>2. CASE \E f \in PointerFields[k] :
                 mem[from + f].value # NULL /\ loc = HeapWord(from + f)
      BY <3>2, <1>4, <1>5, Places
    <3> QED
      BY <2>1, <3>1, <3>2
  <2>3. PICK b \in B : /\ b = from \/ IsForwarded(b)
                       /\ \E f \in PointerFields[KindOf(b)] :
                            loc.at = b + f /\ mem[b + f].value # NULL
    BY <2>2
  <2>4. PICK f \in PointerFields[KindOf(b)] :
          loc.at = b + f /\ mem[b + f].value # NULL
    BY <2>3
  <2>5. /\ IsForwarded(b)' /\ KindOf(b)' = KindOf(b)
        /\ mem'[b + f] = mem[b + f]
    BY <2>3, <2>4, <1>6
  <2>6. loc.at \in FieldsOf(b)'
    BY <2>4, <2>5 DEF FieldsOf
  <2>7. mem'[loc.at].value # NULL
    BY <2>4, <2>5
  <2> QED
    BY <2>5, <2>6, <2>7
<1>11. MovingFields(B)'
  BY <1>10 DEF MovingFields, Pending
<1>12. AllMoved(B)'
  <2>1. Reachable' = Reachable
    BY <1>1, <1>2, <1>6, ReachableKept
  <2>2. CopiesOf({b \in B : IsForwarded(b)})' = copies \cup {to}
    <3>1. CopiesOf({b \in B : IsForwarded(b)})' =
            {mem'[a - 1].to : a \in {b \in B : IsForwarded(b)'}}
      BY DEF CopiesOf
    <3>2. {b \in B : IsForwarded(b)'} = {b \in B : IsForwarded(b)} \cup {from}
      BY <1>4, <1>6
    <3>3. \A a \in {b \in B : IsForwarded(b)} : mem'[a - 1].to = mem[a - 1].to
      BY <1>2, <1>6
    <3>4. copies = {mem[a - 1].to : a \in {b \in B : IsForwarded(b)}}
      BY <1>3 DEF AllMoved, CopiesOf
    <3> QED
      BY <3>1, <3>2, <3>3, <3>4, <1>5
  <2>3. ASSUME NEW b \in B, IsForwarded(b)'
        PROVE  b \in Reachable /\ Interpretable(mem[b - 1].to)'
    <3>1. CASE b = from
      <4>1. mem'[to - 1].tag \in {"layout", "size"} /\ mem'[to - 1].kind \in Kinds
        BY <1>2, <1>5 DEF Interpretable
      <4> QED
        BY <3>1, <4>1, <1>4, <1>5 DEF Interpretable
    <3>2. CASE b # from
      <4>1. IsForwarded(b) /\ mem'[b - 1] = mem[b - 1]
        BY <3>2, <2>3, <1>6
      <4>2. PICK c : c = mem[b - 1].to
        OBVIOUS
      <4>3. /\ CopyOf(b, c) /\ PageOf(from - 1) \in active_page_array
            /\ b \in Reachable /\ Interpretable(c)
        BY <4>1, <4>2, <1>3, <1>4 DEF Moved, AllMoved
      <4>4. c # from
        BY <4>3, <1>2, <1>3 DEF CopyOf, CollectorIInv, HeapIInv
      <4>5. mem'[c - 1] = mem[c - 1]
        BY <4>3, <4>4, <1>7
      <4>6. Interpretable(c)'
        BY <4>3, <4>5 DEF Interpretable
      <4> QED
        BY <4>1, <4>2, <4>3, <4>6 DEF Interpretable
    <3> QED
      BY <3>1, <3>2
  <2> QED
    BY <2>1, <2>2, <2>3, <1>2 DEF AllMoved
<1> QED
  BY <1>1, <1>2, <1>5, <1>8, <1>9, <1>11, <1>12, PreciseMoving

\* Without stale words, only the room in passive pages can run out.
LEMMA PreciseMoveFails ==
  ASSUME NoStaleWords, PreciseIInv, HeapIInv', MoveFails
  PROVE  PreciseIInv'
<1>1. PICK B, from, k : /\ B = blocks /\ from = Current
                        /\ k = mem[from - 1].kind
  OBVIOUS
<1>2. pc = "move" /\ queue # <<>>
  BY DEF MoveFails, Moving
<1>3. /\ CollectorIInv /\ Moved(B) /\ B \subseteq Pointers
  BY <1>1, <1>2, PreciseMoveParts
<1>4. /\ from \in B /\ from \in Pointers /\ Readable(Head(queue))
      /\ IsForwarded(from) \/ Interpretable(from)
  BY <1>1, <1>2, PreciseMoveHead
<1>5. ~IsForwarded(from) /\ Interpretable(from)
  BY <1>1, <1>4 DEF MoveFails, Moving, IsForwarded
<1>6. ASSUME NEW p \in Pages, MovesTo(p, k)
      PROVE  ~Overlaps(from, ObjectAt(p))
  <2>1. p \in passive_page_array /\ MovedBytes(k) + 8 < remaining_size[p]
    BY <1>6 DEF MovesTo, IsFirst, HEADER_SIZE
  <2>2. PICK n : n = MovedWords(k)
    OBVIOUS
  <2>3. k \in Kinds /\ MovedBytes(k) \in Nat
    BY <1>1, <1>5, HeapAssumption DEF Interpretable, MovedBytes
  <2>4. n \in Nat /\ 8 * n <= MovedBytes(k) + 7
    BY <2>2, <2>3 DEF MovedWords
  <2>5. Used(p) + n < WORDS_PER_PAGE
    <3>1. /\ remaining_size[p] = PAGE_SIZE - next_empty_space[p]
          /\ next_empty_space[p] \in Nat
      BY <1>3, Typed DEF HeapTypeOK, PageAccounting
    <3>2. 8 * Used(p) <= next_empty_space[p] /\ Used(p) \in Nat
      BY <3>1 DEF Used
    <3> QED
      BY <2>1, <2>3, <2>4, <3>1, <3>2, PageFacts
  <2>6. ASSUME NEW to, to = ObjectAt(p), NEW i \in 0 .. n, from - to = i
        PROVE  FALSE
    <3>1. PageOf((to - 1) + i) = p /\ to \in Int
      <4>1. PageOf((to - 1) + i) = p
        BY <2>4, <2>5, <2>6, <1>3, Typed, BlockIsFree
      <4>2. Used(p) < WORDS_PER_PAGE
        BY <2>4, <2>5, <1>3, Typed, UsedFacts, PageFacts
      <4>3. to \in Pointers
        BY <4>2, <2>6, <1>3, Typed, NextBlock
      <4> QED
        BY <4>1, <4>3, HeaderWord
    <3>2. from \in Int
      BY <1>4, HeaderWord
    <3>3. (to - 1) + i = from - 1
      BY <2>4, <2>6, <3>1, <3>2
    <3>4. PageOf(from - 1) \in active_page_array
      BY <1>3, <1>4 DEF Moved
    <3> QED
      BY <3>1, <3>3, <3>4, <2>1, <1>2, <1>3 DEF CollectorIInv, HeapIInv
  <2> QED
    BY <2>2, <2>6, <1>1 DEF Overlaps
<1>7. CollectorIInv' /\ pc' = "no_passive_page"
  <2>1. pc' = "no_passive_page"
    BY <1>1, <1>4, <1>5, <1>6 DEF MoveFails, EvacuateFails
  <2>2. CollectorIInv'
    BY <1>3, FailuresKeep
  <2> QED
    BY <2>1, <2>2
<1> QED
  BY <1>7 DEF PreciseIInv, PreciseOK, HeadersReadable

-----------------------------------------------------------------------------
(* traverse_and_forward *)

\* The invariant while traverse_and_forward runs, by its parts
LEMMA PreciseForwardParts ==
  ASSUME PreciseIInv, pc = "forward"
  PROVE  /\ CollectorIInv
         /\ \E S \in SUBSET {v \in Pointers : IsForwarded(v)} :
              /\ Forwarded(S) /\ Identified(S) /\ Expected(expected2, S)
              /\ ForwardingFields(S) /\ AllForwarded(S) /\ AllReached(S)
  BY DEF PreciseIInv, PreciseOK

\* What the invariant says while pointers are forwarded
LEMMA PreciseForwarding ==
  ASSUME CollectorIInv', pc' = "forward", NEW S,
         S \in SUBSET {v \in Pointers : IsForwarded(v)'},
         Forwarded(S)', Identified(S)', Expected(expected2, S)',
         ForwardingFields(S)', AllForwarded(S)', AllReached(S)'
  PROVE  PreciseIInv'
<1>1. PreciseOK'
  BY DEF PreciseOK
<1> QED
  BY <1>1 DEF PreciseIInv, HeadersReadable

\* The queue is empty: all that can be reached was moved, nothing else was, and
\* the copies are the heap.
LEMMA PreciseStartForward ==
  ASSUME NoStaleWords, PreciseIInv, HeapIInv', StartForward
  PROVE  PreciseIInv'
<1>1. PICK B, T : B = blocks /\ T = {b \in B : IsForwarded(b)}
  OBVIOUS
<1>2. /\ pc = "move" /\ pc' = "forward" /\ queue = <<>> /\ queue' = roots
      /\ blocks' = {b \in blocks \cup copies : is_allocated_on_heap(b)'}
      /\ \A p \in active_page_array : p \in Pages => alloc_map'[p] = {}
      /\ UNCHANGED <<mem, stack, visited, roots, expected2, copies, allocations>>
  BY DEF StartForward, EndMove, Released, rootVars
<1>3. /\ CollectorIInv /\ Moved(B) /\ Identified(B) /\ B \subseteq Pointers
      /\ Expected(expected2, B) /\ AllMoved(B)
  BY <1>1, <1>2, PreciseMoveParts
<1>4. /\ CollectorIInv' /\ Forwarded(T)'
      /\ T \in SUBSET {v \in Pointers : IsForwarded(v)'}
      /\ \A b \in T : mem[b - 1].to \in blocks'
  BY <1>1, <1>3, StartForwardKeeps
<1>5. /\ roots \in Seq(StackWords) /\ expected2 \in Seq(Pointers)
      /\ Matches(roots, expected2, stack) /\ Len(roots) = Len(expected2)
      /\ visited = {}
  BY <1>2, <1>3, MoveFacts DEF CollectorIInv, TypesOK
<1>6. \A x \in Locals : stack[x] # NULL => stack[x] \in T
  BY <1>1, <1>2, <1>3 DEF Moved, Pending
<1>7. Identified(T)'
  <2>1. Identified(T)
    BY <1>1, <1>3 DEF Identified
  <2> QED
    BY <2>1, <1>2, IdentifiedKept DEF IdOf
<1>8. Expected(expected2, T)'
  <2>1. ASSUME NEW i \in DOMAIN expected2
        PROVE  expected2[i] \in T
    <3>1. i \in 1 .. Len(expected2) /\ expected2[i] \in Pointers
      BY <1>5
    <3>2. roots[i] \in StackWords
      BY <3>1, <1>5 DEF Matches
    <3>3. roots[i].at \in Locals
      BY <3>2, Places, NoTemps DEF StackWords
    <3>4. stack[roots[i].at] = expected2[i]
      BY <3>1, <3>3, <1>5 DEF Matches
    <3> QED
      BY <3>1, <3>3, <3>4, <1>6, NullFacts
  <2> QED
    BY <2>1, <1>2 DEF Expected
<1>9. ForwardingFields(T)'
  <2>1. \A i \in DOMAIN roots : roots[i].area = "stack"
    BY <1>5, Places DEF StackWords
  <2>2. ASSUME NEW i \in DOMAIN roots, NEW j \in DOMAIN roots, j < i
        PROVE  roots[i] # roots[j]
    <3>1. i \in 1 .. Len(expected2) /\ j \in 1 .. i - 1
      BY <2>2, <1>5
    <3>2. roots[j].at < roots[i].at
      BY <3>1, <1>5 DEF Matches
    <3>3. roots[i].at \in Nat
      BY <1>5, Places, SlotFacts DEF StackWords
    <3> QED
      BY <3>2, <3>3
  <2>3. \A i, j \in DOMAIN roots : roots[i] = roots[j] => i = j
    <3>1. \A i, j \in DOMAIN roots : i = j \/ i < j \/ j < i
      BY <1>5
    <3> QED
      BY <3>1, <2>2
  <2> QED
    BY <2>1, <2>3, <1>2 DEF ForwardingFields
<1>10. AllForwarded(T)'
  <2>1. copies = CopiesOf(T)
    BY <1>1, <1>3 DEF AllMoved
  <2>2. \A b \in B : b \notin blocks'
    <3>1. ASSUME NEW b \in B
          PROVE  alloc_map'[PageOf(b)] = {}
      <4>1. /\ PageOf(b - 1) = PageOf(b) /\ PageOf(b) \in Pages
            /\ PageOf(b - 1) \in active_page_array
        BY <1>3, HeaderWord, WordFacts DEF Moved
      <4> QED
        BY <4>1, <1>2
    <3> QED
      BY <3>1, <1>2 DEF is_allocated_on_heap
  <2>3. blocks' = copies
    <3>1. copies \subseteq blocks'
      BY <2>1, <1>4 DEF CopiesOf
    <3> QED
      BY <3>1, <2>2, <1>1, <1>2
  <2>4. CopiesOf(T)' = CopiesOf(T)
    BY <1>2 DEF CopiesOf
  <2>5. ASSUME NEW b \in T
        PROVE  /\ Interpretable(mem[b - 1].to)
               /\ SameFields(b, mem[b - 1].to)
    BY <1>1, <1>3 DEF AllMoved, Moved
  <2>6. \A b \in T : /\ Interpretable(mem[b - 1].to)'
                     /\ SameFields(b, mem[b - 1].to)'
    BY <2>5, <1>2 DEF Interpretable, SameFields, KindOf
  <2> QED
    BY <2>1, <2>3, <2>4, <2>6, <1>2, <1>5 DEF AllForwarded
<1>11. AllReached(T)'
  <2>1. ASSUME NEW Q \in SUBSET T,
               \A x \in Locals : \/ stack[x] \in Q \cup {NULL}
                                 \/ \E b \in Q : stack[x] = mem[b - 1].to,
               \A b \in Q : FieldsWithin(b, Q)
        PROVE  Q = T
    <3>1. ASSUME NEW x \in Locals, NEW b \in Q, stack[x] = mem[b - 1].to
          PROVE  FALSE
      <4>1. CopyOf(b, stack[x])
        BY <3>1, <1>1, <1>3 DEF Moved
      <4>2. stack[x] \in Pointers
        <5>1. IsForwarded(b) /\ b \in Pointers
          BY <1>1, <1>3
        <5>2. mem[b - 1] \in MemoryWord
          BY <5>1, <1>3, HeaderWord, Typed
        <5> QED
          BY <5>1, <5>2, <3>1, WordCases
             DEF IsForwarded, header_is_forwarding_address
      <4>3. stack[x] \in B
        BY <4>2, <1>3, NullFacts DEF Moved
      <4> QED
        BY <4>1, <4>3, <1>2, <1>3 DEF CopyOf, Moved, CollectorIInv, HeapIInv
    <3>2. \A x \in Locals : stack[x] \in Q \cup {NULL}
      BY <2>1, <3>1
    <3>3. Reachable \subseteq Q
      BY <2>1, <3>2, <1>1, ReachableWithin
    <3> QED
      BY <3>3, <1>1, <1>3 DEF AllMoved
  <2>2. AllReached(T)
    BY <2>1 DEF AllReached
  <2> QED
    BY <2>2, <1>2 DEF AllReached, FieldsWithin, FieldsOf, KindOf
<1> QED
  BY <1>2, <1>4, <1>7, <1>8, <1>9, <1>10, <1>11, PreciseForwarding

\* The head of the queue is a pointer of the program to an old object, or one
\* in a copy that was met.
LEMMA PreciseForwardHead ==
  ASSUME NoStaleWords, CollectorIInv, pc = "forward", queue # <<>>,
         NEW S \in SUBSET {v \in Pointers : IsForwarded(v)}, Forwarded(S),
         Expected(expected2, S), ForwardingFields(S), AllForwarded(S),
         NEW from, from = Current
  PROVE  /\ ~Changed(expected2)
         /\ from \in S /\ IsForwarded(from)
         /\ Interpretable(mem[from - 1].to)
         /\ \A u : Head(queue) = HeapWord(u) =>
              \E b \in S \cap visited : \E f \in PointerFields[KindOf(b)] :
                u = mem[b - 1].to + f
<1>1. /\ queue \in Seq(QueueWords) /\ expected2 \in Seq(Pointers)
      /\ Matches(queue, expected2, stack)
  BY ForwardFacts
<1>2. /\ ~Changed(expected2)
      /\ \/ \E s \in Locals : Head(queue) = StackWord(s)
         \/ \E w \in Words : Head(queue) = HeapWord(w) /\ from = mem[w].value
  BY <1>1, ChangedWord, NoTemps
<1>3. ASSUME NEW s \in Locals, Head(queue) = StackWord(s)
      PROVE  from \in S
  <2>1. expected2 # <<>>
    BY <1>1, <1>3, HeadOfQueue, Places
  <2>2. Head(expected2) = from
    BY <2>1, <1>2 DEF Changed
  <2>3. 1 \in DOMAIN expected2 /\ Head(expected2) = expected2[1]
    BY <2>1, <1>1
  <2> QED
    BY <2>2, <2>3 DEF Expected
<1>4. ASSUME NEW u, Head(queue) = HeapWord(u)
      PROVE  \E b \in S \cap visited : \E f \in PointerFields[KindOf(b)] :
               /\ u = mem[b - 1].to + f /\ mem[b + f].value # NULL
               /\ mem[u].value = mem[b + f].value
  <2>1. 1 \in DOMAIN queue /\ queue[1] = HeapWord(u)
    BY <1>1, <1>4
  <2> QED
    BY <2>1, Places DEF ForwardingFields
<1>5. ASSUME NEW w \in Words, Head(queue) = HeapWord(w), from = mem[w].value
      PROVE  from \in S
  <2>1. PICK b \in S \cap visited : \E f \in PointerFields[KindOf(b)] :
               /\ w = mem[b - 1].to + f /\ mem[b + f].value # NULL
               /\ mem[w].value = mem[b + f].value
    BY <1>4, <1>5
  <2>2. PICK f \in PointerFields[KindOf(b)] :
               /\ mem[b + f].value # NULL
               /\ mem[w].value = mem[b + f].value
    BY <2>1
  <2> QED
    BY <2>2, <1>5 DEF Forwarded, FieldsWithin, FieldsOf
<1>6. from \in S
  BY <1>2, <1>3, <1>5
<1> QED
  BY <1>2, <1>4, <1>6 DEF AllForwarded

\* No scanned word changes, and what is in the queue was moved.
LEMMA PreciseForwardSkip ==
  ASSUME NoStaleWords, PreciseIInv
  PROVE  ~ForwardSkip /\ ~ForwardFails
<1>1. ASSUME pc = "forward", queue # <<>>
      PROVE  ~Changed(expected2) /\ IsForwarded(Current)
             /\ Interpretable(mem[Current - 1].to)
  <2>1. PICK S \in SUBSET {v \in Pointers : IsForwarded(v)} :
              /\ Forwarded(S) /\ Identified(S) /\ Expected(expected2, S)
              /\ ForwardingFields(S) /\ AllForwarded(S) /\ AllReached(S)
    BY <1>1, PreciseForwardParts
  <2>2. CollectorIInv
    BY DEF PreciseIInv
  <2> QED
    BY <2>1, <2>2, <1>1, PreciseForwardHead
<1> QED
  BY <1>1 DEF ForwardSkip, ForwardFails, IsForwarded

\* No word is in the list twice.
Distinct(q) == \A i, j \in DOMAIN q : q[i] = q[j] => i = j

\* The head of a list of distinct words is not in the rest.
LEMMA DistinctRest ==
  ASSUME NEW T, NEW q \in Seq(T), q # <<>>, Distinct(q)
  PROVE  Distinct(Tail(q)) /\ ~InList(Tail(q), Head(q))
<1>1. /\ Tail(q) \in Seq(T) /\ Len(Tail(q)) = Len(q) - 1
      /\ \A i \in 1 .. Len(q) - 1 : Tail(q)[i] = q[i + 1]
      /\ Len(q) \in Nat /\ DOMAIN q = 1 .. Len(q)
      /\ Head(q) = q[1] /\ DOMAIN Tail(q) = 1 .. Len(q) - 1
  OBVIOUS
<1>2. ASSUME NEW i \in DOMAIN Tail(q), NEW j \in DOMAIN Tail(q),
             Tail(q)[i] = Tail(q)[j]
      PROVE  i = j
  <2>1. i + 1 \in DOMAIN q /\ j + 1 \in DOMAIN q /\ q[i + 1] = q[j + 1]
    BY <1>1, <1>2
  <2> QED
    BY <2>1, <1>1 DEF Distinct
<1>3. ASSUME NEW i \in DOMAIN Tail(q), Tail(q)[i] = Head(q)
      PROVE  FALSE
  <2>1. i + 1 \in DOMAIN q /\ 1 \in DOMAIN q /\ q[i + 1] = q[1] /\ i + 1 # 1
    BY <1>1, <1>3
  <2> QED
    BY <2>1 DEF Distinct
<1> QED
  BY <1>2, <1>3 DEF Distinct, InList

\* Lists that have no word in common can be joined.
LEMMA DistinctTogether ==
  ASSUME NEW T, NEW q \in Seq(T), NEW r \in Seq(T), Distinct(q), Distinct(r),
         \A loc : ~(InList(q, loc) /\ InList(r, loc))
  PROVE  Distinct(q \o r)
<1> DEFINE n == Len(q)
<1>1. /\ n \in Nat /\ Len(r) \in Nat
      /\ DOMAIN q = 1 .. n /\ DOMAIN r = 1 .. Len(r)
      /\ DOMAIN (q \o r) = 1 .. n + Len(r)
      /\ \A i \in 1 .. n : (q \o r)[i] = q[i]
      /\ \A i \in 1 .. Len(r) : (q \o r)[n + i] = r[i]
  BY Concatenated
<1> HIDE DEF n
<1>2. \A i \in 1 .. n + Len(r) :
        \/ i \in DOMAIN q /\ (q \o r)[i] = q[i]
        \/ i - n \in DOMAIN r /\ (q \o r)[i] = r[i - n]
  <2>1. ASSUME NEW i \in 1 .. n + Len(r), i > n
        PROVE  i - n \in 1 .. Len(r) /\ n + (i - n) = i
    BY <2>1, <1>1
  <2>2. ASSUME NEW i \in 1 .. n + Len(r), i > n
        PROVE  (q \o r)[i] = r[i - n]
    <3>1. PICK l : l = i - n
      OBVIOUS
    <3>2. l \in 1 .. Len(r) /\ n + l = i
      BY <3>1, <2>1, <2>2
    <3> QED
      BY <3>1, <3>2, <1>1
  <2>3. \A i \in 1 .. n + Len(r) : i > n \/ i \in 1 .. n
    BY <1>1
  <2> QED
    BY <2>1, <2>2, <2>3, <1>1
<1>3. ASSUME NEW i \in 1 .. n + Len(r), NEW j \in 1 .. n + Len(r),
             (q \o r)[i] = (q \o r)[j]
      PROVE  i = j
  <2>1. i - n = j - n => i = j
    BY <1>1
  <2> DEFINE FromQ(k) == k \in DOMAIN q /\ (q \o r)[k] = q[k]
             FromR(k) == k - n \in DOMAIN r /\ (q \o r)[k] = r[k - n]
  <2>2. (FromQ(i) \/ FromR(i)) /\ (FromQ(j) \/ FromR(j))
    BY <1>2, <1>3
  <2>3. FromQ(i) /\ FromQ(j) => i = j
    BY <1>3 DEF Distinct
  <2>4. FromR(i) /\ FromR(j) => i - n = j - n
    BY <1>3 DEF Distinct
  <2>5. ~(FromQ(i) /\ FromR(j)) /\ ~(FromR(i) /\ FromQ(j))
    BY <1>3 DEF InList
  <2> QED
    BY <2>1, <2>2, <2>3, <2>4, <2>5
<1> QED
  BY <1>1, <1>3 DEF Distinct

\* What joins the queue joins it once.
LEMMA DistinctPointers ==
  ASSUME NEW v \in Pointers, NEW m, m[v - 1].kind \in Kinds
  PROVE  Distinct(PointersOf(v, m))
  BY PointersFound, HeaderWord DEF Distinct

\* An old object and its copy
LEMMA OldAndCopy ==
  ASSUME CollectorIInv,
         NEW S \in SUBSET {v \in Pointers : IsForwarded(v)}, Forwarded(S),
         NEW b \in S, NEW c, c = mem[b - 1].to
  PROVE  /\ CopyOf(b, c) /\ b \in Pointers /\ c \in Pointers
         /\ IsHeader(b - 1) /\ IsHeader(c - 1)
         /\ KindOf(b) \in Kinds /\ KindOf(c) = KindOf(b)
<1>1. b \in Pointers /\ IsForwarded(b) /\ CopyOf(b, c)
  BY DEF Forwarded
<1>2. mem[b - 1] \in MemoryWord /\ mem[b - 1].tag = "forward"
  BY <1>1, HeaderWord, Typed DEF IsForwarded, header_is_forwarding_address
<1> QED
  BY <1>1, <1>2, WordCases DEF CopyOf, IsHeader, KindOf

\* No word is a field of two copies.
LEMMA CopiesApart ==
  ASSUME CollectorIInv,
         NEW S \in SUBSET {v \in Pointers : IsForwarded(v)}, Forwarded(S),
         NEW a \in S, NEW b \in S, a # b,
         NEW f \in PointerFields[KindOf(a)], NEW g \in PointerFields[KindOf(b)]
  PROVE  mem[a - 1].to + f # mem[b - 1].to + g
<1>1. PICK c, d : c = mem[a - 1].to /\ d = mem[b - 1].to
  OBVIOUS
<1>2. /\ c \in Pointers /\ IsHeader(c - 1) /\ KindOf(c) = KindOf(a)
      /\ IsForwarded(a)
  BY <1>1, OldAndCopy
<1>3. /\ d \in Pointers /\ IsHeader(d - 1) /\ KindOf(d) = KindOf(b)
      /\ IsForwarded(b)
  BY <1>1, OldAndCopy
<1>4. c # d
  BY <1>1, <1>2, <1>3 DEF Forwarded, CopiesDistinct
<1> QED
  BY <1>1, <1>2, <1>3, <1>4, Typed, FieldsDisjoint

\* What waits in the queue, and what is written, belongs to copies that were
\* met.
LEMMA UnmetCopies ==
  ASSUME CollectorIInv,
         NEW S \in SUBSET {v \in Pointers : IsForwarded(v)}, Forwarded(S),
         ForwardingFields(S), NEW b \in S \ visited,
         NEW f \in PointerFields[KindOf(b)],
         NEW i \in DOMAIN queue
  PROVE  queue[i] # HeapWord(mem[b - 1].to + f)
<1>1. SUFFICES ASSUME queue[i] = HeapWord(mem[b - 1].to + f)
               PROVE  FALSE
  OBVIOUS
<1>2. PICK a \in S \cap visited : \E g \in PointerFields[KindOf(a)] :
             queue[i] = HeapWord(mem[a - 1].to + g)
  BY <1>1, Places DEF ForwardingFields
<1>3. PICK g \in PointerFields[KindOf(a)] :
             queue[i] = HeapWord(mem[a - 1].to + g)
  BY <1>2
<1>4. mem[a - 1].to + g = mem[b - 1].to + f
  BY <1>1, <1>3, Places
<1> QED
  BY <1>4, CopiesApart

\* One more word leads to a copy, and the fields of a copy first met join the
\* queue.
LEMMA PreciseForwardPointer ==
  ASSUME NoStaleWords, PreciseIInv, HeapIInv', ForwardPointer
  PROVE  PreciseIInv'
<1>1. PICK from, to, loc : /\ from = Current /\ to = mem[from - 1].to
                           /\ loc = Head(queue)
  OBVIOUS
<1>2. /\ pc = "forward" /\ pc' = "forward" /\ queue # <<>>
      /\ expected2' = Drop(expected2) /\ visited' = visited \cup {from}
      /\ queue' = IF from \notin visited
                    THEN Tail(queue) \o PointersOf(to, mem')
                    ELSE Tail(queue)
      /\ UNCHANGED <<blocks, copies, allocations, active_page_array,
                     passive_page_array>>
  BY <1>1 DEF ForwardPointer, FirstVisit, heapVars, historyVars, snapshotVars
<1>3. PICK S \in SUBSET {v \in Pointers : IsForwarded(v)} :
           /\ Forwarded(S) /\ Identified(S) /\ Expected(expected2, S)
           /\ ForwardingFields(S) /\ AllForwarded(S) /\ AllReached(S)
  BY <1>2, PreciseForwardParts
<1>4. CollectorIInv
  BY DEF PreciseIInv
<1>5. /\ from \in S /\ IsForwarded(from)
      /\ \A u : loc = HeapWord(u) =>
           \E b \in S \cap visited : \E f \in PointerFields[KindOf(b)] :
             u = mem[b - 1].to + f
  BY <1>1, <1>2, <1>3, <1>4, PreciseForwardHead
<1>6. /\ CollectorIInv' /\ Forwarded(S)'
      /\ \A u \in Words : loc # HeapWord(u) => mem'[u] = mem[u]
      /\ \A x \in Locals : \/ stack'[x] = stack[x]
                           \/ stack'[x] = to /\ stack[x] = from
  BY <1>1, <1>3, <1>4, ForwardPointerKeeps
<1>7. \A b \in S :
        /\ mem'[b - 1] = mem[b - 1]
        /\ \A f \in PointerFields[KindOf(b)] : mem'[b + f] = mem[b + f]
  BY <1>1, <1>3, <1>4, ForwardPointerKeeps
<1>8. \A b \in S : \A c : c = mem[b - 1].to => mem'[c - 1] = mem[c - 1]
  BY <1>1, <1>3, <1>4, ForwardPointerKeeps
<1>9. /\ queue \in Seq(QueueWords) /\ expected2 \in Seq(Pointers)
  BY <1>2, <1>4, ForwardFacts
<1>10. S \in SUBSET {v \in Pointers : IsForwarded(v)'}
  BY <1>3, <1>7 DEF IsForwarded, header_is_forwarding_address
<1>11. Identified(S)'
  BY <1>2, <1>3, <1>7, IdentifiedKept DEF IdOf
<1>12. Expected(expected2, S)'
  <2>1. Expected(Drop(expected2), S)
    BY <1>3, <1>9, ExpectedRest
  <2> QED
    BY <2>1, <1>2 DEF Expected
<1>13. ASSUME NEW b \in S, NEW c, c = mem[b - 1].to,
              NEW f \in PointerFields[KindOf(b)],
              loc # HeapWord(c + f)
       PROVE  mem'[c + f] = mem[c + f]
  <2>1. c \in Pointers /\ IsHeader(c - 1) /\ KindOf(c) = KindOf(b)
    BY <1>3, <1>4, <1>13, OldAndCopy
  <2>2. c + f \in Words
    BY <2>1, <1>4, Typed, FieldFacts
  <2> QED
    BY <2>2, <1>6, <1>13
\* The copies that were not met have their old pointers, before and after.
<1>14. ASSUME NEW b \in S \ visited, NEW c, c = mem[b - 1].to,
              NEW f \in PointerFields[KindOf(b)]
       PROVE  mem'[c + f].value = mem[b + f].value
  <2>1. 1 \in DOMAIN queue /\ queue[1] = loc
    BY <1>1, <1>2, <1>9
  <2>2. loc # HeapWord(c + f)
    BY <2>1, <1>3, <1>4, <1>14, UnmetCopies
  <2>3. mem'[c + f] = mem[c + f]
    BY <2>2, <1>13, <1>14
  <2>4. SameFields(b, c)
    BY <1>3, <1>14 DEF AllForwarded
  <2> QED
    BY <2>3, <2>4, <1>14 DEF SameFields
<1>15. AllForwarded(S)'
  <2>1. CopiesOf(S)' = CopiesOf(S)
    BY <1>7 DEF CopiesOf
  <2>2. copies' = CopiesOf(S)' /\ blocks' = copies' /\ visited' \subseteq S
    BY <2>1, <1>2, <1>3, <1>5 DEF AllForwarded
  <2>3. ASSUME NEW b \in S
        PROVE  /\ Interpretable(mem[b - 1].to)'
               /\ b \notin visited' => SameFields(b, mem[b - 1].to)'
    <3>1. PICK c : c = mem[b - 1].to
      OBVIOUS
    <3>2. mem'[c - 1] = mem[c - 1] /\ mem'[b - 1] = mem[b - 1]
      BY <3>1, <1>7, <1>8
    <3>3. Interpretable(c)
      BY <3>1, <1>3 DEF AllForwarded
    <3>4. Interpretable(mem[b - 1].to)'
      BY <3>1, <3>2, <3>3 DEF Interpretable
    <3>5. ASSUME b \notin visited', NEW f \in PointerFields[KindOf(b)]
          PROVE  mem'[c + f].value = mem'[b + f].value
      <4>1. b \in S \ visited
        BY <3>5, <1>2
      <4> QED
        BY <4>1, <3>1, <1>7, <1>14
    <3>6. KindOf(b)' = KindOf(b)
      BY <3>2 DEF KindOf
    <3>7. b \notin visited' => SameFields(b, mem[b - 1].to)'
      BY <3>1, <3>2, <3>5, <3>6 DEF SameFields
    <3> QED
      BY <3>4, <3>7
  <2> QED
    BY <2>2, <2>3 DEF AllForwarded
<1>16. AllReached(S)'
  <2>1. ASSUME NEW Q \in SUBSET S,
               \A x \in Locals : \/ stack'[x] \in Q \cup {NULL}
                                 \/ \E b \in Q : stack'[x] = mem'[b - 1].to,
               \A b \in Q : FieldsWithin(b, Q)'
        PROVE  Q = S
    <3>1. ASSUME NEW x \in Locals
          PROVE  \/ stack[x] \in Q \cup {NULL}
                 \/ \E b \in Q : stack[x] = mem[b - 1].to
      <4>1. CASE stack'[x] = stack[x]
        BY <4>1, <2>1, <1>7
      <4>2. CASE stack'[x] = to /\ stack[x] = from
        <5>1. to \in Pointers /\ CopyOf(from, to) /\ IsForwarded(from)
          BY <1>1, <1>3, <1>4, <1>5, OldAndCopy
        <5>2. to \notin Q \cup {NULL}
          BY <5>1, <2>1, <1>2, <1>3, <1>4, NullFacts
             DEF CopyOf, Forwarded, CollectorIInv, HeapIInv
        <5>3. PICK b \in Q : to = mem'[b - 1].to
          BY <5>2, <4>2, <2>1
        <5>4. to = mem[b - 1].to /\ b \in S
          BY <5>3, <1>7
        <5>5. IsForwarded(b)
          BY <5>4, <1>3
        <5>6. b = from
          BY <5>1, <5>4, <5>5, <1>1, <1>3, <1>5 DEF Forwarded, CopiesDistinct
        <5> QED
          BY <5>6, <4>2
      <4> QED
        BY <4>1, <4>2, <1>6
    <3>2. ASSUME NEW b \in Q
          PROVE  FieldsWithin(b, Q)
      <4>1. /\ KindOf(b)' = KindOf(b)
            /\ \A f \in PointerFields[KindOf(b)] : mem'[b + f] = mem[b + f]
        BY <2>1, <1>7 DEF KindOf
      <4>2. \A f \in PointerFields[KindOf(b)] :
              mem'[b + f].value \in Q \cup {NULL}
        BY <4>1, <2>1 DEF FieldsWithin, FieldsOf
      <4> QED
        BY <4>1, <4>2 DEF FieldsWithin, FieldsOf
    <3> QED
      BY <3>1, <3>2, <1>3 DEF AllReached
  <2> QED
    BY <2>1 DEF AllReached
\* Where the queue goes on
<1>17. PICK rest, new : /\ rest = Tail(queue)
                        /\ new = IF from \notin visited THEN PointersOf(to, mem')
                                                        ELSE <<>>
  OBVIOUS
<1>18. /\ to \in Pointers /\ IsHeader(to - 1) /\ KindOf(to) = KindOf(from)
       /\ KindOf(from) \in Kinds /\ mem'[to - 1] = mem[to - 1]
  BY <1>1, <1>3, <1>4, <1>5, <1>8, OldAndCopy
<1>19. /\ rest \in Seq(QueueWords) /\ Distinct(rest)
       /\ \A l : InList(rest, l) => InList(queue, l) /\ l # loc
  <2>1. Distinct(queue)
    BY <1>3 DEF ForwardingFields, Distinct
  <2>2. rest \in Seq(QueueWords) /\ \A l : InList(rest, l) => InList(queue, l)
    BY <1>2, <1>9, <1>17, RestOfList
  <2> QED
    BY <2>1, <2>2, <1>1, <1>2, <1>9, <1>17, DistinctRest
<1>20. /\ new \in Seq(QueueWords) /\ Distinct(new)
       /\ \A l : InList(new, l) =>
            /\ from \notin visited
            /\ \E f \in PointerFields[KindOf(from)] :
                 mem'[to + f].value # NULL /\ l = HeapWord(to + f)
  <2>1. CASE from \notin visited
    <3>1. mem'[to - 1].kind = KindOf(to)
      BY <1>18 DEF KindOf
    <3>2. new = PointersOf(to, mem')
      BY <2>1, <1>17
    <3>3. /\ new \in Seq(QueueWords)
          /\ \A i \in DOMAIN new : \E f \in PointerFields[KindOf(to)] :
               mem'[to + f].value # NULL /\ new[i] = HeapWord(to + f)
      BY <3>1, <3>2, <1>4, <1>18, Typed, JoiningFields
    <3>4. Distinct(new)
      BY <3>1, <3>2, <1>18, DistinctPointers
    <3> QED
      BY <3>3, <3>4, <2>1, <1>18 DEF InList
  <2>2. CASE from \in visited
    <3>1. new = <<>>
      BY <2>2, <1>17
    <3> QED
      BY <3>1 DEF InList, Distinct
  <2> QED
    BY <2>1, <2>2
<1>21. queue' = rest \o new
  <2>1. rest \o <<>> = rest
    BY <1>19
  <2> QED
    BY <2>1, <1>2, <1>17
<1>22. Distinct(queue')
  <2>1. ASSUME NEW l, InList(rest, l), InList(new, l)
        PROVE  FALSE
    <3>1. PICK i \in DOMAIN queue : queue[i] = l
      BY <2>1, <1>19 DEF InList
    <3>2. PICK f \in PointerFields[KindOf(from)] : l = HeapWord(to + f)
      BY <2>1, <1>20
    <3>3. from \in S \ visited
      BY <2>1, <1>5, <1>20
    <3> QED
      BY <3>1, <3>2, <3>3, <1>1, <1>3, <1>4, UnmetCopies
  <2> QED
    BY <2>1, <1>19, <1>20, <1>21, DistinctTogether
<1>23. ASSUME NEW l, InList(queue', l), l.area = "heap"
       PROVE  \E b \in S \cap visited' : \E f \in PointerFields[KindOf(b)'] :
                /\ l = HeapWord(mem'[b - 1].to + f)
                /\ mem'[b + f].value # NULL
                /\ mem'[mem'[b - 1].to + f].value = mem'[b + f].value
  <2>1. InList(rest, l) \/ InList(new, l)
    <3>1. /\ Len(rest) \in Nat /\ Len(new) \in Nat
          /\ Len(queue') = Len(rest) + Len(new)
          /\ \A i \in 1 .. Len(rest) : queue'[i] = rest[i]
          /\ \A i \in 1 .. Len(new) : queue'[Len(rest) + i] = new[i]
          /\ DOMAIN queue' = 1 .. Len(rest) + Len(new)
          /\ DOMAIN rest = 1 .. Len(rest) /\ DOMAIN new = 1 .. Len(new)
      BY <1>19, <1>20, <1>21, Concatenated
    <3>2. PICK i \in 1 .. Len(rest) + Len(new) : queue'[i] = l
      BY <3>1, <1>23 DEF InList
    <3>3. CASE i \in 1 .. Len(rest)
      BY <3>1, <3>2, <3>3 DEF InList
    <3>4. CASE i > Len(rest)
      <4>1. PICK j : j = i - Len(rest)
        OBVIOUS
      <4>2. j \in 1 .. Len(new) /\ Len(rest) + j = i
        BY <4>1, <3>1, <3>4
      <4> QED
        BY <4>2, <3>1, <3>2 DEF InList
    <3> QED
      BY <3>1, <3>3, <3>4
  <2>2. \E b \in S \cap visited' : \E f \in PointerFields[KindOf(b)] :
                /\ l = HeapWord(mem[b - 1].to + f)
                /\ mem[b + f].value # NULL
                /\ mem'[mem[b - 1].to + f].value = mem[b + f].value
    <3>1. CASE InList(rest, l)
      <4>1. PICK i \in DOMAIN queue : queue[i] = l /\ l # loc
        BY <3>1, <1>19 DEF InList
      <4>2. PICK b \in S \cap visited : \E f \in PointerFields[KindOf(b)] :
                /\ l = HeapWord(mem[b - 1].to + f)
                /\ mem[b + f].value # NULL
                /\ mem[mem[b - 1].to + f].value = mem[b + f].value
        BY <4>1, <1>3, <1>23 DEF ForwardingFields
      <4>3. PICK f \in PointerFields[KindOf(b)] :
                /\ l = HeapWord(mem[b - 1].to + f)
                /\ mem[b + f].value # NULL
                /\ mem[mem[b - 1].to + f].value = mem[b + f].value
        BY <4>2
      <4>4. mem'[mem[b - 1].to + f] = mem[mem[b - 1].to + f]
        BY <4>1, <4>3, <1>13
      <4> QED
        BY <4>3, <4>4, <1>2
    <3>2. CASE InList(new, l)
      <4>1. PICK f \in PointerFields[KindOf(from)] :
                  mem'[to + f].value # NULL /\ l = HeapWord(to + f)
        BY <3>2, <1>20
      <4>2. from \in S \ visited
        BY <3>2, <1>5, <1>20
      <4>3. mem'[to + f].value = mem[from + f].value
        BY <4>2, <1>1, <1>14
      <4> QED
        BY <4>1, <4>2, <4>3, <1>1, <1>2
    <3> QED
      BY <2>1, <3>1, <3>2
  <2>3. PICK b \in S \cap visited' : \E f \in PointerFields[KindOf(b)] :
                /\ l = HeapWord(mem[b - 1].to + f)
                /\ mem[b + f].value # NULL
                /\ mem'[mem[b - 1].to + f].value = mem[b + f].value
    BY <2>2
  <2>4. /\ mem'[b - 1] = mem[b - 1] /\ KindOf(b)' = KindOf(b)
        /\ \A f \in PointerFields[KindOf(b)] : mem'[b + f] = mem[b + f]
    BY <1>7 DEF KindOf
  <2> QED
    BY <2>3, <2>4
<1>24. ForwardingFields(S)'
  BY <1>22, <1>23 DEF ForwardingFields, Distinct, InList
<1> QED
  BY <1>2, <1>6, <1>10, <1>11, <1>12, <1>15, <1>16, <1>24,
     PreciseForwarding

-----------------------------------------------------------------------------
(* The end of a collection *)

\* With an empty queue, every old object was met and every pointer forwarded.
LEMMA AllForwardedAtEnd ==
  ASSUME CollectorIInv, pc = "forward", queue = <<>>,
         NEW S \in SUBSET {v \in Pointers : IsForwarded(v)}, Forwarded(S),
         AllForwarded(S), AllReached(S)
  PROVE  /\ visited = S
         /\ \A x \in Locals :
              stack[x] = NULL \/ \E b \in S : stack[x] = mem[b - 1].to
         /\ \A b \in S : \A f \in PointerFields[KindOf(b)] :
              \/ mem[b + f].value = NULL
              \/ /\ mem[b + f].value \in S
                 /\ mem[mem[b - 1].to + f].value = mem[mem[b + f].value - 1].to
<1>1. /\ visited \subseteq S /\ \A loc : ~Pending(loc)
  BY DEF AllForwarded, Pending
<1>2. \A x \in Locals :
        stack[x] = NULL \/ \E b \in visited : stack[x] = mem[b - 1].to
  BY <1>1 DEF Forwarded
<1>3. ASSUME NEW b \in visited, NEW f \in PointerFields[KindOf(b)]
      PROVE  mem[b + f].value = NULL \/ FieldForwarded(b, f)
  BY <1>1, <1>3 DEF Forwarded
<1>4. \A b \in visited : FieldsWithin(b, visited)
  BY <1>3 DEF FieldsWithin, FieldsOf, FieldForwarded
<1>5. visited = S
  BY <1>1, <1>2, <1>4 DEF AllReached
<1> QED
  BY <1>2, <1>3, <1>5 DEF FieldForwarded

\* The queue is empty: the copies are the objects of the program.
LEMMA PreciseFinishGc ==
  ASSUME PreciseIInv, HeapIInv', FinishGc
  PROVE  PreciseIInv'
<1>1. /\ pc = "forward" /\ pc' \in {"mutator", "place"} /\ queue = <<>>
      /\ UNCHANGED <<mem, blocks, allocations>>
  BY DEF FinishGc, EndForward
<1>2. PICK S \in SUBSET {v \in Pointers : IsForwarded(v)} :
           /\ Forwarded(S) /\ Identified(S)
           /\ AllForwarded(S) /\ AllReached(S)
  BY <1>1, PreciseForwardParts
<1>3. CollectorIInv
  BY DEF PreciseIInv
<1>4. visited = S
  BY <1>1, <1>2, <1>3, AllForwardedAtEnd
<1>5. PICK T : T = {mem[b - 1].to : b \in S \cap visited}
  OBVIOUS
<1>6. CollectorIInv' /\ Sound(T)'
  BY <1>2, <1>3, <1>5, FinishGcKeeps
<1>7. T = CopiesOf(S)
  BY <1>4, <1>5 DEF CopiesOf
<1>8. blocks = T
  BY <1>2, <1>7 DEF AllForwarded
<1>9. Identified(T)
  <2>1. \A b \in S : IdOf(mem[b - 1].to) = IdOf(b)
    BY <1>2, <1>3, OldAndCopy DEF CopyOf
  <2> QED
    BY <2>1, <1>2, <1>7 DEF Identified, CopiesOf
<1>10. Identified(T)'
  BY <1>1, <1>9, IdentifiedKept DEF IdOf
<1> QED
  BY <1>1, <1>6, <1>8, <1>10, PreciseBetween

-----------------------------------------------------------------------------

\* A step that changes nothing
LEMMA PreciseStutter ==
  ASSUME PreciseIInv, HeapIInv', UNCHANGED vars
  PROVE  PreciseIInv'
<1> USE DEF heapVars, pageVars, snapshotVars, gcVars, rootVars, traversalVars,
            historyVars, vars
<1>1. CollectorIInv'
  BY StaleWordsKeep DEF PreciseIInv, CollectorIInv, TypesOK
<1>2. /\ \A loc : Pending(loc)' = Pending(loc)
      /\ \A b : IsForwarded(b)' = IsForwarded(b)
      /\ \A b : Interpretable(b)' = Interpretable(b)
      /\ \A w : InUse(w)' = InUse(w) /\ IsHeader(w)' = IsHeader(w)
      /\ \A b : KindOf(b)' = KindOf(b) /\ IdOf(b)' = IdOf(b)
  BY DEF Pending, IsForwarded, header_is_forwarding_address,
         Interpretable, InUse, Used, IsHeader, KindOf, IdOf
<1>3. \A b : FieldsOf(b)' = FieldsOf(b)
  BY <1>2 DEF FieldsOf
<1>4. /\ \A b, S : FieldsWithin(b, S)' = FieldsWithin(b, S)
      /\ \A b, c : CopyOf(b, c)' = CopyOf(b, c)
      /\ \A b, c : SameFields(b, c)' = SameFields(b, c)
      /\ \A b, f : FieldForwarded(b, f)' = FieldForwarded(b, f)
      /\ \A S : CopiesDistinct(S)' = CopiesDistinct(S)
      /\ \A S : CopiesOf(S)' = CopiesOf(S)
  BY <1>2, <1>3 DEF FieldsWithin, CopyOf, SameFields, FieldForwarded,
                    CopiesDistinct, CopiesOf
<1>5. Reachable' = Reachable
  BY ReachableKept DEF KindOf
<1>6. ASSUME NEW S, Sound(S)
      PROVE  Sound(S)'
  BY <1>2, <1>4, <1>6 DEF Sound
<1>7. ASSUME NEW S, Moved(S), MovingFields(S), AllMoved(S)
      PROVE  Moved(S)' /\ MovingFields(S)' /\ AllMoved(S)'
  <2>1. Moved(S)'
    BY <1>2, <1>3, <1>4, <1>7 DEF Moved, IsForwarded, header_is_forwarding_address
  <2>2. MovingFields(S)'
    BY <1>2, <1>3, <1>7 DEF MovingFields
  <2>3. AllMoved(S)'
    BY <1>2, <1>4, <1>5, <1>7 DEF AllMoved, CopiesOf, Interpretable
  <2> QED
    BY <2>1, <2>2, <2>3
<1>8. ASSUME NEW S, Forwarded(S), ForwardingFields(S), AllForwarded(S),
             AllReached(S)
      PROVE  /\ Forwarded(S)' /\ ForwardingFields(S)' /\ AllForwarded(S)'
             /\ AllReached(S)'
  <2>1. Forwarded(S)'
    BY <1>2, <1>4, <1>8 DEF Forwarded, Interpretable
  <2>2. ForwardingFields(S)'
    BY <1>2, <1>8 DEF ForwardingFields
  <2>3. AllForwarded(S)'
    BY <1>2, <1>4, <1>8 DEF AllForwarded, Interpretable
  <2>4. AllReached(S)'
    BY <1>4, <1>8 DEF AllReached
  <2> QED
    BY <2>1, <2>2, <2>3, <2>4
<1>9. \A S, e : /\ Identified(S) => Identified(S)'
                /\ Expected(e, S) = Expected(e, S)'
  BY <1>2 DEF Identified, Expected
<1>10. CASE pc \in {"mutator", "place", "scan"}
  <2>1. Sound(blocks)' /\ Identified(blocks)'
    BY <1>6, <1>9, <1>10
       DEF PreciseIInv, PreciseOK, Sound, FieldsWithin, Identified
  <2>2. pc = "scan" =>
          Expected(expected1, blocks)' /\ Expected(expected2, blocks)'
    BY <1>10 DEF PreciseIInv, PreciseOK, Expected
  <2> QED
    BY <2>1, <2>2, <1>1, <1>10, PreciseBetween
<1>11. CASE pc = "move"
  <2>1. PICK B : B = blocks
    OBVIOUS
  <2>2. /\ Moved(B) /\ Identified(B)
        /\ Expected(expected1, B) /\ Expected(expected2, B)
        /\ MovingFields(B) /\ AllMoved(B)
    BY <2>1, <1>11, PreciseMoveParts
  <2>3. Moved(B)' /\ MovingFields(B)' /\ AllMoved(B)' /\ Identified(B)'
    BY <2>2, <1>7, <1>9
  <2>4. Expected(expected1, B)' /\ Expected(expected2, B)'
    BY <2>2 DEF Expected
  <2> QED
    BY <2>1, <2>3, <2>4, <1>1, <1>11, PreciseMoving
<1>12. CASE pc = "forward"
  <2>1. PICK S \in SUBSET {v \in Pointers : IsForwarded(v)} :
             /\ Forwarded(S) /\ Identified(S) /\ Expected(expected2, S)
             /\ ForwardingFields(S) /\ AllForwarded(S) /\ AllReached(S)
    BY <1>12, PreciseForwardParts
  <2>2. S \in SUBSET {v \in Pointers : IsForwarded(v)'}
    BY <2>1, <1>2
  <2>3. /\ Forwarded(S)' /\ ForwardingFields(S)' /\ AllForwarded(S)'
        /\ AllReached(S)' /\ Identified(S)'
    BY <2>1, <1>8, <1>9
  <2>4. Expected(expected2, S)'
    BY <2>1 DEF Expected
  <2> QED
    BY <2>2, <2>3, <2>4, <1>1, <1>12, PreciseForwarding
<1>13. CASE pc \in StoppedPcs
  <2>1. HeadersReadable'
    BY DEF PreciseIInv, HeadersReadable
  <2>2. pc' \notin {"mutator", "place", "scan", "move", "forward"}
    BY <1>13 DEF StoppedPcs, AbortPcs
  <2>3. PreciseOK'
    BY <2>2 DEF PreciseOK
  <2> QED
    BY <1>1, <2>1, <2>3 DEF PreciseIInv
<1>14. pc \in {"mutator", "place", "scan", "move", "forward"} \cup StoppedPcs
  BY Typed DEF HeapTypeOK, PreciseIInv, CollectorPcs
<1> QED
  BY <1>10, <1>11, <1>12, <1>13, <1>14

\* The heap begins empty.
LEMMA PreciseInit ==
  ASSUME NoStaleWords, Init
  PROVE  PreciseIInv
<1>1. CollectorIInv
  BY CollectorInit
<1>2. Sound({}) /\ Identified({})
  BY NoTemps DEF Init, Sound, Identified, Locals, Slots
<1> QED
  BY <1>1, <1>2 DEF Init, HeapInit, PreciseIInv, PreciseOK, HeadersReadable

\* The invariant is inductive.
LEMMA PreciseNext ==
  ASSUME RawFitsSlot, NoStaleWords, PreciseIInv, [Next]_vars
  PROVE  PreciseIInv'
<1>1. CollectorIInv'
  BY CollectorNext DEF PreciseIInv
<1>2. HeapIInv'
  BY <1>1 DEF CollectorIInv
<1>3. CASE Program
  BY <1>2, <1>3, PreciseProgram
<1>4. CASE Collector
  <2>1. CASE ScanWord
    BY <2>1, <1>2, PreciseScanWord
  <2>2. CASE StartMove
    BY <2>2, <1>2, PreciseStartMove
  <2>3. CASE MoveSkip
    BY <2>3, <1>2, PreciseMoveSkip
  <2>4. CASE MoveFails
    BY <2>4, <1>2, PreciseMoveFails
  <2>5. CASE \E p \in Pages : MoveObject(p)
    BY <2>5, <1>2, PreciseMoveObject
  <2>6. CASE StartForward
    BY <2>6, <1>2, PreciseStartForward
  <2>7. CASE ForwardSkip \/ ForwardFails
    BY <2>7, PreciseForwardSkip
  <2>8. CASE ForwardPointer
    BY <2>8, <1>2, PreciseForwardPointer
  <2>9. CASE FinishGc
    BY <2>9, <1>2, PreciseFinishGc
  <2> QED
    BY <1>4, <2>1, <2>2, <2>3, <2>4, <2>5, <2>6, <2>7, <2>8, <2>9 DEF Collector
<1>5. CASE Placement
  <2>1. CASE PlaceObjectFails
    <3>1. pc' \in {"no_page", "undefined"}
      BY <2>1 DEF PlaceObjectFails, PlaceFails
    <3> QED
      BY <3>1, <1>1 DEF PreciseIInv, PreciseOK, HeadersReadable
  <2>2. CASE \E p \in Pages : PlaceObject(p)
    BY <2>2, <1>2, PrecisePlace
  <2> QED
    BY <1>5, <2>1, <2>2 DEF Placement
<1>6. CASE \E t \in Temps : Clobber(t)
  BY <1>6, NoTemps
<1>7. CASE UNCHANGED vars
  BY <1>2, <1>7, PreciseStutter
<1>8. CASE Stopped /\ UNCHANGED <<stack, mem, dest, gcVars, historyVars>>
  BY <1>7, <1>8 DEF Stopped, vars
<1> QED
  BY <1>3, <1>4, <1>5, <1>6, <1>7, <1>8 DEF Next

\* The inductive invariant of the collector without stale words: objects that
\* nothing reaches are as sound as the others, the collection moves exactly what
\* the program reaches, each object once, and no assert about a header fails.
THEOREM PreciseInvariantHolds ==
  ASSUME RawFitsSlot, NoStaleWords
  PROVE  Spec => []PreciseIInv
<1>1. Init => PreciseIInv
  BY PreciseInit
<1>2. PreciseIInv /\ [Next]_vars => PreciseIInv'
  BY PreciseNext
<1> QED
  BY <1>1, <1>2, PTL DEF Spec

\* No assert of interpret_header or of traverse_and_forward fails, and
\* traverse_and_move follows no wild pointer, as long as no word find_gc_roots
\* scans is stale.
THEOREM HeadersStayReadable ==
  ASSUME RawFitsSlot, NoStaleWords
  PROVE  Spec => []HeadersReadable
<1>1. PreciseIInv => HeadersReadable
  BY DEF PreciseIInv
<1> QED
  BY <1>1, PreciseInvariantHolds, PTL

\* Whenever the program runs or places an object, and while roots are sought, no
\* variable and no field of an object, be it garbage, dangles.
THEOREM NoPointerDangles ==
  ASSUME RawFitsSlot, NoStaleWords
  PROVE  Spec => []NoDanglingPointer
<1>1. PreciseIInv => NoDanglingPointer
  <2>1. SUFFICES ASSUME PreciseIInv, pc \in {"mutator", "scan", "place"}
                 PROVE  /\ \A x \in Locals : stack[x] \in blocks \cup {NULL}
                        /\ \A b \in blocks :
                             /\ Interpretable(b)
                             /\ \A w \in FieldsOf(b) :
                                  mem[w] \in {Plain(v) : v \in blocks \cup {NULL}}
    BY DEF NoDanglingPointer
  <2>2. CollectorIInv /\ Sound(blocks)
    BY <2>1 DEF PreciseIInv, PreciseOK
  <2>3. ASSUME NEW b \in blocks, NEW f \in PointerFields[KindOf(b)]
        PROVE  mem[b + f] \in {Plain(v) : v \in blocks \cup {NULL}}
    <3>1. /\ b \in Pointers /\ IsHeader(b - 1)
          /\ mem[b + f].value \in blocks \cup {NULL}
      BY <2>2, Typed, SoundObjects
    <3>2. mem[b + f] \in MemoryWord /\ mem[b + f].tag = "plain"
      BY <3>1, <2>2, Typed, FieldFacts
    <3>3. \A x \in MemoryWord : x.tag = "plain" => x = Plain(x.value)
      BY DEF MemoryWord, Plain
    <3> QED
      BY <3>1, <3>2, <3>3
  <2> QED
    BY <2>2, <2>3 DEF Sound, FieldsOf
<1> QED
  BY <1>1, PreciseInvariantHolds, PTL

\* While it lasts, a collection makes one copy of an object at most.
LEMMA CopiesHaveOneOriginal ==
  ASSUME CollectorIInv,
         NEW S, S \subseteq Pointers, Identified(S), copies = CopiesOf(S),
         \A b \in S : CopyOf(b, mem[b - 1].to)
  PROVE  \A a, b \in copies : IdOf(a) = IdOf(b) => a = b
  BY DEF Identified, CopiesOf, CopyOf

\* The invariant gives every object one copy.
LEMMA CopiedOnceFromPrecise ==
  ASSUME PreciseIInv, pc \notin StoppedPcs
  PROVE  CopiedOnce
<1>1. CollectorIInv
  BY DEF PreciseIInv
<1>2. CASE pc \in {"mutator", "place", "scan"}
  BY <1>1, <1>2 DEF CollectorIInv, RootsOK, CopiedOnce
<1>3. CASE pc = "move"
  <2>1. /\ Moved(blocks) /\ Identified(blocks) /\ AllMoved(blocks)
        /\ blocks \subseteq Pointers
    BY <1>3, PreciseMoveParts
  <2>2. PICK S : S = {b \in blocks : IsForwarded(b)}
    OBVIOUS
  <2>3. \A a, b \in copies : IdOf(a) = IdOf(b) => a = b
    <3>1. /\ S \subseteq Pointers /\ copies = CopiesOf(S)
          /\ \A b \in S : CopyOf(b, mem[b - 1].to)
      BY <2>1, <2>2 DEF AllMoved, Moved
    <3>2. Identified(S)
      BY <2>1, <2>2 DEF Identified
    <3> QED
      BY <3>1, <3>2, <1>1, CopiesHaveOneOriginal
  <2>4. ASSUME NEW b \in blocks, IsForwarded(b)
        PROVE  /\ Resolve(b) = mem[b - 1].to
               /\ PageOf(b) \in active_page_array
    <3>1. PageOf(b - 1) = PageOf(b) /\ b # NULL
      BY <2>1, HeaderWord, NullFacts
    <3> QED
      BY <3>1, <2>1, <2>4 DEF Moved, Resolve, IsOld
  <2>5. \A a, b \in blocks :
          IsForwarded(a) /\ IsForwarded(b) /\ Resolve(a) = Resolve(b) => a = b
    BY <2>1, <2>4 DEF Moved, CopiesDistinct
  <2>6. ASSUME NEW a \in blocks, IsForwarded(a), a \in copies
        PROVE  FALSE
    <3>1. PICK b \in blocks : IsForwarded(b) /\ a = mem[b - 1].to
      BY <2>1, <2>6 DEF AllMoved, CopiesOf
    <3>2. PageOf(a - 1) \in passive_page_array
      BY <3>1, <2>1 DEF Moved, CopyOf
    <3>3. PageOf(a - 1) \in active_page_array
      BY <2>1 DEF Moved
    <3> QED
      BY <3>2, <3>3, <1>1, <1>3 DEF CollectorIInv, HeapIInv
  <2> QED
    BY <2>3, <2>5, <2>6 DEF CopiedOnce
<1>4. CASE pc = "forward"
  <2>1. PICK S \in SUBSET {v \in Pointers : IsForwarded(v)} :
             /\ Forwarded(S) /\ Identified(S) /\ AllForwarded(S)
    BY <1>4, PreciseForwardParts
  <2>2. \A a, b \in copies : IdOf(a) = IdOf(b) => a = b
    BY <1>1, <2>1, CopiesHaveOneOriginal DEF Forwarded, AllForwarded
  <2> QED
    BY <2>2, <1>4 DEF CopiedOnce
<1>5. pc \in {"mutator", "place", "scan", "move", "forward"}
  BY <1>1, Typed DEF HeapTypeOK, CollectorPcs
<1> QED
  BY <1>2, <1>3, <1>4, <1>5

\* A program that stops leaves memory as it is.
LEMMA StopsInPlace ==
  ASSUME pc' \in StoppedPcs, [Next]_vars
  PROVE  UNCHANGED <<mem, copies>>
<1> USE DEF StoppedPcs, AbortPcs
<1>1. CASE Program
  BY <1>1 DEF Program, Alloc, HAlloc, Gc, HGc, Load, Store, Clear, WriteRaw,
              LeaveStale, heapVars
<1>2. CASE Collector
  <2>1. CASE ScanWord \/ StartMove \/ MoveSkip \/ StartForward
             \/ (\E p \in Pages : MoveObject(p))
    BY <2>1 DEF ScanWord, StartMove, BeginMove, MoveSkip, StartForward, EndMove,
                MoveObject, Evacuate, heapVars
  <2>2. CASE ForwardSkip \/ ForwardPointer \/ FinishGc
    BY <2>2 DEF ForwardSkip, ForwardPointer, FinishGc, EndForward, heapVars
  <2>3. CASE MoveFails \/ ForwardFails
    BY <2>3 DEF MoveFails, ForwardFails, historyVars
  <2> QED
    BY <1>2, <2>1, <2>2, <2>3 DEF Collector
<1>3. CASE Placement
  BY <1>3 DEF Placement, PlaceObjectFails, PlaceObject, Place, historyVars
<1>4. CASE \E t \in Temps : Clobber(t)
  BY <1>4 DEF Clobber, historyVars
<1>5. CASE \/ UNCHANGED vars
           \/ Stopped /\ UNCHANGED <<stack, mem, dest, gcVars, historyVars>>
  BY <1>5 DEF vars, historyVars
<1> QED
  BY <1>1, <1>2, <1>3, <1>4, <1>5 DEF Next

\* An object that the collector meets over several paths, or round a cycle, is
\* copied once: no two copies are of the same object, no two objects have the
\* same copy, and no copy is copied again.
THEOREM EveryObjectIsCopiedOnce ==
  ASSUME RawFitsSlot, NoStaleWords
  PROVE  Spec => []CopiedOnce
<1>1. Init => PreciseIInv /\ CopiedOnce
  <2>1. Init => pc \notin StoppedPcs
    BY DEF Init, HeapInit, StoppedPcs, AbortPcs
  <2> QED
    BY <2>1, PreciseInit, CopiedOnceFromPrecise
<1>2. PreciseIInv /\ CopiedOnce /\ [Next]_vars => PreciseIInv' /\ CopiedOnce'
  <2>1. SUFFICES ASSUME PreciseIInv, CopiedOnce, [Next]_vars
                 PROVE  PreciseIInv' /\ CopiedOnce'
    OBVIOUS
  <2>2. PreciseIInv'
    BY <2>1, PreciseNext
  <2>3. CASE pc' \in StoppedPcs
    <3>1. UNCHANGED <<mem, copies>> /\ pc' # "move"
      BY <2>1, <2>3, StopsInPlace DEF StoppedPcs, AbortPcs
    <3> QED
      BY <3>1, <2>1, <2>2 DEF CopiedOnce, IdOf
  <2>4. CASE pc' \notin StoppedPcs
    <3>1. (pc \notin StoppedPcs)' => CopiedOnce'
      BY <2>2, CopiedOnceFromPrecise, PTL
    <3> QED
      BY <3>1, <2>2, <2>4 DEF StoppedPcs
  <2> QED
    BY <2>3, <2>4
<1> QED
  BY <1>1, <1>2, PTL DEF Spec

\* h_gc returns when the queue is empty.
LEMMA CollectionReturns ==
  ASSUME [Next]_vars, pc = "forward", pc' \in {"mutator", "place"}
  PROVE  queue = <<>>
<1>1. CASE Program \/ Placement \/ (\E t \in Temps : Clobber(t))
  BY <1>1 DEF Program, Alloc, HAlloc, Gc, HGc, Load, Store, Clear, WriteRaw,
              LeaveStale, Placement, PlaceObjectFails, PlaceFails, PlaceObject,
              Place, Clobber, heapVars
<1>2. CASE Collector
  <2>1. CASE ScanWord \/ StartMove \/ MoveSkip \/ StartForward \/ MoveFails
             \/ (\E p \in Pages : MoveObject(p))
    BY <2>1 DEF ScanWord, StartMove, BeginMove, MoveSkip, StartForward, EndMove,
                MoveObject, Evacuate, MoveFails, Moving
  <2>2. CASE ForwardSkip \/ ForwardPointer \/ ForwardFails
    BY <2>2 DEF ForwardSkip, ForwardPointer, ForwardFails, heapVars
  <2>3. CASE FinishGc
    BY <2>3 DEF FinishGc
  <2> QED
    BY <1>2, <2>1, <2>2, <2>3 DEF Collector
<1>3. CASE \/ UNCHANGED vars
           \/ Stopped /\ UNCHANGED <<stack, mem, dest, gcVars, historyVars>>
  BY <1>3 DEF vars, heapVars, Stopped
<1> QED
  BY <1>1, <1>2, <1>3 DEF Next

\* When h_gc returns, the heap has no object that cannot be reached from a
\* variable of the program.
THEOREM AllGarbageIsReclaimed ==
  ASSUME RawFitsSlot, NoStaleWords
  PROVE  Spec => GarbageReclaimed
<1>1. ASSUME PreciseIInv, [Next]_vars, pc = "forward",
             pc' \in {"mutator", "place"}, NEW T \in SUBSET blocks,
             \A s \in Slots : stack[s] \in T \cup {NULL}, Closed(T)
      PROVE  T = blocks
  <2>1. CollectorIInv /\ queue = <<>>
    BY <1>1, CollectionReturns DEF PreciseIInv
  <2>2. PICK S \in SUBSET {v \in Pointers : IsForwarded(v)} :
             Forwarded(S) /\ AllForwarded(S) /\ AllReached(S)
    BY <1>1, PreciseForwardParts
  <2>3. /\ \A x \in Locals :
             stack[x] = NULL \/ \E b \in S : stack[x] = mem[b - 1].to
        /\ \A b \in S : \A f \in PointerFields[KindOf(b)] :
             \/ mem[b + f].value = NULL
             \/ /\ mem[b + f].value \in S
                /\ mem[mem[b - 1].to + f].value = mem[mem[b + f].value - 1].to
    BY <1>1, <2>1, <2>2, AllForwardedAtEnd
  <2>4. PICK Q : Q = {b \in S : mem[b - 1].to \in T}
    OBVIOUS
  <2>5. \A x \in Locals :
          stack[x] \in Q \cup {NULL} \/ \E b \in Q : stack[x] = mem[b - 1].to
    <3>1. ASSUME NEW x \in Locals, NEW b \in S, stack[x] = mem[b - 1].to
          PROVE  b \in Q
      <4>1. mem[b - 1].to \in Pointers
        BY <2>1, <2>2, OldAndCopy
      <4>2. stack[x] \in T \cup {NULL}
        BY <1>1, SlotFacts
      <4> QED
        BY <4>1, <4>2, <3>1, <2>4, NullFacts
    <3> QED
      BY <3>1, <2>3
  <2>6. ASSUME NEW b \in Q
        PROVE  FieldsWithin(b, Q)
    <3>1. PICK c : c = mem[b - 1].to
      OBVIOUS
    <3>2. b \in S /\ c \in T /\ KindOf(c) = KindOf(b)
      BY <3>1, <2>1, <2>2, <2>4, OldAndCopy
    <3>3. ASSUME NEW f \in PointerFields[KindOf(b)], mem[b + f].value # NULL
          PROVE  mem[b + f].value \in Q
      <4>1. PICK old : old = mem[b + f].value
        OBVIOUS
      <4>2. old \in S /\ mem[c + f].value = mem[old - 1].to
        BY <4>1, <3>1, <3>2, <3>3, <2>3
      <4>3. mem[old - 1].to \in Pointers
        BY <4>2, <2>1, <2>2, OldAndCopy
      <4>4. mem[c + f].value \in T \cup {NULL}
        BY <3>2, <1>1 DEF Closed, FieldsOf
      <4> QED
        BY <4>1, <4>2, <4>3, <4>4, <2>4, NullFacts
    <3> QED
      BY <3>3 DEF FieldsWithin, FieldsOf
  <2>7. Q = S
    BY <2>2, <2>4, <2>5, <2>6 DEF AllReached
  <2> QED
    BY <2>2, <2>4, <2>7, <1>1 DEF AllForwarded, CopiesOf
<1>2. PreciseIInv /\ [Next]_vars =>
        [pc = "forward" /\ pc' \in {"mutator", "place"} =>
           \A S \in SUBSET blocks :
             (\A s \in Slots : stack[s] \in S \cup {NULL}) /\ Closed(S)
               => S = blocks]_vars
  BY <1>1
<1> QED
  BY <1>2, PreciseInvariantHolds, PTL DEF Spec, GarbageReclaimed

-----------------------------------------------------------------------------
(* How many bytes a collection reclaims *)

\* What is summed over
LEMMA FiniteMemory ==
  /\ IsFiniteSet(Words) /\ IsFiniteSet(Pages) /\ Words \subseteq Nat
<1>1. page_amount \in Int /\ page_amount * WORDS_PER_PAGE - 1 \in Int
  BY PageFacts
<1> QED
  BY <1>1, FS_Interval DEF Words, Pages

\* Objects with a kind have a size.
LEMMA BlockBytesType ==
  ASSUME NEW m, NEW B, \A b \in B : m[b - 1].kind \in Kinds
  PROVE  BlockBytes(m, B) \in [Words -> Nat]
<1>1. ASSUME NEW v \in Words
      PROVE  (IF v \in B THEN TotalSize(ObjectSize[m[v - 1].kind]) ELSE 0) \in Nat
  BY ConstantFacts, TotalSizeFacts
<1> QED
  BY <1>1 DEF BlockBytes

\* The sum depends on the kinds of the blocks only.
LEMMA BytesKept ==
  ASSUME NEW m, NEW n, NEW B, \A b \in B : n[b - 1].kind = m[b - 1].kind
  PROVE  BytesOf(n, B) = BytesOf(m, B)
<1>1. BlockBytes(n, B) = BlockBytes(m, B)
  BY DEF BlockBytes
<1> QED
  BY <1>1 DEF BytesOf

\* A new block adds its bytes.
LEMMA BytesAdded ==
  ASSUME NEW m, NEW B, \A b \in B : m[b - 1].kind \in Kinds,
         NEW v \in Words \ B, NEW k \in Kinds, m[v - 1].kind = k
  PROVE  BytesOf(m, B \cup {v}) = BytesOf(m, B) + TotalSize(ObjectSize[k])
<1>1. PICK f, g : f = BlockBytes(m, B) /\ g = BlockBytes(m, B \cup {v})
  OBVIOUS
<1>2. f \in [Words -> Nat] /\ g \in [Words -> Nat]
  BY <1>1, BlockBytesType
<1>3. PICK t \in Nat : t = TotalSize(ObjectSize[k])
  BY ConstantFacts, TotalSizeFacts
<1>4. g[v] = f[v] + t
  BY <1>1, <1>3 DEF BlockBytes
<1>5. \A u \in Words : u # v => g[u] = f[u]
  BY <1>1 DEF BlockBytes
<1>6. Total(g, Words) = Total(f, Words) + t
  <2>1. v \in Words /\ IsFiniteSet(Words)
    BY FiniteMemory
  <2> QED
    BY <2>1, <1>2, <1>4, <1>5, TotalChanged
<1> QED
  BY <1>1, <1>3, <1>6 DEF BytesOf

\* Fewer blocks have no more bytes.
LEMMA BytesOfFewer ==
  ASSUME NEW m, NEW B, \A b \in B : m[b - 1].kind \in Kinds, NEW A \in SUBSET B
  PROVE  BytesOf(m, A) <= BytesOf(m, B)
<1>1. PICK f, g : f = BlockBytes(m, A) /\ g = BlockBytes(m, B)
  OBVIOUS
<1>2. f \in [Words -> Nat] /\ g \in [Words -> Nat]
  BY <1>1, BlockBytesType
<1>3. ASSUME NEW v \in Words
      PROVE  f[v] <= g[v]
  <2>1. f[v] = g[v] \/ f[v] = 0
    BY <1>1 DEF BlockBytes
  <2>2. f[v] \in Nat /\ g[v] \in Nat
    BY <1>2
  <2> QED
    BY <2>1, <2>2
<1>4. Total(f, Words) <= Total(g, Words)
  BY <1>2, <1>3, FiniteMemory, TotalOfLess
<1> QED
  BY <1>1, <1>4 DEF BytesOf

\* No blocks have no bytes.
LEMMA BytesOfNone ==
  ASSUME NEW m
  PROVE  BytesOf(m, {}) = 0
<1>1. PICK f : f = BlockBytes(m, {})
  OBVIOUS
<1>2. f \in [Words -> Nat] /\ \A v \in Words : f[v] = 0
  BY <1>1 DEF BlockBytes
<1>3. Total(f, Words) = 0
  BY <1>2, FiniteMemory, TotalOfZeros
<1> QED
  BY <1>1, <1>3 DEF BytesOf

\* The pages fill up by what is reserved in them.
LEMMA CountAfterReserve ==
  ASSUME HeapTypeOK, HeapTypeOK', NEW p \in Pages, NEW t \in Nat, Reserve(p, t)
  PROVE  count_allocated_bytes_on_heap' = count_allocated_bytes_on_heap + t
<1>1. PICK f, g : f = next_empty_space /\ g = next_empty_space'
  OBVIOUS
<1>2. f \in [Pages -> Nat] /\ g \in [Pages -> Nat]
  BY <1>1, ConstantFacts DEF HeapTypeOK
<1>3. g[p] = f[p] + t /\ \A q \in Pages : q # p => g[q] = f[q]
  BY <1>1, <1>2 DEF Reserve
<1>4. Total(g, Pages) = Total(f, Pages) + t
  BY <1>2, <1>3, FiniteMemory, TotalChanged
<1>5. Total(next_empty_space', Pages) = Total(next_empty_space, Pages) + t
  BY <1>1, <1>4
<1> QED
  BY <1>5 DEF count_allocated_bytes_on_heap

\* A copy adds its bytes to the passive pages.
LEMMA CopiedAfterReserve ==
  ASSUME HeapTypeOK, HeapTypeOK', NEW p \in passive_page_array, NEW t \in Nat,
         Reserve(p, t), UNCHANGED passive_page_array
  PROVE  PassiveBytes' = PassiveBytes + t
<1>1. PICK f, g : f = CopiedBytes /\ g = CopiedBytes'
  OBVIOUS
<1>2. /\ next_empty_space \in [Pages -> Nat]
      /\ next_empty_space' \in [Pages -> Nat]
      /\ p \in Pages
  BY ConstantFacts DEF HeapTypeOK
<1>3. f \in [Pages -> Nat] /\ g \in [Pages -> Nat]
  BY <1>1, <1>2 DEF CopiedBytes
<1>4. g[p] = f[p] + t /\ \A q \in Pages : q # p => g[q] = f[q]
  BY <1>1, <1>2 DEF Reserve, CopiedBytes
<1>5. Total(g, Pages) = Total(f, Pages) + t
  BY <1>2, <1>3, <1>4, FiniteMemory, TotalChanged
<1>6. Total(CopiedBytes', Pages) = Total(CopiedBytes, Pages) + t
  BY <1>1, <1>5
<1> QED
  BY <1>6 DEF PassiveBytes

\* The block of a copy is as large as the block it is copied from.
LEMMA SameBlockSize ==
  ASSUME RawFitsSlot, NEW k \in Kinds
  PROVE  TotalSize(MovedBytes(k)) = TotalSize(ObjectSize[k])
<1>1. CASE k \in Layouts
  BY <1>1, HeapAssumption DEF MovedBytes
<1>2. CASE k \in RawSizes
  <2>1. ObjectSize[k] \in 0 .. 8 /\ MovedBytes(k) = 0
    BY <1>2, ConstantFacts
       DEF RawFitsSlot, MovedBytes, MIN_OBJECT_SIZE, HEADER_SIZE
  <2>2. \A n \in 0 .. 8 : TotalSize(n) = 16
    BY DEF TotalSize, HEADER_SIZE
  <2> QED
    BY <2>1, <2>2
<1> QED
  BY <1>1, <1>2 DEF Kinds

BytesIInv == PreciseIInv /\ BytesOK

\* Every header names a kind.
LEMMA KindsOf ==
  ASSUME CollectorIInv, NEW B, B \subseteq Pointers, \A b \in B : IsHeader(b - 1)
  PROVE  \A b \in B : mem[b - 1].kind \in Kinds
<1>1. \A b \in B : mem[b - 1] \in MemoryWord
  BY HeaderWord, Typed
<1> QED
  BY <1>1, WordCases DEF IsHeader

\* No page changes its fill, and the blocks keep their kinds.
LEMMA BytesStay ==
  ASSUME BytesOK,
         UNCHANGED <<next_empty_space, passive_page_array, blocks, copies>>,
         pc \in {"mutator", "place", "scan", "move", "forward"},
         \/ pc' = pc /\ UNCHANGED initial_size_usage
         \/ pc = "mutator" /\ pc' = "place"
         \/ /\ pc = "mutator" /\ pc' = "scan"
            /\ initial_size_usage' = count_allocated_bytes_on_heap
         \/ pc = "forward" /\ pc' \in {"mutator", "place"},
         \A b \in blocks : mem'[b - 1].kind = mem[b - 1].kind,
         pc' = "move" =>
           /\ \A b \in blocks : IsForwarded(b)' = IsForwarded(b)
           /\ \A c \in copies : mem'[c - 1].kind = mem[c - 1].kind
  PROVE  BytesOK'
<1>1. PICK B, F, C, m, n : /\ B = blocks /\ F = {b \in B : IsForwarded(b)}
                           /\ C = copies /\ m = mem /\ n = mem'
  OBVIOUS
<1>2. count_allocated_bytes_on_heap' = count_allocated_bytes_on_heap
  BY DEF count_allocated_bytes_on_heap
<1>3. PassiveBytes' = PassiveBytes
  BY DEF PassiveBytes, CopiedBytes
<1>4. BytesOf(n, B) = BytesOf(m, B) /\ BytesOf(n, F) = BytesOf(m, F)
  BY <1>1, BytesKept
<1>5. pc' = "move" => /\ BytesOf(n, C) = BytesOf(m, C)
                      /\ {b \in blocks' : IsForwarded(b)'} = F
  BY <1>1, BytesKept
<1>6. /\ blocks' = B /\ copies' = C
  BY <1>1
<1> QED
  BY <1>1, <1>2, <1>3, <1>4, <1>5, <1>6 DEF BytesOK

\* The program's own steps move no block.
LEMMA BytesProgram ==
  ASSUME BytesIInv, HeapIInv', Program
  PROVE  BytesOK'
<1>1. PICK B : B = blocks
  OBVIOUS
<1>2. /\ pc = "mutator"
      /\ \/ pc' = pc /\ UNCHANGED initial_size_usage
         \/ pc' = "place"
         \/ pc' = "scan" /\ initial_size_usage' = count_allocated_bytes_on_heap
      /\ UNCHANGED <<next_empty_space, passive_page_array, blocks, copies>>
  BY DEF Program, Alloc, HAlloc, Gc, HGc, Load, Store, Clear, WriteRaw,
         LeaveStale, heapVars, pageVars, snapshotVars, gcVars, historyVars
<1>3. CollectorIInv /\ Sound(B)
  BY <1>1, <1>2 DEF BytesIInv, PreciseIInv, PreciseOK
<1>4. \A b \in B : mem'[b - 1] = mem[b - 1]
  BY <1>1, <1>3, ProgramKeeps
<1> QED
  BY <1>1, <1>2, <1>4, BytesStay DEF BytesIInv

\* An allocation adds a block to the pages and to the objects.
LEMMA BytesPlace ==
  ASSUME RawFitsSlot, BytesIInv, HeapIInv', NEW p \in Pages, PlaceObject(p)
  PROVE  BytesOK'
<1>1. PICK B, v, k, m, n : /\ B = blocks /\ v = ObjectAt(p) /\ k = request
                           /\ m = mem /\ n = mem'
  OBVIOUS
<1>2. /\ pc = "place" /\ pc' = "mutator" /\ blocks' = B \cup {v}
      /\ Reserve(p, TotalSize(ObjectSize[k]))
  BY <1>1 DEF PlaceObject, Place
<1>3. CollectorIInv /\ Sound(B)
  BY <1>1, <1>2 DEF BytesIInv, PreciseIInv, PreciseOK
<1>4. /\ v \in Pointers /\ ~InUse(v - 1)
      /\ \A b \in B : n[b - 1] = m[b - 1]
      /\ n[v - 1].kind = k
  BY <1>1, <1>2, <1>3, PlaceObjectKeeps
<1>5. k \in Kinds
  BY <1>1, <1>2, <1>3, Typed DEF HeapTypeOK
<1>6. /\ B \subseteq Pointers /\ \A b \in B : m[b - 1].kind \in Kinds
      /\ v \notin B
  <2>1. B \subseteq Pointers /\ \A b \in B : IsHeader(b - 1) /\ InUse(b - 1)
    BY <1>1, <1>3, Typed, SoundObjects
  <2> QED
    BY <2>1, <1>1, <1>3, <1>4, KindsOf
<1>7. BytesOf(n, B \cup {v}) = BytesOf(m, B) + TotalSize(ObjectSize[k])
  <2>1. BytesOf(n, B) = BytesOf(m, B)
    BY <1>4, BytesKept
  <2>2. v \in Words \ B /\ \A b \in B : n[b - 1].kind \in Kinds
    BY <1>4, <1>6, HeaderWord
  <2> QED
    BY <2>1, <2>2, <1>4, <1>5, BytesAdded
<1>8. count_allocated_bytes_on_heap' =
        count_allocated_bytes_on_heap + TotalSize(ObjectSize[k])
  BY <1>2, <1>3, <1>5, Typed, CountAfterReserve, ConstantFacts, TotalSizeFacts
     DEF HeapIInv
<1> QED
  BY <1>1, <1>2, <1>7, <1>8 DEF BytesIInv, BytesOK

\* When the traversal starts the passive pages are empty.
LEMMA BytesStartMove ==
  ASSUME BytesIInv, HeapIInv', StartMove
  PROVE  BytesOK'
<1>1. PICK B, m : B = blocks /\ m = mem
  OBVIOUS
<1>2. /\ pc = "scan" /\ pc' = "move"
      /\ passive_page_array' = {p \in Pages : ~is_active[p]}
      /\ UNCHANGED <<next_empty_space, mem, blocks, copies, initial_size_usage>>
  BY DEF StartMove, BeginMove, pageVars, historyVars
<1>3. CollectorIInv /\ Sound(B)
  BY <1>1, <1>2 DEF BytesIInv, PreciseIInv, PreciseOK
<1>4. \A b \in B : ~IsForwarded(b)'
  BY <1>1, <1>3, StartMoveKeeps
<1>5. copies' = {} /\ {b \in blocks' : IsForwarded(b)'} = {}
  BY <1>1, <1>2, <1>3, <1>4 DEF CollectorIInv, RootsOK
<1>6. PassiveBytes' = 0
  <2>1. PICK f : f = CopiedBytes'
    OBVIOUS
  <2>2. \A p \in Pages : ~is_active[p] => next_empty_space[p] = 0
    BY <1>3, Typed, ConstantFacts
       DEF CollectorIInv, HeapIInv, ActiveIffUsed, HeapTypeOK
  <2>3. f \in [Pages -> Nat] /\ \A p \in Pages : f[p] = 0
    BY <2>1, <2>2, <1>2 DEF CopiedBytes
  <2>4. Total(f, Pages) = 0
    BY <2>3, FiniteMemory, TotalOfZeros
  <2> QED
    BY <2>1, <2>4 DEF PassiveBytes
<1>7. BytesOf(m, {}) = 0
  BY BytesOfNone
<1> QED
  BY <1>1, <1>2, <1>5, <1>6, <1>7 DEF BytesIInv, BytesOK

\* The copies take what the objects that were moved took.
LEMMA BytesMoveObject ==
  ASSUME RawFitsSlot, NoStaleWords, BytesIInv, HeapIInv',
         NEW p \in Pages, MoveObject(p)
  PROVE  BytesOK'
<1>1. PICK B, F, C, from, to, k, m, n :
        /\ B = blocks /\ F = {b \in B : IsForwarded(b)} /\ C = copies
        /\ from = Current /\ to = ObjectAt(p) /\ k = mem[from - 1].kind
        /\ m = mem /\ n = mem'
  OBVIOUS
<1>2. /\ pc = "move" /\ pc' = "move" /\ queue # <<>>
      /\ Readable(Head(queue)) /\ ~IsForwarded(from) /\ Interpretable(from)
      /\ copies' = C \cup {to} /\ p \in passive_page_array
      /\ Reserve(p, TotalSize(MovedBytes(k)))
      /\ UNCHANGED <<blocks, initial_size_usage, passive_page_array>>
  BY <1>1 DEF MoveObject, Moving, Evacuate, IsForwarded, MovesTo, IsFirst,
              snapshotVars
<1>3. /\ CollectorIInv /\ Moved(B) /\ B \subseteq Pointers /\ AllMoved(B)
      /\ PreciseIInv
  BY <1>1, <1>2, PreciseMoveParts DEF BytesIInv
<1>4. from \in B
  BY <1>1, <1>2, <1>3, PreciseMoveHead
<1>5. /\ to \in Pointers /\ KindOf(from) = k /\ n[to - 1] = m[from - 1]
      /\ \A b \in B : KindOf(b)' = KindOf(b)
      /\ \A b \in B : IsForwarded(b)' <=> b = from \/ IsForwarded(b)
  BY <1>1, <1>3, MoveObjectKeeps
<1>6. \A b \in B : \A c : CopyOf(b, c) =>
        c # to /\ (c # from => n[c - 1] = m[c - 1])
  BY <1>1, <1>3, MoveObjectKeeps
<1>7. k \in Kinds
  BY <1>1, <1>2 DEF Interpretable
<1>8. PICK t \in Nat : /\ t = TotalSize(ObjectSize[k])
                       /\ t = TotalSize(MovedBytes(k))
  BY <1>7, SameBlockSize, ConstantFacts, TotalSizeFacts
<1>9. \A b \in B : n[b - 1].kind = m[b - 1].kind
  BY <1>1, <1>5 DEF KindOf
<1>10. \A b \in B : m[b - 1].kind \in Kinds
  BY <1>1, <1>3, KindsOf DEF Moved
\* The originals
<1>11. BytesOf(n, F \cup {from}) = BytesOf(m, F) + t
  <2>1. BytesOf(n, F) = BytesOf(m, F)
    BY <1>1, <1>9, BytesKept
  <2>2. from \in Words \ F /\ n[from - 1].kind = k
    BY <1>1, <1>2, <1>3, <1>4, <1>9, HeaderWord
  <2>3. \A b \in F : n[b - 1].kind \in Kinds
    BY <1>1, <1>9, <1>10
  <2>4. BytesOf(n, F \cup {from}) = BytesOf(n, F) + TotalSize(ObjectSize[k])
    BY <2>2, <2>3, <1>7, BytesAdded
  <2> QED
    BY <2>1, <2>4, <1>8
<1>12. {b \in blocks' : IsForwarded(b)'} = F \cup {from}
  BY <1>1, <1>2, <1>4, <1>5
\* The copies
<1>13. ASSUME NEW c \in C
       PROVE  /\ c # to /\ n[c - 1] = m[c - 1] /\ c \in Pointers
              /\ IsHeader(c - 1)
  <2>1. PICK b \in B : IsForwarded(b) /\ c = mem[b - 1].to
    BY <1>1, <1>3 DEF AllMoved, CopiesOf
  <2>2. CopyOf(b, c) /\ PageOf(from - 1) \in active_page_array
    BY <2>1, <1>3, <1>4 DEF Moved
  <2>3. c # from
    BY <2>2, <1>2, <1>3 DEF CopyOf, CollectorIInv, HeapIInv
  <2>4. c \in Pointers
    BY <1>1, <1>3 DEF CollectorIInv, TypesOK
  <2> QED
    BY <2>2, <2>3, <2>4, <1>6 DEF CopyOf
<1>14. BytesOf(n, C \cup {to}) = BytesOf(m, C) + t
  <2>1. BytesOf(n, C) = BytesOf(m, C)
    BY <1>13, BytesKept
  <2>2. to \in Words \ C /\ n[to - 1].kind = k
    BY <1>1, <1>5, <1>13, HeaderWord
  <2>3. \A b \in C : n[b - 1].kind \in Kinds
    <3>1. C \subseteq Pointers /\ \A b \in C : IsHeader(b - 1)
      BY <1>13
    <3> QED
      BY <3>1, <1>1, <1>3, <1>13, KindsOf
  <2>4. BytesOf(n, C \cup {to}) = BytesOf(n, C) + TotalSize(ObjectSize[k])
    BY <2>2, <2>3, <1>7, BytesAdded
  <2> QED
    BY <2>1, <2>4, <1>8
<1>15. PassiveBytes' = PassiveBytes + t
  BY <1>2, <1>3, <1>8, Typed, CopiedAfterReserve DEF HeapIInv
<1>16. BytesOf(n, B) = BytesOf(m, B)
  BY <1>9, BytesKept
<1> QED
  BY <1>1, <1>2, <1>11, <1>12, <1>14, <1>15, <1>16 DEF BytesIInv, BytesOK

\* The evacuated pages are emptied, so the copies are all the heap holds.
LEMMA BytesStartForward ==
  ASSUME NoStaleWords, BytesIInv, HeapIInv', PreciseIInv', StartForward
  PROVE  BytesOK'
<1>1. PICK B, F, C, m : /\ B = blocks /\ F = {b \in B : IsForwarded(b)}
                        /\ C = copies /\ m = mem
  OBVIOUS
<1>2. /\ pc = "move" /\ pc' = "forward"
      /\ next_empty_space' = Released(next_empty_space, 0)
      /\ UNCHANGED <<mem, copies, initial_size_usage>>
  BY DEF StartForward, EndMove
<1>3. CollectorIInv /\ Moved(B) /\ B \subseteq Pointers
  BY <1>1, <1>2, PreciseMoveParts DEF BytesIInv
<1>4. blocks' = C
  <2>1. PreciseOK'
    BY DEF PreciseIInv
  <2> QED
    BY <2>1, <1>1, <1>2 DEF PreciseOK, AllForwarded
<1>5. count_allocated_bytes_on_heap' = PassiveBytes
  <2>1. /\ active_page_array \cup passive_page_array = Pages
        /\ active_page_array \cap passive_page_array = {}
    BY <1>2, <1>3 DEF CollectorIInv, HeapIInv
  <2>2. next_empty_space' = CopiedBytes
    BY <2>1, <1>2 DEF Released, CopiedBytes
  <2> QED
    BY <2>2 DEF count_allocated_bytes_on_heap, PassiveBytes
<1>6. BytesOf(m, F) <= BytesOf(m, B)
  <2>1. \A b \in B : m[b - 1].kind \in Kinds
    BY <1>1, <1>3, KindsOf DEF Moved
  <2> QED
    BY <2>1, <1>1, BytesOfFewer
<1> QED
  BY <1>1, <1>2, <1>4, <1>5, <1>6 DEF BytesIInv, BytesOK

\* Forwarding changes no header.
LEMMA BytesForwardPointer ==
  ASSUME BytesIInv, HeapIInv', ForwardPointer
  PROVE  BytesOK'
<1>1. /\ pc = "forward" /\ pc' = pc
      /\ UNCHANGED <<next_empty_space, passive_page_array, blocks, copies,
                     initial_size_usage>>
  BY DEF ForwardPointer, heapVars, pageVars, snapshotVars, historyVars
<1>2. PICK S \in SUBSET {v \in Pointers : IsForwarded(v)} :
           Forwarded(S) /\ AllForwarded(S)
  BY <1>1, PreciseForwardParts DEF BytesIInv
<1>3. CollectorIInv
  BY DEF BytesIInv, PreciseIInv
<1>4. \A b \in S : \A c : c = mem[b - 1].to => mem'[c - 1] = mem[c - 1]
  BY <1>2, <1>3, ForwardPointerKeeps
<1>5. \A c \in blocks : mem'[c - 1].kind = mem[c - 1].kind
  BY <1>2, <1>4 DEF AllForwarded, CopiesOf
<1> QED
  BY <1>1, <1>5, BytesStay DEF BytesIInv

\* The invariant with the sums is inductive.
LEMMA BytesNext ==
  ASSUME RawFitsSlot, NoStaleWords, BytesIInv, [Next]_vars
  PROVE  BytesIInv'
<1>1. PreciseIInv' /\ HeapIInv' /\ PreciseIInv
  BY PreciseNext DEF BytesIInv, PreciseIInv, CollectorIInv
<1>2. CASE pc' \in StoppedPcs
  BY <1>1, <1>2 DEF BytesIInv, BytesOK, StoppedPcs, AbortPcs
<1>3. ASSUME UNCHANGED <<mem, heapVars, blocks, copies, initial_size_usage>>,
             pc' \notin StoppedPcs
      PROVE  BytesOK'
  <2>1. UNCHANGED <<next_empty_space, passive_page_array, blocks, copies,
                    pc, mem, initial_size_usage>>
    BY <1>3 DEF heapVars, pageVars, snapshotVars
  <2>2. pc \in {"mutator", "place", "scan", "move", "forward"}
    BY <1>1, <1>3, <2>1, Typed DEF HeapTypeOK, CollectorPcs, PreciseIInv
  <2> QED
    BY <2>1, <2>2, BytesStay
       DEF BytesIInv, IsForwarded, header_is_forwarding_address
<1>4. CASE Program
  BY <1>1, <1>4, BytesProgram DEF BytesIInv
<1>5. CASE Collector /\ pc' \notin StoppedPcs
  <2>1. CASE ScanWord \/ MoveSkip
    BY <2>1, <1>1, <1>3, <1>5 DEF ScanWord, MoveSkip, historyVars, BytesIInv
  <2>2. CASE StartMove
    BY <2>2, <1>1, BytesStartMove DEF BytesIInv
  <2>3. CASE MoveFails \/ ForwardFails
    BY <2>3, <1>5 DEF MoveFails, ForwardFails, HeaderAssertFails, EvacuateFails,
                      StoppedPcs, AbortPcs
  <2>4. CASE \E p \in Pages : MoveObject(p)
    BY <2>4, <1>1, BytesMoveObject DEF BytesIInv
  <2>5. CASE StartForward
    BY <2>5, <1>1, BytesStartForward DEF BytesIInv
  <2>6. CASE ForwardSkip
    BY <2>6, <1>1, PreciseForwardSkip
  <2>7. CASE ForwardPointer
    BY <2>7, <1>1, BytesForwardPointer DEF BytesIInv
  <2>8. CASE FinishGc
    <3>1. /\ pc = "forward" /\ pc' \in {"mutator", "place"}
          /\ UNCHANGED <<next_empty_space, mem, blocks>>
      BY <2>8 DEF FinishGc, EndForward, pageVars
    <3>2. count_allocated_bytes_on_heap' = count_allocated_bytes_on_heap
      BY <3>1 DEF count_allocated_bytes_on_heap
    <3> QED
      BY <3>1, <3>2, <1>1 DEF BytesIInv, BytesOK
  <2> QED
    BY <1>5, <2>1, <2>2, <2>3, <2>4, <2>5, <2>6, <2>7, <2>8 DEF Collector
<1>6. CASE Placement /\ pc' \notin StoppedPcs
  <2>1. ~PlaceObjectFails
    BY <1>6 DEF PlaceObjectFails, PlaceFails, StoppedPcs, AbortPcs
  <2> QED
    BY <2>1, <1>1, <1>6, BytesPlace DEF Placement, BytesIInv
<1>7. CASE \E t \in Temps : Clobber(t)
  BY <1>7, NoTemps
<1>8. CASE UNCHANGED vars /\ pc' \notin StoppedPcs
  BY <1>1, <1>3, <1>8 DEF vars, gcVars, historyVars, BytesIInv
<1>9. CASE Stopped /\ pc' \notin StoppedPcs
  BY <1>9 DEF Stopped, heapVars
<1> QED
  BY <1>2, <1>4, <1>5, <1>6, <1>7, <1>8, <1>9 DEF Next

\* h_gc_dbg's difference of two sizes does not wrap: a collection never leaves
\* more bytes in use than it found.
THEOREM CollectionNeverGrowsTheHeap ==
  ASSUME RawFitsSlot, NoStaleWords
  PROVE  Spec => []ReclaimedIsNotNegative
<1>1. Init => BytesIInv
  <2>1. SUFFICES ASSUME Init PROVE BytesIInv
    OBVIOUS
  <2>2. PreciseIInv
    BY <2>1, PreciseInit
  <2>3. PICK f : f = next_empty_space
    OBVIOUS
  <2>4. f \in [Pages -> Nat] /\ \A p \in Pages : f[p] = 0
    BY <2>1, <2>3 DEF Init, HeapInit
  <2>5. count_allocated_bytes_on_heap = 0
    BY <2>3, <2>4, FiniteMemory, TotalOfZeros DEF count_allocated_bytes_on_heap
  <2>6. BytesOf(mem, blocks) = 0 /\ pc = "mutator"
    BY <2>1, BytesOfNone DEF Init, HeapInit
  <2> QED
    BY <2>2, <2>5, <2>6 DEF BytesIInv, BytesOK
<1>2. BytesIInv /\ [Next]_vars => BytesIInv'
  BY BytesNext
<1>3. BytesIInv => ReclaimedIsNotNegative
  BY DEF BytesIInv, BytesOK, ReclaimedIsNotNegative
<1> QED
  BY <1>1, <1>2, <1>3, PTL DEF Spec

=============================================================================
