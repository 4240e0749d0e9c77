-------------------------- MODULE CompactingProofs --------------------------
(***************************************************************************)
(* Compacting implements Heap: whatever objects, roots and stale words a   *)
(* collection meets, on the pages it only takes the steps of module Heap.  *)
(* The page accounting proved there so holds for the whole system.         *)
(***************************************************************************)
EXTENDS Compacting, HeapProofs

\* The program between its calls, and the words that change under the
\* collector, leave the pages alone; each call of the heap starts as in Heap.
LEMMA ProgramSteps ==
  ASSUME Program \/ \E t \in Temps : Clobber(t)
  PROVE  [HeapNext]_heapVars
<1>1. ASSUME NEW x \in Locals, NEW k \in Kinds, Alloc(x, k)
      PROVE  HeapNext
  BY <1>1 DEF Alloc, HeapNext
<1>2. CASE Gc
  BY <1>2 DEF Gc, HeapNext
<1>3. ASSUME NEW x \in Locals, NEW y \in Locals,
             NEW f \in UNION {PointerFields[k] : k \in Kinds},
             Load(x, y, f) \/ Store(y, f, x)
      PROVE  UNCHANGED heapVars
  BY <1>3 DEF Load, Store
<1>4. ASSUME NEW x \in Locals, Clear(x) \/ WriteRaw(x)
      PROVE  UNCHANGED heapVars
  BY <1>4 DEF Clear, WriteRaw
<1>5. ASSUME NEW t \in Temps, NEW x \in Locals, LeaveStale(t, x)
      PROVE  UNCHANGED heapVars
  BY <1>5 DEF LeaveStale
<1>6. ASSUME NEW t \in Temps, Clobber(t)
      PROVE  UNCHANGED heapVars
  BY <1>6 DEF Clobber
<1> QED
  BY <1>1, <1>2, <1>3, <1>4, <1>5, <1>6 DEF Program

\* Only a header that can be read chooses a page, so the object moved is of a
\* kind that was allocated.
LEMMA MoveSteps ==
  ASSUME MoveSkip \/ MoveFails \/ \E p \in Pages : MoveObject(p)
  PROVE  [HeapNext]_heapVars
<1>1. ASSUME NEW v, Interpretable(v)
      PROVE  mem[v - 1].kind \in Kinds
  BY <1>1 DEF Interpretable
<1>2. CASE MoveSkip
  BY <1>2 DEF MoveSkip
<1>3. ASSUME NEW p \in Pages, MoveObject(p)
      PROVE  HeapNext
  <2>1. Interpretable(Current) /\ Evacuate(mem[Current - 1].kind, p)
    BY <1>3 DEF MoveObject
  <2> QED
    BY <1>1, <2>1 DEF HeapNext
<1>4. CASE MoveFails
  <2>1. CASE HeaderAssertFails
    BY <2>1 DEF HeapNext
  <2>2. CASE Interpretable(Current) /\ EvacuateFails(mem[Current - 1].kind)
    BY <1>1, <2>2 DEF HeapNext
  <2> QED
    BY <1>4, <2>1, <2>2 DEF MoveFails
<1> QED
  BY <1>2, <1>3, <1>4

\* Every step of a collection is a step of Heap or leaves the pages alone.
LEMMA CollectorSteps ==
  ASSUME Collector
  PROVE  [HeapNext]_heapVars
<1>1. CASE ScanWord
  BY <1>1 DEF ScanWord
<1>2. CASE StartMove
  BY <1>2 DEF StartMove, HeapNext
<1>3. CASE MoveSkip \/ MoveFails \/ \E p \in Pages : MoveObject(p)
  BY <1>3, MoveSteps
<1>4. CASE StartForward
  BY <1>4 DEF StartForward, HeapNext
<1>5. CASE ForwardSkip
  BY <1>5 DEF ForwardSkip
<1>6. CASE ForwardPointer
  BY <1>6 DEF ForwardPointer
<1>7. CASE ForwardFails
  BY <1>7 DEF ForwardFails, HeapNext
<1>8. CASE FinishGc
  BY <1>8 DEF FinishGc, HeapNext
<1> QED
  BY <1>1, <1>2, <1>3, <1>4, <1>5, <1>6, <1>7, <1>8 DEF Collector

\* Every step of the system is a step of Heap or leaves the pages alone.
LEMMA StepsImplementHeap ==
  ASSUME [Next]_vars
  PROVE  [HeapNext]_heapVars
<1>1. CASE Placement
  <2>1. CASE PlaceObjectFails
    BY <2>1 DEF PlaceObjectFails, HeapNext
  <2>2. ASSUME NEW p \in Pages, PlaceObject(p)
        PROVE  HeapNext
    BY <2>2 DEF PlaceObject, HeapNext
  <2> QED
    BY <1>1, <2>1, <2>2 DEF Placement
<1>2. CASE Stopped
  BY <1>2 DEF HeapNext
<1>3. CASE UNCHANGED vars
  BY <1>3 DEF vars
<1> QED
  BY <1>1, <1>2, <1>3, ProgramSteps, CollectorSteps DEF Next

\* The program, its objects and the collector, seen from the pages, behave as
\* module Heap says.
THEOREM CompactingImplementsHeap == Spec => HeapSpec
<1>1. Init => HeapInit
  BY DEF Init
<1>2. [Next]_vars => [HeapNext]_heapVars
  BY StepsImplementHeap
<1> QED
  BY <1>1, <1>2, PTL DEF Spec, HeapSpec

\* The three records of a page agree, and no remaining_size wraps, whatever
\* the program allocates and the collector moves.
THEOREM CompactingPageAccounting == Spec => []PageAccounting
  BY CompactingImplementsHeap, PageAccountingHolds, PTL

\* A page being evacuated is not allocated in, whatever order the traversal
\* takes the objects in.
THEOREM CompactingEvacuatedPagesFrozen == Spec => EvacuatedPagesFrozen
  BY CompactingImplementsHeap, EvacuatedPagesFrozenHolds, PTL

=============================================================================
