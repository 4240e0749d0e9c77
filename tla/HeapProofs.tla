----------------------------- MODULE HeapProofs -----------------------------
(***************************************************************************)
(* The page accounting of module Heap holds for every page size, heap      *)
(* size, threshold and set of objects.                                     *)
(***************************************************************************)
EXTENDS Heap, FiniteSetTheorems, TLAPS

\* The padding of allocation.c and compacting.c makes whole slots, the fewest
\* that hold the header and the object.
LEMMA TotalSizeFacts ==
  ASSUME NEW n \in Nat
  PROVE  /\ TotalSize(n) \in Nat
         /\ TotalSize(n) % 16 = 0
         /\ TotalSize(n) >= 16
         /\ TotalSize(n) >= n + HEADER_SIZE
         /\ TotalSize(n) < n + HEADER_SIZE + 16
<1>1. TotalSize(n) = n + 8 + ((16 - ((n + 8) % 16)) % 16)
  BY DEF TotalSize, HEADER_SIZE
<1> QED
  BY <1>1 DEF HEADER_SIZE

\* traverse_and_move compares the unpadded size, strictly, and still never
\* takes more than the page has: free space is a whole number of slots.
LEMMA UnpaddedTestSuffices ==
  ASSUME NEW n \in Nat, NEW r \in Nat, r % 16 = 0, n + HEADER_SIZE < r
  PROVE  TotalSize(n) <= r
<1>1. /\ TotalSize(n) \in Nat
      /\ TotalSize(n) % 16 = 0
      /\ TotalSize(n) < n + HEADER_SIZE + 16
  BY TotalSizeFacts
<1>2. TotalSize(n) < r + 16
  BY <1>1 DEF HEADER_SIZE
<1> QED
  BY <1>1, <1>2

\* A page is a whole number of slots, and sizes are natural numbers.
LEMMA ConstantFacts ==
  /\ PAGE_SIZE \in Nat /\ PAGE_SIZE % 16 = 0 /\ PAGE_SIZE >= 16
  /\ \A p \in Pages : p \in Int
  /\ \A k \in Kinds : ObjectSize[k] \in Nat /\ MovedBytes(k) \in Nat
<1>1. PAGE_SIZE = 16 * BITS_PER_PAGE /\ BITS_PER_PAGE \in Nat \ {0}
  BY HeapAssumption DEF PAGE_SIZE, MIN_OBJECT_SIZE
<1>2. PAGE_SIZE \in Nat /\ PAGE_SIZE % 16 = 0 /\ PAGE_SIZE >= 16
  BY <1>1
<1> QED
  BY <1>2, HeapAssumption DEF Pages, page_amount, Kinds, MovedBytes

\* The marked slots stay exactly those below the next empty space.
LEMMA BitsOfExtends ==
  ASSUME NEW next \in Nat, NEW total \in Nat,
         next % 16 = 0, total % 16 = 0, next + total <= PAGE_SIZE
  PROVE  {b \in Bits : b * MIN_OBJECT_SIZE < next} \cup BitsOf(next, total)
           = {b \in Bits : b * MIN_OBJECT_SIZE < next + total}
<1> DEFINE i == next \div 16
           t == total \div 16
<1>1. /\ i \in Nat /\ t \in Nat /\ next = 16 * i /\ total = 16 * t
  OBVIOUS
<1>2. (next + total) \div 16 = i + t
  BY <1>1
<1>3. BITS_PER_PAGE \in Nat /\ i + t <= BITS_PER_PAGE
  BY <1>1, HeapAssumption DEF PAGE_SIZE, MIN_OBJECT_SIZE
<1>4. BitsOf(next, total) = i .. i + t - 1
  BY <1>2 DEF BitsOf, MIN_OBJECT_SIZE
<1> HIDE DEF i, t
<1>5. \A b \in Bits : b \in Int /\ (b * 16 < next <=> b < i)
                    /\ (b * 16 < next + total <=> b < i + t)
  BY <1>1 DEF Bits
<1>6. i .. i + t - 1 \subseteq Bits
  BY <1>1, <1>3 DEF Bits
<1> QED
  BY <1>1, <1>3, <1>4, <1>5, <1>6 DEF MIN_OBJECT_SIZE, Bits

-----------------------------------------------------------------------------

\* The part of the invariant that a bump of one page can disturb.
PagesOK ==
  /\ is_active \in [Pages -> BOOLEAN]
  /\ next_empty_space \in [Pages -> 0 .. PAGE_SIZE]
  /\ remaining_size \in [Pages -> 0 .. PAGE_SIZE]
  /\ alloc_map \in [Pages -> SUBSET Bits]
  /\ PageAccounting
  /\ ActiveIffUsed

\* A block that fits a page leaves every page in order.
LEMMA ReservePreserves ==
  ASSUME PagesOK, NEW p \in Pages, NEW total \in Nat,
         total % 16 = 0, total >= 16, total <= remaining_size[p],
         Reserve(p, total)
  PROVE  PagesOK'
<1> USE DEF PagesOK
<1>1. /\ next_empty_space[p] \in Nat /\ next_empty_space[p] % 16 = 0
      /\ remaining_size[p] = PAGE_SIZE - next_empty_space[p]
      /\ PAGE_SIZE \in Nat
  BY ConstantFacts DEF PageAccounting, MIN_OBJECT_SIZE
<1>2. next_empty_space[p] + total <= PAGE_SIZE
  BY <1>1
<1>3. /\ is_active' = [is_active EXCEPT ![p] = TRUE]
      /\ next_empty_space' =
           [next_empty_space EXCEPT ![p] = next_empty_space[p] + total]
      /\ remaining_size' =
           [remaining_size EXCEPT ![p] = remaining_size[p] - total]
      /\ alloc_map' =
           [alloc_map EXCEPT
              ![p] = alloc_map[p] \cup BitsOf(next_empty_space[p], total)]
  BY DEF Reserve
<1>4. alloc_map[p] \cup BitsOf(next_empty_space[p], total)
        = {b \in Bits :
             b * MIN_OBJECT_SIZE < next_empty_space[p] + total}
  <2>1. alloc_map[p] =
          {b \in Bits : b * MIN_OBJECT_SIZE < next_empty_space[p]}
    BY DEF PageAccounting
  <2> QED
    BY <1>1, <1>2, <2>1, BitsOfExtends
<1>5. /\ next_empty_space'[p] = next_empty_space[p] + total
      /\ remaining_size'[p] = remaining_size[p] - total
      /\ alloc_map'[p] = alloc_map[p] \cup BitsOf(next_empty_space[p], total)
      /\ is_active'[p] = TRUE
  BY <1>3
<1>6. \A q \in Pages : q # p =>
        /\ next_empty_space'[q] = next_empty_space[q]
        /\ remaining_size'[q] = remaining_size[q]
        /\ alloc_map'[q] = alloc_map[q]
        /\ is_active'[q] = is_active[q]
  BY <1>3
<1>7. is_active' \in [Pages -> BOOLEAN]
  BY <1>3
<1>8. next_empty_space' \in [Pages -> 0 .. PAGE_SIZE]
  BY <1>1, <1>2, <1>3
<1>9. remaining_size' \in [Pages -> 0 .. PAGE_SIZE]
  BY <1>1, <1>2, <1>3
<1>10. alloc_map' \in [Pages -> SUBSET Bits]
  <2>1. alloc_map[p] \cup BitsOf(next_empty_space[p], total) \in SUBSET Bits
    BY <1>4
  <2> QED
    BY <1>3, <2>1
<1>11. PageAccounting'
  <2>1. (next_empty_space[p] + total) % 16 = 0
    BY <1>1
  <2>2. remaining_size'[p] = PAGE_SIZE - next_empty_space'[p]
    BY <1>1, <1>5
  <2>3. alloc_map'[p] =
          {b \in Bits : b * MIN_OBJECT_SIZE < next_empty_space'[p]}
    BY <1>4, <1>5
  <2>4. next_empty_space'[p] % MIN_OBJECT_SIZE = 0
    BY <2>1, <1>5 DEF MIN_OBJECT_SIZE
  <2>5. \A q \in Pages : q # p =>
          /\ remaining_size'[q] = PAGE_SIZE - next_empty_space'[q]
          /\ next_empty_space'[q] % MIN_OBJECT_SIZE = 0
          /\ alloc_map'[q] =
               {b \in Bits : b * MIN_OBJECT_SIZE < next_empty_space'[q]}
    BY <1>6 DEF PageAccounting
  <2> QED
    BY <2>2, <2>3, <2>4, <2>5 DEF PageAccounting
<1>12. ActiveIffUsed'
  <2>1. next_empty_space[p] + total > 0
    BY <1>1
  <2> QED
    BY <2>1, <1>5, <1>6 DEF ActiveIffUsed
<1> QED
  BY <1>7, <1>8, <1>9, <1>10, <1>11, <1>12

\* So does the reset of the evacuated pages.
LEMMA EndMovePreserves ==
  ASSUME PagesOK, EndMove
  PROVE  PagesOK'
<1>1. PAGE_SIZE \in Nat /\ 0 % 16 = 0
  BY ConstantFacts
<1>2. \A b \in Bits : ~ b * MIN_OBJECT_SIZE < 0
  BY DEF Bits, MIN_OBJECT_SIZE
<1>3. \A p \in Pages :
        IF p \in active_page_array
          THEN /\ is_active'[p] = FALSE /\ next_empty_space'[p] = 0
               /\ remaining_size'[p] = PAGE_SIZE /\ alloc_map'[p] = {}
          ELSE /\ is_active'[p] = is_active[p]
               /\ next_empty_space'[p] = next_empty_space[p]
               /\ remaining_size'[p] = remaining_size[p]
               /\ alloc_map'[p] = alloc_map[p]
  BY DEF EndMove, Released
<1>4. \A p \in Pages :
        /\ remaining_size'[p] = PAGE_SIZE - next_empty_space'[p]
        /\ next_empty_space'[p] % 16 = 0
        /\ alloc_map'[p] =
             {b \in Bits : b * MIN_OBJECT_SIZE < next_empty_space'[p]}
        /\ is_active'[p] <=> next_empty_space'[p] > 0
  <2> TAKE p \in Pages
  <2>1. CASE p \in active_page_array
    BY <2>1, <1>1, <1>2, <1>3
  <2>2. CASE p \notin active_page_array
    BY <2>2, <1>3
       DEF PagesOK, PageAccounting, ActiveIffUsed, MIN_OBJECT_SIZE
  <2> QED
    BY <2>1, <2>2
<1>5. /\ is_active' \in [Pages -> BOOLEAN]
      /\ next_empty_space' \in [Pages -> 0 .. PAGE_SIZE]
      /\ remaining_size' \in [Pages -> 0 .. PAGE_SIZE]
      /\ alloc_map' \in [Pages -> SUBSET Bits]
  <2>1. \A p \in Pages :
          /\ is_active[p] \in BOOLEAN
          /\ next_empty_space[p] \in 0 .. PAGE_SIZE
          /\ remaining_size[p] \in 0 .. PAGE_SIZE
          /\ alloc_map[p] \in SUBSET Bits
          /\ 0 \in 0 .. PAGE_SIZE /\ PAGE_SIZE \in 0 .. PAGE_SIZE
    BY <1>1 DEF PagesOK
  <2> QED
    BY <2>1 DEF EndMove, Released
<1>6. PageAccounting'
  BY <1>4 DEF PageAccounting, MIN_OBJECT_SIZE
<1>7. ActiveIffUsed'
  BY <1>4 DEF ActiveIffUsed
<1> QED
  BY <1>5, <1>6, <1>7 DEF PagesOK

-----------------------------------------------------------------------------

\* h_init leaves empty pages, all passive.
LEMMA HeapInitInv == HeapInit => HeapIInv
<1> SUFFICES ASSUME HeapInit PROVE HeapIInv
  OBVIOUS
<1> USE DEF HeapInit
<1>1. HeapTypeOK
  BY ConstantFacts DEF HeapTypeOK, CollectorPcs, StoppedPcs, AbortPcs
<1>2. PageAccounting
  <2>1. \A b \in Bits : ~ b * MIN_OBJECT_SIZE < 0
    BY DEF Bits, MIN_OBJECT_SIZE
  <2> QED
    BY <2>1, ConstantFacts DEF PageAccounting, MIN_OBJECT_SIZE
<1> QED
  BY <1>1, <1>2 DEF HeapIInv, ActiveIffUsed, EvacuatedPagesReleased

\* No step of an allocation or a collection breaks the inductive invariant.
LEMMA HeapNextInv == HeapIInv /\ [HeapNext]_heapVars => HeapIInv'
<1> SUFFICES ASSUME HeapIInv, [HeapNext]_heapVars PROVE HeapIInv'
  OBVIOUS
<1>p. PagesOK
  BY DEF HeapIInv, HeapTypeOK, PagesOK
<1>q. UNCHANGED pageVars => PagesOK'
  BY <1>p DEF PagesOK, pageVars, PageAccounting, ActiveIffUsed
<1>pcs. pc \in {"mutator", "place", "scan", "move", "forward", "no_page",
                "no_passive_page", "not_a_bit_vector", "not_forwarded",
                "undefined", "wild_pointer", "deleted"}
  BY DEF HeapIInv, HeapTypeOK, CollectorPcs, StoppedPcs, AbortPcs
<1> USE DEF HeapIInv
<1> DEFINE RestOK ==
      /\ pc \in {"mutator", "place"} \cup CollectorPcs \cup StoppedPcs
      /\ request \in Kinds \cup {NONE}
      /\ pc \in {"place", "no_page", "undefined"} => request \in Kinds
      /\ active_page_array \subseteq Pages
      /\ passive_page_array \subseteq Pages
      /\ EvacuatedPagesReleased
      /\ pc = "mutator" => request = NONE
      /\ pc \in {"move", "forward"} =>
           /\ active_page_array \cup passive_page_array = Pages
           /\ active_page_array \cap passive_page_array = {}
      /\ pc = "move" => \A p \in active_page_array : is_active[p]
<1>r. RestOK
  BY DEF HeapTypeOK
<1>s. ASSUME PagesOK', RestOK' PROVE HeapIInv'
  BY <1>s DEF PagesOK, HeapTypeOK
<1> USE DEF CollectorPcs, StoppedPcs, AbortPcs, EvacuatedPagesReleased
<1>1. CASE \E k \in Kinds : HAlloc(k)
  BY <1>1, <1>q, <1>r, <1>s DEF HAlloc, pageVars, snapshotVars
<1>2. CASE HGc
  BY <1>2, <1>q, <1>r, <1>s DEF HGc, pageVars, snapshotVars
<1>3. CASE BeginMove
  BY <1>3, <1>q, <1>r, <1>s DEF BeginMove, pageVars
<1>4. CASE \E k \in Kinds, p \in Pages : Evacuate(k, p)
  <2>1. PICK k \in Kinds, p \in Pages : Evacuate(k, p)
    BY <1>4
  <2>2. /\ pc = "move" /\ UNCHANGED <<pc, request, snapshotVars>>
        /\ Reserve(p, TotalSize(MovedBytes(k)))
        /\ p \in passive_page_array
        /\ MovedBytes(k) + HEADER_SIZE < remaining_size[p]
    BY <2>1 DEF Evacuate, MovesTo, IsFirst
  <2>3. /\ MovedBytes(k) \in Nat
        /\ remaining_size[p] \in Nat
        /\ remaining_size[p] % 16 = 0
    <3>1. PAGE_SIZE \in Nat /\ PAGE_SIZE % 16 = 0 /\ MovedBytes(k) \in Nat
      BY ConstantFacts
    <3>2. /\ remaining_size[p] = PAGE_SIZE - next_empty_space[p]
          /\ next_empty_space[p] % 16 = 0
          /\ next_empty_space[p] \in 0 .. PAGE_SIZE
      BY <1>p DEF PagesOK, PageAccounting, MIN_OBJECT_SIZE
    <3> QED
      BY <3>1, <3>2
  <2>4. PagesOK'
    BY <1>p, <2>2, <2>3, TotalSizeFacts, UnpaddedTestSuffices,
       ReservePreserves
  <2>5. is_active' = [is_active EXCEPT ![p] = TRUE]
    BY <2>2 DEF Reserve
  <2>6. RestOK'
    BY <1>p, <1>r, <2>2, <2>5 DEF snapshotVars, PagesOK
  <2> QED
    BY <1>s, <2>4, <2>6
<1>5. CASE \E k \in Kinds : EvacuateFails(k)
  BY <1>5, <1>q, <1>r, <1>s DEF EvacuateFails, pageVars, snapshotVars
<1>6. CASE EndMove
  <2>1. PagesOK'
    BY <1>6, <1>p, EndMovePreserves
  <2>2. active_page_array' = active_page_array
        /\ passive_page_array' = passive_page_array /\ request' = request
    BY <1>6 DEF EndMove, Released, snapshotVars
  <2>3. \A p \in Pages :
          /\ p \in active_page_array => ~is_active'[p] /\ alloc_map'[p] = {}
          /\ is_active'[p] => p \in passive_page_array
    BY <1>6, <1>r DEF EndMove, Released
  <2>4. RestOK'
    BY <1>6, <1>r, <2>2, <2>3 DEF EndMove, Released
  <2> QED
    BY <1>s, <2>1, <2>4
<1>7. CASE EndForward
  BY <1>7, <1>q, <1>r, <1>s DEF EndForward, pageVars
<1>8. CASE HeaderAssertFails
  BY <1>8, <1>q, <1>r, <1>s DEF HeaderAssertFails, pageVars, snapshotVars
<1>9. CASE \E p \in Pages : Place(p)
  <2>1. PICK p \in Pages : Place(p)
    BY <1>9
  <2> DEFINE total == TotalSize(ObjectSize[request])
  <2>2. /\ pc = "place" /\ pc' = "mutator" /\ request' = NONE
        /\ FindsPage(p, total) /\ Reserve(p, total)
        /\ UNCHANGED snapshotVars
    BY <2>1 DEF Place
  <2>3. request \in Kinds
    BY <1>r, <2>2
  <2>4. ObjectSize[request] \in Nat
    BY <2>3, ConstantFacts
  <2>5. total \in Nat /\ total % 16 = 0 /\ total >= 16
    BY <2>4, TotalSizeFacts
  <2>6. total <= remaining_size[p]
    BY <2>2 DEF FindsPage, IsFirst
  <2>7. PagesOK'
    BY <1>p, <2>2, <2>5, <2>6, ReservePreserves
  <2>8. RestOK'
    BY <1>r, <2>2 DEF snapshotVars
  <2> QED
    BY <1>s, <2>7, <2>8
<1>10. CASE PlaceFails
  BY <1>10, <1>q, <1>r, <1>s DEF PlaceFails, pageVars, snapshotVars
<1>11. CASE HDelete
  BY <1>11, <1>q, <1>r, <1>s DEF HDelete, pageVars, snapshotVars
<1>12. CASE Stopped \/ UNCHANGED heapVars
  BY <1>12, <1>q, <1>r, <1>s DEF Stopped, heapVars, pageVars, snapshotVars
<1> QED
  BY <1>1, <1>2, <1>3, <1>4, <1>5, <1>6, <1>7, <1>8, <1>9, <1>10, <1>11,
     <1>12
     DEF HeapNext

-----------------------------------------------------------------------------

\* Every reachable state satisfies the inductive invariant.
THEOREM HeapInvariant == HeapSpec => []HeapIInv
<1> QED
  BY HeapInitInv, HeapNextInv, PTL DEF HeapSpec

\* The pages never leave their types: no size goes below zero or above a page.
THEOREM HeapTypeCorrect == HeapSpec => []HeapTypeOK
<1>1. HeapIInv => HeapTypeOK
  BY DEF HeapIInv
<1> QED
  BY <1>1, HeapInvariant, PTL

\* remaining_size, next_empty_space and the allocation map agree forever.
THEOREM PageAccountingHolds == HeapSpec => []PageAccounting
<1>1. HeapIInv => PageAccounting
  BY DEF HeapIInv
<1> QED
  BY <1>1, HeapInvariant, PTL

\* The active pages are exactly the pages that hold objects.
THEOREM ActiveIffUsedHolds == HeapSpec => []ActiveIffUsed
<1>1. HeapIInv => ActiveIffUsed
  BY DEF HeapIInv
<1> QED
  BY <1>1, HeapInvariant, PTL

\* The pages a collection evacuates are released, all of them.
THEOREM EvacuatedPagesReleasedHolds == HeapSpec => []EvacuatedPagesReleased
<1>1. HeapIInv => EvacuatedPagesReleased
  BY DEF HeapIInv
<1> QED
  BY <1>1, HeapInvariant, PTL

\* No step of the traversal allocates in a page it evacuates.
THEOREM EvacuatedPagesFrozenHolds == HeapSpec => EvacuatedPagesFrozen
<1> DEFINE Frozen(p) ==
      pc = "move" /\ pc' = "move" /\ p \in active_page_array =>
        /\ next_empty_space'[p] = next_empty_space[p]
        /\ alloc_map'[p] = alloc_map[p]
        /\ is_active'[p]
<1>1. HeapIInv /\ [HeapNext]_heapVars => [\A p \in Pages : Frozen(p)]_heapVars
  <2> SUFFICES ASSUME HeapIInv, HeapNext, NEW p \in Pages,
                      pc = "move", pc' = "move", p \in active_page_array
               PROVE  /\ next_empty_space'[p] = next_empty_space[p]
                      /\ alloc_map'[p] = alloc_map[p]
                      /\ is_active'[p]
    OBVIOUS
  <2>1. PICK k \in Kinds, q \in Pages : Evacuate(k, q)
    BY DEF HeapNext, HAlloc, EvacuateFails, Place, HGc, HDelete, BeginMove,
           EndMove, EndForward, HeaderAssertFails, PlaceFails, Stopped,
           StoppedPcs, AbortPcs
  <2>2. q \in passive_page_array /\ Reserve(q, TotalSize(MovedBytes(k)))
    BY <2>1 DEF Evacuate, MovesTo, IsFirst
  <2>3. p # q /\ is_active[p]
    BY <2>2 DEF HeapIInv
  <2> QED
    BY <2>2, <2>3 DEF Reserve, HeapIInv, HeapTypeOK
<1> QED
  BY <1>1, HeapInvariant, PTL DEF HeapSpec, EvacuatedPagesFrozen

-----------------------------------------------------------------------------
(* Sums over a finite set *)

\* Induction over data, without an operator as a parameter: the property is the
\* set of the numbers, or of the subsets, that have it.
LEMMA LeastNatural ==
  ASSUME NEW T \in SUBSET Nat, T # {}
  PROVE  \E m \in T : \A n \in T : m <= n
<1>1. PICK m \in T : \A n \in T : ~(<<n, m>> \in OpToRel(<, Nat))
  BY NatLessThanWellFounded, WFMin, Zenon
<1>2. \A n \in T : ~(n < m)
  BY <1>1, Zenon DEF OpToRel
<1>3. \A n \in T : n \in Nat /\ m \in Nat
  OBVIOUS
<1> QED
  BY <1>2, <1>3

\* Induction with a set in place of a predicate
LEMMA NatInductionOnSets ==
  ASSUME NEW T \in SUBSET Nat, 0 \in T, \A n \in T : n + 1 \in T
  PROVE  T = Nat
<1> SUFFICES ASSUME Nat \ T # {}
             PROVE  FALSE
  OBVIOUS
<1>1. PICK m \in Nat \ T : \A n \in Nat \ T : m <= n
  BY LeastNatural
<1>2. m # 0 /\ m - 1 \in Nat
  BY <1>1
<1>3. m - 1 \in T
  BY <1>1, <1>2
<1>4. (m - 1) + 1 \in T
  BY <1>3
<1> QED
  BY <1>1, <1>4

\* The recursion of MapThenSumSet: one element, and the others
Others(s) == s \ {CHOOSE x \in s : TRUE}
SumStep(f, g, s) == IF s = {} THEN 0 ELSE f[CHOOSE x \in s : TRUE] + g[Others(s)]

\* One element less
LEMMA OthersFacts ==
  ASSUME NEW S, IsFiniteSet(S), NEW s \in SUBSET S, s # {}
  PROVE  /\ Others(s) \in SUBSET S /\ (CHOOSE x \in s : TRUE) \in s
         /\ Cardinality(s) \in Nat /\ Cardinality(Others(s)) \in Nat
         /\ Cardinality(Others(s)) = Cardinality(s) - 1
<1>1. IsFiniteSet(s)
  BY FS_Subset
<1>2. (CHOOSE x \in s : TRUE) \in s
  OBVIOUS
<1>3. Cardinality(Others(s)) = Cardinality(s) - 1 /\ IsFiniteSet(Others(s))
  BY <1>1, <1>2, FS_RemoveElement DEF Others
<1> QED
  BY <1>1, <1>2, <1>3, FS_CardinalityType DEF Others

\* The recursive function by which a sum over a set is defined exists.
LEMMA SumExists ==
  ASSUME NEW S, IsFiniteSet(S), NEW f \in [S -> Nat]
  PROVE  \E g \in [SUBSET S -> Nat] : g = [s \in SUBSET S |-> SumStep(f, g, s)]
<1> DEFINE Good(g, n) ==
      \A s \in SUBSET S : Cardinality(s) <= n => g[s] = SumStep(f, g, s)
    T == {n \in Nat : \E g \in [SUBSET S -> Nat] : Good(g, n)}
<1>1. 0 \in T
  <2> DEFINE g == [s \in SUBSET S |-> 0]
  <2>1. g \in [SUBSET S -> Nat]
    OBVIOUS
  <2>2. ASSUME NEW s \in SUBSET S, Cardinality(s) <= 0
        PROVE  g[s] = SumStep(f, g, s)
    <3>1. s = {}
      BY <2>2, OthersFacts
    <3> QED
      BY <3>1 DEF SumStep
  <2> QED
    BY <2>1, <2>2
<1>2. ASSUME NEW n \in T
      PROVE  n + 1 \in T
  <2>1. PICK g \in [SUBSET S -> Nat] : Good(g, n)
    OBVIOUS
  <2> DEFINE h == [s \in SUBSET S |-> SumStep(f, g, s)]
  <2>2. h \in [SUBSET S -> Nat]
    <3> SUFFICES ASSUME NEW s \in SUBSET S
                 PROVE  SumStep(f, g, s) \in Nat
      OBVIOUS
    <3>1. s # {} => Others(s) \in SUBSET S /\ (CHOOSE x \in s : TRUE) \in S
      BY OthersFacts
    <3> QED
      BY <3>1 DEF SumStep
  <2>3. ASSUME NEW s \in SUBSET S, Cardinality(s) <= n + 1
        PROVE  h[s] = SumStep(f, h, s)
    <3>1. s # {} => Others(s) \in SUBSET S /\ Cardinality(Others(s)) <= n
      BY <2>3, OthersFacts
    <3>2. s # {} => h[Others(s)] = g[Others(s)]
      BY <2>1, <3>1
    <3> QED
      BY <3>2 DEF SumStep
  <2>4. Good(h, n + 1)
    BY <2>3
  <2>5. n + 1 \in Nat
    OBVIOUS
  <2> HIDE DEF h, Good
  <2> QED
    BY <2>2, <2>4, <2>5
<1>3. T = Nat
  <2> HIDE DEF T
  <2> QED
    BY <1>1, <1>2, NatInductionOnSets DEF T
<1>4. Cardinality(S) \in Nat
  BY FS_CardinalityType
<1>5. PICK g \in [SUBSET S -> Nat] : Good(g, Cardinality(S))
  BY <1>3, <1>4
<1>6. \A s \in SUBSET S : Cardinality(s) <= Cardinality(S)
  BY FS_Subset
<1>7. g = [s \in SUBSET S |-> SumStep(f, g, s)]
  BY <1>5, <1>6
<1> QED
  BY <1>7

\* A sum satisfies its recursive definition.
LEMMA TotalDefined ==
  ASSUME NEW S, IsFiniteSet(S), NEW f \in [S -> Nat]
  PROVE  \E g : /\ g = [s \in SUBSET S |-> SumStep(f, g, s)]
                /\ Total(f, S) = g[S]
<1> DEFINE g == CHOOSE h : h = [s \in SUBSET S |-> SumStep(f, h, s)]
<1>1. g = [s \in SUBSET S |-> SumStep(f, g, s)]
  BY SumExists
<1>2. Total(f, S) = g[S]
  BY Zenon DEF Total, MapThenSumSet, MapThenFoldSet, SumStep, Others
<1> QED
  BY <1>1, <1>2

\* What holds of the empty set, and of a set when it holds of its Others, holds
\* of the whole.
LEMMA SubsetInduction ==
  ASSUME NEW S, IsFiniteSet(S), NEW Q \in SUBSET SUBSET S, {} \in Q,
         \A s \in SUBSET S : s # {} /\ Others(s) \in Q => s \in Q
  PROVE  S \in Q
<1> DEFINE T == {n \in Nat : \A s \in SUBSET S : Cardinality(s) <= n => s \in Q}
<1>1. 0 \in T
  <2> SUFFICES ASSUME NEW s \in SUBSET S, Cardinality(s) <= 0, s # {}
               PROVE  FALSE
    OBVIOUS
  <2>1. Cardinality(Others(s)) \in Nat /\ Cardinality(Others(s)) <= -1
    BY OthersFacts
  <2> QED
    BY <2>1
<1>2. ASSUME NEW n \in T
      PROVE  n + 1 \in T
  <2>1. ASSUME NEW s \in SUBSET S, Cardinality(s) <= n + 1, s # {}
        PROVE  s \in Q
    <3>1. Others(s) \in SUBSET S /\ Cardinality(Others(s)) <= n
      BY <2>1, OthersFacts
    <3> QED
      BY <2>1, <3>1
  <2> QED
    BY <2>1
<1>3. T = Nat
  <2> HIDE DEF T
  <2> QED
    BY <1>1, <1>2, NatInductionOnSets DEF T
<1>4. Cardinality(S) \in Nat
  BY FS_CardinalityType
<1> QED
  BY <1>3, <1>4

\* What a sum of natural numbers is, and how it follows its terms
LEMMA TotalType ==
  ASSUME NEW S, IsFiniteSet(S), NEW f \in [S -> Nat]
  PROVE  Total(f, S) \in Nat
<1>1. PICK g : /\ g = [s \in SUBSET S |-> SumStep(f, g, s)]
               /\ Total(f, S) = g[S]
  BY TotalDefined
<1> DEFINE Q == {s \in SUBSET S : g[s] \in Nat}
<1>2. {} \in Q
  BY <1>1 DEF SumStep
<1>3. ASSUME NEW s \in SUBSET S, s # {}, Others(s) \in Q
      PROVE  s \in Q
  <2>1. (CHOOSE x \in s : TRUE) \in S
    BY <1>3
  <2>2. g[s] = f[CHOOSE x \in s : TRUE] + g[Others(s)]
    BY <1>1, <1>3 DEF SumStep
  <2> QED
    BY <1>3, <2>1, <2>2
<1>q. Q \in SUBSET SUBSET S
  OBVIOUS
<1> HIDE DEF Q
<1>4. S \in Q
  BY <1>q, <1>2, <1>3, SubsetInduction
<1> QED
  BY <1>1, <1>4 DEF Q

\* Summands that are no larger have no larger sum.
LEMMA TotalOfLess ==
  ASSUME NEW S, IsFiniteSet(S), NEW f \in [S -> Nat], NEW g \in [S -> Nat],
         \A x \in S : f[x] <= g[x]
  PROVE  Total(f, S) <= Total(g, S)
<1>1. PICK a : /\ a = [s \in SUBSET S |-> SumStep(f, a, s)]
               /\ Total(f, S) = a[S]
  BY TotalDefined
<1>2. PICK b : /\ b = [s \in SUBSET S |-> SumStep(g, b, s)]
               /\ Total(g, S) = b[S]
  BY TotalDefined
<1> DEFINE Q == {s \in SUBSET S : a[s] \in Nat /\ b[s] \in Nat /\ a[s] <= b[s]}
<1>3. {} \in Q
  BY <1>1, <1>2 DEF SumStep
<1>4. ASSUME NEW s \in SUBSET S, s # {}, Others(s) \in Q
      PROVE  s \in Q
  <2>1. PICK x \in S : x = CHOOSE y \in s : TRUE
    BY <1>4
  <2>2. a[s] = f[x] + a[Others(s)] /\ b[s] = g[x] + b[Others(s)]
    BY <1>1, <1>2, <1>4, <2>1 DEF SumStep
  <2> QED
    BY <1>4, <2>1, <2>2
<1>q. Q \in SUBSET SUBSET S
  OBVIOUS
<1> HIDE DEF Q
<1>5. S \in Q
  BY <1>q, <1>3, <1>4, SubsetInduction
<1> QED
  BY <1>1, <1>2, <1>5 DEF Q

\* One summand more by t makes the sum more by t.
LEMMA TotalChanged ==
  ASSUME NEW S, IsFiniteSet(S), NEW f \in [S -> Nat], NEW g \in [S -> Nat],
         NEW z \in S, NEW t \in Nat, g[z] = f[z] + t,
         \A x \in S : x # z => g[x] = f[x]
  PROVE  Total(g, S) = Total(f, S) + t
<1>1. PICK a : /\ a = [s \in SUBSET S |-> SumStep(f, a, s)]
               /\ Total(f, S) = a[S]
  BY TotalDefined
<1>2. PICK b : /\ b = [s \in SUBSET S |-> SumStep(g, b, s)]
               /\ Total(g, S) = b[S]
  BY TotalDefined
<1> DEFINE Q == {s \in SUBSET S : /\ a[s] \in Nat /\ b[s] \in Nat
                                  /\ z \in s => b[s] = a[s] + t
                                  /\ z \notin s => b[s] = a[s]}
<1>3. {} \in Q
  BY <1>1, <1>2 DEF SumStep
<1>4. ASSUME NEW s \in SUBSET S, s # {}, Others(s) \in Q
      PROVE  s \in Q
  <2>1. PICK x \in S : x = CHOOSE y \in s : TRUE
    BY <1>4
  <2>2. a[s] = f[x] + a[Others(s)] /\ b[s] = g[x] + b[Others(s)]
    BY <1>1, <1>2, <1>4, <2>1 DEF SumStep
  <2>3. x \in s /\ Others(s) = s \ {x}
    BY <1>4, <2>1 DEF Others
  <2>4. /\ a[Others(s)] \in Nat /\ b[Others(s)] \in Nat
        /\ f[x] \in Nat /\ g[x] \in Nat
    BY <1>4
  <2>5. CASE x = z
    <3>1. b[Others(s)] = a[Others(s)] /\ z \in s
      BY <1>4, <2>3, <2>5
    <3>2. b[s] = a[s] + t /\ a[s] \in Nat /\ b[s] \in Nat
      BY <3>1, <2>2, <2>4, <2>5
    <3> QED
      BY <3>1, <3>2
  <2>6. CASE x # z
    <3>1. g[x] = f[x] /\ (z \in s <=> z \in Others(s))
      BY <2>3, <2>6
    <3>2. CASE z \in s
      <4>1. b[Others(s)] = a[Others(s)] + t
        BY <1>4, <3>1, <3>2
      <4>2. b[s] = a[s] + t /\ a[s] \in Nat /\ b[s] \in Nat
        BY <4>1, <3>1, <2>2, <2>4
      <4> QED
        BY <3>2, <4>2
    <3>3. CASE z \notin s
      <4>1. b[Others(s)] = a[Others(s)]
        BY <1>4, <3>1, <3>3
      <4>2. b[s] = a[s] /\ a[s] \in Nat /\ b[s] \in Nat
        BY <4>1, <3>1, <2>2, <2>4
      <4> QED
        BY <3>3, <4>2
    <3> QED
      BY <3>2, <3>3
  <2> QED
    BY <2>5, <2>6
<1>q. Q \in SUBSET SUBSET S
  OBVIOUS
<1> HIDE DEF Q
<1>5. S \in Q
  BY <1>q, <1>3, <1>4, SubsetInduction
<1> QED
  BY <1>1, <1>2, <1>5 DEF Q

\* The sum of nothing
LEMMA TotalOfZeros ==
  ASSUME NEW S, IsFiniteSet(S), NEW f \in [S -> Nat], \A x \in S : f[x] = 0
  PROVE  Total(f, S) = 0
<1>1. PICK g : /\ g = [s \in SUBSET S |-> SumStep(f, g, s)]
               /\ Total(f, S) = g[S]
  BY TotalDefined
<1> DEFINE Q == {s \in SUBSET S : g[s] = 0}
<1>2. {} \in Q
  BY <1>1 DEF SumStep
<1>3. ASSUME NEW s \in SUBSET S, s # {}, Others(s) \in Q
      PROVE  s \in Q
  <2>1. (CHOOSE x \in s : TRUE) \in S
    BY <1>3
  <2>2. g[s] = f[CHOOSE x \in s : TRUE] + g[Others(s)]
    BY <1>1, <1>3 DEF SumStep
  <2> QED
    BY <1>3, <2>1, <2>2
<1>q. Q \in SUBSET SUBSET S
  OBVIOUS
<1> HIDE DEF Q
<1>4. S \in Q
  BY <1>q, <1>2, <1>3, SubsetInduction
<1> QED
  BY <1>1, <1>4 DEF Q
\* The bytes counted are a number, whatever the pages hold.
LEMMA CountType ==
  ASSUME HeapTypeOK
  PROVE  count_allocated_bytes_on_heap \in Nat
<1>1. IsFiniteSet(Pages) /\ page_amount \in Int
  BY ConstantFacts, FS_Interval, HeapAssumption DEF Pages, page_amount
<1>2. next_empty_space \in [Pages -> Nat]
  BY ConstantFacts DEF HeapTypeOK
<1>3. Total(next_empty_space, Pages) \in Nat
  BY <1>1, <1>2, TotalType
<1> QED
  BY <1>3 DEF count_allocated_bytes_on_heap

=============================================================================
