--------------------------- MODULE FindRootsProofs ---------------------------
(***************************************************************************)
(* What is_allocated_on_heap answers, for every size of page, of page_t    *)
(* and of heap: on the pages whose headers together fill no page it        *)
(* accepts the pointer to every marked slot, and nothing farther than one  *)
(* page header from the allocated bytes.  Both follow from the page        *)
(* accounting: the slot tested is the slot meant or one at most a header   *)
(* before it, and the marked slots of a page are those below               *)
(* next_empty_space.                                                       *)
(***************************************************************************)
EXTENDS FindRoots, HeapProofs

\* Quotient and remainder are the only ones.
LEMMA DivModUnique ==
  ASSUME NEW n \in Nat, n > 0, NEW q \in Int, NEW r \in Int, 0 <= r, r < n,
         NEW a \in Int, a = q * n + r
  PROVE  a \div n = q /\ a % n = r
<1> DEFINE d == a \div n
           m == a % n
<1>1. d \in Int /\ m \in Int /\ 0 <= m /\ m < n /\ a = d * n + m
  OBVIOUS
<1> HIDE DEF d, m
<1>2. d <= q
  <2> SUFFICES ASSUME d >= q + 1 PROVE FALSE
    BY <1>1
  <2>1. d * n >= (q + 1) * n
    BY <1>1
  <2>2. (q + 1) * n = q * n + n
    OBVIOUS
  <2> QED
    BY <1>1, <2>1, <2>2
<1>3. d >= q
  <2> SUFFICES ASSUME q >= d + 1 PROVE FALSE
    BY <1>1
  <2>1. q * n >= (d + 1) * n
    BY <1>1
  <2>2. (d + 1) * n = d * n + n
    BY <1>1
  <2> QED
    BY <1>1, <2>1, <2>2
<1> QED
  BY <1>1, <1>2, <1>3 DEF d, m

\* Sizes of pages and headers, in slots and words
LEMMA SizeFacts ==
  /\ BITS_PER_WORD \in Nat /\ BITS_PER_WORD > 0
  /\ BITS_PER_PAGE = 2 * BITS_PER_WORD
  /\ PAGE_SIZE = 16 * BITS_PER_PAGE /\ PAGE_SIZE \in Nat /\ PAGE_SIZE > 0
  /\ SIZEOF_PAGE \in Nat /\ SIZEOF_PAGE > 0 /\ SIZEOF_PAGE % 8 = 0
  /\ SIZEOF_PAGE <= PAGE_SIZE
  /\ PAGE_STRIDE = PAGE_SIZE + SIZEOF_PAGE
  /\ \A p \in Pages : p \in Nat
  /\ Bits = 0 .. BITS_PER_PAGE - 1
<1>1. /\ BITS_PER_PAGE \in Nat \ {0} /\ BITS_PER_PAGE % 2 = 0
      /\ BITS_PER_WORD = BITS_PER_PAGE \div 2
      /\ PAGE_SIZE = 16 * BITS_PER_PAGE
      /\ SIZEOF_PAGE \in Nat /\ SIZEOF_PAGE > 0 /\ SIZEOF_PAGE % 8 = 0
      /\ SIZEOF_PAGE <= PAGE_SIZE
  BY HeapAssumption, FindRootsAssumption
     DEF PAGE_SIZE, MIN_OBJECT_SIZE, BITS_PER_WORD
<1> QED
  BY <1>1 DEF Pages, Bits, PAGE_STRIDE

-----------------------------------------------------------------------------

\* The word and bit that are tested are those that stand for the slot.
LEMMA TestedBitIsMapBit ==
  ASSUME NEW a, NEW p \in Pages, NEW t \in Bits,
         TestedPage(a) = p, TestedSlot(a) = t
  PROVE  TestedBit(a) = MapBit(p, t)
<1> DEFINE h   == BITS_PER_WORD
           bit == BITS_PER_PAGE - 1 - t
<1>1. /\ h \in Nat /\ h > 0 /\ BITS_PER_PAGE = 2 * h
      /\ p \in Nat /\ t \in 0 .. 2 * h - 1
  BY SizeFacts
<1>2. TestedBit(a) = <<2 * p + (IF bit < h THEN 1 ELSE 0), bit % h>>
  BY DEF TestedBit
<1> HIDE DEF h
<1>3. CASE t < h
  <2>1. bit = 1 * h + (h - 1 - t) /\ 0 <= h - 1 - t /\ h - 1 - t < h
    BY <1>1, <1>3
  <2>2. bit % h = h - 1 - t
    BY <1>1, <2>1, DivModUnique
  <2>3. ~(bit < h)
    BY <1>1, <2>1
  <2> QED
    BY <1>1, <1>2, <1>3, <2>2, <2>3 DEF MapBit, h
<1>4. CASE ~(t < h)
  <2>1. bit = 0 * h + (h - 1 - (t - h)) /\ 0 <= h - 1 - (t - h)
        /\ h - 1 - (t - h) < h
    BY <1>1, <1>4
  <2>2. bit % h = h - 1 - (t - h)
    BY <1>1, <2>1, DivModUnique
  <2>3. bit < h
    BY <1>1, <2>1
  <2> QED
    BY <1>1, <1>2, <1>4, <2>2, <2>3 DEF MapBit, h
<1> QED
  BY <1>3, <1>4

\* No two slots share a bit.
LEMMA MapBitInjective ==
  ASSUME NEW p \in Pages, NEW q \in Pages, NEW t \in Bits, NEW b \in Bits,
         MapBit(p, t) = MapBit(q, b)
  PROVE  p = q /\ t = b
<1>1. /\ BITS_PER_WORD \in Nat /\ BITS_PER_PAGE = 2 * BITS_PER_WORD
      /\ p \in Nat /\ q \in Nat
      /\ t \in 0 .. BITS_PER_PAGE - 1 /\ b \in 0 .. BITS_PER_PAGE - 1
  BY SizeFacts
<1>2. /\ MapBit(p, t)[1] = MapBit(q, b)[1]
      /\ MapBit(p, t)[2] = MapBit(q, b)[2]
  OBVIOUS
<1>3. CASE t < BITS_PER_WORD /\ b < BITS_PER_WORD
  BY <1>1, <1>2, <1>3 DEF MapBit
<1>4. CASE t < BITS_PER_WORD /\ ~(b < BITS_PER_WORD)
  BY <1>1, <1>2, <1>4 DEF MapBit
<1>5. CASE ~(t < BITS_PER_WORD) /\ b < BITS_PER_WORD
  BY <1>1, <1>2, <1>5 DEF MapBit
<1>6. CASE ~(t < BITS_PER_WORD) /\ ~(b < BITS_PER_WORD)
  BY <1>1, <1>2, <1>6 DEF MapBit
<1> QED
  BY <1>3, <1>4, <1>5, <1>6

\* The bit of a slot is set exactly when the slot is marked.
LEMMA SetBitsExact ==
  ASSUME alloc_map \in [Pages -> SUBSET Bits], NEW p \in Pages, NEW t \in Bits
  PROVE  MapBit(p, t) \in SetBits <=> t \in alloc_map[p]
<1>1. ASSUME t \in alloc_map[p] PROVE MapBit(p, t) \in SetBits
  BY <1>1 DEF SetBits
<1>2. ASSUME MapBit(p, t) \in SetBits PROVE t \in alloc_map[p]
  <2>1. PICK q \in Pages : \E b \in alloc_map[q] : MapBit(p, t) = MapBit(q, b)
    BY <1>2 DEF SetBits
  <2>2. PICK b \in alloc_map[q] : MapBit(p, t) = MapBit(q, b)
    BY <2>1
  <2>3. b \in Bits
    BY <2>2
  <2> QED
    BY <2>2, <2>3, MapBitInjective
<1> QED
  BY <1>1, <1>2

-----------------------------------------------------------------------------

\* For byte r after the start of page p, the scan finds the page, and a slot
\* that is the one r lies in, or the one that lies one page header before it
\* when the headers up to r fill a page.
LEMMA TestedSlotNear ==
  ASSUME NEW p \in Pages, BelowDrift(p), NEW r \in 0 .. PAGE_STRIDE - 1
  PROVE  /\ TestedPage(PageStart(p) + r) = p
         /\ \E d \in {0, 1} :
              /\ 0 <= r - SIZEOF_PAGE * d /\ r - SIZEOF_PAGE * d < PAGE_SIZE
              /\ TestedSlot(PageStart(p) + r)
                   = (r - SIZEOF_PAGE * d) \div 16
              /\ TestedSlot(PageStart(p) + r) \in Bits
<1> DEFINE S == SIZEOF_PAGE
           P == PAGE_SIZE
           B == BITS_PER_PAGE
           o == p * (P + S) + r
<1>1. /\ S \in Nat /\ P \in Nat /\ B \in Nat /\ P = 16 * B /\ P > 0 /\ B > 0
      /\ S > 0 /\ p \in Nat /\ r \in Nat /\ r < P + S
      /\ (p + 1) * S <= P
  BY SizeFacts DEF BelowDrift
<1>2. HeapPtrOffset(PageStart(p) + r) = o /\ o \in Int
  BY <1>1 DEF HeapPtrOffset, PageStart, PAGE_STRIDE
<1>3. /\ TestedPage(PageStart(p) + r) = o \div (P + S)
      /\ TestedSlot(PageStart(p) + r) = ((o - S * (o \div P)) \div 16) % B
  BY <1>2 DEF TestedPage, TestedSlot, PAGE_STRIDE, MIN_OBJECT_SIZE
<1> HIDE DEF S, P, B
<1>4. o \div (P + S) = p
  BY <1>1, <1>2, DivModUnique
<1>5. /\ p * S \in Nat /\ p * P \in Nat /\ p * B \in Nat
      /\ (p + 1) * S = p * S + S /\ o = p * P + p * S + r
      /\ p * P = 16 * (p * B) /\ (p + 1) * P = p * P + P
  BY <1>1
<1>6. PICK d \in {0, 1} : /\ o \div P = p + d
                          /\ 0 <= r - S * d /\ r - S * d < P
  <2>1. CASE p * S + r < P
    <3>1. o \div P = p
      BY <1>1, <1>2, <1>5, <2>1, DivModUnique
    <3> QED
      BY <1>1, <1>5, <2>1, <3>1
  <2>2. CASE p * S + r >= P
    <3>1. /\ o = (p + 1) * P + (p * S + r - P)
          /\ 0 <= p * S + r - P /\ p * S + r - P < P
      BY <1>1, <1>5, <2>2
    <3>2. o \div P = p + 1
      BY <1>1, <1>2, <1>5, <3>1, DivModUnique
    <3> QED
      BY <1>1, <1>5, <2>2, <3>2
  <2> QED
    BY <1>1, <1>5, <2>1, <2>2
<1> DEFINE x == r - S * d
           t == x \div 16
<1>7. x \in Nat /\ x < 16 * B
  BY <1>1, <1>6
<1>8. t \in Nat /\ t < B
  BY <1>1, <1>7
<1>9. o - S * (o \div P) = 16 * (p * B) + x
  BY <1>1, <1>5, <1>6
<1> HIDE DEF x
<1>10. (16 * (p * B) + x) \div 16 = p * B + t
  BY <1>1, <1>5, <1>7
<1>11. (p * B + t) % B = t
  <2> HIDE DEF t
  <2>1. p \in Int /\ t \in Int /\ 0 <= t /\ p * B + t \in Int
    BY <1>1, <1>5, <1>8
  <2> QED
    BY <1>1, <1>8, <2>1, DivModUnique
<1>12. TestedSlot(PageStart(p) + r) = t
  BY <1>3, <1>9, <1>10, <1>11
<1>13. t \in Bits
  <2>1. Bits = 0 .. B - 1
    BY DEF Bits, B
  <2> HIDE DEF t
  <2> QED
    BY <1>1, <1>8, <2>1
<1> QED
  BY <1>3, <1>4, <1>6, <1>12, <1>13 DEF S, P, x

\* A pointer to an object is a whole number of words from the first page.
LEMMA ObjectAligned ==
  ASSUME NEW p \in Pages, NEW b \in Bits
  PROVE  HeapPtrOffset(ObjectAddress(p, b)) % 8 = 0
<1> DEFINE w == SIZEOF_PAGE \div 8
<1>1. /\ SIZEOF_PAGE = 8 * w /\ w \in Nat /\ p \in Nat /\ b \in Nat
      /\ PAGE_SIZE = 16 * BITS_PER_PAGE /\ BITS_PER_PAGE \in Nat
  BY SizeFacts DEF Bits
<1> HIDE DEF w
<1> DEFINE k == p * (2 * BITS_PER_PAGE + w) + 2 * b + 1
<1>2. HeapPtrOffset(ObjectAddress(p, b)) = k * 8 /\ k \in Int
  BY <1>1 DEF HeapPtrOffset, ObjectAddress, PageStart, PAGE_STRIDE,
              MIN_OBJECT_SIZE, HEADER_SIZE
<1> HIDE DEF k
<1> QED
  BY <1>2, DivModUnique

-----------------------------------------------------------------------------

\* The scan loses no object on the pages below the drift, up to the end that
\* heap_size sets it.
LEMMA AccountingRecognises == HeapTypeOK /\ PageAccounting => SlotsRecognised
<1> SUFFICES ASSUME HeapTypeOK, PageAccounting,
                    NEW p \in Pages, BelowDrift(p), NEW b \in alloc_map[p],
                    InScannedRange(ObjectAddress(p, b))
             PROVE  is_allocated_on_heap(ObjectAddress(p, b))
  BY DEF SlotsRecognised
<1> DEFINE r == 16 * b + 8
<1>1. /\ alloc_map \in [Pages -> SUBSET Bits] /\ b \in Bits /\ b \in Nat
      /\ next_empty_space[p] \in Int
      /\ alloc_map[p] = {c \in Bits : c * 16 < next_empty_space[p]}
  BY SizeFacts DEF HeapTypeOK, PageAccounting, MIN_OBJECT_SIZE
<1>2. r \in 0 .. PAGE_STRIDE - 1
  BY <1>1, SizeFacts
<1>3. ObjectAddress(p, b) = PageStart(p) + r
  BY <1>1, SizeFacts
     DEF ObjectAddress, PageStart, MIN_OBJECT_SIZE, HEADER_SIZE
<1> DEFINE t == TestedSlot(PageStart(p) + r)
<1>4. /\ TestedPage(PageStart(p) + r) = p
      /\ \E d \in {0, 1} : t = (r - SIZEOF_PAGE * d) \div 16
      /\ t \in Bits
  BY <1>2, TestedSlotNear
<1>5. t * 16 <= b * 16
  BY <1>1, <1>4, SizeFacts
<1>6. t \in alloc_map[p]
  BY <1>1, <1>4, <1>5, SizeFacts
<1>7. TestedBit(PageStart(p) + r) \in SetBits
  <2>1. TestedBit(PageStart(p) + r) = MapBit(p, t)
    BY <1>4, TestedBitIsMapBit
  <2>2. MapBit(p, t) \in SetBits
    BY <1>1, <1>4, <1>6, SetBitsExact
  <2> QED
    BY <2>1, <2>2
<1> QED
  BY <1>1, <1>3, <1>7, ObjectAligned DEF is_allocated_on_heap

\* Nothing is accepted far from what is allocated.
LEMMA AccountingExcludes ==
  HeapTypeOK /\ PageAccounting => AcceptedNearAllocation
<1> SUFFICES ASSUME HeapTypeOK, PageAccounting,
                    NEW p \in Pages, BelowDrift(p),
                    NEW r \in 0 .. PAGE_STRIDE - 1,
                    is_allocated_on_heap(PageStart(p) + r)
             PROVE  r < next_empty_space[p] + SIZEOF_PAGE
  BY DEF AcceptedNearAllocation
<1>1. /\ alloc_map \in [Pages -> SUBSET Bits]
      /\ next_empty_space[p] \in Int /\ next_empty_space[p] % 16 = 0
      /\ alloc_map[p] = {c \in Bits : c * 16 < next_empty_space[p]}
  BY SizeFacts DEF HeapTypeOK, PageAccounting, MIN_OBJECT_SIZE
<1> DEFINE t == TestedSlot(PageStart(p) + r)
<1>2. PICK d \in {0, 1} :
        /\ 0 <= r - SIZEOF_PAGE * d
        /\ t = (r - SIZEOF_PAGE * d) \div 16
        /\ t \in Bits
        /\ TestedPage(PageStart(p) + r) = p
  BY TestedSlotNear
<1>3. MapBit(p, t) \in SetBits
  BY <1>2, TestedBitIsMapBit DEF is_allocated_on_heap
<1>4. t * 16 < next_empty_space[p]
  BY <1>1, <1>2, <1>3, SetBitsExact
<1>5. r - SIZEOF_PAGE * d < next_empty_space[p]
  BY <1>1, <1>2, <1>4, SizeFacts
<1> QED
  BY <1>1, <1>2, <1>5, SizeFacts

\* In every reachable state the scan accepts the pointer to each marked slot.
THEOREM SlotsRecognisedHolds == HeapSpec => []SlotsRecognised
<1>1. HeapIInv => SlotsRecognised
  BY AccountingRecognises DEF HeapIInv
<1> QED
  BY <1>1, HeapInvariant, PTL

\* In every reachable state it accepts nothing far from the allocated bytes.
THEOREM AcceptedNearAllocationHolds == HeapSpec => []AcceptedNearAllocation
<1>1. HeapIInv => AcceptedNearAllocation
  BY AccountingExcludes DEF HeapIInv
<1> QED
  BY <1>1, HeapInvariant, PTL

=============================================================================
