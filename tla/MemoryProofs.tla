---------------------------- MODULE MemoryProofs ----------------------------
(***************************************************************************)
(* What the operations on memory preserve: addresses, the layout of pages, *)
(* and MemoryIntact.                                                       *)
(***************************************************************************)
EXTENDS CollectorInvariant, HeapProofs, FiniteSetTheorems

\* Division by a page's words, for any page and offset.
LEMMA DivideWords ==
  ASSUME NEW W \in Nat, W > 0, NEW p \in Nat, NEW r \in 0 .. W - 1
  PROVE  (p * W + r) \div W = p /\ (p * W + r) % W = r
<1> DEFINE n == p * W + r
           q == n \div W
           s == n % W
<1>1. n \in Nat
  OBVIOUS
<1>2. q \in Int /\ s \in 0 .. W - 1 /\ n = q * W + s
  BY <1>1
<1> HIDE DEF q, s
<1>3. (q - p) * W = r - s
  BY <1>2
<1>4. CASE q - p >= 1
  <2>1. (q - p) * W >= W
    BY <1>4, <1>2
  <2> QED
    BY <2>1, <1>2, <1>3
<1>5. CASE q - p <= -1
  <2>1. (p - q) * W >= W
    BY <1>5, <1>2
  <2> QED
    BY <2>1, <1>2, <1>3
<1>6. CASE q = p
  BY <1>6, <1>2 DEF q, s
<1> QED
  BY <1>2, <1>4, <1>5, <1>6

\* A page is a whole number of words, two for each slot.
LEMMA PageFacts ==
  /\ BITS_PER_PAGE \in Nat /\ BITS_PER_PAGE >= 1
  /\ WORDS_PER_PAGE \in Nat /\ WORDS_PER_PAGE = 2 * BITS_PER_PAGE
  /\ WORDS_PER_PAGE >= 2
  /\ PAGE_SIZE = 8 * WORDS_PER_PAGE
  /\ page_amount \in Nat
<1>1. BITS_PER_PAGE \in Nat /\ BITS_PER_PAGE >= 1 /\ HeapSize \in Nat
  BY HeapAssumption
<1> QED
  BY <1>1 DEF WORDS_PER_PAGE, PAGE_SIZE, MIN_OBJECT_SIZE, page_amount

\* The word at an offset of a page
LEMMA WordAt ==
  ASSUME NEW p \in Pages, NEW r \in 0 .. WORDS_PER_PAGE - 1
  PROVE  /\ p * WORDS_PER_PAGE + r \in Words
         /\ PageOf(p * WORDS_PER_PAGE + r) = p
         /\ Offset(p * WORDS_PER_PAGE + r) = r
         /\ (p * WORDS_PER_PAGE + r) % 2 = r % 2
<1> DEFINE W == WORDS_PER_PAGE
           w == p * W + r
<1>1. W \in Nat /\ W > 0 /\ p \in Nat /\ r \in Nat /\ p <= page_amount - 1
      /\ page_amount \in Nat /\ W = 2 * BITS_PER_PAGE /\ BITS_PER_PAGE \in Nat
  BY PageFacts DEF Pages
<1>2. w \div W = p /\ w % W = r
  BY <1>1, DivideWords
<1>3. w < (p + 1) * W
  BY <1>1
<1>4. (p + 1) * W <= page_amount * W
  BY <1>1
<1>5. w \in Nat /\ w < page_amount * W
  BY <1>1, <1>3, <1>4
<1>6. w = 2 * (p * BITS_PER_PAGE) + r
  BY <1>1
<1>7. p * BITS_PER_PAGE \in Nat
  BY <1>1
<1>8. w % 2 = r % 2
  BY <1>1, <1>6, <1>7
<1> QED
  BY <1>2, <1>5, <1>8, <1>1 DEF Words, PageOf, Offset

\* What division by a page's words leaves
LEMMA DivisionFacts ==
  ASSUME NEW W \in Nat, W > 0, NEW w \in Nat
  PROVE  /\ w \div W \in Nat
         /\ w % W \in 0 .. W - 1
         /\ w = (w \div W) * W + (w % W)
<1>1. w \div W \in Int /\ w % W \in 0 .. W - 1 /\ w = W * (w \div W) + (w % W)
  OBVIOUS
<1> DEFINE q == w \div W
<1>2. q \in Int /\ w % W \in Nat /\ w % W < W
  BY <1>1
<1>3. W * q = q * W
  BY <1>2
<1>4. w = q * W + (w % W)
  BY <1>1, <1>3
<1> HIDE DEF q
<1>5. CASE q <= -1
  <2>1. q * W <= -W
    BY <1>2, <1>5
  <2>2. q * W \in Int
    BY <1>2
  <2> QED
    BY <1>2, <1>4, <2>1, <2>2
<1> QED
  BY <1>1, <1>2, <1>4, <1>5 DEF q

\* A word is at an offset of its page.
LEMMA WordFacts ==
  ASSUME NEW w \in Words
  PROVE  /\ w \in Nat
         /\ PageOf(w) \in Pages
         /\ Offset(w) \in 0 .. WORDS_PER_PAGE - 1
         /\ w = PageOf(w) * WORDS_PER_PAGE + Offset(w)
         /\ w % 2 = Offset(w) % 2
<1> DEFINE W == WORDS_PER_PAGE
           q == w \div W
           t == page_amount * W
<1>1. W \in Nat /\ W > 0 /\ page_amount \in Nat
  BY PageFacts
<1>2. t \in Nat
  BY <1>1
<1>3. w \in 0 .. t - 1
  BY DEF Words
<1>4. w \in Nat /\ w < t
  BY <1>2, <1>3
<1>5. q \in Nat /\ w % W \in 0 .. W - 1 /\ w = q * W + (w % W)
  BY <1>1, <1>4, DivisionFacts
<1>6. q < page_amount
  <2> HIDE DEF q
  <2>1. CASE q >= page_amount
    <3>1. q * W >= page_amount * W
      BY <2>1, <1>1, <1>5
    <3>2. q * W \in Nat /\ w % W \in Nat
      BY <1>1, <1>5
    <3> QED
      BY <3>1, <3>2, <1>4, <1>5, <1>2
  <2> QED
    BY <2>1, <1>5, <1>1
<1>7. q \in Pages
  BY <1>1, <1>5, <1>6 DEF Pages
<1>8. w % 2 = (w % W) % 2
  BY <1>5, <1>7, WordAt
<1> QED
  BY <1>4, <1>5, <1>7, <1>8 DEF PageOf, Offset

\* Another word of the same page
LEMMA SamePage ==
  ASSUME NEW w \in Words, NEW i \in Int,
         Offset(w) + i \in 0 .. WORDS_PER_PAGE - 1
  PROVE  /\ w + i \in Words
         /\ PageOf(w + i) = PageOf(w)
         /\ Offset(w + i) = Offset(w) + i
<1>1. /\ PageOf(w) \in Pages /\ Offset(w) \in Nat /\ w \in Nat
      /\ w = PageOf(w) * WORDS_PER_PAGE + Offset(w)
      /\ PageOf(w) * WORDS_PER_PAGE \in Int
  BY WordFacts, PageFacts DEF Pages
<1>2. w + i = PageOf(w) * WORDS_PER_PAGE + (Offset(w) + i)
  BY <1>1
<1> QED
  BY <1>1, <1>2, WordAt

\* Words of one page differ as their offsets do; pages do not overlap.
LEMMA PageOrder ==
  ASSUME NEW v \in Words, NEW w \in Words
  PROVE  /\ PageOf(v) = PageOf(w) => v - Offset(v) = w - Offset(w)
         /\ PageOf(v) < PageOf(w) =>
              v - Offset(v) + WORDS_PER_PAGE <= w - Offset(w)
<1> DEFINE W == WORDS_PER_PAGE
           p == PageOf(v)
           q == PageOf(w)
<1>1. /\ p \in Nat /\ q \in Nat /\ W \in Nat
      /\ v \in Nat /\ w \in Nat /\ Offset(v) \in Nat /\ Offset(w) \in Nat
      /\ v = p * W + Offset(v) /\ w = q * W + Offset(w)
  BY WordFacts, PageFacts DEF Pages
<1>2. p * W \in Nat /\ q * W \in Nat
  BY <1>1
<1>3. ASSUME p < q
      PROVE  p * W + W <= q * W
  <2>1. (p + 1) * W <= q * W
    BY <1>1, <1>3
  <2>2. (p + 1) * W = p * W + W
    BY <1>1
  <2> QED
    BY <2>1, <2>2
<1> HIDE DEF p, q
<1> QED
  BY <1>1, <1>2, <1>3 DEF p, q

\* The header of an object comes right before it, in the same page.
LEMMA HeaderWord ==
  ASSUME NEW v \in Pointers
  PROVE  /\ v \in Words /\ v \in Nat /\ v - 1 \in Words
         /\ PageOf(v - 1) = PageOf(v)
         /\ Offset(v - 1) = Offset(v) - 1
         /\ (v - 1) % 2 = 0
         /\ v = (v - 1) + 1
<1>1. v \in Words /\ v \in Nat /\ v % 2 = 1
  BY WordFacts DEF Pointers
<1>2. Offset(v) \in 0 .. WORDS_PER_PAGE - 1 /\ Offset(v) % 2 = 1
  BY <1>1, WordFacts
<1>3. Offset(v) - 1 \in 0 .. WORDS_PER_PAGE - 1
  BY <1>2, PageFacts
<1>4. /\ v + (-1) \in Words
      /\ PageOf(v + (-1)) = PageOf(v)
      /\ Offset(v + (-1)) = Offset(v) + (-1)
  BY <1>1, <1>2, <1>3, SamePage
<1>5. v + (-1) = v - 1
  BY <1>1
<1> QED
  BY <1>1, <1>2, <1>4, <1>5

-----------------------------------------------------------------------------
(* Kinds and words *)

\* The fields of a kind lie within its objects, and a block is the header, the
\* object and at most one word of padding.
LEMMA KindFacts ==
  ASSUME NEW k \in Kinds
  PROVE  /\ ObjectWords(k) \in Nat
         /\ \A f \in PointerFields[k] : f \in Nat /\ f < ObjectWords(k)
         /\ k \in RawSizes => PointerFields[k] = {} /\ MovedWords(k) = 0
         /\ k \in Layouts => MovedWords(k) = ObjectWords(k)
         /\ TotalSize(ObjectSize[k]) \div 8
              \in {ObjectWords(k) + 1, ObjectWords(k) + 2}
         /\ (TotalSize(ObjectSize[k]) \div 8) % 2 = 0
<1> DEFINE s == ObjectSize[k]
           t == TotalSize(s)
<1>1. s \in Nat
  BY ConstantFacts
<1>2. t \in Nat /\ t % 16 = 0 /\ t >= s + 8 /\ t < s + 24
  <2>1. ASSUME NEW n \in Nat
        PROVE  /\ TotalSize(n) \in Nat /\ TotalSize(n) % 16 = 0
               /\ TotalSize(n) >= n + 8 /\ TotalSize(n) < n + 24
    <3>1. /\ TotalSize(n) \in Nat /\ TotalSize(n) % 16 = 0
          /\ TotalSize(n) >= n + HEADER_SIZE
          /\ TotalSize(n) < n + HEADER_SIZE + 16
      BY TotalSizeFacts
    <3> QED
      BY <3>1 DEF HEADER_SIZE
  <2> QED
    BY <1>1, <2>1
<1>3. ObjectWords(k) \in Nat /\ ObjectWords(k) = (s + 7) \div 8
  BY <1>1 DEF ObjectWords
<1>4. /\ t \div 8 \in {ObjectWords(k) + 1, ObjectWords(k) + 2}
      /\ (t \div 8) % 2 = 0
  <2> HIDE DEF t, s
  <2> QED
    BY <1>1, <1>2, <1>3
<1>5. CASE k \in RawSizes
  <2>1. PointerOffsets[k] = <<>>
    BY <1>5, CompactingAssumption
  <2>2. PointerFields[k] = {}
    BY <2>1 DEF PointerFields
  <2>3. MovedWords(k) = 0 /\ k \notin Layouts
    <3>1. MovedBytes(k) = 0 /\ k \notin Layouts
      BY <1>5, HeapAssumption DEF MovedBytes
    <3> QED
      BY <3>1 DEF MovedWords
  <2> QED
    BY <1>3, <1>4, <2>2, <2>3
<1>6. CASE k \in Layouts
  <2>1. k \notin RawSizes
    BY <1>6, HeapAssumption
  <2>2. s \div 8 \in Nat /\ s \div 8 <= ObjectWords(k)
    BY <1>1, <1>3
  <2>3. ASSUME NEW f \in PointerFields[k]
        PROVE  f \in Nat /\ f < ObjectWords(k)
    <3>1. PICK i \in DOMAIN PointerOffsets[k] : f = PointerOffsets[k][i]
      BY <2>3 DEF PointerFields
    <3>2. PointerOffsets[k] \in Seq(Nat) /\ f < s \div 8
      BY <1>6, <3>1, CompactingAssumption
    <3> QED
      BY <3>1, <3>2, <2>2, <1>3
  <2>4. MovedWords(k) = ObjectWords(k)
    BY <2>1 DEF MovedBytes, MovedWords, ObjectWords
  <2> QED
    BY <1>3, <1>4, <2>1, <2>2, <2>3, <2>4
<1> QED
  BY <1>5, <1>6 DEF Kinds

\* A raw object of one word, as long as requests fit a slot
LEMMA RawFacts ==
  ASSUME RawFitsSlot, NEW k \in RawSizes
  PROVE  ObjectWords(k) <= 1
<1>1. ObjectSize[k] \in Nat /\ ObjectSize[k] <= 8
  BY ConstantFacts DEF RawFitsSlot, Kinds, MIN_OBJECT_SIZE, HEADER_SIZE
<1> QED
  BY <1>1 DEF ObjectWords

\* What memory holds
LEMMA WordCases ==
  ASSUME NEW x \in MemoryWord
  PROVE  /\ x \in Word
         /\ x.tag \in {"plain", "layout", "size", "forward"}
         /\ x.tag = "plain" => x.value \in Pointers \cup {NULL, DATA}
         /\ x.tag # "plain" => x.kind \in Kinds /\ x.id \in Ids
         /\ x.tag = "forward" => x.to \in Pointers
<1>1. Pointers \subseteq Words
  BY DEF Pointers
<1> QED
  BY <1>1 DEF MemoryWord, Word, Kinds

\* What is written to it
LEMMA WordsWritten ==
  /\ \A v \in Pointers \cup {NULL, DATA} :
       Plain(v) \in MemoryWord /\ Plain(v).tag = "plain" /\ Plain(v).value = v
  /\ \A k \in Layouts, i \in Ids :
       /\ Layout(k, i) \in MemoryWord /\ Layout(k, i).tag = "layout"
       /\ Layout(k, i).kind = k /\ Layout(k, i).id = i
  /\ \A k \in RawSizes, i \in Ids :
       /\ Size(k, i) \in MemoryWord /\ Size(k, i).tag = "size"
       /\ Size(k, i).kind = k /\ Size(k, i).id = i
  /\ \A k \in Kinds, i \in Ids, a \in Pointers :
       /\ Forward(a, k, i) \in MemoryWord /\ Forward(a, k, i).tag = "forward"
       /\ Forward(a, k, i).to = a
       /\ Forward(a, k, i).kind = k /\ Forward(a, k, i).id = i
  BY DEF MemoryWord, Plain, Layout, Size, Forward

\* Pointers are numbers, and NULL and DATA are none.
LEMMA NullFacts ==
  /\ NULL \notin Words /\ NULL \notin Pointers /\ NULL # DATA
  /\ DATA \notin Words /\ DATA \notin Pointers
<1>1. Words \subseteq Int
  BY WordFacts
<1> QED
  BY <1>1, CompactingAssumption DEF Pointers

-----------------------------------------------------------------------------
(* Headers and the words after them *)

\* How much of a page is in use
LEMMA UsedFacts ==
  ASSUME HeapTypeOK, NEW p \in Pages
  PROVE  Used(p) \in Nat /\ Used(p) <= WORDS_PER_PAGE
<1>1. next_empty_space[p] \in 0 .. PAGE_SIZE
  BY DEF HeapTypeOK
<1>2. next_empty_space[p] \in Nat /\ next_empty_space[p] <= 8 * WORDS_PER_PAGE
  BY <1>1, PageFacts
<1> QED
  BY <1>2, PageFacts DEF Used

\* The words of an object
LEMMA BodyWords ==
  ASSUME HeapTypeOK, mem \in [Words -> MemoryWord], MemoryIntact,
         NEW h \in Words, IsHeader(h)
  PROVE  /\ mem[h].kind \in Kinds
         /\ ObjectWords(mem[h].kind) \in Nat
         /\ h % 2 = 0
         /\ \A i \in 0 .. ObjectWords(mem[h].kind) :
              /\ h + i \in Words
              /\ PageOf(h + i) = PageOf(h)
              /\ Offset(h + i) = Offset(h) + i
         /\ \A i \in 1 .. ObjectWords(mem[h].kind) :
              ~IsHeader(h + i) /\ mem[h + i] \in MemoryWord
         /\ InUse(h) =>
              \A i \in 0 .. ObjectWords(mem[h].kind) : InUse(h + i)
<1> DEFINE n == ObjectWords(mem[h].kind)
<1>1. mem[h].kind \in Kinds
  BY WordCases DEF IsHeader
<1>2. n \in Nat
  BY <1>1, KindFacts
<1>3. HeaderIntact(h)
  BY DEF MemoryIntact
<1>4. /\ h % 2 = 0 /\ Offset(h) + n < WORDS_PER_PAGE
      /\ \A i \in 1 .. n : ~IsHeader(h + i)
      /\ InUse(h) => Offset(h) + n < Used(PageOf(h))
  BY <1>3 DEF HeaderIntact
<1>5. ASSUME NEW i \in 0 .. n
      PROVE  /\ h + i \in Words
             /\ PageOf(h + i) = PageOf(h)
             /\ Offset(h + i) = Offset(h) + i
  <2>1. Offset(h) \in Nat /\ WORDS_PER_PAGE \in Nat
    BY WordFacts, PageFacts
  <2>2. Offset(h) + i \in 0 .. WORDS_PER_PAGE - 1 /\ i \in Int
    BY <2>1, <1>2, <1>4
  <2> QED
    BY <2>2, SamePage
<1>6. ASSUME InUse(h), NEW i \in 0 .. n
      PROVE  InUse(h + i)
  <2>1. Offset(h) \in Int /\ Offset(h + i) \in Int
    BY <1>5, WordFacts
  <2>2. Offset(h) + n < Used(PageOf(h))
    BY <1>4, <1>6
  <2>3. Used(PageOf(h)) = Used(PageOf(h + i))
    BY <1>5
  <2>4. Used(PageOf(h)) \in Int
    BY WordFacts, UsedFacts
  <2> QED
    BY <2>1, <2>2, <2>3, <2>4, <1>2, <1>5 DEF InUse
<1> QED
  BY <1>1, <1>2, <1>4, <1>5, <1>6

\* No word belongs to two objects, nor to one and to the header of another.
LEMMA BodiesDisjoint ==
  ASSUME HeapTypeOK, mem \in [Words -> MemoryWord], MemoryIntact,
         NEW g \in Words, IsHeader(g), NEW h \in Words, IsHeader(h), g # h,
         NEW i \in 1 .. ObjectWords(mem[g].kind),
         NEW j \in 0 .. ObjectWords(mem[h].kind)
  PROVE  g + i # h + j
<1>1. /\ ObjectWords(mem[g].kind) \in Nat /\ ObjectWords(mem[h].kind) \in Nat
      /\ g \in Nat /\ h \in Nat
  BY BodyWords, WordFacts
<1>2. SUFFICES ASSUME g + i = h + j
               PROVE  FALSE
  OBVIOUS
<1>3. CASE g < h
  <2>1. i - j \in 1 .. ObjectWords(mem[g].kind) /\ g + (i - j) = h
    BY <1>1, <1>2, <1>3
  <2> QED
    BY <2>1, BodyWords
<1>4. CASE h < g
  <2>1. j - i \in 1 .. ObjectWords(mem[h].kind) /\ h + (j - i) = g
    BY <1>1, <1>2, <1>4
  <2> QED
    BY <2>1, BodyWords
<1> QED
  BY <1>1, <1>3, <1>4

\* A pointer field of an object
LEMMA FieldFacts ==
  ASSUME HeapTypeOK, mem \in [Words -> MemoryWord], MemoryIntact,
         NEW b \in Pointers, IsHeader(b - 1),
         NEW f \in PointerFields[KindOf(b)]
  PROVE  /\ f \in Nat
         /\ f + 1 \in 1 .. ObjectWords(KindOf(b))
         /\ b + f = (b - 1) + (f + 1)
         /\ b + f \in Words /\ ~IsHeader(b + f)
         /\ PageOf(b + f) = PageOf(b - 1)
         /\ InUse(b - 1) => InUse(b + f)
         /\ mem[b + f] \in MemoryWord /\ mem[b + f].tag = "plain"
         /\ mem[b + f].value \in Pointers \cup {NULL}
<1>1. b \in Nat /\ b - 1 \in Words
  BY HeaderWord
<1>2. KindOf(b) \in Kinds /\ ObjectWords(KindOf(b)) \in Nat
  BY <1>1, BodyWords DEF KindOf
<1>3. f \in Nat /\ f < ObjectWords(KindOf(b))
  BY <1>2, KindFacts
<1>4. f + 1 \in 1 .. ObjectWords(KindOf(b)) /\ b + f = (b - 1) + (f + 1)
  BY <1>1, <1>2, <1>3
<1>5. f + 1 \in 0 .. ObjectWords(KindOf(b))
  BY <1>2, <1>4
<1>6. /\ b + f \in Words /\ ~IsHeader(b + f)
      /\ PageOf(b + f) = PageOf(b - 1)
      /\ InUse(b - 1) => InUse(b + f)
      /\ mem[b + f] \in MemoryWord
  BY <1>1, <1>4, <1>5, BodyWords DEF KindOf
<1>7. mem[(b - 1) + 1 + f].value \in Pointers \cup {NULL}
  BY <1>1 DEF MemoryIntact, HeaderIntact, KindOf
<1>8. (b - 1) + 1 + f = b + f
  BY <1>1, <1>3
<1> QED
  BY <1>3, <1>4, <1>6, <1>7, <1>8 DEF IsHeader

\* Fields of different objects are different words.
LEMMA FieldsDisjoint ==
  ASSUME HeapTypeOK, mem \in [Words -> MemoryWord], MemoryIntact,
         NEW a \in Pointers, IsHeader(a - 1), NEW b \in Pointers,
         IsHeader(b - 1), a # b,
         NEW f \in PointerFields[KindOf(a)], NEW g \in PointerFields[KindOf(b)]
  PROVE  a + f # b + g
<1>1. /\ a \in Nat /\ b \in Nat /\ a - 1 \in Words /\ b - 1 \in Words
      /\ a - 1 # b - 1
  BY HeaderWord
<1>2. /\ f + 1 \in 1 .. ObjectWords(mem[a - 1].kind)
      /\ a + f = (a - 1) + (f + 1)
      /\ g + 1 \in 1 .. ObjectWords(mem[b - 1].kind)
      /\ b + g = (b - 1) + (g + 1)
  BY FieldFacts DEF KindOf
<1>3. g + 1 \in 0 .. ObjectWords(mem[b - 1].kind)
  BY <1>2, <1>1, BodyWords
<1> QED
  BY <1>1, <1>2, <1>3, BodiesDisjoint

\* Words of objects may change, and whole pages fall out of use, as long as
\* pointer fields get pointers.
LEMMA ContentsWritten ==
  ASSUME HeapTypeOK, mem \in [Words -> MemoryWord], MemoryIntact,
         mem' \in [Words -> MemoryWord],
         \A u \in Words : IsHeader(u)' = IsHeader(u),
         \A u \in Words : IsHeader(u) => mem'[u].kind = mem[u].kind,
         \A b \in Pointers : IsHeader(b - 1) =>
           \A f \in PointerFields[KindOf(b)] :
             mem'[b + f].value \in Pointers \cup {NULL},
         \A p \in Pages : Used(p)' \in {0, Used(p)}
  PROVE  MemoryIntact'
<1> SUFFICES ASSUME NEW h \in Words, IsHeader(h)'
             PROVE  HeaderIntact(h)'
  BY DEF MemoryIntact
<1> DEFINE n == ObjectWords(mem[h].kind)
<1>1. IsHeader(h) /\ mem'[h].kind = mem[h].kind
  OBVIOUS
<1>2. HeaderIntact(h)
  BY <1>1 DEF MemoryIntact
<1>3. /\ n \in Nat /\ h % 2 = 0
      /\ \A i \in 0 .. n : h + i \in Words
      /\ \A i \in 1 .. n : ~IsHeader(h + i)
  BY <1>1, BodyWords
<1>4. \A i \in 1 .. n : ~IsHeader(h + i)'
  <2> SUFFICES ASSUME NEW i \in 1 .. n
               PROVE  ~IsHeader(h + i)'
    OBVIOUS
  <2>1. i \in 0 .. n
    BY <1>3
  <2>2. h + i \in Words /\ ~IsHeader(h + i)
    BY <1>3, <2>1
  <2> QED
    BY <2>2
<1>5. ASSUME NEW f \in PointerFields[mem[h].kind]
      PROVE  mem'[h + 1 + f].value \in Pointers \cup {NULL}
  <2>1. mem[h].kind \in Kinds /\ f \in Nat /\ f < n
    BY <1>1, <1>3, <1>5, BodyWords, KindFacts
  <2>2. 1 \in 0 .. n
    BY <2>1, <1>3
  <2>3. h + 1 \in Words /\ h \in Nat
    BY <2>2, <1>3, WordFacts
  <2>4. h + 1 \in Pointers /\ (h + 1) - 1 = h
    BY <2>3, <1>3 DEF Pointers
  <2> QED
    BY <2>4, <1>1, <1>5 DEF KindOf
<1>6. ASSUME InUse(h)'
      PROVE  Offset(h) + n < Used(PageOf(h))'
  <2>1. PageOf(h) \in Pages /\ Offset(h) \in Nat
    BY WordFacts
  <2>2. Offset(h) < Used(PageOf(h))'
    BY <1>6 DEF InUse
  <2>3. Used(PageOf(h))' = Used(PageOf(h))
    BY <2>1, <2>2
  <2>4. InUse(h)
    BY <2>2, <2>3 DEF InUse
  <2> QED
    BY <2>3, <2>4, <1>2 DEF HeaderIntact
<1>7. Offset(h) + n < WORDS_PER_PAGE
  BY <1>2 DEF HeaderIntact
<1> QED
  BY <1>1, <1>3, <1>4, <1>5, <1>6, <1>7 DEF HeaderIntact

\* A pointer written into an object
LEMMA PointerWritten ==
  ASSUME HeapTypeOK, mem \in [Words -> MemoryWord], MemoryIntact,
         NEW w \in Words, ~IsHeader(w), NEW v \in Pointers \cup {NULL},
         mem' = [mem EXCEPT ![w] = Plain(v)], UNCHANGED next_empty_space
  PROVE  /\ mem' \in [Words -> MemoryWord]
         /\ mem'[w] = Plain(v) /\ mem'[w].value = v
         /\ \A u \in Words : IsHeader(u)' = IsHeader(u)
         /\ \A u \in Words : u # w => mem'[u] = mem[u]
         /\ \A u \in Words : IsHeader(u) => mem'[u] = mem[u]
         /\ MemoryIntact'
<1>1. Plain(v) \in MemoryWord /\ Plain(v).tag = "plain" /\ Plain(v).value = v
  BY WordsWritten
<1>2. /\ mem' \in [Words -> MemoryWord] /\ mem'[w] = Plain(v)
      /\ \A u \in Words : u # w => mem'[u] = mem[u]
  BY <1>1
<1>3. \A u \in Words : IsHeader(u) => mem'[u] = mem[u]
  BY <1>2
<1>4. \A u \in Words : IsHeader(u)' = IsHeader(u)
  BY <1>1, <1>2 DEF IsHeader
<1>5. ASSUME NEW b \in Pointers, IsHeader(b - 1),
             NEW f \in PointerFields[KindOf(b)]
      PROVE  mem'[b + f].value \in Pointers \cup {NULL}
  BY <1>1, <1>2, <1>5, FieldFacts
<1>6. \A p \in Pages : Used(p)' \in {0, Used(p)}
  BY DEF Used
<1> QED
  BY <1>1, <1>2, <1>3, <1>4, <1>5, <1>6, ContentsWritten

-----------------------------------------------------------------------------
(* New blocks *)

\* Where the next block of a page goes: behind all that is in use
LEMMA NextBlock ==
  ASSUME HeapTypeOK, PageAccounting, NEW p \in Pages, Used(p) < WORDS_PER_PAGE
  PROVE  /\ ObjectAt(p) \in Pointers
         /\ ObjectAt(p) - 1 \in Words
         /\ PageOf(ObjectAt(p) - 1) = p
         /\ Offset(ObjectAt(p) - 1) = Used(p)
         /\ ~InUse(ObjectAt(p) - 1)
<1> DEFINE h == p * WORDS_PER_PAGE + Used(p)
<1>1. Used(p) \in 0 .. WORDS_PER_PAGE - 1 /\ WORDS_PER_PAGE % 2 = 0
  BY UsedFacts, PageFacts
<1>2. Used(p) % 2 = 0
  <2>1. next_empty_space[p] \in Nat /\ next_empty_space[p] % 16 = 0
    BY DEF HeapTypeOK, PageAccounting, MIN_OBJECT_SIZE, PAGE_SIZE
  <2> QED
    BY <2>1 DEF Used
<1>3. /\ h \in Words /\ PageOf(h) = p /\ Offset(h) = Used(p)
      /\ h % 2 = 0
  BY <1>1, <1>2, WordAt
<1>4. Used(p) + 1 \in 0 .. WORDS_PER_PAGE - 1
  BY <1>1, <1>2, PageFacts
<1>5. h + 1 \in Words
  BY <1>3, <1>4, SamePage
<1>6. h \in Nat
  BY <1>3, WordFacts
<1>7. (h + 1) % 2 = 1
  BY <1>3, <1>6
<1>8. HEADER_SIZE \div 8 = 1
  BY DEF HEADER_SIZE
<1>9. ObjectAt(p) = h + 1
  BY <1>8 DEF ObjectAt, Used
<1>10. ObjectAt(p) - 1 = h
  BY <1>6, <1>9
<1>11. ~InUse(h)
  BY <1>1, <1>3 DEF InUse
<1> HIDE DEF h
<1> QED
  BY <1>3, <1>5, <1>7, <1>9, <1>10, <1>11 DEF Pointers

\* The slot of an object in use is marked.
LEMMA InUseIsMarked ==
  ASSUME HeapTypeOK, PageAccounting, NEW v \in Pointers, InUse(v - 1)
  PROVE  is_allocated_on_heap(v)
<1>1. /\ v \in Words /\ PageOf(v - 1) = PageOf(v)
      /\ Offset(v - 1) = Offset(v) - 1 /\ v % 2 = 1
  BY HeaderWord DEF Pointers
<1>2. /\ PageOf(v) \in Pages /\ Offset(v) \in 0 .. WORDS_PER_PAGE - 1
      /\ Offset(v) % 2 = 1
  BY <1>1, WordFacts
<1>3. Offset(v) - 1 < Used(PageOf(v))
  BY <1>1 DEF InUse
<1>4. next_empty_space[PageOf(v)] \in Nat
  BY <1>2 DEF HeapTypeOK, PAGE_SIZE, MIN_OBJECT_SIZE
<1>5. BitOf(v) = Offset(v) \div 2
  BY DEF BitOf, Offset
<1>6. BitOf(v) \in Bits
  BY <1>2, <1>5, PageFacts DEF Bits
<1>7. BitOf(v) * 16 < next_empty_space[PageOf(v)]
  <2> DEFINE o == Offset(v)
             s == next_empty_space[PageOf(v)]
  <2>1. o \in Nat /\ o % 2 = 1 /\ s \in Nat /\ o - 1 < s \div 8
    BY <1>2, <1>3, <1>4 DEF Used
  <2> HIDE DEF o, s
  <2>2. (o \div 2) * 16 < s
    BY <2>1
  <2> QED
    BY <2>2, <1>5 DEF o, s
<1>8. BitOf(v) \in alloc_map[PageOf(v)]
  BY <1>2, <1>6, <1>7 DEF PageAccounting, MIN_OBJECT_SIZE
<1> QED
  BY <1>8, <1>1, NullFacts DEF is_allocated_on_heap

\* A block written at the next empty space of a page: the header h and the
\* object, t words with the padding
LEMMA BlockWritten ==
  ASSUME HeapTypeOK, PageAccounting, mem \in [Words -> MemoryWord],
         MemoryIntact, mem' \in [Words -> MemoryWord],
         NEW p \in Pages, NEW k \in Kinds,
         NEW t \in {ObjectWords(k) + 1, ObjectWords(k) + 2}, t % 2 = 0,
         Used(p) + t <= WORDS_PER_PAGE,
         \A q \in Pages : Used(q)' = IF q = p THEN Used(p) + t ELSE Used(q),
         NEW h, h = ObjectAt(p) - 1,
         IsHeader(h)', mem'[h].kind = k,
         \A i \in 1 .. ObjectWords(k) : ~IsHeader(h + i)',
         \A f \in PointerFields[k] :
           mem'[h + 1 + f].value \in Pointers \cup {NULL},
         \A u \in Words \ {h + i : i \in 0 .. ObjectWords(k)} :
           \/ mem'[u] = mem[u]
           \/ IsHeader(u) /\ IsHeader(u)' /\ mem'[u].kind = mem[u].kind
  PROVE  MemoryIntact'
<1> DEFINE n == ObjectWords(k)
           W == WORDS_PER_PAGE
           block == {h + i : i \in 0 .. n}
<1>1. n \in Nat /\ t \in Nat /\ t > n /\ t <= n + 2
  BY KindFacts
<1>2. W \in Nat /\ Used(p) \in Nat /\ Used(p) < W
  BY <1>1, PageFacts, UsedFacts
<1>3. /\ h \in Words /\ h \in Nat /\ PageOf(h) = p /\ Offset(h) = Used(p)
      /\ h % 2 = 0 /\ Used(p) % 2 = 0
  <2>1. /\ ObjectAt(p) \in Pointers /\ h \in Words /\ PageOf(h) = p
        /\ Offset(h) = Used(p)
    BY <1>2, NextBlock
  <2>2. h % 2 = 0
    BY <2>1, HeaderWord
  <2> QED
    BY <2>1, <2>2, WordFacts
<1> SUFFICES ASSUME NEW g \in Words, IsHeader(g)'
             PROVE  HeaderIntact(g)'
  BY DEF MemoryIntact
<1>4. CASE g = h
  <2>1. Offset(g) + n < W /\ Offset(g) + n < Used(PageOf(g))'
    BY <1>1, <1>2, <1>3, <1>4
  <2> QED
    BY <2>1, <1>3, <1>4 DEF HeaderIntact
<1>5. CASE g \in block /\ g # h
  <2>1. PICK i \in 0 .. n : g = h + i
    BY <1>5
  <2>2. i \in 1 .. n
    BY <2>1, <1>1, <1>3, <1>5
  <2> QED
    BY <2>1, <2>2
<1>6. CASE g \notin block
  <2> DEFINE m == ObjectWords(mem[g].kind)
  <2>1. IsHeader(g) /\ mem'[g].kind = mem[g].kind
    BY <1>6 DEF IsHeader
  <2>2. /\ mem[g].kind \in Kinds /\ m \in Nat /\ g % 2 = 0
        /\ \A i \in 0 .. m : /\ g + i \in Words
                             /\ PageOf(g + i) = PageOf(g)
                             /\ Offset(g + i) = Offset(g) + i
        /\ \A i \in 1 .. m : ~IsHeader(g + i)
    BY <2>1, BodyWords
  <2>3. HeaderIntact(g)
    BY <2>1 DEF MemoryIntact
  <2>4. Offset(g) + m < W /\ (InUse(g) => Offset(g) + m < Used(PageOf(g)))
    BY <2>3 DEF HeaderIntact
  <2>5. /\ g \in Nat /\ Offset(g) \in Nat /\ Offset(g) % 2 = 0
        /\ PageOf(g) \in Pages /\ Used(PageOf(g)) \in Nat
    BY <2>2, WordFacts, UsedFacts
  <2>6. ASSUME PageOf(g) = p
        PROVE  g - Offset(g) = h - Offset(h)
    BY <2>6, <1>3, PageOrder
  <2>7. ASSUME PageOf(g) = p, ~InUse(g)
        PROVE  g > h + n
    <3>1. Offset(g) >= Offset(h)
      BY <2>5, <2>7, <1>2, <1>3 DEF InUse
    <3>2. g >= h
      BY <3>1, <2>5, <2>6, <2>7, <1>2, <1>3
    <3>3. g - h \in 0 .. n => g \in block
      BY <2>5, <1>3
    <3> QED
      BY <3>2, <3>3, <2>5, <1>1, <1>3, <1>6
  <2>8. ASSUME NEW i \in 1 .. m
        PROVE  g + i \in Words \ block
    <3>1. g + i \in Words /\ PageOf(g + i) = PageOf(g)
      BY <2>2
    <3>2. SUFFICES ASSUME NEW j \in 0 .. n, g + i = h + j
                   PROVE  FALSE
      BY <3>1
    <3>3. Offset(h) + j \in 0 .. W - 1 /\ j \in Int
      BY <1>1, <1>2, <1>3
    <3>4. PageOf(g) = p
      BY <3>1, <3>2, <3>3, <1>3, SamePage
    <3>5. /\ i \in Nat /\ i >= 1 /\ i <= m /\ m \in Nat
          /\ j \in Nat /\ j <= n
      BY <2>2, <1>1
    <3>6. CASE InUse(g)
      <4>1. Offset(g) + m < Offset(h)
        BY <3>4, <3>6, <2>4, <1>3
      <4>2. g - Offset(g) = h - Offset(h) /\ Offset(h) \in Nat
        BY <3>4, <2>6, <1>2, <1>3
      <4>3. g + m < h
        BY <4>1, <4>2, <3>5, <2>5, <1>3
      <4> QED
        BY <4>3, <3>2, <3>5, <2>5, <1>3
    <3>7. CASE ~InUse(g)
      <4>1. g > h + n
        BY <3>4, <3>7, <2>7
      <4> QED
        BY <4>1, <3>2, <3>5, <2>5, <1>1, <1>3
    <3> QED
      BY <3>6, <3>7
  <2>9. \A i \in 1 .. m : mem'[g + i] = mem[g + i] /\ ~IsHeader(g + i)'
    BY <2>2, <2>8 DEF IsHeader
  <2>10. ASSUME NEW f \in PointerFields[mem[g].kind]
         PROVE  mem'[g + 1 + f].value \in Pointers \cup {NULL}
    <3>1. f \in Nat /\ f < m
      BY <2>2, KindFacts
    <3>2. f + 1 \in 1 .. m /\ g + 1 + f = g + (f + 1)
      BY <3>1, <2>2, <2>5
    <3>3. mem[g + 1 + f].value \in Pointers \cup {NULL}
      BY <2>3 DEF HeaderIntact
    <3> QED
      BY <3>2, <3>3, <2>9
  <2>11. ASSUME InUse(g)'
         PROVE  Offset(g) + m < Used(PageOf(g))'
    <3>1. CASE InUse(g)
      BY <3>1, <2>2, <2>4, <2>5, <1>1, <1>2
    <3>2. CASE ~InUse(g) /\ PageOf(g) # p
      BY <3>2, <2>5, <2>11 DEF InUse
    <3>3. CASE ~InUse(g) /\ PageOf(g) = p
      <4>1. Offset(g) < Used(p) + t
        BY <3>3, <2>11 DEF InUse
      <4>2. Offset(g) > Used(p) + n
        BY <3>3, <2>5, <2>6, <2>7, <1>1, <1>2, <1>3
      <4>3. Offset(g) = Used(p) + (t - 1) /\ t - 1 = n + 1
        BY <4>1, <4>2, <2>5, <1>1, <1>2
      <4> QED
        BY <4>3, <2>5, <1>1, <1>2, <1>3
    <3> QED
      BY <3>1, <3>2, <3>3
  <2> QED
    BY <2>1, <2>2, <2>4, <2>9, <2>10, <2>11 DEF HeaderIntact
<1> QED
  BY <1>4, <1>5, <1>6

\* A page gives the words of a block to what is in use.
LEMMA ReserveUsed ==
  ASSUME HeapTypeOK, PageAccounting, HeapTypeOK', NEW p \in Pages,
         NEW total \in Nat, total % 16 = 0, total >= 16, Reserve(p, total)
  PROVE  /\ \A q \in Pages :
              Used(q)' = IF q = p THEN Used(p) + (total \div 8) ELSE Used(q)
         /\ Used(p) + (total \div 8) <= WORDS_PER_PAGE
         /\ Used(p) < WORDS_PER_PAGE
         /\ \A u \in Words : InUse(u) => InUse(u)'
<1> DEFINE next == next_empty_space[p]
<1>1. next \in Nat /\ next % 16 = 0
  BY DEF HeapTypeOK, PageAccounting, MIN_OBJECT_SIZE, PAGE_SIZE
<1>2. next_empty_space'[p] = next + total
  BY DEF Reserve, HeapTypeOK
<1>3. next_empty_space'[p] <= 8 * WORDS_PER_PAGE
  <2>1. next_empty_space'[p] \in 0 .. PAGE_SIZE
    BY DEF HeapTypeOK
  <2> QED
    BY <2>1, <1>1, <1>2, PageFacts
<1>4. (next + total) \div 8 = (next \div 8) + (total \div 8)
  <2> HIDE DEF next
  <2> QED
    BY <1>1
<1>5. Used(p)' = Used(p) + (total \div 8)
  BY <1>2, <1>4 DEF Used
<1>6. \A q \in Pages : q # p => Used(q)' = Used(q)
  BY DEF Used, Reserve, HeapTypeOK
<1>7. Used(p) + (total \div 8) <= WORDS_PER_PAGE /\ total \div 8 >= 2
  <2> HIDE DEF next
  <2>1. next + total <= 8 * WORDS_PER_PAGE
    BY <1>2, <1>3
  <2>2. (next \div 8) + (total \div 8) <= WORDS_PER_PAGE
    BY <2>1, <1>1, <1>4, PageFacts
  <2> QED
    BY <2>2 DEF Used, next
<1>8. Used(p) \in Nat /\ total \div 8 \in Nat /\ WORDS_PER_PAGE \in Nat
  BY UsedFacts, PageFacts
<1>9. ASSUME NEW u \in Words, InUse(u)
      PROVE  InUse(u)'
  <2>1. PageOf(u) \in Pages /\ Offset(u) \in Nat
    BY WordFacts
  <2>2. CASE PageOf(u) = p
    <3>1. Offset(u) < Used(p)
      BY <1>9, <2>2 DEF InUse
    <3>2. Offset(u) < Used(p)'
      BY <3>1, <2>1, <1>5, <1>8
    <3> QED
      BY <3>2, <2>2 DEF InUse
  <2>3. CASE PageOf(u) # p
    BY <1>9, <2>1, <2>3, <1>6 DEF InUse
  <2> QED
    BY <2>2, <2>3
<1> QED
  BY <1>5, <1>6, <1>7, <1>8, <1>9

\* The words of the block that comes next in a page are not in use.
LEMMA BlockIsFree ==
  ASSUME HeapTypeOK, PageAccounting, NEW p \in Pages, NEW n \in Nat,
         Used(p) + n < WORDS_PER_PAGE, NEW i \in 0 .. n
  PROVE  LET h == ObjectAt(p) - 1
         IN  /\ h + i \in Words /\ PageOf(h + i) = p
             /\ Offset(h + i) = Used(p) + i
             /\ ~InUse(h + i)
<1> DEFINE h == ObjectAt(p) - 1
<1>1. Used(p) \in Nat /\ WORDS_PER_PAGE \in Nat
  BY UsedFacts, PageFacts
<1>2. h \in Words /\ PageOf(h) = p /\ Offset(h) = Used(p)
  BY <1>1, NextBlock
<1>3. Offset(h) + i \in 0 .. WORDS_PER_PAGE - 1 /\ i \in Int
  BY <1>1, <1>2
<1>4. /\ h + i \in Words /\ PageOf(h + i) = p
      /\ Offset(h + i) = Used(p) + i
  BY <1>2, <1>3, SamePage
<1>5. ~InUse(h + i)
  BY <1>1, <1>4 DEF InUse
<1> QED
  BY <1>4, <1>5

\* What h_alloc_struct and h_alloc_raw do to memory
LEMMA ObjectWritten ==
  ASSUME RawFitsSlot, HeapTypeOK, PageAccounting, HeapTypeOK',
         mem \in [Words -> MemoryWord], MemoryIntact,
         NEW p \in Pages, NEW k \in Kinds, NEW i \in Ids,
         Reserve(p, TotalSize(ObjectSize[k])),
         NEW v, v = ObjectAt(p), mem' = WriteObject(mem, v, k, i)
  PROVE  /\ v \in Pointers
         /\ mem' \in [Words -> MemoryWord] /\ MemoryIntact'
         /\ Interpretable(v)' /\ ~InUse(v - 1) /\ InUse(v - 1)'
         /\ mem'[v - 1].kind = k /\ mem'[v - 1].id = i
         /\ \A f \in PointerFields[k] : mem'[v + f].value = NULL
         /\ \A u \in Words : InUse(u) => InUse(u)' /\ mem'[u] = mem[u]
<1> DEFINE n == ObjectWords(k)
           total == TotalSize(ObjectSize[k])
           t == total \div 8
           h == v - 1
           W == WORDS_PER_PAGE
<1>1. /\ n \in Nat /\ t \in {n + 1, n + 2} /\ t % 2 = 0
      /\ \A f \in PointerFields[k] : f \in Nat /\ f < n
  BY KindFacts
<1>2. total \in Nat /\ total % 16 = 0 /\ total >= 16
  <2>1. ObjectSize[k] \in Nat
    BY ConstantFacts
  <2> QED
    BY <2>1, TotalSizeFacts
<1>3. /\ \A q \in Pages : Used(q)' = IF q = p THEN Used(p) + t ELSE Used(q)
      /\ Used(p) + t <= W /\ Used(p) < W
      /\ \A u \in Words : InUse(u) => InUse(u)'
  BY <1>2, ReserveUsed
<1>4. /\ v \in Pointers /\ v \in Nat /\ h \in Words /\ h \in Nat
      /\ PageOf(h) = p /\ Offset(h) = Used(p) /\ h % 2 = 0 /\ v = h + 1
  BY <1>3, NextBlock, HeaderWord, WordFacts
<1>5. Used(p) \in Nat /\ W \in Nat /\ Used(p) + n < W
  BY <1>1, <1>3, UsedFacts, PageFacts
<1>6. \A j \in 0 .. n : h + j \in Words /\ ~InUse(h + j)
  BY <1>1, <1>5, BlockIsFree
<1>7. /\ mem' \in [Words -> MemoryWord]
      /\ mem'[h] \in {Layout(k, i), Size(k, i)}
      /\ mem'[h].tag \in {"layout", "size"}
      /\ mem'[h].kind = k /\ mem'[h].id = i
  <2>1. CASE k \in Layouts
    <3>1. Layout(k, i) \in MemoryWord /\ Plain(NULL) \in MemoryWord
      BY <2>1, WordsWritten
    <3>2. mem' = [w \in Words |-> IF w = h THEN Layout(k, i)
                                  ELSE IF w \in v .. v + n - 1
                                         THEN Plain(NULL)
                                         ELSE mem[w]]
      BY <2>1 DEF WriteObject
    <3>3. mem'[h] = Layout(k, i)
      BY <3>2, <1>4
    <3>4. /\ Layout(k, i).tag = "layout"
          /\ Layout(k, i).kind = k /\ Layout(k, i).id = i
      BY <2>1, WordsWritten
    <3>5. mem' \in [Words -> MemoryWord]
      BY <3>1, <3>2
    <3> QED
      BY <3>3, <3>4, <3>5
  <2>2. CASE k \in RawSizes
    <3>1. mem' = [mem EXCEPT ![h] = Size(k, i)]
      BY <2>2, HeapAssumption DEF WriteObject
    <3>2. mem'[h] = Size(k, i) /\ Size(k, i) \in MemoryWord
      BY <3>1, <2>2, <1>4, WordsWritten
    <3>3. /\ Size(k, i).tag = "size"
          /\ Size(k, i).kind = k /\ Size(k, i).id = i
      BY <2>2, WordsWritten
    <3>4. mem' \in [Words -> MemoryWord]
      BY <3>1, <3>2
    <3> QED
      BY <3>2, <3>3, <3>4
  <2> QED
    BY <2>1, <2>2 DEF Kinds
<1>8. ASSUME NEW j \in 1 .. n
      PROVE  /\ ~IsHeader(h + j)'
             /\ k \in Layouts => mem'[h + j] = Plain(NULL)
  <2>1. j \in 0 .. n /\ j \in Nat /\ j >= 1 /\ j <= n
    BY <1>1
  <2>2. h + j \in Words /\ h + j # h
    BY <2>1, <1>4, <1>6
  <2>3. CASE k \in Layouts
    <3>1. h + j \in v .. v + n - 1
      BY <2>1, <1>1, <1>4
    <3>2. mem'[h + j] = Plain(NULL)
      BY <3>1, <2>2, <2>3 DEF WriteObject
    <3> QED
      BY <3>2, WordsWritten DEF IsHeader
  <2>4. CASE k \in RawSizes
    <3>1. n <= 1
      BY <2>4, RawFacts
    <3>2. j = 1
      BY <3>1, <2>1, <1>1
    <3>3. (h + j) % 2 = 1
      BY <3>2, <1>4
    <3>4. ~IsHeader(h + j)
      BY <3>3, <2>2, BodyWords
    <3>5. k \notin Layouts
      BY <2>4, HeapAssumption
    <3>6. mem'[h + j] = mem[h + j]
      BY <3>5, <2>2 DEF WriteObject
    <3> QED
      BY <3>4, <3>5, <3>6 DEF IsHeader
  <2> QED
    BY <2>3, <2>4 DEF Kinds
<1>9. ASSUME NEW f \in PointerFields[k]
      PROVE  mem'[h + 1 + f].value = NULL /\ h + 1 + f = v + f
  <2>1. f \in Nat /\ f < n
    BY <1>1, <1>9
  <2>2. f + 1 \in 1 .. n /\ h + 1 + f = h + (f + 1) /\ h + 1 + f = v + f
    BY <2>1, <1>1, <1>4
  <2>3. k \in Layouts
    BY <1>9, KindFacts DEF Kinds
  <2> QED
    BY <2>2, <2>3, <1>8, WordsWritten
<1>10. ASSUME NEW u \in Words, u \notin {h + j : j \in 0 .. n}
       PROVE  mem'[u] = mem[u]
  <2>1. \A j \in 0 .. n : u # h + j
    BY <1>10
  <2>2. 0 \in 0 .. n /\ h + 0 = h
    BY <1>1, <1>4
  <2>3. u # h
    BY <2>1, <2>2
  <2>4. ASSUME u \in v .. v + n - 1
        PROVE  FALSE
    <3>1. u - h \in 0 .. n /\ h + (u - h) = u
      BY <2>4, <1>1, <1>4, WordFacts
    <3> QED
      BY <3>1, <2>1
  <2> QED
    BY <2>3, <2>4 DEF WriteObject
<1>11. IsHeader(h)'
  BY <1>7 DEF IsHeader
<1>12. MemoryIntact'
  <2>1. \A f \in PointerFields[k] :
          mem'[h + 1 + f].value \in Pointers \cup {NULL}
    BY <1>9
  <2>2. \A j \in 1 .. n : ~IsHeader(h + j)'
    BY <1>8
  <2>3. \A u \in Words \ {h + j : j \in 0 .. n} : mem'[u] = mem[u]
    BY <1>10
  <2>4. h = ObjectAt(p) - 1
    OBVIOUS
  <2> HIDE DEF h, n, t
  <2>5. n = ObjectWords(k)
    BY DEF n
  <2> QED
    BY <2>1, <2>2, <2>3, <2>4, <2>5, <1>1, <1>3, <1>7, <1>11, BlockWritten
<1>13. ASSUME NEW u \in Words, InUse(u)
       PROVE  mem'[u] = mem[u]
  BY <1>13, <1>6, <1>10
<1>14. InUse(h)'
  <2>1. Offset(h) < Used(PageOf(h))'
    BY <1>1, <1>3, <1>4, <1>5
  <2> QED
    BY <2>1 DEF InUse
<1>15. Interpretable(v)'
  BY <1>7 DEF Interpretable
<1>16. ~InUse(h)
  <2>1. 0 \in 0 .. n /\ h + 0 = h
    BY <1>1, <1>4
  <2> QED
    BY <2>1, <1>6
<1> QED
  BY <1>3, <1>4, <1>7, <1>9, <1>12, <1>13, <1>14, <1>15, <1>16

\* What traverse_and_move does to memory: the object at from is copied to the
\* next block of page p, and leaves a forwarding address behind.
LEMMA ObjectMoved ==
  ASSUME RawFitsSlot, HeapTypeOK, PageAccounting, HeapTypeOK',
         mem \in [Words -> MemoryWord], MemoryIntact,
         NEW from \in Pointers, Interpretable(from),
         NEW k, k = mem[from - 1].kind,
         NEW p \in Pages, Reserve(p, TotalSize(MovedBytes(k))),
         NEW to, to = ObjectAt(p), ~Overlaps(from, to),
         mem' = Relocate(mem, from, to)
  PROVE  /\ to \in Pointers /\ PageOf(to - 1) = p
         /\ ~InUse(to - 1) /\ InUse(to - 1)'
         /\ mem' \in [Words -> MemoryWord] /\ MemoryIntact'
         /\ mem'[from - 1] = Forward(to, k, mem[from - 1].id)
         /\ to # from /\ mem'[to - 1] = mem[from - 1]
         /\ \A f \in PointerFields[k] : mem'[to + f] = mem[from + f]
         /\ \A u \in Words : InUse(u) => InUse(u)'
         /\ \A u \in Words : (InUse(u) \/ PageOf(u) # p) /\ u # from - 1 =>
              mem'[u] = mem[u]
<1> DEFINE n == ObjectWords(k)
           m == MovedWords(k)
           total == TotalSize(MovedBytes(k))
           t == total \div 8
           h == to - 1
           g == from - 1
           W == WORDS_PER_PAGE
<1>1. /\ g \in Words /\ g \in Nat /\ from \in Nat /\ from = g + 1 /\ g % 2 = 0
      /\ PageOf(g) = PageOf(from)
  BY HeaderWord, WordFacts
<1>2. /\ IsHeader(g) /\ mem[g] \in MemoryWord /\ k \in Kinds
      /\ mem[g].kind = k /\ mem[g].id \in Ids
  BY <1>1, WordCases DEF Interpretable, IsHeader
<1>3. /\ n \in Nat /\ m \in Nat /\ m <= n
      /\ k \in Layouts => m = n
      /\ k \in RawSizes => m = 0 /\ n <= 1
      /\ \A f \in PointerFields[k] : f \in Nat /\ f < m
  <2>1. \A f \in PointerFields[k] : f \in Nat /\ f < n
    BY <1>2, KindFacts
  <2>2. CASE k \in Layouts
    BY <1>2, <2>1, <2>2, KindFacts, HeapAssumption
  <2>3. CASE k \in RawSizes
    <3>1. PointerFields[k] = {} /\ m = 0 /\ n \in Nat /\ n <= 1
      BY <1>2, <2>3, KindFacts, RawFacts
    <3> QED
      BY <3>1, <2>3, HeapAssumption
  <2> QED
    BY <1>2, <2>2, <2>3 DEF Kinds
<1>4. /\ t \in {n + 1, n + 2} /\ t % 2 = 0
      /\ total \in Nat /\ total % 16 = 0 /\ total >= 16
  <2>1. MovedBytes(k) \in Nat
    BY <1>2, ConstantFacts
  <2>2. total \in Nat /\ total % 16 = 0 /\ total >= 16
    BY <2>1, TotalSizeFacts
  <2>3. CASE k \in Layouts
    <3>1. MovedBytes(k) = ObjectSize[k]
      BY <2>3, HeapAssumption DEF MovedBytes
    <3> QED
      BY <3>1, <2>2, <1>2, KindFacts
  <2>4. CASE k \in RawSizes
    <3>1. MovedBytes(k) = 0
      BY <2>4 DEF MovedBytes
    <3>2. total = 16
      BY <3>1 DEF TotalSize, HEADER_SIZE
    <3>3. t = 2
      BY <3>2
    <3> HIDE DEF t
    <3> QED
      BY <3>3, <2>2, <2>4, <1>3
  <2> QED
    BY <2>3, <2>4, <1>2 DEF Kinds
<1>5. /\ \A q \in Pages : Used(q)' = IF q = p THEN Used(p) + t ELSE Used(q)
      /\ Used(p) + t <= W /\ Used(p) < W
      /\ \A u \in Words : InUse(u) => InUse(u)'
  BY <1>4, ReserveUsed
<1>6. /\ to \in Pointers /\ h \in Words /\ h \in Nat /\ PageOf(h) = p
      /\ Offset(h) = Used(p) /\ h % 2 = 0 /\ to = h + 1 /\ ~InUse(h)
  BY <1>5, NextBlock, HeaderWord, WordFacts
<1>7. Used(p) \in Nat /\ W \in Nat /\ Used(p) + n < W
  BY <1>3, <1>4, <1>5, UsedFacts, PageFacts
<1>8. \A j \in 0 .. n : h + j \in Words /\ ~InUse(h + j) /\ PageOf(h + j) = p
  BY <1>3, <1>7, BlockIsFree
<1>9. g - h \notin 0 .. m
  <2>1. from - to = g - h
    BY <1>1, <1>6
  <2> QED
    BY <2>1 DEF Overlaps
<1>10. mem' \in [Words -> MemoryWord]
       /\ mem'[g] = Forward(to, k, mem[g].id)
       /\ \A w \in Words \ {g} :
            mem'[w] = IF w \in to - 1 .. to + m - 1 THEN mem[from + w - to]
                                                    ELSE mem[w]
  <2>1. mem' = [CopyObject(mem, from, to, m)
                  EXCEPT ![g] = Forward(to, k, mem[g].id)]
    BY DEF Relocate
  <2>2. Forward(to, k, mem[g].id) \in MemoryWord
    BY <1>2, <1>6, WordsWritten
  <2>3. CopyObject(mem, from, to, m) \in [Words -> MemoryWord]
    <3> SUFFICES ASSUME NEW w \in Words, w \in to - 1 .. to + m - 1
                 PROVE  mem[from + w - to] \in MemoryWord
      BY DEF CopyObject
    <3>1. w - h \in 0 .. n /\ from + w - to = g + (w - h)
      BY <1>1, <1>3, <1>6, WordFacts
    <3>2. g + (w - h) \in Words
      BY <3>1, <1>1, <1>2, BodyWords
    <3> QED
      BY <3>1, <3>2
  <2> QED
    BY <2>1, <2>2, <2>3, <1>1 DEF CopyObject
<1>11. ASSUME NEW j \in 0 .. m
       PROVE  /\ mem'[h + j] = mem[g + j]
              /\ g + j \in Words /\ h + j \in Words /\ h + j # g
  <2>1. j \in 0 .. n /\ j \in Nat /\ j <= m
    BY <1>3
  <2>2. h + j \in Words
    BY <2>1, <1>8
  <2>3. h + j # g
    BY <2>1, <1>1, <1>6, <1>9
  <2>4. h + j \in to - 1 .. to + m - 1 /\ from + (h + j) - to = g + j
    BY <2>1, <1>1, <1>3, <1>6
  <2>5. g + j \in Words
    BY <2>1, <1>1, <1>2, BodyWords
  <2> QED
    BY <2>2, <2>3, <2>4, <2>5, <1>10
<1>12. ASSUME NEW u \in Words, u # g, u \notin {h + j : j \in 0 .. m}
       PROVE  mem'[u] = mem[u]
  <2>1. \A j \in 0 .. m : u # h + j
    BY <1>12
  <2>2. ASSUME u \in to - 1 .. to + m - 1
        PROVE  FALSE
    <3>1. u - h \in 0 .. m /\ h + (u - h) = u
      BY <2>2, <1>3, <1>6, WordFacts
    <3> QED
      BY <3>1, <2>1
  <2> QED
    BY <2>2, <1>10, <1>12
<1>13. mem'[h] = mem[g] /\ h # g
  <2>1. 0 \in 0 .. m /\ h + 0 = h /\ g + 0 = g
    BY <1>1, <1>3, <1>6
  <2> QED
    BY <2>1, <1>11
<1>14. IsHeader(h)' /\ mem'[h].kind = k
  BY <1>2, <1>13 DEF IsHeader
<1>15. ASSUME NEW j \in 1 .. n
       PROVE  ~IsHeader(h + j)'
  <2>1. j \in 0 .. n /\ j \in Nat /\ j >= 1 /\ j <= n
    BY <1>3
  <2>2. CASE k \in Layouts
    <3>1. j \in 0 .. m
      BY <2>1, <2>2, <1>3
    <3>2. ~IsHeader(g + j)
      BY <1>1, <1>2, BodyWords
    <3> QED
      BY <3>1, <3>2, <1>11 DEF IsHeader
  <2>3. CASE k \in RawSizes
    <3>1. j = 1 /\ m = 0
      BY <2>1, <2>3, <1>3
    <3>2. (h + j) % 2 = 1 /\ h + j \in Words
      BY <3>1, <2>1, <1>6, <1>8
    <3>3. ~IsHeader(h + j) /\ h + j # g
      BY <3>2, <1>1, BodyWords
    <3>4. h + j \notin {h + i : i \in 0 .. m}
      BY <3>1, <1>6
    <3> QED
      BY <3>2, <3>3, <3>4, <1>12 DEF IsHeader
  <2> QED
    BY <2>2, <2>3, <1>2 DEF Kinds
<1>16. ASSUME NEW f \in PointerFields[k]
       PROVE  /\ mem'[to + f] = mem[from + f]
              /\ mem'[h + 1 + f].value \in Pointers \cup {NULL}
  <2>1. f \in Nat /\ f < m
    BY <1>3, <1>16
  <2>2. /\ f + 1 \in 0 .. m /\ h + 1 + f = h + (f + 1)
        /\ to + f = h + (f + 1) /\ from + f = g + (f + 1)
    BY <2>1, <1>1, <1>3, <1>6
  <2>3. mem[from + f].value \in Pointers \cup {NULL}
    BY <1>2, <1>16, FieldFacts DEF KindOf
  <2> QED
    BY <2>2, <2>3, <1>11
<1>17. MemoryIntact'
  <2>1. \A f \in PointerFields[k] :
          mem'[h + 1 + f].value \in Pointers \cup {NULL}
    BY <1>16
  <2>2. \A j \in 1 .. n : ~IsHeader(h + j)'
    BY <1>15
  <2>3. ASSUME NEW u \in Words \ {h + j : j \in 0 .. n}
        PROVE  \/ mem'[u] = mem[u]
               \/ IsHeader(u) /\ IsHeader(u)' /\ mem'[u].kind = mem[u].kind
    <3>1. CASE u = g
      <4>1. /\ Forward(to, k, mem[g].id).tag = "forward"
            /\ Forward(to, k, mem[g].id).kind = k
        BY <1>2, <1>6, WordsWritten
      <4> QED
        BY <4>1, <3>1, <1>2, <1>10 DEF IsHeader
    <3>2. CASE u # g
      <4>1. u \notin {h + j : j \in 0 .. m}
        BY <2>3, <1>3
      <4> QED
        BY <4>1, <3>2, <1>12
    <3> QED
      BY <3>1, <3>2
  <2>4. h = ObjectAt(p) - 1
    OBVIOUS
  <2> HIDE DEF h, n, t
  <2>5. n = ObjectWords(k)
    BY DEF n
  <2> QED
    BY <2>1, <2>2, <2>3, <2>4, <2>5, <1>2, <1>4, <1>5, <1>10, <1>14,
       BlockWritten
<1>18. ASSUME NEW u \in Words, InUse(u) \/ PageOf(u) # p, u # from - 1
       PROVE  mem'[u] = mem[u]
  <2>1. u \notin {h + j : j \in 0 .. m}
    BY <1>18, <1>3, <1>8
  <2> QED
    BY <2>1, <1>12, <1>18
<1>19. InUse(h)'
  <2>1. Offset(h) < Used(PageOf(h))'
    BY <1>3, <1>4, <1>5, <1>6, <1>7
  <2> QED
    BY <2>1 DEF InUse
<1>20. to # from
  BY <1>13, <1>1, <1>6
<1> QED
  BY <1>5, <1>6, <1>10, <1>13, <1>16, <1>17, <1>18, <1>19, <1>20

-----------------------------------------------------------------------------
(* interpret_header *)

\* The j-th of the fields that are not NULL exists for each j, and each of them
\* is the j-th for some j.
LEMMA Ranks ==
  ASSUME NEW L \in Nat, NEW S \in SUBSET (1 .. L)
  PROVE  LET rank(i) == Cardinality({l \in S : l <= i})
         IN  /\ Cardinality(S) \in Nat
             /\ \A i \in S : rank(i) \in 1 .. Cardinality(S)
             /\ \A i, j \in S : rank(i) = rank(j) => i = j
             /\ \A n \in 1 .. Cardinality(S) : \E i \in S : rank(i) = n
<1> DEFINE rank(i) == Cardinality({l \in S : l <= i})
           N == Cardinality(S)
           f == [i \in S |-> rank(i)]
<1>1. IsFiniteSet(1 .. L) /\ \A i \in S : i \in Nat
  BY FS_Interval
<1>2. IsFiniteSet(S) /\ N \in Nat
  BY <1>1, FS_Subset, FS_CardinalityType
<1>3. ASSUME NEW i \in S
      PROVE  /\ IsFiniteSet({l \in S : l <= i})
             /\ rank(i) \in 1 .. N
  <2>1. {l \in S : l <= i} \in SUBSET S
    OBVIOUS
  <2>2. IsFiniteSet({l \in S : l <= i}) /\ rank(i) <= N
    BY <2>1, <1>2, FS_Subset
  <2>3. i \in {l \in S : l <= i}
    BY <1>1
  <2>4. rank(i) \in Nat /\ rank(i) # 0
    BY <2>2, <2>3, FS_CardinalityType, FS_EmptySet
  <2> QED
    BY <2>2, <2>4, <1>2
<1>4. ASSUME NEW i \in S, NEW j \in S, i < j
      PROVE  rank(i) # rank(j)
  <2>1. {l \in S : l <= i} \in SUBSET {l \in S : l <= j}
    <3>1. \A l \in S : l <= i => l <= j
      BY <1>1, <1>4
    <3> QED
      BY <3>1
  <2>2. j \in {l \in S : l <= j} /\ j \notin {l \in S : l <= i}
    BY <1>1, <1>4
  <2> QED
    BY <2>1, <2>2, <1>3, FS_Subset
<1>5. \A i, j \in S : rank(i) = rank(j) => i = j
  BY <1>1, <1>4
<1>6. f \in Injection(S, 1 .. N)
  BY <1>3, <1>5 DEF Injection, IsInjective
<1>7. IsFiniteSet(1 .. N) /\ Cardinality(1 .. N) = N
  BY <1>2, FS_Interval
<1>8. f \in Surjection(S, 1 .. N)
  BY <1>6, <1>7, FS_Injection
<1>9. \A n \in 1 .. N : \E i \in S : rank(i) = n
  BY <1>8 DEF Surjection
<1> QED
  BY <1>2, <1>3, <1>5, <1>9

\* The pointer fields of an object of kind k at v that are not NULL in m
FieldWords(v, m, k) ==
  {HeapWord(v + f) : f \in {g \in PointerFields[k] : m[v + g].value # NULL}}

\* interpret_header finds every pointer field that is not NULL, and no other.
LEMMA PointersFound ==
  ASSUME NEW v, NEW m, NEW k \in Kinds, m[v - 1].kind = k
  PROVE  /\ PointersOf(v, m) \in Seq(FieldWords(v, m, k))
         /\ \A f \in PointerFields[k] : m[v + f].value # NULL =>
              \E j \in DOMAIN PointersOf(v, m) :
                PointersOf(v, m)[j] = HeapWord(v + f)
         /\ v \in Nat => \A i, j \in DOMAIN PointersOf(v, m) :
              PointersOf(v, m)[i] = PointersOf(v, m)[j] => i = j
<1> DEFINE offsets == PointerOffsets[k]
           fields == NonNullFields(v, m)
           N == Cardinality(fields)
           rank(i) == Cardinality({l \in fields : l <= i})
           nth(j) == CHOOSE i \in fields : rank(i) = j
<1>1. offsets \in Seq(Nat) /\ Len(offsets) \in Nat
      /\ DOMAIN offsets = 1 .. Len(offsets)
  BY CompactingAssumption
<1>2. fields = {i \in DOMAIN offsets : m[v + offsets[i]].value # NULL}
  BY DEF NonNullFields
<1>3. fields \in SUBSET (1 .. Len(offsets))
  BY <1>1, <1>2
<1> HIDE DEF fields
<1>4. /\ N \in Nat
      /\ \A i \in fields : rank(i) \in 1 .. N
      /\ \A i, j \in fields : rank(i) = rank(j) => i = j
      /\ \A n \in 1 .. N : \E i \in fields : rank(i) = n
  BY <1>1, <1>3, Ranks
<1>5. PointersOf(v, m) = [j \in 1 .. N |-> HeapWord(v + offsets[nth(j)])]
  BY DEF PointersOf, fields
<1>6. ASSUME NEW j \in 1 .. N
      PROVE  nth(j) \in fields /\ rank(nth(j)) = j
  BY <1>4
<1>7. ASSUME NEW i \in fields
      PROVE  nth(rank(i)) = i
  BY <1>4, <1>6, <1>7
<1>8. ASSUME NEW i \in fields
      PROVE  /\ offsets[i] \in PointerFields[k]
             /\ m[v + offsets[i]].value # NULL
  BY <1>2, <1>8 DEF PointerFields
<1> HIDE DEF rank, nth
<1>9. ASSUME NEW f \in PointerFields[k], m[v + f].value # NULL
      PROVE  \E j \in DOMAIN PointersOf(v, m) :
               PointersOf(v, m)[j] = HeapWord(v + f)
  <2>1. PICK i \in DOMAIN offsets : f = offsets[i]
    BY <1>9 DEF PointerFields
  <2>2. i \in fields
    BY <2>1, <1>2, <1>9
  <2>3. rank(i) \in 1 .. N /\ nth(rank(i)) = i
    BY <2>2, <1>4, <1>7
  <2> QED
    BY <2>1, <2>3, <1>5
<1>10. ASSUME NEW j \in 1 .. N
       PROVE  \E f \in PointerFields[k] :
                /\ m[v + f].value # NULL
                /\ PointersOf(v, m)[j] = HeapWord(v + f)
  BY <1>5, <1>6, <1>8
<1>11. DOMAIN PointersOf(v, m) = 1 .. N
  BY <1>5
<1>12. PointersOf(v, m) \in Seq(FieldWords(v, m, k))
  <2>1. \A j \in 1 .. N : PointersOf(v, m)[j] \in FieldWords(v, m, k)
    BY <1>10 DEF FieldWords
  <2>2. PointersOf(v, m) \in [1 .. N -> FieldWords(v, m, k)]
    BY <2>1, <1>5
  <2> QED
    BY <2>2, <1>4
<1>13. \A a, b \in DOMAIN offsets : offsets[a] = offsets[b] => a = b
  <2>1. CASE k \in RawSizes
    BY <2>1, <1>1, CompactingAssumption
  <2>2. CASE k \in Layouts
    <3>1. \A i \in DOMAIN offsets : \A j \in 1 .. i - 1 : offsets[j] < offsets[i]
      BY <2>2, CompactingAssumption
    <3>2. ASSUME NEW a \in DOMAIN offsets, NEW b \in DOMAIN offsets, a < b
          PROVE  offsets[a] # offsets[b]
      <4>1. a \in 1 .. b - 1 /\ offsets[a] \in Nat /\ offsets[b] \in Nat
        BY <3>2, <1>1
      <4> QED
        BY <4>1, <3>1, <3>2
    <3>3. \A a, b \in DOMAIN offsets : a = b \/ a < b \/ b < a
      BY <1>1
    <3> QED
      BY <3>2, <3>3
  <2> QED
    BY <2>1, <2>2 DEF Kinds
<1>14. ASSUME v \in Nat, NEW i \in 1 .. N, NEW j \in 1 .. N,
              PointersOf(v, m)[i] = PointersOf(v, m)[j]
       PROVE  i = j
  <2>1. nth(i) \in DOMAIN offsets /\ nth(j) \in DOMAIN offsets
    BY <1>2, <1>6
  <2>2. HeapWord(v + offsets[nth(i)]) = HeapWord(v + offsets[nth(j)])
    BY <1>5, <1>14
  <2>3. v + offsets[nth(i)] = v + offsets[nth(j)]
    BY <2>2 DEF HeapWord
  <2>4. offsets[nth(i)] \in Nat /\ offsets[nth(j)] \in Nat
    BY <2>1, <1>1
  <2>5. offsets[nth(i)] = offsets[nth(j)]
    BY <2>3, <2>4, <1>14
  <2>6. nth(i) = nth(j)
    BY <2>1, <2>5, <1>13
  <2> QED
    BY <2>6, <1>6
<1> QED
  BY <1>9, <1>11, <1>12, <1>14

=============================================================================
