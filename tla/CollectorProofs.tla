--------------------------- MODULE CollectorProofs ---------------------------
(***************************************************************************)
(* The invariant of module CollectorInvariant holds, for every heap, every *)
(* set of layouts, any number of variables and of stale words.             *)
(***************************************************************************)
EXTENDS MemoryProofs, CompactingProofs

-----------------------------------------------------------------------------
(* Lists *)

\* A word of the stack is none of the heap.
LEMMA Places ==
  /\ \A s : StackWord(s).area = "stack" /\ StackWord(s).at = s
  /\ \A w : HeapWord(w).area = "heap" /\ HeapWord(w).at = w
  /\ \A s, t : StackWord(s) = StackWord(t) => s = t
  /\ \A w, u : HeapWord(w) = HeapWord(u) => w = u
  /\ \A s, w : StackWord(s) # HeapWord(w)
  BY DEF StackWord, HeapWord

\* A list of some things is a list of more things.
LEMMA WiderSeq ==
  ASSUME NEW S, NEW T, S \subseteq T, NEW q \in Seq(S)
  PROVE  q \in Seq(T)
<1>1. q \in [1 .. Len(q) -> S] /\ Len(q) \in Nat
  OBVIOUS
<1>2. q \in [1 .. Len(q) -> T]
  BY <1>1
<1> QED
  BY <1>1, <1>2

\* The entries of a list with another behind it
LEMMA Concatenated ==
  ASSUME NEW S, NEW first \in Seq(S), NEW second \in Seq(S)
  PROVE  /\ Len(second) \in Nat /\ Len(first) \in Nat
         /\ Len(first \o second) = Len(first) + Len(second)
         /\ \A i \in 1 .. Len(first) : (first \o second)[i] = first[i]
         /\ \A i \in 1 .. Len(second) :
              (first \o second)[Len(first) + i] = second[i]
  OBVIOUS

\* Slots are numbers from 1 on.
LEMMA SlotFacts ==
  /\ NumTemps \in Nat /\ NumLocals \in Nat
  /\ \A s \in Slots : s \in Nat /\ s >= 1
  /\ Locals \subseteq Slots /\ Temps \cap Locals = {}
  BY CompactingAssumption DEF Slots, Locals, Temps

\* The rest of a list after its head was served, with new entries at its end
LEMMA RestOfList ==
  ASSUME NEW T, NEW q \in Seq(T), q # <<>>, NEW r \in Seq(T), NEW loc
  PROVE  /\ Head(q) \in T /\ Tail(q) \in Seq(T) /\ Tail(q) \o r \in Seq(T)
         /\ Len(Tail(q)) = Len(q) - 1
         /\ \A i \in 1 .. Len(q) - 1 : Tail(q)[i] = q[i + 1]
         /\ InList(q, loc) => loc = Head(q) \/ InList(Tail(q), loc)
         /\ InList(Tail(q), loc) => InList(q, loc)
         /\ InList(Tail(q) \o r, loc) <=> InList(Tail(q), loc) \/ InList(r, loc)
<1>1. /\ Head(q) \in T /\ Head(q) = q[1] /\ Tail(q) \in Seq(T)
      /\ Len(q) \in Nat /\ Len(q) >= 1 /\ DOMAIN q = 1 .. Len(q)
      /\ Len(Tail(q)) = Len(q) - 1 /\ DOMAIN Tail(q) = 1 .. Len(q) - 1
  OBVIOUS
<1>2. \A i \in 1 .. Len(q) - 1 : Tail(q)[i] = q[i + 1]
  BY <1>1
<1>3. ASSUME InList(q, loc), loc # Head(q)
      PROVE  InList(Tail(q), loc)
  <2>1. PICK i \in 1 .. Len(q) : q[i] = loc
    BY <1>1, <1>3 DEF InList
  <2>2. i # 1
    BY <2>1, <1>1, <1>3
  <2>3. i - 1 \in 1 .. Len(q) - 1 /\ (i - 1) + 1 = i
    BY <2>2, <1>1
  <2> QED
    BY <2>1, <2>3, <1>1, <1>2 DEF InList
<1>4. ASSUME InList(Tail(q), loc)
      PROVE  InList(q, loc)
  <2>1. PICK i \in 1 .. Len(q) - 1 : Tail(q)[i] = loc
    BY <1>1, <1>4 DEF InList
  <2>2. i + 1 \in 1 .. Len(q)
    BY <1>1
  <2> QED
    BY <2>1, <2>2, <1>1, <1>2 DEF InList
<1> DEFINE t == Tail(q)
<1>5. t \in Seq(T)
  BY <1>1
<1> HIDE DEF t
<1>6. /\ t \o r \in Seq(T) /\ DOMAIN r = 1 .. Len(r) /\ Len(r) \in Nat
      /\ DOMAIN t = 1 .. Len(t) /\ Len(t) \in Nat
      /\ DOMAIN (t \o r) = 1 .. Len(t) + Len(r)
      /\ \A i \in 1 .. Len(t) : (t \o r)[i] = t[i]
      /\ \A i \in 1 .. Len(r) : (t \o r)[Len(t) + i] = r[i]
  BY <1>5
<1>7. InList(t, loc) => InList(t \o r, loc)
  <2> SUFFICES ASSUME NEW i \in 1 .. Len(t), t[i] = loc
               PROVE  InList(t \o r, loc)
    BY <1>6 DEF InList
  <2>1. i \in 1 .. Len(t) + Len(r)
    BY <1>6
  <2> QED
    BY <2>1, <1>6 DEF InList
<1>8. InList(r, loc) => InList(t \o r, loc)
  <2> SUFFICES ASSUME NEW i \in 1 .. Len(r), r[i] = loc
               PROVE  InList(t \o r, loc)
    BY <1>6 DEF InList
  <2>1. Len(t) + i \in 1 .. Len(t) + Len(r)
    BY <1>6
  <2> QED
    BY <2>1, <1>6 DEF InList
<1>9. InList(t \o r, loc) => InList(t, loc) \/ InList(r, loc)
  <2> SUFFICES ASSUME NEW i \in 1 .. Len(t) + Len(r), (t \o r)[i] = loc
               PROVE  InList(t, loc) \/ InList(r, loc)
    BY <1>6 DEF InList
  <2>1. CASE i <= Len(t)
    BY <2>1, <1>6 DEF InList
  <2>2. CASE i > Len(t)
    <3>1. i - Len(t) \in 1 .. Len(r) /\ Len(t) + (i - Len(t)) = i
      BY <2>2, <1>6
    <3> QED
      BY <3>1, <1>6 DEF InList
  <2> QED
    BY <2>1, <2>2, <1>6
<1> QED
  BY <1>1, <1>2, <1>3, <1>4, <1>6, <1>7, <1>8, <1>9 DEF t

\* Serving the head of a queue keeps the two lists side by side: the variable
\* at the head, if it is one, is in no other entry.
LEMMA MatchesRest ==
  ASSUME NEW q \in Seq(QueueWords), q # <<>>, NEW e \in Seq(Pointers),
         NEW st, NEW st2, Matches(q, e, st),
         \A x \in Locals : st2[x] = st[x] \/ Head(q) = StackWord(x),
         NEW r \in Seq(QueueWords), \A i \in DOMAIN r : r[i].area = "heap"
  PROVE  /\ Matches(Tail(q), Drop(e), st2)
         /\ Matches(Tail(q) \o r, Drop(e), st2)
<1> DEFINE d == Drop(e)
           t == Tail(q)
<1>1. /\ Len(q) \in Nat /\ Len(q) >= 1 /\ q[1] = Head(q)
      /\ t \in Seq(QueueWords) /\ Len(t) = Len(q) - 1
      /\ \A i \in 1 .. Len(q) - 1 : t[i] = q[i + 1]
  OBVIOUS
<1>2. /\ d \in Seq(Pointers) /\ Len(d) \in Nat /\ Len(e) \in Nat
      /\ Len(d) = IF e = <<>> THEN 0 ELSE Len(e) - 1
      /\ \A i \in 1 .. Len(d) : d[i] = e[i + 1]
      /\ e = <<>> => Len(e) = 0
      /\ e # <<>> => Len(e) >= 1
  BY DEF Drop
<1>3. /\ Len(e) <= Len(q)
      /\ \A i \in 1 .. Len(e) :
           /\ q[i] \in StackWords
           /\ q[i].at \in Locals => st[q[i].at] = e[i]
           /\ \A j \in 1 .. i - 1 : q[j].at < q[i].at
      /\ \A i \in Len(e) + 1 .. Len(q) : q[i].area = "heap"
  BY DEF Matches
<1> HIDE DEF d, t
<1>4. ASSUME NEW i \in 1 .. Len(d)
      PROVE  /\ t[i] \in StackWords
             /\ t[i].at \in Locals => st2[t[i].at] = d[i]
             /\ \A j \in 1 .. i - 1 : t[j].at < t[i].at
  <2>1. /\ i + 1 \in 1 .. Len(e) /\ i \in 1 .. Len(q) - 1
        /\ \A j \in 1 .. i - 1 : j \in 1 .. Len(q) - 1 /\ j + 1 \in 1 .. i
    BY <1>1, <1>2, <1>3
  <2>2. t[i] = q[i + 1] /\ d[i] = e[i + 1]
    BY <2>1, <1>1, <1>2
  <2>3. \A j \in 1 .. i - 1 : t[j] = q[j + 1]
    BY <2>1, <1>1
  <2>4. ASSUME t[i].at \in Locals
        PROVE  st2[t[i].at] = d[i]
    <3>1. st[q[i + 1].at] = e[i + 1]
      BY <2>1, <2>2, <2>4, <1>3
    <3>2. 1 \in 1 .. (i + 1) - 1
      BY <2>1
    <3>3. q[1].at < q[i + 1].at
      BY <3>2, <2>1, <1>3
    <3>4. q[i + 1].at \in Nat
      BY <2>2, <2>4, SlotFacts
    <3>5. Head(q) # StackWord(q[i + 1].at)
      BY <3>3, <3>4, <1>1, Places
    <3> QED
      BY <3>1, <3>5, <2>2, <2>4
  <2> QED
    BY <2>1, <2>2, <2>3, <2>4, <1>3
<1>5. ASSUME NEW i \in Len(d) + 1 .. Len(t)
      PROVE  t[i].area = "heap"
  <2>1. i \in 1 .. Len(q) - 1 /\ i + 1 \in Len(e) + 1 .. Len(q)
    BY <1>1, <1>2
  <2> QED
    BY <2>1, <1>1, <1>3
<1>6. Len(d) <= Len(t)
  BY <1>1, <1>2, <1>3
<1>7. Matches(t, d, st2)
  BY <1>4, <1>5, <1>6 DEF Matches
<1>8. /\ Len(r) \in Nat /\ Len(t) \in Nat /\ Len(t \o r) = Len(t) + Len(r)
      /\ \A i \in 1 .. Len(t) : (t \o r)[i] = t[i]
      /\ \A i \in 1 .. Len(r) : (t \o r)[Len(t) + i] = r[i]
  <2>1. t \in Seq(QueueWords)
    BY <1>1
  <2> QED
    BY <2>1, Concatenated
<1>9. Matches(t \o r, d, st2)
  <2>1. \A i \in 1 .. Len(d) : i \in 1 .. Len(t)
    BY <1>2, <1>6, <1>8
  <2>2. ASSUME NEW i \in 1 .. Len(d)
        PROVE  /\ (t \o r)[i] = t[i]
               /\ \A j \in 1 .. i - 1 : (t \o r)[j] = t[j]
    <3>1. i \in 1 .. Len(t) /\ \A j \in 1 .. i - 1 : j \in 1 .. Len(t)
      BY <2>1, <1>2, <1>6, <1>8
    <3> QED
      BY <3>1, <1>8
  <2>3. ASSUME NEW i \in Len(d) + 1 .. Len(t \o r)
        PROVE  (t \o r)[i].area = "heap"
    <3>1. CASE i <= Len(t)
      <4>1. i \in Len(d) + 1 .. Len(t) /\ i \in 1 .. Len(t)
        BY <3>1, <1>2, <1>8
      <4> QED
        BY <4>1, <1>5, <1>8
    <3>2. CASE i > Len(t)
      <4>1. i - Len(t) \in 1 .. Len(r) /\ Len(t) + (i - Len(t)) = i
        BY <3>2, <1>2, <1>8
      <4> QED
        BY <4>1, <1>8
    <3> QED
      BY <3>1, <3>2, <1>2, <1>8
  <2>4. Len(d) <= Len(t \o r)
    BY <1>2, <1>6, <1>8
  <2> QED
    BY <2>2, <2>3, <2>4, <1>4 DEF Matches
<1> QED
  BY <1>7, <1>9 DEF t, d

-----------------------------------------------------------------------------
(* The program between its calls *)

\* The parts of the invariant that most steps need
LEMMA Typed ==
  ASSUME CollectorIInv
  PROVE  /\ HeapTypeOK /\ PageAccounting /\ MemoryIntact
         /\ mem \in [Words -> MemoryWord]
         /\ stack \in [Slots -> Pointers \cup {NULL}]
         /\ blocks \subseteq Pointers
  BY DEF CollectorIInv, HeapIInv, TypesOK

\* What the program can reach begins with a header and is in use.
LEMMA SoundObjects ==
  ASSUME NEW S, Sound(S), NEW b \in S
  PROVE  /\ Interpretable(b) /\ IsHeader(b - 1) /\ InUse(b - 1)
         /\ \A f \in PointerFields[KindOf(b)] : mem[b + f].value \in S \cup {NULL}
  BY DEF Sound, Interpretable, IsHeader, FieldsWithin, FieldsOf

\* A step that leaves the headers of S and keeps pointers within S
LEMMA SoundKept ==
  ASSUME NEW S, Sound(S),
         \A b \in S : mem'[b - 1] = mem[b - 1] /\ InUse(b - 1)',
         \A b \in S : \A f \in PointerFields[KindOf(b)] :
           mem'[b + f].value \in S \cup {NULL},
         \A x \in Locals : stack'[x] \in S \cup {NULL}
  PROVE  Sound(S)'
<1>1. \A b \in S : KindOf(b)' = KindOf(b)
  BY DEF KindOf
<1>2. \A b \in S : Interpretable(b)'
  BY DEF Sound, Interpretable
<1>3. \A b \in S : FieldsWithin(b, S)'
  BY <1>1 DEF FieldsWithin, FieldsOf
<1> QED
  BY <1>2, <1>3 DEF Sound

\* A step of the program that stays between its calls
LEMMA MutatorStep ==
  ASSUME CollectorIInv, HeapIInv', pc = "mutator",
         UNCHANGED <<heapVars, dest, gcVars, historyVars>>,
         stack' \in [Slots -> Pointers \cup {NULL}],
         mem' \in [Words -> MemoryWord], MemoryIntact',
         NEW S \in SUBSET blocks, Sound(S)'
  PROVE  CollectorIInv'
<1> USE DEF heapVars, pageVars, snapshotVars, gcVars, rootVars, traversalVars,
            historyVars
<1>1. TypesOK'
  BY DEF CollectorIInv, TypesOK
<1>2. RootsOK'
  BY DEF CollectorIInv, RootsOK
<1>3. ReachableOK'
  BY DEF ReachableOK
<1> QED
  BY <1>1, <1>2, <1>3 DEF CollectorIInv

\* The objects between collections
LEMMA SoundSet ==
  ASSUME CollectorIInv, pc \in {"mutator", "place", "scan"}
  PROVE  \E S \in SUBSET blocks : Sound(S)
  BY DEF CollectorIInv, ReachableOK

\* A variable is loaded from a field of a sound set: it stays within.
LEMMA LoadKeeps ==
  ASSUME CollectorIInv, HeapIInv', NEW x \in Locals, NEW y \in Locals, NEW f,
         Load(x, y, f),
         NEW S \in SUBSET blocks, Sound(S)
  PROVE  /\ CollectorIInv' /\ Sound(S)'
         /\ \A b \in S : mem'[b - 1] = mem[b - 1]
<1>1. S \in SUBSET blocks /\ Sound(S)
  OBVIOUS
<1>2. stack[y] \in S /\ S \subseteq Pointers
  BY <1>1, Typed DEF Load, Sound
<1>3. f \in PointerFields[KindOf(stack[y])]
  BY DEF Load, KindOf
<1>4. mem[stack[y] + f].value \in S \cup {NULL}
  BY <1>1, <1>2, <1>3, SoundObjects
<1>5. /\ stack' = [stack EXCEPT ![x] = mem[stack[y] + f].value]
      /\ UNCHANGED <<heapVars, mem, dest, gcVars, historyVars>>
      /\ pc = "mutator"
  BY DEF Load
<1>6. stack' \in [Slots -> Pointers \cup {NULL}]
  BY <1>2, <1>4, <1>5, Typed
<1>7. \A z \in Locals : stack'[z] \in S \cup {NULL}
  BY <1>1, <1>4, <1>5, SlotFacts, Typed DEF Sound
<1>8. \A b \in S : InUse(b - 1)'
  BY <1>1, <1>5 DEF Sound, InUse, Used, heapVars, pageVars
<1>9. \A b \in S : \A g \in PointerFields[KindOf(b)] :
        mem'[b + g].value \in S \cup {NULL}
  BY <1>1, <1>5, SoundObjects
<1>10. Sound(S)'
  BY <1>1, <1>5, <1>7, <1>8, <1>9, SoundKept
<1>11. MemoryIntact'
  BY <1>5, Typed DEF MemoryIntact, HeaderIntact, IsHeader, InUse, Used,
                     heapVars, pageVars
<1> QED
  BY <1>5, <1>6, <1>10, <1>11, Typed, MutatorStep

\* A field of an object of the set is given a pointer into the set.
LEMMA StoreKeeps ==
  ASSUME CollectorIInv, HeapIInv', NEW x \in Locals, NEW y \in Locals, NEW f,
         Store(y, f, x),
         NEW S \in SUBSET blocks, Sound(S)
  PROVE  /\ CollectorIInv' /\ Sound(S)'
         /\ \A b \in S : mem'[b - 1] = mem[b - 1]
<1> DEFINE w == stack[y] + f
<1>1. S \in SUBSET blocks /\ Sound(S)
  OBVIOUS
<1>2. stack[y] \in S /\ S \subseteq Pointers /\ stack[x] \in S \cup {NULL}
  BY <1>1, Typed DEF Store, Sound
<1>3. f \in PointerFields[KindOf(stack[y])]
  BY DEF Store, KindOf
<1>4. /\ mem' = [mem EXCEPT ![w] = Plain(stack[x])]
      /\ UNCHANGED <<heapVars, stack, dest, gcVars, historyVars>>
      /\ pc = "mutator"
  BY DEF Store
<1>5. w \in Words /\ ~IsHeader(w)
  BY <1>1, <1>2, <1>3, SoundObjects, FieldFacts, Typed
<1>6. UNCHANGED next_empty_space
  BY <1>4 DEF heapVars, pageVars
<1>7. /\ mem' \in [Words -> MemoryWord] /\ mem'[w].value = stack[x]
      /\ \A u \in Words : u # w => mem'[u] = mem[u]
      /\ \A u \in Words : IsHeader(u) => mem'[u] = mem[u]
      /\ MemoryIntact'
  <2>1. stack[x] \in Pointers \cup {NULL}
    BY <1>2
  <2> HIDE DEF w
  <2> QED
    BY <2>1, <1>4, <1>5, <1>6, Typed, PointerWritten
<1>8. \A b \in S : mem'[b - 1] = mem[b - 1] /\ InUse(b - 1)'
  <2> SUFFICES ASSUME NEW b \in S
               PROVE  mem'[b - 1] = mem[b - 1] /\ InUse(b - 1)'
    OBVIOUS
  <2>1. b - 1 \in Words /\ IsHeader(b - 1) /\ InUse(b - 1)
    BY <1>1, <1>2, SoundObjects, HeaderWord
  <2> QED
    BY <2>1, <1>6, <1>7 DEF InUse, Used
<1>9. ASSUME NEW b \in S, NEW g \in PointerFields[KindOf(b)]
      PROVE  mem'[b + g].value \in S \cup {NULL}
  <2>1. b + g \in Words /\ mem[b + g].value \in S \cup {NULL}
    BY <1>1, <1>2, SoundObjects, FieldFacts, Typed
  <2> QED
    BY <2>1, <1>2, <1>7
<1>10. \A z \in Locals : stack'[z] \in S \cup {NULL}
  BY <1>1, <1>4 DEF Sound
<1>11. Sound(S)'
  BY <1>1, <1>8, <1>9, <1>10, SoundKept
<1> QED
  BY <1>4, <1>7, <1>8, <1>11, Typed, MutatorStep

\* A variable is cleared, or a dead frame keeps a copy of one.
LEMMA StackWriteKeeps ==
  ASSUME CollectorIInv, HeapIInv', NEW x \in Locals,
         Clear(x) \/ \E t \in Temps : LeaveStale(t, x),
         NEW S \in SUBSET blocks, Sound(S)
  PROVE  /\ CollectorIInv' /\ Sound(S)'
         /\ \A b \in S : mem'[b - 1] = mem[b - 1]
<1>1. S \in SUBSET blocks /\ Sound(S)
  OBVIOUS
<1>2. /\ UNCHANGED <<heapVars, mem, dest, gcVars, historyVars>>
      /\ pc = "mutator"
  BY DEF Clear, LeaveStale
<1>3. stack' \in [Slots -> Pointers \cup {NULL}]
  BY Typed, SlotFacts DEF Clear, LeaveStale
<1>4. \A z \in Locals : stack'[z] \in S \cup {NULL}
  BY <1>1, SlotFacts, Typed DEF Sound, Clear, LeaveStale
<1>5. \A b \in S : InUse(b - 1)'
  BY <1>1, <1>2 DEF Sound, InUse, Used, heapVars, pageVars
<1>6. \A b \in S : \A g \in PointerFields[KindOf(b)] :
        mem'[b + g].value \in S \cup {NULL}
  BY <1>1, <1>2, SoundObjects
<1>7. Sound(S)'
  BY <1>1, <1>2, <1>4, <1>5, <1>6, SoundKept
<1>8. MemoryIntact'
  BY <1>2, Typed DEF MemoryIntact, HeaderIntact, IsHeader, InUse, Used,
                     heapVars, pageVars
<1> QED
  BY <1>2, <1>3, <1>7, <1>8, Typed, MutatorStep

\* The contents of a raw object hold no header and no pointer field.
LEMMA WriteRawKeeps ==
  ASSUME CollectorIInv, HeapIInv', NEW x \in Locals, WriteRaw(x),
         NEW S \in SUBSET blocks, Sound(S)
  PROVE  /\ CollectorIInv' /\ Sound(S)'
         /\ \A b \in S : mem'[b - 1] = mem[b - 1]
<1> DEFINE v == stack[x]
           h == v - 1
           n == ObjectWords(mem[h].kind)
<1>1. S \in SUBSET blocks /\ Sound(S)
  OBVIOUS
<1>2. v \in S /\ S \subseteq Pointers
  BY <1>1, Typed DEF WriteRaw, Sound
<1>3. /\ mem' = [w \in Words |-> IF w \in v .. v + n - 1 THEN Plain(DATA)
                                                         ELSE mem[w]]
      /\ UNCHANGED <<heapVars, stack, dest, gcVars, historyVars>>
      /\ pc = "mutator" /\ mem[h].tag = "size"
  BY DEF WriteRaw
<1>4. /\ h \in Words /\ h \in Nat /\ v = h + 1 /\ v \in Nat /\ IsHeader(h)
      /\ mem[h].kind \in RawSizes
  <2>1. h \in Words /\ v \in Nat /\ h \in Nat
    BY <1>2, HeaderWord, WordFacts
  <2>2. mem[h] \in MemoryWord
    BY <2>1, Typed
  <2> QED
    BY <2>1, <2>2, <1>3 DEF MemoryWord, IsHeader
<1>5. PointerFields[mem[h].kind] = {} /\ n \in Nat
  BY <1>4, KindFacts DEF Kinds
<1>6. ASSUME NEW w \in Words, w \in v .. v + n - 1
      PROVE  /\ ~IsHeader(w)
             /\ \E i \in 1 .. n : w = h + i
  <2>1. w - h \in 1 .. n /\ h + (w - h) = w
    BY <1>4, <1>5, <1>6, WordFacts
  <2>2. ~IsHeader(h + (w - h))
    BY <2>1, <1>4, BodyWords, Typed
  <2> QED
    BY <2>1, <2>2
<1>7. Plain(DATA) \in MemoryWord /\ Plain(DATA).tag = "plain"
  BY WordsWritten
<1>8. mem' \in [Words -> MemoryWord]
  BY <1>3, <1>7, Typed
<1>9. \A u \in Words : ~(u \in v .. v + n - 1) => mem'[u] = mem[u]
  BY <1>3
<1>10. \A u \in Words : IsHeader(u)' = IsHeader(u)
  BY <1>3, <1>6, <1>7, <1>9 DEF IsHeader
<1>11. \A u \in Words : IsHeader(u) => mem'[u] = mem[u]
  BY <1>6, <1>9
<1>12. ASSUME NEW b \in Pointers, IsHeader(b - 1),
              NEW f \in PointerFields[KindOf(b)]
       PROVE  mem'[b + f] = mem[b + f]
  <2>1. /\ b - 1 \in Words /\ b - 1 # h
        /\ f + 1 \in 1 .. ObjectWords(mem[b - 1].kind)
        /\ b + f = (b - 1) + (f + 1) /\ b + f \in Words
    BY <1>5, <1>12, HeaderWord, FieldFacts, Typed DEF KindOf
  <2>2. ASSUME b + f \in v .. v + n - 1
        PROVE  FALSE
    <3>1. PICK i \in 1 .. n : b + f = h + i
      BY <2>1, <2>2, <1>6
    <3>2. i \in 0 .. n
      BY <1>5
    <3> HIDE DEF h, n, v
    <3>3. n = ObjectWords(mem[h].kind)
      BY DEF n
    <3> QED
      BY <3>1, <3>2, <3>3, <2>1, <1>4, <1>12, BodiesDisjoint, Typed
  <2> QED
    BY <2>1, <2>2, <1>9
<1>13. MemoryIntact'
  <2>1. \A b \in Pointers : IsHeader(b - 1) =>
          \A f \in PointerFields[KindOf(b)] :
            mem'[b + f].value \in Pointers \cup {NULL}
    BY <1>12, FieldFacts, Typed
  <2>2. \A p \in Pages : Used(p)' \in {0, Used(p)}
    BY <1>3 DEF Used, heapVars, pageVars
  <2>3. \A u \in Words : IsHeader(u) => mem'[u].kind = mem[u].kind
    BY <1>11
  <2> QED
    BY <2>1, <2>2, <2>3, <1>8, <1>10, Typed, ContentsWritten
<1>14. \A b \in S : mem'[b - 1] = mem[b - 1] /\ InUse(b - 1)'
  <2> SUFFICES ASSUME NEW b \in S
               PROVE  mem'[b - 1] = mem[b - 1] /\ InUse(b - 1)'
    OBVIOUS
  <2>1. b - 1 \in Words /\ IsHeader(b - 1) /\ InUse(b - 1)
    BY <1>1, <1>2, SoundObjects, HeaderWord
  <2> QED
    BY <2>1, <1>3, <1>11 DEF InUse, Used, heapVars, pageVars
<1>15. ASSUME NEW b \in S, NEW g \in PointerFields[KindOf(b)]
       PROVE  mem'[b + g].value \in S \cup {NULL}
  BY <1>1, <1>2, <1>12, <1>15, SoundObjects
<1>16. \A z \in Locals : stack'[z] \in S \cup {NULL}
  BY <1>1, <1>3 DEF Sound
<1>17. Sound(S)'
  BY <1>1, <1>14, <1>15, <1>16, SoundKept
<1> QED
  BY <1>3, <1>8, <1>13, <1>14, <1>17, Typed, MutatorStep

\* A step that changes neither memory nor the pages in use
LEMMA MemoryKept ==
  ASSUME MemoryIntact, UNCHANGED <<mem, next_empty_space>>
  PROVE  MemoryIntact'
  BY DEF MemoryIntact, HeaderIntact, IsHeader, InUse, Used

\* Stale words are no part of what makes a set sound.
LEMMA SoundStays ==
  ASSUME NEW S, Sound(S), UNCHANGED <<mem, next_empty_space>>,
         \A x \in Locals : stack'[x] = stack[x]
  PROVE  Sound(S)'
  BY DEF Sound, Interpretable, InUse, Used, FieldsWithin, FieldsOf, KindOf

\* The first lists of a collection
LEMMA MatchesNothing ==
  ASSUME NEW st
  PROVE  Matches(<<>>, <<>>, st)
  BY DEF Matches

\* The program calls the heap.
LEMMA CallsKeep ==
  ASSUME CollectorIInv, HeapIInv',
         Gc \/ \E x \in Locals, k \in Kinds : Alloc(x, k),
         NEW S \in SUBSET blocks, Sound(S)
  PROVE  /\ CollectorIInv' /\ Sound(S)'
         /\ \A b \in S : mem'[b - 1] = mem[b - 1]
<1>1. /\ pc = "mutator" /\ pc' \in {"scan", "place"}
      /\ UNCHANGED <<pageVars, stack, mem, rootVars, traversalVars, blocks,
                     copies, allocations>>
      /\ collections' \in {collections, collections + 1}
      /\ collections' # collections => collections < MaxCollections
  BY DEF Gc, HGc, Alloc, HAlloc
<1>2. \/ dest' = dest /\ request' = request /\ request = NONE
      \/ dest' \in Locals /\ request' # NONE /\ allocations < MaxAllocations
  <2>1. CASE Gc
    BY <2>1 DEF Gc, HGc, CollectorIInv, HeapIInv
  <2>2. ASSUME NEW x \in Locals, NEW k \in Kinds, Alloc(x, k)
        PROVE  dest' \in Locals /\ request' # NONE
               /\ allocations < MaxAllocations
    BY <2>2, HeapAssumption DEF Alloc, HAlloc
  <2> QED
    BY <2>1, <2>2
<1>3. collections' \in 0 .. MaxCollections
  <2>1. collections \in 0 .. MaxCollections /\ MaxCollections \in Nat
    BY CompactingAssumption DEF CollectorIInv, TypesOK
  <2> QED
    BY <2>1, <1>1
<1> USE DEF pageVars, rootVars, traversalVars
<1>4. TypesOK'
  BY <1>1, <1>2, <1>3 DEF CollectorIInv, TypesOK
<1>5. MemoryIntact'
  BY <1>1, Typed, MemoryKept
<1>6. RootsOK'
  <2>1. /\ cursor = 1 /\ roots = <<>> /\ expected1 = <<>> /\ expected2 = <<>>
        /\ visited = {} /\ copies = {} /\ queue = <<>>
    BY <1>1 DEF CollectorIInv, RootsOK
  <2>2. \A x \in Locals : ~(x < 1)
    BY SlotFacts
  <2>3. Matches(<<>>, <<>>, stack)
    BY MatchesNothing
  <2> QED
    BY <2>1, <2>2, <2>3, <1>1 DEF RootsOK
<1>7. Sound(S)'
  BY <1>1, SoundStays
<1>8. ReachableOK'
  BY <1>1, <1>7 DEF ReachableOK
<1> QED
  BY <1>1, <1>4, <1>5, <1>6, <1>7, <1>8 DEF CollectorIInv

\* A step at which the program stops for good
LEMMA StopKeeps ==
  ASSUME CollectorIInv, HeapIInv', pc' \in StoppedPcs,
         UNCHANGED <<pageVars, request, stack, mem, dest, gcVars, historyVars>>
  PROVE  CollectorIInv'
<1>1. pc' \notin {"mutator", "place", "scan", "move", "forward"}
  BY DEF StoppedPcs, AbortPcs
<1> USE DEF pageVars, gcVars, rootVars, traversalVars, historyVars
<1>2. TypesOK'
  BY DEF CollectorIInv, TypesOK
<1>3. MemoryIntact'
  BY Typed, MemoryKept
<1> QED
  BY <1>1, <1>2, <1>3 DEF CollectorIInv, RootsOK, ReachableOK

\* The rest of an allocation: the new object joins those the program reaches.
LEMMA PlaceObjectKeeps ==
  ASSUME RawFitsSlot, CollectorIInv, HeapIInv', NEW p \in Pages, PlaceObject(p),
         NEW S \in SUBSET blocks, Sound(S), NEW v, v = ObjectAt(p)
  PROVE  /\ CollectorIInv' /\ Sound(S \cup {v})'
         /\ \A b \in S : mem'[b - 1] = mem[b - 1]
         /\ v \in Pointers /\ ~InUse(v - 1)
         /\ mem'[v - 1].id = allocations' /\ mem'[v - 1].kind = request
<1>0. PICK i : i = allocations + 1
  OBVIOUS
<1>1. /\ pc = "place" /\ pc' = "mutator" /\ request' = NONE
      /\ Reserve(p, TotalSize(ObjectSize[request]))
      /\ stack' = [stack EXCEPT ![dest] = v]
      /\ mem' = WriteObject(mem, v, request, i)
      /\ blocks' = blocks \cup {v}
      /\ allocations' = i
      /\ dest' = NONE
      /\ UNCHANGED <<gcVars, copies, collections>>
  BY <1>0 DEF PlaceObject, Place
<1>2. /\ request \in Kinds /\ dest \in Locals /\ i \in Ids
      /\ i \in 0 .. MaxAllocations
  <2>1. request \in Kinds /\ request # NONE
    BY <1>1, Typed, HeapAssumption DEF HeapTypeOK
  <2>2. dest \in Locals /\ allocations \in 0 .. MaxAllocations
        /\ allocations < MaxAllocations
    BY <2>1 DEF CollectorIInv, TypesOK
  <2> QED
    BY <2>1, <2>2, <1>0, CompactingAssumption DEF Ids
<1>3. HeapTypeOK'
  BY DEF HeapIInv
<1>4. /\ v \in Pointers /\ ~InUse(v - 1)
      /\ mem' \in [Words -> MemoryWord] /\ MemoryIntact'
      /\ Interpretable(v)' /\ InUse(v - 1)'
      /\ mem'[v - 1].kind = request /\ mem'[v - 1].id = i
      /\ \A f \in PointerFields[request] : mem'[v + f].value = NULL
      /\ \A u \in Words : InUse(u) => InUse(u)' /\ mem'[u] = mem[u]
  BY <1>0, <1>1, <1>2, <1>3, Typed, ObjectWritten
<1>5. S \in SUBSET blocks /\ Sound(S)
  OBVIOUS
<1>6. S \subseteq Pointers
  BY <1>5, Typed
<1>7. ASSUME NEW b \in S
      PROVE  /\ mem'[b - 1] = mem[b - 1] /\ InUse(b - 1)'
             /\ \A f \in PointerFields[KindOf(b)] : mem'[b + f] = mem[b + f]
  <2>1. b - 1 \in Words /\ IsHeader(b - 1) /\ InUse(b - 1)
    BY <1>5, <1>6, SoundObjects, HeaderWord
  <2>2. \A f \in PointerFields[KindOf(b)] : b + f \in Words /\ InUse(b + f)
    BY <2>1, <1>6, FieldFacts, Typed
  <2> QED
    BY <2>1, <2>2, <1>4
<1> DEFINE T == S \cup {v}
<1>8. T \in SUBSET blocks'
  BY <1>1, <1>5
<1>9. \A x \in Locals : stack'[x] \in T \cup {NULL}
  BY <1>1, <1>2, <1>5, SlotFacts, Typed DEF Sound
<1>10. \A b \in S : Interpretable(b)' /\ FieldsWithin(b, T)'
  <2> SUFFICES ASSUME NEW b \in S
               PROVE  Interpretable(b)' /\ FieldsWithin(b, T)'
    OBVIOUS
  <2>1. Interpretable(b)' /\ KindOf(b)' = KindOf(b)
    BY <1>5, <1>7 DEF Sound, Interpretable, KindOf
  <2>2. \A f \in PointerFields[KindOf(b)] : mem'[b + f].value \in T \cup {NULL}
    BY <1>5, <1>7, SoundObjects
  <2> QED
    BY <2>1, <2>2 DEF FieldsWithin, FieldsOf
<1>11. FieldsWithin(v, T)'
  BY <1>4 DEF FieldsWithin, FieldsOf, KindOf
<1>12. Sound(T)'
  BY <1>4, <1>7, <1>9, <1>10, <1>11 DEF Sound
<1>13. ReachableOK'
  <2> HIDE DEF T
  <2> QED
    BY <1>1, <1>8, <1>12 DEF ReachableOK
<1> USE DEF gcVars, rootVars, traversalVars
<1>14. TypesOK'
  <2>1. stack' \in [Slots -> Pointers \cup {NULL}]
    BY <1>1, <1>4, Typed
  <2>2. blocks' \subseteq Pointers
    BY <1>1, <1>4, Typed
  <2> QED
    BY <2>1, <2>2, <1>1, <1>2, <1>4 DEF CollectorIInv, TypesOK
<1>15. RootsOK'
  BY <1>1 DEF CollectorIInv, RootsOK
<1>16. CollectorIInv'
  BY <1>4, <1>13, <1>14, <1>15 DEF CollectorIInv
<1> QED
  BY <1>1, <1>4, <1>7, <1>12, <1>16

-----------------------------------------------------------------------------
(* find_gc_roots *)

\* The scan only reads.
LEMMA ScanWordKeeps ==
  ASSUME CollectorIInv, HeapIInv', ScanWord,
         NEW S \in SUBSET blocks, Sound(S)
  PROVE  CollectorIInv' /\ Sound(S)'
<1> DEFINE v == stack[cursor]
<1>1. /\ pc = "scan" /\ cursor \in Slots /\ cursor' = cursor + 1
      /\ UNCHANGED <<heapVars, stack, mem, dest, traversalVars,
                     initial_size_usage, historyVars>>
      /\ \/ /\ is_allocated_on_heap(v)
            /\ roots' = Append(roots, StackWord(cursor))
            /\ expected1' = Append(expected1, v)
            /\ expected2' = Append(expected2, v)
         \/ /\ ~is_allocated_on_heap(v)
            /\ UNCHANGED <<roots, expected1, expected2>>
  BY DEF ScanWord
<1> USE DEF heapVars, pageVars, traversalVars, historyVars
<1>2. /\ roots \in Seq(StackWords)
      /\ expected1 \in Seq(Pointers) /\ expected2 \in Seq(Pointers)
      /\ Len(roots) = Len(expected1) /\ Len(roots) = Len(expected2)
      /\ Len(roots) \in Nat /\ DOMAIN roots = 1 .. Len(roots)
      /\ \A i \in DOMAIN roots : roots[i].at < cursor
      /\ \A i \in DOMAIN roots : roots[i] \in StackWords
      /\ \A x \in Locals :
            x < cursor /\ stack[x] # NULL => InList(roots, StackWord(x))
      /\ Matches(roots, expected1, stack) /\ Matches(roots, expected2, stack)
      /\ cursor \in Nat /\ visited = {} /\ copies = {} /\ queue = <<>>
  BY <1>1, SlotFacts DEF CollectorIInv, TypesOK, RootsOK
<1>3. v \in Pointers \cup {NULL}
  BY <1>1, Typed
<1>4. S \in SUBSET blocks /\ Sound(S)
  OBVIOUS
<1>5. ASSUME cursor \in Locals, v # NULL
      PROVE  is_allocated_on_heap(v)
  <2>1. v \in S /\ S \subseteq Pointers
    BY <1>4, <1>5, Typed DEF Sound
  <2>2. InUse(v - 1)
    BY <2>1, <1>4 DEF Sound
  <2> HIDE DEF v
  <2> QED
    BY <2>1, <2>2, Typed, InUseIsMarked
<1>6. is_allocated_on_heap(v) => v \in Pointers
  BY <1>3 DEF is_allocated_on_heap
<1>7. cursor' \in 1 .. NumTemps + NumLocals + 1
  BY <1>1, SlotFacts DEF Slots
<1>8. ASSUME is_allocated_on_heap(v),
             roots' = Append(roots, StackWord(cursor)),
             expected1' = Append(expected1, v),
             expected2' = Append(expected2, v)
      PROVE  RootsOK' /\ TypesOK'
  <2> DEFINE n == Len(roots)
  <2>1. v \in Pointers /\ StackWord(cursor) \in StackWords
    BY <1>1, <1>6, <1>8 DEF StackWords
  <2>2. /\ roots' \in Seq(StackWords) /\ Len(roots') = n + 1
        /\ DOMAIN roots' = 1 .. n + 1
        /\ roots'[n + 1] = StackWord(cursor)
        /\ \A i \in 1 .. n : roots'[i] = roots[i]
    BY <2>1, <1>2, <1>8
  <2>3. \A e, e2 :
          /\ e \in Seq(Pointers) /\ Len(e) = n /\ e2 = Append(e, v)
          /\ Matches(roots, e, stack)
          => /\ e2 \in Seq(Pointers) /\ Len(e2) = n + 1
             /\ Matches(roots', e2, stack)
    <3> SUFFICES ASSUME NEW e \in Seq(Pointers), Len(e) = n, NEW e2,
                        e2 = Append(e, v), Matches(roots, e, stack)
                 PROVE  /\ e2 \in Seq(Pointers) /\ Len(e2) = n + 1
                        /\ Matches(roots', e2, stack)
      OBVIOUS
    <3>1. /\ e2 \in Seq(Pointers) /\ Len(e2) = n + 1
          /\ e2[n + 1] = v /\ \A i \in 1 .. n : e2[i] = e[i]
      BY <2>1, <1>2
    <3>2. ASSUME NEW i \in 1 .. n
          PROVE  /\ roots'[i] \in StackWords
                 /\ roots'[i].at \in Locals => stack[roots'[i].at] = e2[i]
                 /\ \A j \in 1 .. i - 1 : roots'[j].at < roots'[i].at
      <4>1. \A j \in 1 .. i - 1 : j \in 1 .. n
        BY <1>2
      <4> QED
        BY <4>1, <3>1, <2>2, <1>2 DEF Matches
    <3>3. /\ roots'[n + 1] \in StackWords
          /\ stack[roots'[n + 1].at] = e2[n + 1]
          /\ \A j \in 1 .. (n + 1) - 1 : roots'[j].at < roots'[n + 1].at
      <4>1. roots'[n + 1].at = cursor
        BY <2>2, Places
      <4>2. \A j \in 1 .. (n + 1) - 1 : j \in 1 .. n
        BY <1>2
      <4> QED
        BY <4>1, <4>2, <3>1, <2>1, <2>2, <1>2
    <3>4. \A i \in 1 .. n + 1 : i \in 1 .. n \/ i = n + 1
      BY <1>2
    <3>5. \A i \in 1 .. Len(e2) :
            /\ roots'[i] \in StackWords
            /\ roots'[i].at \in Locals => stack[roots'[i].at] = e2[i]
            /\ \A j \in 1 .. i - 1 : roots'[j].at < roots'[i].at
      BY <3>1, <3>2, <3>3, <3>4
    <3>6. Len(e2) <= Len(roots') /\ Len(e2) + 1 .. Len(roots') = {}
      BY <3>1, <2>2, <1>2
    <3> QED
      BY <3>1, <3>5, <3>6 DEF Matches
  <2>4. /\ expected1' \in Seq(Pointers) /\ Len(expected1') = n + 1
        /\ expected2' \in Seq(Pointers) /\ Len(expected2') = n + 1
        /\ Matches(roots', expected1', stack)
        /\ Matches(roots', expected2', stack)
    BY <2>3, <1>2, <1>8
  <2>5. \A i \in DOMAIN roots' : roots'[i].at < cursor'
    <3> SUFFICES ASSUME NEW i \in 1 .. n + 1
                 PROVE  roots'[i].at < cursor + 1
      BY <2>2, <1>1
    <3>1. CASE i = n + 1
      BY <3>1, <2>2, <1>2, Places
    <3>2. CASE i \in 1 .. n
      <4>1. roots'[i] = roots[i] /\ roots[i].at < cursor
        BY <3>2, <2>2, <1>2
      <4>2. roots[i].at \in Nat
        BY <3>2, <1>2, Places, SlotFacts DEF StackWords
      <4> QED
        BY <4>1, <4>2, <1>2
    <3> QED
      BY <3>1, <3>2, <1>2
  <2>6. ASSUME NEW x \in Locals, x < cursor', stack'[x] # NULL
        PROVE  InList(roots', StackWord(x))
    <3>1. x \in Nat
      BY SlotFacts
    <3>2. CASE x = cursor
      BY <3>2, <2>2, <1>2 DEF InList
    <3>3. CASE x < cursor
      <4>1. PICK i \in 1 .. n : roots[i] = StackWord(x)
        BY <3>3, <2>6, <1>1, <1>2 DEF InList
      <4>2. i \in 1 .. n + 1
        BY <1>2
      <4> QED
        BY <4>1, <4>2, <2>2 DEF InList
    <3> QED
      BY <3>1, <3>2, <3>3, <2>6, <1>1, <1>2
  <2>7. RootsOK'
    BY <2>2, <2>4, <2>5, <2>6, <1>1, <1>2 DEF RootsOK
  <2>8. TypesOK'
    BY <2>2, <2>4, <1>1, <1>7 DEF CollectorIInv, TypesOK
  <2> QED
    BY <2>7, <2>8
<1>9. ASSUME ~is_allocated_on_heap(v), UNCHANGED <<roots, expected1, expected2>>
      PROVE  RootsOK' /\ TypesOK'
  <2>1. ASSUME NEW x \in Locals, x < cursor', stack'[x] # NULL
        PROVE  InList(roots', StackWord(x))
    <3>1. x \in Nat /\ (x = cursor \/ x < cursor)
      BY <2>1, <1>1, <1>2, SlotFacts
    <3>2. x # cursor
      BY <2>1, <1>1, <1>5, <1>9
    <3> QED
      BY <3>1, <3>2, <2>1, <1>1, <1>2, <1>9
  <2>2. \A i \in DOMAIN roots : roots[i].at < cursor'
    <3> SUFFICES ASSUME NEW i \in DOMAIN roots
                 PROVE  roots[i].at < cursor + 1
      BY <1>1
    <3>1. roots[i].at \in Nat /\ roots[i].at < cursor
      BY <1>2, Places, SlotFacts DEF StackWords
    <3> QED
      BY <3>1, <1>2
  <2>3. RootsOK'
    BY <2>1, <2>2, <1>1, <1>2, <1>9 DEF RootsOK
  <2>4. TypesOK'
    BY <1>1, <1>7, <1>9 DEF CollectorIInv, TypesOK
  <2> QED
    BY <2>3, <2>4
<1>10. Sound(S)'
  BY <1>1, <1>4, SoundStays
<1>11. ReachableOK'
  BY <1>1, <1>4, <1>10 DEF ReachableOK
<1>12. MemoryIntact'
  BY <1>1, Typed, MemoryKept
<1> QED
  BY <1>1, <1>8, <1>9, <1>10, <1>11, <1>12 DEF CollectorIInv

-----------------------------------------------------------------------------
(* traverse_and_move *)

\* The lists are done: what the program reaches is in the pages to evacuate.
LEMMA StartMoveKeeps ==
  ASSUME CollectorIInv, HeapIInv', StartMove,
         NEW S \in SUBSET blocks, Sound(S)
  PROVE  /\ CollectorIInv' /\ Moved(S)'
         /\ \A b \in S : ~IsForwarded(b)'
<1>1. /\ pc = "scan" /\ pc' = "move" /\ cursor \notin Slots
      /\ active_page_array' = {p \in Pages : is_active[p]}
      /\ queue' = roots
      /\ UNCHANGED <<pageVars, request, stack, mem, dest, rootVars, visited,
                     initial_size_usage, historyVars>>
  BY DEF StartMove, BeginMove
<1> USE DEF pageVars, rootVars, historyVars
<1>2. /\ Matches(roots, expected1, stack) /\ Matches(roots, expected2, stack)
      /\ Len(roots) = Len(expected1) /\ Len(roots) = Len(expected2)
      /\ \A x \in Locals :
           x < cursor /\ stack[x] # NULL => InList(roots, StackWord(x))
      /\ visited = {} /\ copies = {}
      /\ roots \in Seq(StackWords) /\ cursor \in 1 .. NumTemps + NumLocals + 1
  BY <1>1 DEF CollectorIInv, TypesOK, RootsOK
<1>3. ASSUME NEW x \in Locals
      PROVE  x < cursor
  <2>1. x \in 1 .. NumTemps + NumLocals
    BY SlotFacts DEF Slots
  <2>2. cursor = NumTemps + NumLocals + 1
    BY <1>1, <1>2, SlotFacts DEF Slots
  <2> QED
    BY <2>1, <2>2, SlotFacts
<1>4. TypesOK'
  <2>1. StackWords \subseteq QueueWords
    BY DEF QueueWords
  <2>2. roots \in Seq(QueueWords)
    BY <2>1, <1>2, WiderSeq
  <2> QED
    BY <2>2, <1>1 DEF CollectorIInv, TypesOK
<1>5. MemoryIntact'
  BY <1>1, Typed, MemoryKept
<1>6. RootsOK'
  BY <1>1, <1>2, <1>3 DEF RootsOK
<1>7. S \in SUBSET blocks /\ Sound(S)
  OBVIOUS
<1>8. S \subseteq Pointers
  BY <1>7, Typed
<1>9. ASSUME NEW x \in Locals, stack[x] # NULL
      PROVE  stack[x] \in S /\ Pending(StackWord(x))'
  BY <1>1, <1>2, <1>3, <1>7, <1>9 DEF Sound, Pending, InList
<1>10. ASSUME NEW b \in S
       PROVE  /\ (PageOf(b - 1) \in active_page_array)'
              /\ IsHeader(b - 1)' /\ FieldsWithin(b, S)' /\ ~IsForwarded(b)'
  <2>1. b - 1 \in Words /\ InUse(b - 1) /\ Interpretable(b)
    BY <1>7, <1>8, HeaderWord DEF Sound
  <2>2. PageOf(b - 1) \in Pages /\ Offset(b - 1) \in Nat
    BY <2>1, WordFacts
  <2>3. next_empty_space[PageOf(b - 1)] > 0
    <3> DEFINE s == next_empty_space[PageOf(b - 1)]
    <3>1. s \in Nat /\ Offset(b - 1) < s \div 8
      BY <2>1, <2>2, Typed DEF HeapTypeOK, PAGE_SIZE, MIN_OBJECT_SIZE, InUse,
                               Used
    <3> HIDE DEF s
    <3>2. s > 0
      BY <3>1, <2>2
    <3> QED
      BY <3>2 DEF s
  <2>4. is_active[PageOf(b - 1)]
    BY <2>2, <2>3 DEF CollectorIInv, HeapIInv, ActiveIffUsed
  <2>5. IsHeader(b - 1)' /\ ~IsForwarded(b)'
    BY <2>1, <1>1 DEF Interpretable, IsHeader, IsForwarded,
                      header_is_forwarding_address
  <2>6. FieldsWithin(b, S)'
    BY <1>1, <1>7 DEF Sound, FieldsWithin, FieldsOf, KindOf
  <2> QED
    BY <2>2, <2>4, <2>5, <2>6, <1>1
<1>11. CopiesDistinct(S)'
  BY <1>10 DEF CopiesDistinct
<1>12. Moved(S)'
  BY <1>1, <1>9, <1>10, <1>11 DEF Moved
<1>13. ReachableOK'
  BY <1>1, <1>7, <1>12 DEF ReachableOK
<1> QED
  BY <1>4, <1>5, <1>6, <1>10, <1>12, <1>13 DEF CollectorIInv

\* The head of a queue
LEMMA HeadOfQueue ==
  ASSUME NEW q \in Seq(QueueWords), q # <<>>, NEW e \in Seq(Pointers), NEW st,
         Matches(q, e, st)
  PROVE  /\ e # <<>> => /\ Head(e) \in Pointers
                        /\ \E s \in Slots : Head(q) = StackWord(s)
                        /\ \A s \in Locals :
                             Head(q) = StackWord(s) => st[s] = Head(e)
         /\ e = <<>> => \E w \in Words : Head(q) = HeapWord(w)
<1>1. Len(q) \in Nat /\ Len(q) >= 1 /\ Head(q) = q[1] /\ Head(q) \in QueueWords
  OBVIOUS
<1>2. CASE e # <<>>
  <2>1. 1 \in 1 .. Len(e) /\ Head(e) = e[1] /\ Head(e) \in Pointers
    BY <1>2
  <2>2. q[1] \in StackWords /\ (q[1].at \in Locals => st[q[1].at] = e[1])
    BY <2>1 DEF Matches
  <2> QED
    BY <2>1, <2>2, <1>1, <1>2, Places DEF StackWords
<1>3. CASE e = <<>>
  <2>1. 1 \in Len(e) + 1 .. Len(q)
    BY <1>1, <1>3
  <2>2. Head(q).area = "heap"
    BY <2>1, <1>1 DEF Matches
  <2> QED
    BY <2>2, <1>1, <1>3, Places DEF QueueWords, StackWords
<1> QED
  BY <1>2, <1>3

\* A changed word is none of the program's variables.
LEMMA ChangedWord ==
  ASSUME queue \in Seq(QueueWords), queue # <<>>, NEW e \in Seq(Pointers),
         Matches(queue, e, stack)
  PROVE  /\ Changed(e) =>
              \E s \in Slots \ Locals : Head(queue) = StackWord(s)
         /\ ~Changed(e) =>
              \/ /\ \E s \in Slots : /\ Head(queue) = StackWord(s)
                                     /\ Current = stack[s]
                 /\ Current \in Pointers
              \/ \E w \in Words : /\ Head(queue) = HeapWord(w)
                                  /\ Current = mem[w].value
<1>1. \A s : Head(queue) = StackWord(s) => Current = stack[s]
  BY Places DEF Current, Deref
<1>2. \A w : Head(queue) = HeapWord(w) => Current = mem[w].value
  BY Places DEF Current, Deref
<1>3. /\ e # <<>> => /\ Head(e) \in Pointers
                     /\ \E s \in Slots : Head(queue) = StackWord(s)
                     /\ \A s \in Locals :
                          Head(queue) = StackWord(s) => stack[s] = Head(e)
      /\ e = <<>> => \E w \in Words : Head(queue) = HeapWord(w)
  BY HeadOfQueue
<1>4. CASE Changed(e)
  BY <1>1, <1>3, <1>4 DEF Changed
<1>5. CASE ~Changed(e)
  BY <1>1, <1>2, <1>3, <1>5 DEF Changed
<1> QED
  BY <1>4, <1>5

\* When a variable or a field of the heap is at the head, it has not changed.
LEMMA ServedWord ==
  ASSUME queue \in Seq(QueueWords), queue # <<>>, NEW e \in Seq(Pointers),
         Matches(queue, e, stack)
  PROVE  /\ \A x \in Locals : Head(queue) = StackWord(x) =>
              ~Changed(e) /\ Current = stack[x]
         /\ \A w : Head(queue) = HeapWord(w) =>
              ~Changed(e) /\ Current = mem[w].value
<1>1. ASSUME NEW x \in Locals, Head(queue) = StackWord(x)
      PROVE  ~Changed(e) /\ Current = stack[x]
  BY <1>1, ChangedWord, Places DEF Current, Deref
<1>2. ASSUME NEW w, Head(queue) = HeapWord(w)
      PROVE  ~Changed(e) /\ Current = mem[w].value
  BY <1>2, ChangedWord, Places DEF Current, Deref
<1> QED
  BY <1>1, <1>2

\* What the queue means in traverse_and_move
LEMMA MoveFacts ==
  ASSUME CollectorIInv, pc = "move"
  PROVE  /\ queue \in Seq(QueueWords) /\ expected1 \in Seq(Pointers)
         /\ Matches(queue, expected1, stack)
         /\ Matches(roots, expected2, stack)
         /\ Len(roots) = Len(expected2)
         /\ \A x \in Locals : stack[x] # NULL => InList(roots, StackWord(x))
         /\ visited = {}
         /\ \E S \in SUBSET blocks : Moved(S)
  BY DEF CollectorIInv, TypesOK, RootsOK, ReachableOK

\* The rest of the queue, and what joins it
LEMMA PendingRest ==
  ASSUME queue \in Seq(QueueWords), queue # <<>>, NEW r \in Seq(QueueWords),
         queue' \in {Tail(queue), Tail(queue) \o r}, NEW loc
  PROVE  /\ queue' \in Seq(QueueWords)
         /\ Pending(loc) => loc = Head(queue) \/ Pending(loc)'
         /\ Pending(loc)' => Pending(loc) \/ InList(r, loc)
<1>1. InList(queue, loc) => loc = Head(queue) \/ InList(Tail(queue), loc)
  BY RestOfList
<1>2. InList(Tail(queue), loc) => InList(queue, loc)
  BY RestOfList
<1>3. InList(Tail(queue) \o r, loc)
        <=> InList(Tail(queue), loc) \/ InList(r, loc)
  BY RestOfList
<1>4. Tail(queue) \in Seq(QueueWords) /\ Tail(queue) \o r \in Seq(QueueWords)
  BY RestOfList
<1>5. Pending(loc) <=> InList(queue, loc)
  BY DEF Pending, InList
<1>6. Pending(loc)' <=> InList(queue', loc)
  BY DEF Pending, InList
<1> QED
  BY <1>1, <1>2, <1>3, <1>4, <1>5, <1>6

\* A list may advance.
LEMMA DropType ==
  ASSUME NEW T, NEW e \in Seq(T)
  PROVE  Drop(e) \in Seq(T)
<1>1. CASE e = <<>>
  BY <1>1 DEF Drop
<1>2. CASE e # <<>>
  BY <1>2 DEF Drop
<1> QED
  BY <1>1, <1>2

\* A skipped word is stale or leads to an object that was moved before.
LEMMA MoveSkipKeeps ==
  ASSUME CollectorIInv, HeapIInv', MoveSkip,
         NEW S \in SUBSET blocks, Moved(S)
  PROVE  CollectorIInv' /\ Moved(S)'
<1>1. /\ pc = "move" /\ queue # <<>>
      /\ ~Changed(expected1) => IsForwarded(Current)
      /\ queue' = Tail(queue) /\ expected1' = Drop(expected1)
      /\ UNCHANGED <<heapVars, stack, mem, dest, cursor, roots, expected2,
                     visited, initial_size_usage, historyVars>>
  BY DEF MoveSkip, IsForwarded
<1> USE DEF heapVars, pageVars, snapshotVars, historyVars
<1>2. /\ queue \in Seq(QueueWords) /\ expected1 \in Seq(Pointers)
      /\ Matches(queue, expected1, stack)
  BY <1>1, MoveFacts
<1>3. <<>> \in Seq(QueueWords)
  OBVIOUS
<1>4. /\ queue' \in Seq(QueueWords)
      /\ \A loc : Pending(loc) => loc = Head(queue) \/ Pending(loc)'
  BY <1>1, <1>2, <1>3, PendingRest
<1>5. TypesOK'
  <2>1. expected1' \in Seq(Pointers)
    BY <1>1, <1>2, DropType
  <2> QED
    BY <2>1, <1>1, <1>4 DEF CollectorIInv, TypesOK
<1>6. RootsOK'
  <2>1. \A x \in Locals : stack[x] = stack[x] \/ Head(queue) = StackWord(x)
    OBVIOUS
  <2>2. \A i \in DOMAIN <<>> : <<>>[i].area = "heap"
    OBVIOUS
  <2>3. Matches(Tail(queue), Drop(expected1), stack)
    BY <2>1, <2>2, <1>1, <1>2, <1>3, MatchesRest
  <2> QED
    BY <2>3, <1>1, MoveFacts DEF RootsOK
<1>7. S \in SUBSET blocks /\ Moved(S)
  OBVIOUS
<1>8. ASSUME NEW x \in Locals, stack[x] # NULL
      PROVE  stack[x] \in S /\ (IsForwarded(stack[x]) \/ Pending(StackWord(x))')
  BY <1>1, <1>2, <1>4, <1>7, <1>8, ServedWord DEF Moved
<1>9. ASSUME NEW b \in S, IsForwarded(b), NEW w \in FieldsOf(b),
             mem[w].value # NULL
      PROVE  IsForwarded(mem[w].value) \/ Pending(HeapWord(w))'
  BY <1>1, <1>2, <1>4, <1>7, <1>9, ServedWord DEF Moved
<1>10. Moved(S)'
  BY <1>1, <1>7, <1>8, <1>9
     DEF Moved, IsForwarded, header_is_forwarding_address, IsHeader,
         FieldsWithin, FieldsOf, KindOf, IdOf, CopyOf, SameFields,
         CopiesDistinct, InUse, Used
<1>11. ReachableOK'
  BY <1>1, <1>7, <1>10 DEF ReachableOK
<1>12. MemoryIntact'
  BY <1>1, Typed, MemoryKept
<1> QED
  BY <1>5, <1>6, <1>10, <1>11, <1>12 DEF CollectorIInv

\* The pointers that join a queue
LEMMA JoiningFields ==
  ASSUME HeapTypeOK, mem \in [Words -> MemoryWord], MemoryIntact,
         NEW v \in Pointers, IsHeader(v - 1), NEW m,
         m[v - 1].kind = KindOf(v)
  PROVE  /\ PointersOf(v, m) \in Seq(QueueWords)
         /\ \A i \in DOMAIN PointersOf(v, m) :
              \E f \in PointerFields[KindOf(v)] :
                /\ m[v + f].value # NULL
                /\ PointersOf(v, m)[i] = HeapWord(v + f)
         /\ \A f \in PointerFields[KindOf(v)] :
              m[v + f].value # NULL =>
                InList(PointersOf(v, m), HeapWord(v + f))
<1>1. KindOf(v) \in Kinds
  BY HeaderWord, BodyWords DEF KindOf
<1> DEFINE here == FieldWords(v, m, KindOf(v))
<1>2. PointersOf(v, m) \in Seq(here)
  BY <1>1, PointersFound
<1>3. \A f \in PointerFields[KindOf(v)] : m[v + f].value # NULL =>
        \E j \in DOMAIN PointersOf(v, m) :
          PointersOf(v, m)[j] = HeapWord(v + f)
  BY <1>1, PointersFound
<1>4. here \subseteq QueueWords
  BY FieldFacts DEF QueueWords, FieldWords
<1>5. PointersOf(v, m) \in Seq(QueueWords)
  BY <1>2, <1>4, WiderSeq
<1>6. \A i \in DOMAIN PointersOf(v, m) : PointersOf(v, m)[i] \in here
  BY <1>2
<1>7. \A i \in DOMAIN PointersOf(v, m) :
        \E f \in PointerFields[KindOf(v)] :
          m[v + f].value # NULL /\ PointersOf(v, m)[i] = HeapWord(v + f)
  BY <1>6 DEF FieldWords
<1> QED
  BY <1>3, <1>5, <1>7 DEF InList

\* An object is copied: its copy is complete, the pointers of the copy wait in
\* the queue, and what was copied before stays as it is.
LEMMA MoveObjectKeeps ==
  ASSUME RawFitsSlot, CollectorIInv, HeapIInv', NEW p \in Pages, MoveObject(p),
         NEW S \in SUBSET blocks, Moved(S),
         NEW from, from = Current, NEW to, to = ObjectAt(p),
         NEW k, k = mem[from - 1].kind
  PROVE  /\ CollectorIInv' /\ Moved(S)'
         /\ from \in Pointers /\ to \in Pointers /\ KindOf(from) = k
         /\ p \in passive_page_array
         /\ mem'[from - 1].to = to /\ mem'[to - 1] = mem[from - 1]
         /\ \A b \in S :
              /\ KindOf(b)' = KindOf(b) /\ IdOf(b)' = IdOf(b)
              /\ \A f \in PointerFields[KindOf(b)] : mem'[b + f] = mem[b + f]
              /\ b # from => mem'[b - 1] = mem[b - 1]
              /\ IsForwarded(b)' <=> b = from \/ IsForwarded(b)
         /\ \A b \in S : \A c : CopyOf(b, c) =>
              c # to /\ (c # from => mem'[c - 1] = mem[c - 1])
         /\ \A loc : Pending(loc)' =>
              \/ Pending(loc)
              \/ \E f \in PointerFields[k] :
                   mem[from + f].value # NULL /\ loc = HeapWord(from + f)
<1>1. PICK r :
        /\ from = Current /\ to = ObjectAt(p) /\ k = mem[from - 1].kind
        /\ r = PointersOf(from, mem)
  OBVIOUS
<1>2. /\ pc = "move" /\ queue # <<>> /\ ~Changed(expected1)
      /\ Readable(Head(queue)) /\ Interpretable(from)
      /\ MovesTo(p, k) /\ Reserve(p, TotalSize(MovedBytes(k)))
      /\ ~Overlaps(from, to)
      /\ mem' = Relocate(mem, from, to)
      /\ copies' = copies \cup {to}
      /\ queue' = Tail(queue) \o r
      /\ expected1' = Drop(expected1)
      /\ UNCHANGED <<pc, request, snapshotVars, stack, dest, cursor, roots,
                     expected2, visited, initial_size_usage, blocks,
                     allocations, collections>>
  BY <1>1 DEF MoveObject, Moving, Evacuate
<1> USE DEF snapshotVars
<1>3. /\ queue \in Seq(QueueWords) /\ expected1 \in Seq(Pointers)
      /\ Matches(queue, expected1, stack)
  BY <1>2, MoveFacts
<1>4. from \in Pointers
  <2>1. CASE \E w \in Words : Head(queue) = HeapWord(w) /\ Current = mem[w].value
    <3>1. PICK w \in Words : Head(queue) = HeapWord(w) /\ Current = mem[w].value
      BY <2>1
    <3>2. mem[w].tag = "plain" /\ mem[w].value \in Words
      BY <3>1, <1>2, Places DEF Readable
    <3>3. mem[w].value \in Pointers \cup {NULL, DATA}
      BY <3>2, Typed, WordCases
    <3> QED
      BY <3>1, <3>2, <3>3, <1>1, NullFacts
  <2> QED
    BY <2>1, <1>1, <1>2, <1>3, ChangedWord
<1>5. HeapTypeOK'
  BY DEF HeapIInv
<1>6. /\ to \in Pointers /\ PageOf(to - 1) = p
      /\ ~InUse(to - 1) /\ InUse(to - 1)'
      /\ mem' \in [Words -> MemoryWord] /\ MemoryIntact'
      /\ mem'[from - 1] = Forward(to, k, mem[from - 1].id)
      /\ to # from /\ mem'[to - 1] = mem[from - 1]
      /\ \A f \in PointerFields[k] : mem'[to + f] = mem[from + f]
      /\ \A u \in Words : InUse(u) => InUse(u)'
      /\ \A u \in Words : (InUse(u) \/ PageOf(u) # p) /\ u # from - 1 =>
           mem'[u] = mem[u]
  BY <1>1, <1>2, <1>4, <1>5, Typed, ObjectMoved
<1>7. /\ p \in passive_page_array /\ p \notin active_page_array
  BY <1>2 DEF MovesTo, IsFirst, CollectorIInv, HeapIInv
<1>8. /\ from - 1 \in Words /\ IsHeader(from - 1) /\ KindOf(from) = k
      /\ k \in Kinds /\ mem[from - 1].id \in Ids
      /\ ~IsForwarded(from) /\ IdOf(from) = mem[from - 1].id
  <2>1. from - 1 \in Words /\ IsHeader(from - 1) /\ KindOf(from) = k
    BY <1>1, <1>2, <1>4, HeaderWord DEF Interpretable, IsHeader, KindOf
  <2>2. k \in Kinds /\ mem[from - 1].id \in Ids
    BY <2>1, <1>1, Typed, WordCases DEF IsHeader
  <2> QED
    BY <2>1, <2>2, <1>2 DEF Interpretable, IsForwarded, IdOf,
                            header_is_forwarding_address
<1>9. /\ mem'[from - 1].tag = "forward" /\ mem'[from - 1].to = to
      /\ mem'[from - 1].kind = k /\ mem'[from - 1].id = IdOf(from)
  BY <1>6, <1>8, WordsWritten
<1>10. /\ r \in Seq(QueueWords)
       /\ \A i \in DOMAIN r : \E f \in PointerFields[k] :
            mem[from + f].value # NULL /\ r[i] = HeapWord(from + f)
       /\ \A f \in PointerFields[k] : mem[from + f].value # NULL =>
            InList(r, HeapWord(from + f))
  <2>1. mem[from - 1].kind = KindOf(from) /\ k = KindOf(from)
    BY DEF KindOf
  <2>2. /\ PointersOf(from, mem) \in Seq(QueueWords)
        /\ \A i \in DOMAIN PointersOf(from, mem) :
             \E f \in PointerFields[KindOf(from)] :
               /\ mem[from + f].value # NULL
               /\ PointersOf(from, mem)[i] = HeapWord(from + f)
        /\ \A f \in PointerFields[KindOf(from)] :
             mem[from + f].value # NULL =>
               InList(PointersOf(from, mem), HeapWord(from + f))
    BY <2>1, <1>4, <1>8, Typed, JoiningFields
  <2> QED
    BY <2>1, <2>2, <1>1
<1>11. /\ queue' \in Seq(QueueWords)
       /\ \A loc : Pending(loc) => loc = Head(queue) \/ Pending(loc)'
       /\ \A loc : InList(r, loc) => Pending(loc)'
       /\ \A loc : Pending(loc)' => Pending(loc) \/ InList(r, loc)
  <2>1. ASSUME NEW loc, InList(r, loc)
        PROVE  Pending(loc)'
    <3>1. InList(Tail(queue) \o r, loc)
      BY <2>1, <1>2, <1>3, <1>10, RestOfList
    <3> QED
      BY <3>1, <1>2 DEF Pending, InList
  <2> QED
    BY <2>1, <1>2, <1>3, <1>10, PendingRest
<1>12. TypesOK'
  <2>1. expected1' \in Seq(Pointers)
    BY <1>2, <1>3, DropType
  <2> QED
    BY <2>1, <1>2, <1>6, <1>11 DEF CollectorIInv, TypesOK
<1>13. RootsOK'
  <2>1. \A x \in Locals : stack[x] = stack[x] \/ Head(queue) = StackWord(x)
    OBVIOUS
  <2>2. \A i \in DOMAIN r : r[i].area = "heap"
    BY <1>10, Places
  <2>3. Matches(Tail(queue) \o r, Drop(expected1), stack)
    BY <2>1, <2>2, <1>2, <1>3, <1>10, MatchesRest
  <2> QED
    BY <2>3, <1>2, MoveFacts DEF RootsOK
<1>14. S \in SUBSET blocks /\ Moved(S)
  OBVIOUS
<1>15. S \subseteq Pointers
  BY <1>14, Typed
\* What the step leaves of an old object
<1>16. ASSUME NEW b \in S
       PROVE  /\ b - 1 \in Words /\ PageOf(b - 1) \in active_page_array
              /\ IsHeader(b - 1) /\ IsHeader(b - 1)'
              /\ KindOf(b)' = KindOf(b) /\ IdOf(b)' = IdOf(b)
              /\ \A f \in PointerFields[KindOf(b)] : mem'[b + f] = mem[b + f]
              /\ b # from => mem'[b - 1] = mem[b - 1]
              /\ IsForwarded(b)' <=> b = from \/ IsForwarded(b)
  <2>1. /\ b \in Pointers /\ b - 1 \in Words
        /\ PageOf(b - 1) \in active_page_array /\ IsHeader(b - 1)
        /\ b = (b - 1) + 1 /\ from = (from - 1) + 1
    BY <1>4, <1>14, <1>15, HeaderWord DEF Moved
  <2>2. b # from => mem'[b - 1] = mem[b - 1]
    BY <2>1, <1>6, <1>7
  <2>3. IsHeader(b - 1)' /\ KindOf(b)' = KindOf(b) /\ IdOf(b)' = IdOf(b)
    BY <2>1, <2>2, <1>8, <1>9 DEF IsHeader, KindOf, IdOf
  <2>4. ASSUME NEW f \in PointerFields[KindOf(b)]
        PROVE  mem'[b + f] = mem[b + f]
    <3>1. b + f \in Words /\ ~IsHeader(b + f) /\ PageOf(b + f) = PageOf(b - 1)
      BY <2>1, FieldFacts, Typed
    <3> QED
      BY <3>1, <2>1, <1>6, <1>7, <1>8
  <2>5. IsForwarded(b)' <=> b = from \/ IsForwarded(b)
    BY <2>2, <1>8, <1>9 DEF IsForwarded, header_is_forwarding_address
  <2> QED
    BY <2>1, <2>2, <2>3, <2>4, <2>5
\* and of a copy
<1>17. ASSUME NEW b \in S, NEW c, CopyOf(b, c)
       PROVE  /\ c \in copies' /\ c # to
              /\ c # from => mem'[c - 1] = mem[c - 1]
              /\ PageOf(c - 1) \in passive_page_array /\ InUse(c - 1)'
              /\ IsHeader(c - 1)'
              /\ KindOf(c)' = KindOf(c) /\ IdOf(c)' = IdOf(c)
              /\ \A f \in PointerFields[KindOf(c)] : mem'[c + f] = mem[c + f]
  <2>1. /\ c \in copies /\ PageOf(c - 1) \in passive_page_array
        /\ InUse(c - 1) /\ IsHeader(c - 1)
    BY <1>17 DEF CopyOf
  <2>2. c \in Pointers /\ c - 1 \in Words
    BY <2>1, HeaderWord DEF CollectorIInv, TypesOK
  <2>3. c # from => mem'[c - 1] = mem[c - 1]
    BY <2>1, <2>2, <1>4, <1>6, HeaderWord
  <2>4. IsHeader(c - 1)' /\ KindOf(c)' = KindOf(c) /\ IdOf(c)' = IdOf(c)
    BY <2>1, <2>3, <1>8, <1>9 DEF IsHeader, KindOf, IdOf
  <2>5. ASSUME NEW f \in PointerFields[KindOf(c)]
        PROVE  mem'[c + f] = mem[c + f]
    <3>1. c + f \in Words /\ ~IsHeader(c + f) /\ InUse(c + f)
      BY <2>1, <2>2, FieldFacts, Typed
    <3> QED
      BY <3>1, <1>6, <1>8
  <2> QED
    BY <2>1, <2>2, <2>3, <2>4, <2>5, <1>2, <1>6
<1>18. ASSUME NEW x \in Locals, stack[x] # NULL
       PROVE  stack[x] \in S /\ (IsForwarded(stack[x]) \/ Pending(StackWord(x)))'
  <2>1. /\ stack[x] \in S /\ stack'[x] = stack[x]
        /\ IsForwarded(stack[x]) \/ Pending(StackWord(x))
    BY <1>2, <1>14, <1>18 DEF Moved
  <2>2. \/ IsForwarded(stack[x]) \/ stack[x] = from
        \/ Pending(StackWord(x))'
    BY <2>1, <1>1, <1>3, <1>2, <1>11, ServedWord
  <2>3. IsForwarded(stack[x])' <=> (stack[x] = from \/ IsForwarded(stack[x]))
    <3>1. PICK b \in S : b = stack[x]
      BY <2>1
    <3>2. IsForwarded(b)' <=> b = from \/ IsForwarded(b)
      BY <1>16
    <3> QED
      BY <3>1, <3>2, <1>2 DEF IsForwarded, header_is_forwarding_address
  <2> QED
    BY <2>1, <2>2, <2>3
<1>19. ASSUME NEW b \in S
       PROVE  FieldsWithin(b, S)'
  BY <1>14, <1>16 DEF Moved, FieldsWithin, FieldsOf
<1>20. ASSUME NEW b \in S, IsForwarded(b)'
       PROVE  (CopyOf(b, mem[b - 1].to) /\ SameFields(b, mem[b - 1].to))'
  <2>1. CASE b = from
    <3>1. mem'[b - 1].to = to
      BY <2>1, <1>9
    <3>2. KindOf(to)' = KindOf(from) /\ IdOf(to)' = IdOf(from)
          /\ IsHeader(to - 1)'
      BY <1>6, <1>8 DEF KindOf, IdOf, IsHeader
    <3>3. CopyOf(b, to)'
      BY <2>1, <3>1, <3>2, <1>2, <1>6, <1>7, <1>16, <1>20 DEF CopyOf
    <3>4. SameFields(b, to)'
      BY <2>1, <1>6, <1>8, <1>16 DEF SameFields
    <3> QED
      BY <3>1, <3>3, <3>4
  <2>2. CASE b # from
    <3>1. PICK c : c = mem[b - 1].to
      OBVIOUS
    <3>2. /\ IsForwarded(b) /\ mem'[b - 1].to = c
          /\ CopyOf(b, c) /\ SameFields(b, c)
      BY <2>2, <3>1, <1>14, <1>16, <1>20 DEF Moved
    <3>3. KindOf(c) = KindOf(b) /\ IdOf(c) = IdOf(b)
      BY <3>2 DEF CopyOf
    <3>4. CopyOf(b, c)'
      BY <3>2, <3>3, <1>2, <1>16, <1>17, <1>20 DEF CopyOf
    <3>5. SameFields(b, c)'
      BY <3>2, <3>3, <1>16, <1>17 DEF SameFields
    <3> QED
      BY <3>2, <3>4, <3>5
  <2> QED
    BY <2>1, <2>2
<1>21. ASSUME NEW b \in S, IsForwarded(b)', NEW f \in PointerFields[KindOf(b)],
              mem[b + f].value # NULL
       PROVE  IsForwarded(mem[b + f].value)' \/ Pending(HeapWord(b + f))'
  <2>1. PICK old : old = mem[b + f].value
    OBVIOUS
  <2>2. mem'[b + f].value = old /\ old \in S
    BY <2>1, <1>14, <1>16, <1>21 DEF Moved, FieldsWithin, FieldsOf
  <2>3. IsForwarded(old)' <=> old = from \/ IsForwarded(old)
    BY <2>2, <1>16
  <2>4. IsForwarded(old)' => IsForwarded(mem[b + f].value)'
    BY <2>2 DEF IsForwarded, header_is_forwarding_address
  <2>5. CASE b = from
    BY <2>5, <1>8, <1>10, <1>11, <1>21
  <2>6. CASE b # from
    <3>1. IsForwarded(b)
      BY <2>6, <1>16, <1>21
    <3>2. IsForwarded(old) \/ Pending(HeapWord(b + f))
      BY <2>1, <3>1, <1>14, <1>21 DEF Moved, FieldsOf
    <3>3. Head(queue) = HeapWord(b + f) => old = from
      BY <2>1, <1>1, <1>2, <1>3, ServedWord
    <3> QED
      BY <2>3, <2>4, <3>2, <3>3, <1>11
  <2> QED
    BY <2>5, <2>6
<1>22. CopiesDistinct(S)'
  <2> SUFFICES ASSUME NEW a \in S, NEW b \in S,
                      IsForwarded(a)', IsForwarded(b)',
                      mem'[a - 1].to = mem'[b - 1].to
               PROVE  a = b
    BY DEF CopiesDistinct
  <2>1. ASSUME NEW c \in S, IsForwarded(c)', c # from
        PROVE  /\ mem'[c - 1].to = mem[c - 1].to /\ mem[c - 1].to # to
               /\ IsForwarded(c)
    <3>1. IsForwarded(c) /\ mem'[c - 1] = mem[c - 1]
      BY <2>1, <1>16
    <3>2. CopyOf(c, mem[c - 1].to)
      BY <3>1, <1>14 DEF Moved
    <3>3. PICK d : d = mem[c - 1].to
      OBVIOUS
    <3>4. d # to
      BY <3>2, <3>3, <1>17
    <3> QED
      BY <3>1, <3>3, <3>4
  <2> QED
    BY <2>1, <1>9, <1>14 DEF Moved, CopiesDistinct
<1>23. Moved(S)'
  <2>1. \A x \in Locals : stack'[x] # NULL =>
          stack'[x] \in S /\ (IsForwarded(stack[x]) \/ Pending(StackWord(x)))'
    BY <1>2, <1>18
  <2>2. \A b \in S : IsForwarded(b)' =>
          \A w \in FieldsOf(b)' : mem'[w].value # NULL =>
            (IsForwarded(mem[w].value) \/ Pending(HeapWord(w)))'
    BY <1>16, <1>21 DEF FieldsOf, IsForwarded, header_is_forwarding_address
  <2> QED
    BY <2>1, <2>2, <1>2, <1>16, <1>19, <1>20, <1>22 DEF Moved
<1>24. ReachableOK'
  BY <1>2, <1>14, <1>23 DEF ReachableOK
<1>25. CollectorIInv'
  BY <1>6, <1>12, <1>13, <1>24 DEF CollectorIInv
<1>26. ASSUME NEW loc, Pending(loc)', ~Pending(loc)
       PROVE  \E f \in PointerFields[k] :
                mem[from + f].value # NULL /\ loc = HeapWord(from + f)
  BY <1>10, <1>11, <1>26 DEF InList
<1> QED
  BY <1>4, <1>6, <1>7, <1>8, <1>9, <1>16, <1>17, <1>23, <1>25, <1>26

-----------------------------------------------------------------------------
(* traverse_and_forward *)

\* The queue is empty: all that the program reaches was moved, and the pages
\* the copies are in keep them.
LEMMA StartForwardKeeps ==
  ASSUME CollectorIInv, HeapIInv', StartForward,
         NEW S \in SUBSET blocks, Moved(S),
         NEW T, T = {b \in S : IsForwarded(b)}
  PROVE  /\ CollectorIInv' /\ Forwarded(T)'
         /\ T \in SUBSET {v \in Pointers : IsForwarded(v)'}
         /\ \A b \in T : mem[b - 1].to \in blocks'
<1>1. /\ pc = "move" /\ pc' = "forward" /\ queue = <<>>
      /\ next_empty_space' = Released(next_empty_space, 0)
      /\ alloc_map' = Released(alloc_map, {})
      /\ queue' = roots
      /\ blocks' = {b \in blocks \cup copies : is_allocated_on_heap(b)'}
      /\ UNCHANGED <<request, snapshotVars, stack, mem, dest, rootVars, visited,
                     initial_size_usage, copies, allocations, collections>>
  BY DEF StartForward, EndMove
<1> USE DEF snapshotVars, rootVars
<1>2. /\ active_page_array \cup passive_page_array = Pages
      /\ active_page_array \cap passive_page_array = {}
      /\ HeapTypeOK' /\ PageAccounting'
  BY <1>1 DEF CollectorIInv, HeapIInv
<1>3. \A q \in Pages : Used(q)' = IF q \in active_page_array THEN 0 ELSE Used(q)
  BY <1>1 DEF Used, Released
<1>4. /\ Matches(roots, expected2, stack) /\ visited = {}
      /\ \A x \in Locals : stack[x] # NULL => InList(roots, StackWord(x))
      /\ roots \in Seq(StackWords) /\ copies \subseteq Pointers
  BY <1>1, MoveFacts DEF CollectorIInv, TypesOK
<1>5. MemoryIntact'
  <2>1. \A p \in Pages : Used(p)' \in {0, Used(p)}
    BY <1>3
  <2>2. \A b \in Pointers : IsHeader(b - 1) =>
          \A f \in PointerFields[KindOf(b)] :
            mem'[b + f].value \in Pointers \cup {NULL}
    BY <1>1, FieldFacts, Typed
  <2>3. /\ \A u \in Words : IsHeader(u)' = IsHeader(u)
        /\ \A u \in Words : IsHeader(u) => mem'[u].kind = mem[u].kind
    BY <1>1 DEF IsHeader
  <2> QED
    BY <2>1, <2>2, <2>3, <1>1, Typed, ContentsWritten
<1>6. TypesOK'
  <2>1. StackWords \subseteq QueueWords
    BY DEF QueueWords
  <2>2. roots \in Seq(QueueWords)
    BY <2>1, <1>4, WiderSeq
  <2>3. blocks' \subseteq Pointers
    BY <1>1, <1>4, Typed
  <2> QED
    BY <2>2, <2>3, <1>1 DEF CollectorIInv, TypesOK
<1>7. RootsOK'
  <2>1. \A i \in DOMAIN roots : roots[i].area = "stack"
    BY <1>4, Places DEF StackWords
  <2> QED
    BY <2>1, <1>1, <1>4 DEF RootsOK
<1>8. S \in SUBSET blocks /\ Moved(S)
  OBVIOUS
<1>t. T = {b \in S : IsForwarded(b)}
  OBVIOUS
<1>9. \A loc : ~Pending(loc)
  BY <1>1 DEF Pending
<1>10. ASSUME NEW x \in Locals, stack[x] # NULL
       PROVE  stack[x] \in T /\ Pending(StackWord(x))'
  BY <1>1, <1>4, <1>8, <1>9, <1>10, <1>t DEF Moved, Pending, InList
<1>11. ASSUME NEW b \in T
       PROVE  /\ PageOf(b - 1) \in active_page_array
              /\ CopyOf(b, mem[b - 1].to) /\ SameFields(b, mem[b - 1].to)
              /\ FieldsWithin(b, T)
  BY <1>8, <1>9, <1>t DEF Moved, FieldsWithin
<1>12. ASSUME NEW b \in T
       PROVE  (CopyOf(b, mem[b - 1].to) /\ mem[b - 1].to \in blocks)'
  <2>1. PICK c : c = mem[b - 1].to
    OBVIOUS
  <2>2. CopyOf(b, c)
    BY <2>1, <1>11
  <2>3. c \in copies /\ PageOf(c - 1) \in passive_page_array /\ InUse(c - 1)
    BY <2>2 DEF CopyOf
  <2>4. c \in Pointers /\ PageOf(c) = PageOf(c - 1) /\ PageOf(c) \in Pages
    BY <2>3, <1>4, HeaderWord, WordFacts
  <2>5. InUse(c - 1)'
    BY <2>3, <2>4, <1>2, <1>3 DEF InUse
  <2>6. is_allocated_on_heap(c)
    BY <2>3, <2>4, Typed, InUseIsMarked
  <2>7. is_allocated_on_heap(c)'
    BY <2>3, <2>4, <2>6, <1>1, <1>2 DEF is_allocated_on_heap, Released
  <2>8. c \in blocks'
    BY <2>3, <2>7, <1>1
  <2>9. CopyOf(b, c)'
    BY <2>2, <2>5, <1>1 DEF CopyOf, IsForwarded, header_is_forwarding_address,
                            IsHeader, KindOf, IdOf
  <2> QED
    BY <2>1, <2>8, <2>9, <1>1
<1>13. ASSUME NEW b \in T
       PROVE  /\ FieldsWithin(b, T)'
              /\ \A f \in PointerFields[KindOf(b)] :
                   mem'[mem[b - 1].to + f].value = mem[b + f].value
  BY <1>1, <1>11 DEF FieldsWithin, FieldsOf, KindOf, SameFields
<1>14. CopiesDistinct(T)'
  BY <1>1, <1>8, <1>t DEF Moved, CopiesDistinct, IsForwarded,
                          header_is_forwarding_address
<1>15. T \in SUBSET {v \in Pointers : IsForwarded(v)'}
  BY <1>1, <1>8, <1>t, Typed DEF IsForwarded, header_is_forwarding_address
<1>16. \A b \in T : PageOf(b - 1) \in active_page_array'
  BY <1>1, <1>11
<1>17. Forwarded(T)'
  BY <1>1, <1>4, <1>10, <1>12, <1>13, <1>14, <1>16
     DEF Forwarded, KindOf
<1>18. ReachableOK'
  BY <1>1, <1>15, <1>17 DEF ReachableOK
<1> QED
  BY <1>1, <1>5, <1>6, <1>7, <1>12, <1>15, <1>17, <1>18 DEF CollectorIInv

\* What the queue means in traverse_and_forward
LEMMA ForwardFacts ==
  ASSUME CollectorIInv, pc = "forward"
  PROVE  /\ queue \in Seq(QueueWords) /\ expected2 \in Seq(Pointers)
         /\ Matches(queue, expected2, stack)
         /\ \A v \in visited : v \in Pointers /\ IsForwarded(v)
         /\ \A i \in DOMAIN queue : queue[i].area = "heap" =>
              IsField(queue[i].at) /\ mem[queue[i].at].value # NULL
         /\ \E S \in SUBSET {v \in Pointers : IsForwarded(v)} : Forwarded(S)
  BY DEF CollectorIInv, TypesOK, RootsOK, ReachableOK

\* A skipped word is stale: the variables still hold what the scan saw.
LEMMA ForwardSkipKeeps ==
  ASSUME CollectorIInv, HeapIInv', ForwardSkip,
         NEW S \in SUBSET {v \in Pointers : IsForwarded(v)}, Forwarded(S)
  PROVE  CollectorIInv' /\ Forwarded(S)'
<1>1. /\ pc = "forward" /\ queue # <<>> /\ Changed(expected2)
      /\ queue' = Tail(queue) /\ expected2' = Drop(expected2)
      /\ UNCHANGED <<heapVars, stack, mem, dest, cursor, roots, expected1,
                     visited, initial_size_usage, historyVars>>
  BY DEF ForwardSkip
<1> USE DEF heapVars, pageVars, snapshotVars, historyVars
<1>2. /\ queue \in Seq(QueueWords) /\ expected2 \in Seq(Pointers)
      /\ Matches(queue, expected2, stack)
  BY <1>1, ForwardFacts
<1>3. <<>> \in Seq(QueueWords) /\ \A loc : ~InList(<<>>, loc)
  BY DEF InList
<1>4. /\ queue' \in Seq(QueueWords)
      /\ \A loc : Pending(loc) => loc = Head(queue) \/ Pending(loc)'
      /\ \A loc : Pending(loc)' => Pending(loc)
  BY <1>1, <1>2, <1>3, PendingRest
<1>5. TypesOK'
  <2>1. expected2' \in Seq(Pointers)
    BY <1>1, <1>2, DropType
  <2> QED
    BY <2>1, <1>1, <1>4 DEF CollectorIInv, TypesOK
<1>6. RootsOK'
  <2>1. \A x \in Locals : stack[x] = stack[x] \/ Head(queue) = StackWord(x)
    OBVIOUS
  <2>2. \A i \in DOMAIN <<>> : <<>>[i].area = "heap"
    OBVIOUS
  <2>3. Matches(Tail(queue), Drop(expected2), stack)
    BY <2>1, <2>2, <1>1, <1>2, <1>3, MatchesRest
  <2>4. ASSUME NEW loc, Pending(loc)', loc.area = "heap"
        PROVE  IsField(loc.at)' /\ mem'[loc.at].value # NULL
    <3>1. IsField(loc.at) /\ mem[loc.at].value # NULL
      BY <2>4, <1>1, <1>4, ForwardFacts DEF Pending
    <3> QED
      BY <3>1, <1>1 DEF IsField, Interpretable, FieldsOf, KindOf
  <2>5. \A i \in DOMAIN queue' : Pending(queue[i])'
    BY DEF Pending
  <2> QED
    BY <2>3, <2>4, <2>5, <1>1, ForwardFacts
       DEF RootsOK, IsForwarded, header_is_forwarding_address
<1>7. S \in SUBSET {v \in Pointers : IsForwarded(v)} /\ Forwarded(S)
  OBVIOUS
<1>8. /\ \A x \in Locals : Head(queue) # StackWord(x)
      /\ \A w : Head(queue) # HeapWord(w)
  BY <1>1, <1>2, ServedWord
<1>9. /\ \A x \in Locals : Pending(StackWord(x)) => Pending(StackWord(x))'
      /\ \A w : Pending(HeapWord(w)) => Pending(HeapWord(w))'
  BY <1>4, <1>8
<1>10. Forwarded(S)'
  <2>1. \A b \in S : \A f : FieldForwarded(b, f)' <=> FieldForwarded(b, f)
    BY <1>1 DEF FieldForwarded
  <2> QED
    BY <2>1, <1>1, <1>7, <1>9
       DEF Forwarded, IsForwarded, header_is_forwarding_address, IsHeader,
           Interpretable, FieldsWithin, FieldsOf, KindOf, IdOf, CopyOf,
           CopiesDistinct, InUse, Used
<1>11. ReachableOK'
  BY <1>1, <1>7, <1>10
     DEF ReachableOK, IsForwarded, header_is_forwarding_address
<1>12. MemoryIntact'
  BY <1>1, Typed, MemoryKept
<1> QED
  BY <1>5, <1>6, <1>10, <1>11, <1>12 DEF CollectorIInv

\* A pointer is replaced: the words of the old objects stay as they are, and the
\* pointers of the copy wait in the queue when it is met for the first time.
LEMMA ForwardPointerKeeps ==
  ASSUME CollectorIInv, HeapIInv', ForwardPointer,
         NEW S \in SUBSET {v \in Pointers : IsForwarded(v)}, Forwarded(S),
         NEW from, from = Current, NEW to, to = mem[from - 1].to,
         NEW loc, loc = Head(queue)
  PROVE  /\ CollectorIInv' /\ Forwarded(S)'
         /\ from \in Pointers
         /\ \A u \in Words : loc # HeapWord(u) => mem'[u] = mem[u]
         /\ \A x \in Locals :
              \/ stack'[x] = stack[x]
              \/ stack'[x] = to /\ stack[x] = from
         /\ \A b \in S :
              /\ mem'[b - 1] = mem[b - 1]
              /\ \A f \in PointerFields[KindOf(b)] : mem'[b + f] = mem[b + f]
         /\ \A b \in S : \A c : c = mem[b - 1].to =>
              /\ CopyOf(b, c) /\ c \in Pointers /\ IsHeader(c - 1)
              /\ KindOf(c) = KindOf(b) /\ mem'[c - 1] = mem[c - 1]
<1>1. PICK r :
        /\ from = Current /\ to = mem[from - 1].to /\ loc = Head(queue)
        /\ r = IF FirstVisit(from) THEN PointersOf(to, mem') ELSE <<>>
  OBVIOUS
<1>2. /\ pc = "forward" /\ queue # <<>> /\ ~Changed(expected2)
      /\ IsForwarded(from)
      /\ IF loc.area = "stack"
           THEN stack' = [stack EXCEPT ![loc.at] = to] /\ mem' = mem
           ELSE mem' = [mem EXCEPT ![loc.at] = Plain(to)] /\ stack' = stack
      /\ from \notin visited => Interpretable(to)
      /\ visited' = visited \cup {from}
      /\ queue' \in {Tail(queue), Tail(queue) \o r}
      /\ from \notin visited => queue' = Tail(queue) \o r
      /\ expected2' = Drop(expected2)
      /\ UNCHANGED <<heapVars, dest, cursor, roots, expected1,
                     initial_size_usage, historyVars>>
  BY <1>1 DEF ForwardPointer, IsForwarded, FirstVisit
<1> USE DEF heapVars, pageVars, snapshotVars, historyVars
<1>3. /\ queue \in Seq(QueueWords) /\ expected2 \in Seq(Pointers)
      /\ Matches(queue, expected2, stack)
      /\ \A v \in visited : v \in Pointers /\ IsForwarded(v)
  BY <1>2, ForwardFacts
\* What is at the head of the queue
<1>4. \/ \E s \in Slots : /\ loc = StackWord(s) /\ from = stack[s]
                          /\ stack' = [stack EXCEPT ![s] = to] /\ mem' = mem
         /\ from \in Pointers
      \/ \E w \in Words : /\ loc = HeapWord(w) /\ from = mem[w].value
                          /\ IsField(w) /\ mem[w].value # NULL
                          /\ mem' = [mem EXCEPT ![w] = Plain(to)]
                          /\ stack' = stack
  <2>1. CASE \E w \in Words : Head(queue) = HeapWord(w) /\ Current = mem[w].value
    <3>1. PICK w \in Words : Head(queue) = HeapWord(w) /\ Current = mem[w].value
      BY <2>1
    <3>2. 1 \in DOMAIN queue /\ queue[1] = Head(queue)
      BY <1>2, <1>3
    <3>3. IsField(w) /\ mem[w].value # NULL
      BY <3>1, <3>2, <1>2, Places, ForwardFacts
    <3> QED
      BY <3>1, <3>3, <1>1, <1>2, Places
  <2>2. CASE /\ \E s \in Slots : /\ Head(queue) = StackWord(s)
                                 /\ Current = stack[s]
             /\ Current \in Pointers
    BY <2>2, <1>1, <1>2, Places
  <2> QED
    BY <2>1, <2>2, <1>2, <1>3, ChangedWord
\* A word that is written belongs to an object whose header can be read.
<1>5. ASSUME NEW w, loc = HeapWord(w)
      PROVE  \E g \in Pointers : \E f :
               /\ Interpretable(g) /\ IsHeader(g - 1)
               /\ f \in PointerFields[KindOf(g)] /\ w = g + f
  BY <1>4, <1>5, Places
     DEF IsField, FieldsOf, Interpretable, IsHeader
<1>6. from \in Pointers
  <2>1. CASE \E w \in Words : loc = HeapWord(w) /\ from = mem[w].value
                              /\ mem[w].value # NULL
    BY <2>1, <1>5, FieldFacts, Typed
  <2> QED
    BY <2>1, <1>4
<1>7. from - 1 \in Words /\ IsHeader(from - 1) /\ to \in Pointers
  <2>1. from - 1 \in Words
    BY <1>6, HeaderWord
  <2>2. mem[from - 1].tag = "forward"
    BY <1>2 DEF IsForwarded, header_is_forwarding_address
  <2> QED
    BY <2>1, <2>2, <1>1, Typed, WordCases DEF IsHeader
<1>8. /\ mem' \in [Words -> MemoryWord] /\ MemoryIntact'
      /\ \A u \in Words : IsHeader(u) => IsHeader(u)' /\ mem'[u] = mem[u]
      /\ \A u \in Words : loc # HeapWord(u) => mem'[u] = mem[u]
      /\ \A u \in Words : loc = HeapWord(u) =>
           from = mem[u].value /\ mem'[u].value = to
  <2>1. CASE mem' = mem /\ \E s \in Slots : loc = StackWord(s)
    <3>1. MemoryIntact'
      BY <2>1, <1>2, Typed, MemoryKept
    <3> QED
      BY <2>1, <3>1, Typed, Places DEF IsHeader
  <2>2. CASE \E w \in Words : /\ loc = HeapWord(w) /\ from = mem[w].value
                              /\ mem' = [mem EXCEPT ![w] = Plain(to)]
    <3>1. PICK w \in Words : /\ loc = HeapWord(w) /\ from = mem[w].value
                             /\ mem' = [mem EXCEPT ![w] = Plain(to)]
      BY <2>2
    <3>2. ~IsHeader(w)
      BY <3>1, <1>5, FieldFacts, Typed
    <3>3. /\ mem' \in [Words -> MemoryWord]
          /\ mem'[w] = Plain(to) /\ mem'[w].value = to
          /\ \A u \in Words : IsHeader(u)' = IsHeader(u)
          /\ \A u \in Words : u # w => mem'[u] = mem[u]
          /\ \A u \in Words : IsHeader(u) => mem'[u] = mem[u]
          /\ MemoryIntact'
      BY <3>1, <3>2, <1>2, <1>7, Typed, PointerWritten
    <3> QED
      BY <3>1, <3>3, Places
  <2> QED
    BY <2>1, <2>2, <1>4
<1>9. \A v \in Pointers : IsHeader(v - 1) =>
        /\ v - 1 \in Words /\ mem'[v - 1] = mem[v - 1] /\ IsHeader(v - 1)'
  BY <1>8, HeaderWord
<1>10. \A w : IsField(w) => IsField(w)'
  BY <1>9 DEF IsField, Interpretable, IsHeader, FieldsOf, KindOf
\* What joins the queue
<1>11. /\ r \in Seq(QueueWords)
       /\ \A i \in DOMAIN r : \E w \in Words :
            r[i] = HeapWord(w) /\ IsField(w)' /\ mem'[w].value # NULL
       /\ from \notin visited =>
            \A f \in PointerFields[KindOf(to)] : mem'[to + f].value # NULL =>
              InList(r, HeapWord(to + f))
  <2>1. CASE from \in visited
    BY <2>1, <1>1 DEF FirstVisit
  <2>2. CASE from \notin visited
    <3>1. PICK m : m = mem'
      OBVIOUS
    <3>2. r = PointersOf(to, m) /\ Interpretable(to)
      BY <2>2, <3>1, <1>1, <1>2 DEF FirstVisit
    <3>3. IsHeader(to - 1) /\ m[to - 1].kind = KindOf(to) /\ Interpretable(to)'
      BY <3>1, <3>2, <1>7, <1>9 DEF Interpretable, IsHeader, KindOf
    <3>4. /\ PointersOf(to, m) \in Seq(QueueWords)
          /\ \A i \in DOMAIN PointersOf(to, m) :
               \E f \in PointerFields[KindOf(to)] :
                 /\ m[to + f].value # NULL
                 /\ PointersOf(to, m)[i] = HeapWord(to + f)
          /\ \A f \in PointerFields[KindOf(to)] :
               m[to + f].value # NULL =>
                 InList(PointersOf(to, m), HeapWord(to + f))
      BY <3>3, <1>7, Typed, JoiningFields
    <3>5. \A f \in PointerFields[KindOf(to)] :
            to + f \in Words /\ IsField(to + f)'
      BY <3>1, <3>3, <1>7, Typed, FieldFacts DEF IsField, FieldsOf, KindOf
    <3> QED
      BY <3>1, <3>2, <3>4, <3>5
  <2> QED
    BY <2>1, <2>2
<1>12. /\ queue' \in Seq(QueueWords)
       /\ \A l : Pending(l) => l = loc \/ Pending(l)'
       /\ \A l : Pending(l)' => Pending(l) \/ InList(r, l)
  BY <1>1, <1>2, <1>3, <1>11, PendingRest
<1>13. ASSUME from \notin visited, NEW l, InList(r, l)
       PROVE  Pending(l)'
  <2>1. InList(Tail(queue) \o r, l)
    BY <1>2, <1>3, <1>11, <1>13, RestOfList
  <2> QED
    BY <2>1, <1>2, <1>13 DEF Pending, InList
<1>14. TypesOK'
  <2>1. expected2' \in Seq(Pointers)
    BY <1>2, <1>3, DropType
  <2>2. stack' \in [Slots -> Pointers \cup {NULL}]
    BY <1>4, <1>7, Typed
  <2>3. visited' \subseteq Pointers
    BY <1>2, <1>3, <1>6
  <2> QED
    BY <2>1, <2>2, <2>3, <1>2, <1>8, <1>12 DEF CollectorIInv, TypesOK
\* The variables that do not change
<1>15. ASSUME NEW x \in Locals
       PROVE  \/ stack'[x] = stack[x] /\ loc # StackWord(x)
              \/ stack'[x] = to /\ stack[x] = from /\ loc = StackWord(x)
  BY <1>4, Typed, Places, SlotFacts
<1>16. RootsOK'
  <2>1. PICK st : st = stack'
    OBVIOUS
  <2>2. \A x \in Locals : st[x] = stack[x] \/ Head(queue) = StackWord(x)
    BY <2>1, <1>1, <1>15
  <2>3. Matches(queue', expected2', stack')
    <3>1. \A i \in DOMAIN r : r[i].area = "heap"
      BY <1>11, Places
    <3>2. /\ Matches(Tail(queue), Drop(expected2), st)
          /\ Matches(Tail(queue) \o r, Drop(expected2), st)
      BY <2>2, <3>1, <1>2, <1>3, <1>11, MatchesRest
    <3> QED
      BY <3>2, <2>1, <1>2
  <2>4. \A v \in visited' : IsForwarded(v)'
    BY <1>2, <1>3, <1>6, <1>9
       DEF IsForwarded, header_is_forwarding_address, IsHeader
  <2>5. ASSUME NEW l, Pending(l)', l.area = "heap"
        PROVE  IsField(l.at)' /\ mem'[l.at].value # NULL
    <3>1. CASE Pending(l)
      <4>1. IsField(l.at) /\ mem[l.at].value # NULL
        BY <2>5, <3>1, <1>2, ForwardFacts DEF Pending
      <4>2. l.at \in Words
        BY <4>1, Typed, FieldFacts
           DEF IsField, FieldsOf, Interpretable, IsHeader
      <4>3. mem'[l.at].value # NULL
        BY <4>1, <4>2, <1>7, <1>8, NullFacts
      <4> QED
        BY <4>1, <4>3, <1>10
    <3>2. CASE InList(r, l)
      BY <3>2, <1>11, Places DEF InList
    <3> QED
      BY <3>1, <3>2, <2>5, <1>12
  <2>6. \A i \in DOMAIN queue' : Pending(queue[i])'
    BY DEF Pending
  <2> QED
    BY <2>3, <2>4, <2>5, <2>6, <1>2 DEF RootsOK
<1>17. S \in SUBSET {v \in Pointers : IsForwarded(v)} /\ Forwarded(S)
  OBVIOUS
\* Old objects and their copies
<1>18. ASSUME NEW b \in S, NEW c, c = mem[b - 1].to
       PROVE  /\ b \in Pointers /\ IsHeader(b - 1) /\ b - 1 \in Words
              /\ mem'[b - 1] = mem[b - 1] /\ mem'[b - 1].to = c
              /\ IsForwarded(b) /\ IsForwarded(b)' /\ ~Interpretable(b)
              /\ KindOf(b)' = KindOf(b) /\ CopyOf(b, c)
              /\ c \in Pointers /\ IsHeader(c - 1)
              /\ mem'[c - 1] = mem[c - 1] /\ IsHeader(c - 1)'
              /\ KindOf(c) = KindOf(b)
  <2>1. b \in Pointers /\ IsForwarded(b) /\ CopyOf(b, c)
    BY <1>17, <1>18 DEF Forwarded
  <2>2. b - 1 \in Words /\ mem[b - 1].tag = "forward"
    BY <2>1, HeaderWord DEF IsForwarded, header_is_forwarding_address
  <2>3. c \in Pointers
    BY <2>2, <1>18, Typed, WordCases
  <2>4. IsHeader(c - 1) /\ KindOf(c) = KindOf(b)
    BY <2>1 DEF CopyOf
  <2>5. IsHeader(b - 1) /\ ~Interpretable(b)
    BY <2>2 DEF IsHeader, Interpretable
  <2>6. mem'[b - 1] = mem[b - 1] /\ mem'[c - 1] = mem[c - 1] /\ IsHeader(c - 1)'
    BY <2>1, <2>3, <2>4, <2>5, <1>9
  <2> QED
    BY <2>1, <2>2, <2>3, <2>4, <2>5, <2>6, <1>18
       DEF IsForwarded, header_is_forwarding_address, KindOf
<1>19. ASSUME NEW b \in S, NEW f \in PointerFields[KindOf(b)]
       PROVE  /\ mem'[b + f] = mem[b + f]
              /\ mem[b + f].value \in S \cup {NULL}
  <2>1. PICK c : c = mem[b - 1].to
    OBVIOUS
  <2>2. b \in Pointers /\ IsHeader(b - 1) /\ ~Interpretable(b)
    BY <2>1, <1>18
  <2>3. b + f \in Words
    BY <2>2, Typed, FieldFacts
  <2>4. loc # HeapWord(b + f)
    BY <2>2, <1>5, Typed, FieldsDisjoint
  <2>5. mem[b + f].value \in S \cup {NULL}
    BY <1>17 DEF Forwarded, FieldsWithin, FieldsOf
  <2> QED
    BY <2>3, <2>4, <2>5, <1>8
<1>20. ASSUME NEW b \in S, NEW c, c = mem[b - 1].to
       PROVE  CopyOf(b, c)'
  <2>1. CopyOf(b, c)
    BY <1>18, <1>20
  <2>2. /\ IsForwarded(b)' /\ mem'[b - 1] = mem[b - 1] /\ mem'[b - 1].to = c
        /\ mem'[c - 1] = mem[c - 1] /\ IsHeader(c - 1)'
    BY <1>18, <1>20
  <2> QED
    BY <2>1, <2>2, <1>2 DEF CopyOf, InUse, Used, KindOf, IdOf
\* from was met, or is now, and its copy has a header.
<1>21. ASSUME NEW b \in S, NEW c, c = mem[b - 1].to, b \in visited'
       PROVE  Interpretable(c)'
  <2>1. mem'[c - 1] = mem[c - 1]
    BY <1>18, <1>21
  <2>2. Interpretable(c)
    BY <1>1, <1>2, <1>17, <1>21 DEF Forwarded
  <2> QED
    BY <2>1, <2>2 DEF Interpretable
\* A copy the traversal has met is not what it replaces.
<1>22. ASSUME NEW b \in S, b \in visited
       PROVE  mem[b - 1].to # from
  BY <1>2, <1>17, <1>22
     DEF Forwarded, Interpretable, IsForwarded, header_is_forwarding_address
<1>23. ASSUME NEW b \in S, NEW c, c = mem[b - 1].to,
              NEW f \in PointerFields[KindOf(b)],
              NEW old, old = mem[b + f].value
       PROVE  /\ c + f \in Words
              /\ loc = HeapWord(c + f) => from = mem[c + f].value
              /\ old # NULL => old \in S
              /\ FieldForwarded(b, f) => FieldForwarded(b, f)'
              /\ from = old /\ loc = HeapWord(c + f) => FieldForwarded(b, f)'
  <2>1. /\ c \in Pointers /\ IsHeader(c - 1) /\ KindOf(c) = KindOf(b)
        /\ mem'[b - 1].to = c
    BY <1>18, <1>23
  <2>2. c + f \in Words
    BY <2>1, <1>23, Typed, FieldFacts
  <2>3. old \in S \cup {NULL} /\ mem'[b + f].value = old
    BY <1>19, <1>23
  <2>4. loc = HeapWord(c + f) => from = mem[c + f].value /\ mem'[c + f].value = to
    BY <2>2, <1>8
  <2>5. ASSUME FieldForwarded(b, f)
        PROVE  FieldForwarded(b, f)'
    <3>1. old \in visited /\ mem[c + f].value = mem[old - 1].to
      BY <2>5, <1>23 DEF FieldForwarded
    <3>2. old \in S
      BY <3>1, <2>3, <1>3, NullFacts
    <3>3. mem'[old - 1] = mem[old - 1] /\ mem[old - 1].to # from
      BY <3>1, <3>2, <1>18, <1>22
    <3>4. loc # HeapWord(c + f)
      BY <3>1, <3>3, <2>4
    <3>5. mem'[c + f] = mem[c + f]
      BY <3>4, <2>2, <1>8
    <3> QED
      BY <3>1, <3>3, <3>5, <2>1, <2>3, <1>2 DEF FieldForwarded
  <2>6. ASSUME from = old, loc = HeapWord(c + f)
        PROVE  FieldForwarded(b, f)'
    <3>1. mem'[old - 1] = mem[old - 1]
      BY <2>6, <1>6, <1>7, <1>9
    <3> QED
      BY <3>1, <2>1, <2>3, <2>4, <2>6, <1>1, <1>2 DEF FieldForwarded
  <2> QED
    BY <2>2, <2>3, <2>4, <2>5, <2>6
<1>24. ASSUME NEW b \in S, NEW c, c = mem[b - 1].to,
              NEW f \in PointerFields[KindOf(b)],
              NEW old, old = mem[b + f].value
       PROVE  /\ mem'[c + f].value = old \/ FieldForwarded(b, f)'
              /\ b \in visited' /\ old # NULL =>
                   FieldForwarded(b, f)' \/ Pending(HeapWord(c + f))'
  <2>1. /\ c + f \in Words
        /\ loc = HeapWord(c + f) => from = mem[c + f].value
        /\ old # NULL => old \in S
        /\ FieldForwarded(b, f) => FieldForwarded(b, f)'
        /\ from = old /\ loc = HeapWord(c + f) => FieldForwarded(b, f)'
    BY <1>23, <1>24
  <2>2. loc # HeapWord(c + f) => mem'[c + f] = mem[c + f]
    BY <2>1, <1>8
  <2>3. /\ mem[c + f].value = old \/ FieldForwarded(b, f)
        /\ b \in visited /\ old # NULL =>
             FieldForwarded(b, f) \/ Pending(HeapWord(c + f))
    BY <1>17, <1>24 DEF Forwarded
  <2>4. mem'[c + f].value = old \/ FieldForwarded(b, f)'
    BY <2>1, <2>2, <2>3
  <2>5. CASE b \in visited
    BY <2>1, <2>3, <2>4, <2>5, <1>12
  <2>6. CASE b = from /\ from \notin visited
    <3>1. c = to /\ KindOf(to) = KindOf(b)
      BY <2>6, <1>1, <1>18, <1>24
    <3>2. mem'[c + f].value # NULL => Pending(HeapWord(c + f))'
      BY <3>1, <2>6, <1>11, <1>13
    <3> QED
      BY <3>2, <2>4
  <2> QED
    BY <2>4, <2>5, <2>6, <1>2
<1>25. ASSUME NEW x \in Locals
       PROVE  \/ stack'[x] = NULL
              \/ stack'[x] \in S /\ Pending(StackWord(x))'
              \/ \E b \in S \cap visited' : stack'[x] = mem'[b - 1].to
  <2>1. \/ stack[x] = NULL
        \/ stack[x] \in S /\ Pending(StackWord(x))
        \/ \E b \in S \cap visited : stack[x] = mem[b - 1].to
    BY <1>17 DEF Forwarded
  <2>2. CASE stack'[x] = to /\ stack[x] = from /\ loc = StackWord(x)
    <3>1. from \in S
      BY <2>1, <2>2, <1>6, <1>22, NullFacts
    <3>2. mem'[from - 1].to = to
      BY <3>1, <1>1, <1>18
    <3> QED
      BY <3>1, <3>2, <2>2, <1>2
  <2>3. CASE stack'[x] = stack[x] /\ loc # StackWord(x)
    <3>1. \A b \in S : mem'[b - 1].to = mem[b - 1].to
      BY <1>18
    <3> QED
      BY <3>1, <2>1, <2>3, <1>2, <1>12
  <2> QED
    BY <2>2, <2>3, <1>15
<1>26. ASSUME NEW b \in S
       PROVE  /\ (PageOf(b - 1) \in active_page_array)'
              /\ (CopyOf(b, mem[b - 1].to) /\ mem[b - 1].to \in blocks)'
              /\ FieldsWithin(b, S)'
              /\ (b \in visited => Interpretable(mem[b - 1].to))'
              /\ \A f \in PointerFields[KindOf(b)]' :
                   (LET old == mem[b + f].value
                        c   == mem[b - 1].to
                    IN  /\ mem[c + f].value = old \/ FieldForwarded(b, f)
                        /\ b \in visited /\ old # NULL =>
                             FieldForwarded(b, f) \/ Pending(HeapWord(c + f)))'
  <2>1. PICK c : c = mem[b - 1].to
    OBVIOUS
  <2>2. mem'[b - 1].to = c /\ KindOf(b)' = KindOf(b) /\ CopyOf(b, c)'
    BY <2>1, <1>18, <1>20
  <2>3. PageOf(b - 1) \in active_page_array' /\ c \in blocks'
    BY <2>1, <1>2, <1>17 DEF Forwarded
  <2>4. FieldsWithin(b, S)'
    BY <2>2, <1>19 DEF FieldsWithin, FieldsOf
  <2>5. b \in visited' => Interpretable(c)'
    BY <2>1, <1>21
  <2>6. ASSUME NEW f \in PointerFields[KindOf(b)]
        PROVE  /\ mem'[c + f].value = mem'[b + f].value \/ FieldForwarded(b, f)'
               /\ b \in visited' /\ mem'[b + f].value # NULL =>
                    FieldForwarded(b, f)' \/ Pending(HeapWord(c + f))'
    <3>1. PICK old : old = mem[b + f].value
      OBVIOUS
    <3>2. mem'[b + f].value = old
      BY <3>1, <1>19
    <3> QED
      BY <3>1, <3>2, <2>1, <1>24
  <2> QED
    BY <2>2, <2>3, <2>4, <2>5, <2>6
<1>27. CopiesDistinct(S)'
  <2>1. \A b \in S : IsForwarded(b) /\ mem'[b - 1].to = mem[b - 1].to
    BY <1>18
  <2> QED
    BY <2>1, <1>17 DEF Forwarded, CopiesDistinct
<1>28. Forwarded(S)'
  BY <1>25, <1>26, <1>27 DEF Forwarded
<1>29. S \in SUBSET {v \in Pointers : IsForwarded(v)'}
  BY <1>18
<1>30. ReachableOK'
  BY <1>2, <1>28, <1>29 DEF ReachableOK
<1>31. CollectorIInv'
  BY <1>8, <1>14, <1>16, <1>30 DEF CollectorIInv
<1> QED
  BY <1>6, <1>8, <1>15, <1>18, <1>19, <1>28, <1>31

\* The queue is empty: the copies the traversal met are what the program goes on
\* with.
LEMMA FinishGcKeeps ==
  ASSUME CollectorIInv, HeapIInv', FinishGc,
         NEW S \in SUBSET {v \in Pointers : IsForwarded(v)}, Forwarded(S),
         NEW T, T = {mem[b - 1].to : b \in S \cap visited}
  PROVE  CollectorIInv' /\ Sound(T)'
<1>1. /\ pc = "forward" /\ pc' \in {"mutator", "place"} /\ queue = <<>>
      /\ cursor' = 1 /\ roots' = <<>> /\ expected1' = <<>> /\ expected2' = <<>>
      /\ visited' = {} /\ copies' = {}
      /\ UNCHANGED <<pageVars, request, stack, mem, dest, queue, blocks,
                     allocations, collections>>
  BY DEF FinishGc, EndForward
<1> USE DEF pageVars
<1>2. TypesOK'
  <2>1. 1 \in 1 .. NumTemps + NumLocals + 1
    BY SlotFacts
  <2> QED
    BY <2>1, <1>1 DEF CollectorIInv, TypesOK
<1>3. MemoryIntact'
  BY <1>1, Typed, MemoryKept
<1>4. RootsOK'
  BY <1>1 DEF RootsOK
<1>5. S \in SUBSET {v \in Pointers : IsForwarded(v)} /\ Forwarded(S)
  OBVIOUS
<1>6. T = {mem[b - 1].to : b \in S \cap visited}
  OBVIOUS
<1>7. \A loc : ~Pending(loc)
  BY <1>1 DEF Pending
<1>8. \A x \in Locals : stack'[x] \in T \cup {NULL}
  BY <1>1, <1>5, <1>6, <1>7 DEF Forwarded
<1>9. ASSUME NEW c \in T
      PROVE  /\ c \in blocks /\ Interpretable(c) /\ InUse(c - 1)
             /\ \A f \in PointerFields[KindOf(c)] :
                  mem[c + f].value \in T \cup {NULL}
  <2>1. PICK b \in S \cap visited : c = mem[b - 1].to
    BY <1>6
  <2>2. /\ c \in blocks /\ Interpretable(c) /\ CopyOf(b, c)
        /\ FieldsWithin(b, S)
    BY <1>5, <2>1 DEF Forwarded
  <2>3. InUse(c - 1) /\ KindOf(c) = KindOf(b)
    BY <2>2 DEF CopyOf
  <2>4. ASSUME NEW f \in PointerFields[KindOf(b)]
        PROVE  mem[c + f].value \in T \cup {NULL}
    <3>1. PICK old : old = mem[b + f].value
      OBVIOUS
    <3>2. old \in S \cup {NULL}
      BY <2>2, <3>1 DEF FieldsWithin, FieldsOf
    <3>3. /\ mem[c + f].value = old \/ FieldForwarded(b, f)
          /\ old # NULL => FieldForwarded(b, f)
      BY <1>5, <1>7, <2>1, <3>1 DEF Forwarded
    <3>4. CASE FieldForwarded(b, f)
      <4>1. old \in visited /\ mem[c + f].value = mem[old - 1].to
        BY <2>1, <3>1, <3>4 DEF FieldForwarded
      <4>2. old \in S
        BY <4>1, <3>2, <1>1, ForwardFacts, NullFacts
      <4> QED
        BY <4>1, <4>2, <1>6
    <3>5. CASE ~FieldForwarded(b, f)
      BY <3>3, <3>5
    <3> QED
      BY <3>4, <3>5
  <2> QED
    BY <2>2, <2>3, <2>4
<1>10. ASSUME NEW c \in T
       PROVE  /\ Interpretable(c)' /\ InUse(c - 1)' /\ FieldsWithin(c, T)'
  BY <1>1, <1>9
     DEF Interpretable, InUse, Used, FieldsWithin, FieldsOf, KindOf
<1>11. Sound(T)'
  BY <1>8, <1>10 DEF Sound
<1>12. T \in SUBSET blocks'
  BY <1>1, <1>9
<1>13. ReachableOK'
  BY <1>1, <1>11, <1>12 DEF ReachableOK
<1> QED
  BY <1>2, <1>3, <1>4, <1>11, <1>13 DEF CollectorIInv

-----------------------------------------------------------------------------
(* The words that change while the collector runs *)

\* The collector's own words are pointers to objects.
LEMMA CollectorWordsArePointers ==
  ASSUME CollectorIInv, pc \in CollectorPcs
  PROVE  CollectorWords \subseteq Pointers
<1>1. CASE pc = "scan"
  BY <1>1 DEF CollectorWords, CollectorIInv, TypesOK
<1>2. CASE pc = "move"
  <2>1. blocks \subseteq Pointers /\ expected2 \in Seq(Pointers)
        /\ Len(expected1) \in Nat
    BY DEF CollectorIInv, TypesOK
  <2>2. \A i \in 1 .. Len(expected2) - Len(expected1) : expected2[i] \in Pointers
    BY <2>1
  <2> QED
    BY <1>2, <2>1, <2>2 DEF CollectorWords
<1>3. CASE pc = "forward"
  <2>1. ASSUME NEW v \in visited
        PROVE  v \in Pointers /\ mem[v - 1].to \in Pointers
    <3>1. v \in Pointers /\ IsForwarded(v)
      BY <1>3, ForwardFacts
    <3>2. v - 1 \in Words /\ mem[v - 1].tag = "forward"
      BY <3>1, HeaderWord DEF IsForwarded, header_is_forwarding_address
    <3> QED
      BY <3>1, <3>2, Typed, WordCases
  <2> QED
    BY <1>3, <2>1 DEF CollectorWords
<1> QED
  BY <1>1, <1>2, <1>3 DEF CollectorPcs

\* The lists depend on the program's variables only.
LEMMA MatchesLocals ==
  ASSUME NEW q, NEW e, NEW st, NEW st2, Matches(q, e, st),
         \A x \in Locals : st2[x] = st[x]
  PROVE  Matches(q, e, st2)
  BY DEF Matches

\* Only words that are none of the program's variables change, or nothing.
LEMMA StaleWordsKeep ==
  ASSUME CollectorIInv, HeapIInv',
         stack' \in [Slots -> Pointers \cup {NULL}],
         \A x \in Locals : stack'[x] = stack[x],
         UNCHANGED <<heapVars, mem, dest, gcVars, historyVars>>
  PROVE  CollectorIInv'
<1>1. UNCHANGED <<heapVars, mem, dest, gcVars, historyVars>>
  OBVIOUS
<1> USE DEF heapVars, pageVars, snapshotVars, gcVars, rootVars, traversalVars,
            historyVars
<1>3. PICK st : st = stack'
  OBVIOUS
<1>4. \A x \in Locals : st[x] = stack[x]
  BY <1>3
<1>5. TypesOK'
  BY <1>1 DEF CollectorIInv, TypesOK
<1>6. MemoryIntact'
  BY <1>1, Typed, MemoryKept
<1>7. RootsOK'
  <2>1. \A q, e : Matches(q, e, stack) => Matches(q, e, st)
    BY <1>4, MatchesLocals
  <2>2. \A w : IsField(w)' = IsField(w)
    BY <1>1 DEF IsField, Interpretable, FieldsOf, KindOf
  <2> QED
    BY <2>1, <2>2, <1>1, <1>3, <1>4
       DEF CollectorIInv, RootsOK, IsForwarded, header_is_forwarding_address
<1>8. ASSUME NEW S
      PROVE  /\ Sound(S) => Sound(S)'
             /\ Moved(S) => Moved(S)'
             /\ Forwarded(S) => Forwarded(S)'
  <2>1. \A x \in Locals : stack'[x] = stack[x]
    BY <1>3, <1>4
  <2>2. /\ \A loc : Pending(loc)' = Pending(loc)
        /\ \A b : IsForwarded(b)' = IsForwarded(b)
        /\ \A b : Interpretable(b)' = Interpretable(b)
        /\ \A w : InUse(w)' = InUse(w) /\ IsHeader(w)' = IsHeader(w)
        /\ \A b : KindOf(b)' = KindOf(b) /\ IdOf(b)' = IdOf(b)
    BY <1>1 DEF Pending, IsForwarded, header_is_forwarding_address,
                Interpretable, InUse, Used, IsHeader, KindOf, IdOf
  <2>3. \A b : FieldsOf(b)' = FieldsOf(b)
    BY <2>2 DEF FieldsOf
  <2>4. /\ \A b : FieldsWithin(b, S)' = FieldsWithin(b, S)
        /\ \A b, c : CopyOf(b, c)' = CopyOf(b, c)
        /\ \A b, c : SameFields(b, c)' = SameFields(b, c)
        /\ \A b, f : FieldForwarded(b, f)' = FieldForwarded(b, f)
        /\ CopiesDistinct(S)' = CopiesDistinct(S)
    BY <2>2, <2>3, <1>1 DEF FieldsWithin, CopyOf, SameFields, FieldForwarded,
                            CopiesDistinct
  <2>5. Sound(S) => Sound(S)'
    BY <2>1, <2>2, <2>4 DEF Sound
  <2>6. Moved(S) => Moved(S)'
    BY <2>1, <2>2, <2>3, <2>4, <1>1 DEF Moved, IsForwarded,
                            header_is_forwarding_address
  <2>7. Forwarded(S) => Forwarded(S)'
    BY <2>1, <2>2, <2>4, <1>1 DEF Forwarded, Interpretable
  <2> QED
    BY <2>5, <2>6, <2>7
<1>9. ReachableOK'
  BY <1>8, <1>1
     DEF CollectorIInv, ReachableOK, IsForwarded, header_is_forwarding_address
<1> QED
  BY <1>5, <1>6, <1>7, <1>9 DEF CollectorIInv

\* A stale word may change to any pointer the collector has at hand.
LEMMA ClobberKeeps ==
  ASSUME CollectorIInv, HeapIInv', NEW t \in Temps, Clobber(t)
  PROVE  CollectorIInv'
<1>1. PICK v \in CollectorWords \cup {NULL} :
        /\ pc \in CollectorPcs /\ stack' = [stack EXCEPT ![t] = v]
        /\ UNCHANGED <<heapVars, mem, dest, gcVars, historyVars>>
  BY DEF Clobber
<1>2. v \in Pointers \cup {NULL}
  BY <1>1, CollectorWordsArePointers
<1>3. /\ stack' \in [Slots -> Pointers \cup {NULL}]
      /\ \A x \in Locals : stack'[x] = stack[x]
  BY <1>1, <1>2, SlotFacts, Typed
<1> QED
  BY <1>1, <1>3, StaleWordsKeep

-----------------------------------------------------------------------------
(* All steps together *)

\* The heap begins empty, and memory without headers.
LEMMA CollectorInit == Init => CollectorIInv
<1> SUFFICES ASSUME Init
             PROVE  CollectorIInv
  OBVIOUS
<1>1. /\ HeapIInv /\ pc = "mutator" /\ request = NONE
  BY HeapInitInv DEF Init, HeapInit
<1>2. mem = [w \in Words |-> Plain(NULL)]
  BY DEF Init
<1>3. MemoryIntact
  BY <1>2, WordsWritten DEF MemoryIntact, IsHeader
<1>4. TypesOK
  <2>1. mem \in [Words -> MemoryWord]
    BY <1>2, WordsWritten
  <2>2. stack \in [Slots -> Pointers \cup {NULL}]
    BY DEF Init
  <2>3. 1 \in 1 .. NumTemps + NumLocals + 1
    BY SlotFacts
  <2>4. 0 \in 0 .. MaxAllocations /\ 0 \in 0 .. MaxCollections
    BY CompactingAssumption
  <2> QED
    BY <2>1, <2>2, <2>3, <2>4, <1>1 DEF Init, TypesOK
<1>5. RootsOK
  BY <1>1 DEF Init, RootsOK
<1>6. Sound({})
  BY SlotFacts DEF Init, Sound
<1>7. ReachableOK
  BY <1>1, <1>6 DEF ReachableOK
<1> QED
  BY <1>1, <1>3, <1>4, <1>5, <1>7 DEF CollectorIInv

\* The program between its calls, and its calls
LEMMA ProgramKeeps ==
  ASSUME CollectorIInv, HeapIInv', Program, NEW S \in SUBSET blocks, Sound(S)
  PROVE  /\ CollectorIInv' /\ Sound(S)'
         /\ \A b \in S : mem'[b - 1] = mem[b - 1]
<1>1. CASE \E x \in Locals, k \in Kinds : Alloc(x, k)
  BY <1>1, CallsKeep
<1>2. ASSUME NEW x \in Locals, NEW y \in Locals, NEW f, Load(x, y, f)
      PROVE  /\ CollectorIInv' /\ Sound(S)'
             /\ \A b \in S : mem'[b - 1] = mem[b - 1]
  BY <1>2, LoadKeeps
<1>3. ASSUME NEW x \in Locals, NEW y \in Locals, NEW f, Store(y, f, x)
      PROVE  /\ CollectorIInv' /\ Sound(S)'
             /\ \A b \in S : mem'[b - 1] = mem[b - 1]
  BY <1>3, StoreKeeps
<1>4. ASSUME NEW x \in Locals, WriteRaw(x)
      PROVE  /\ CollectorIInv' /\ Sound(S)'
             /\ \A b \in S : mem'[b - 1] = mem[b - 1]
  BY <1>4, WriteRawKeeps
<1>5. ASSUME NEW x \in Locals, Clear(x)
      PROVE  /\ CollectorIInv' /\ Sound(S)'
             /\ \A b \in S : mem'[b - 1] = mem[b - 1]
  BY <1>5, StackWriteKeeps
<1>6. ASSUME NEW x \in Locals, NEW t \in Temps, LeaveStale(t, x)
      PROVE  /\ CollectorIInv' /\ Sound(S)'
             /\ \A b \in S : mem'[b - 1] = mem[b - 1]
  BY <1>6, StackWriteKeeps
<1>7. CASE Gc
  BY <1>7, CallsKeep
<1> QED
  BY <1>1, <1>2, <1>3, <1>4, <1>5, <1>6, <1>7 DEF Program

\* A stopped program is bound to nothing but intact memory.
LEMMA FailuresKeep ==
  ASSUME CollectorIInv, HeapIInv',
         MoveFails \/ ForwardFails \/ PlaceObjectFails
         \/ (Stopped /\ UNCHANGED <<stack, mem, dest, gcVars, historyVars>>)
  PROVE  CollectorIInv'
<1>1. /\ pc' \in StoppedPcs
      /\ UNCHANGED <<pageVars, request, stack, mem, dest, gcVars, historyVars>>
  <2>1. CASE MoveFails
    BY <2>1 DEF MoveFails, HeaderAssertFails, EvacuateFails, StoppedPcs, AbortPcs
  <2>2. CASE ForwardFails
    BY <2>2 DEF ForwardFails, HeaderAssertFails, StoppedPcs, AbortPcs
  <2>3. CASE PlaceObjectFails
    BY <2>3 DEF PlaceObjectFails, PlaceFails, StoppedPcs, AbortPcs
  <2>4. CASE Stopped /\ UNCHANGED <<stack, mem, dest, gcVars, historyVars>>
    BY <2>4 DEF Stopped, heapVars
  <2> QED
    BY <2>1, <2>2, <2>3, <2>4
<1> QED
  BY <1>1, StopKeeps

\* The steps of the collection
LEMMA CollectionKeeps ==
  ASSUME RawFitsSlot, CollectorIInv, HeapIInv', Collector
  PROVE  CollectorIInv'
<1>1. CASE ScanWord \/ StartMove
  <2>1. PICK S \in SUBSET blocks : Sound(S)
    BY <1>1, SoundSet DEF ScanWord, StartMove, BeginMove
  <2> QED
    BY <2>1, <1>1, ScanWordKeeps, StartMoveKeeps
<1>2. CASE MoveSkip \/ StartForward \/ \E p \in Pages : MoveObject(p)
  <2>1. PICK S \in SUBSET blocks : Moved(S)
    BY <1>2, MoveFacts DEF MoveSkip, StartForward, EndMove, MoveObject, Moving
  <2>2. CASE \E p \in Pages : MoveObject(p)
    BY <2>1, <2>2, MoveObjectKeeps
  <2> QED
    BY <2>1, <2>2, <1>2, MoveSkipKeeps, StartForwardKeeps
<1>3. CASE ForwardSkip \/ ForwardPointer \/ FinishGc
  <2>1. PICK S \in SUBSET {v \in Pointers : IsForwarded(v)} : Forwarded(S)
    BY <1>3, ForwardFacts
       DEF ForwardSkip, ForwardPointer, FinishGc, EndForward
  <2> QED
    BY <2>1, <1>3, ForwardSkipKeeps, ForwardPointerKeeps, FinishGcKeeps
<1>4. CASE MoveFails \/ ForwardFails
  BY <1>4, FailuresKeep
<1> QED
  BY <1>1, <1>2, <1>3, <1>4 DEF Collector

\* The invariant is inductive.
LEMMA CollectorNext ==
  ASSUME RawFitsSlot, CollectorIInv, [Next]_vars
  PROVE  CollectorIInv'
<1>1. HeapIInv'
  BY StepsImplementHeap, HeapNextInv DEF CollectorIInv
<1>2. CASE Placement
  <2>1. CASE \E p \in Pages : PlaceObject(p)
    <3>1. PICK S \in SUBSET blocks : Sound(S)
      BY <2>1, SoundSet DEF PlaceObject, Place
    <3> QED
      BY <3>1, <2>1, <1>1, PlaceObjectKeeps
  <2> QED
    BY <2>1, <1>1, <1>2, FailuresKeep DEF Placement
<1>3. CASE UNCHANGED vars
  <2>1. UNCHANGED <<heapVars, stack, mem, dest, gcVars, historyVars>>
    BY <1>3 DEF vars
  <2> QED
    BY <2>1, <1>1, Typed, StaleWordsKeep
<1>4. CASE Program
  <2>1. PICK S \in SUBSET blocks : Sound(S)
    BY <1>4, SoundSet
       DEF Program, Alloc, HAlloc, Gc, HGc, Load, Store, Clear, WriteRaw,
           LeaveStale
  <2> QED
    BY <2>1, <1>1, <1>4, ProgramKeeps
<1>5. CASE Collector
  BY <1>1, <1>5, CollectionKeeps
<1>6. CASE \E t \in Temps : Clobber(t)
  BY <1>1, <1>6, ClobberKeeps
<1>7. CASE Stopped /\ UNCHANGED <<stack, mem, dest, gcVars, historyVars>>
  BY <1>1, <1>7, FailuresKeep
<1> QED
  BY <1>2, <1>3, <1>4, <1>5, <1>6, <1>7 DEF Next

\* The inductive invariant holds in every reachable state: memory is intact,
\* and what the program reaches is a sound set of objects between collections,
\* is moved completely and is forwarded completely, for any number of objects,
\* collections and stale words.
THEOREM CollectorInvariantHolds ==
  ASSUME RawFitsSlot
  PROVE  Spec => []CollectorIInv
<1>1. Init => CollectorIInv
  BY CollectorInit
<1>2. CollectorIInv /\ [Next]_vars => CollectorIInv'
  BY CollectorNext
<1> QED
  BY <1>1, <1>2, PTL DEF Spec

-----------------------------------------------------------------------------
(* What follows for the program *)

\* A set that the variables point into and that is closed has all that can be
\* reached; and what can be reached is closed.
LEMMA ReachableWithin ==
  ASSUME NEW S \in SUBSET blocks,
         \A x \in Locals : stack[x] \in S \cup {NULL},
         \A b \in S : FieldsWithin(b, S)
  PROVE  /\ Reachable \subseteq S
         /\ \A x \in Locals : stack[x] \in Reachable \cup {NULL}
         /\ Closed(Reachable)
<1>1. Closed(S)
  BY DEF Closed, FieldsWithin
<1>2. Reachable \subseteq S
  BY <1>1 DEF Reachable
<1>3. \A x \in Locals : stack[x] \in Reachable \cup {NULL}
  BY DEF Reachable
<1>4. Closed(Reachable)
  <2> SUFFICES ASSUME NEW b \in Reachable, NEW w \in FieldsOf(b),
                      mem[w].value # NULL
               PROVE  mem[w].value \in Reachable
    BY DEF Closed
  <2>1. mem[w].value \in blocks
    BY <1>2 DEF FieldsWithin
  <2>2. ASSUME NEW T \in SUBSET blocks,
               \A x \in Locals : stack[x] \in T \cup {NULL}, Closed(T)
        PROVE  mem[w].value \in T
    <3>1. b \in T
      BY <2>2 DEF Reachable
    <3> QED
      BY <3>1, <2>2 DEF Closed
  <2> QED
    BY <2>1, <2>2 DEF Reachable
<1> QED
  BY <1>2, <1>3, <1>4

\* Whatever stale words an earlier collection met, what the program reaches is
\* intact.
THEOREM ReachablePointersStayValid ==
  ASSUME RawFitsSlot
  PROVE  Spec => []ReachablePointersValid
<1>1. CollectorIInv => ReachablePointersValid
  <2> SUFFICES ASSUME CollectorIInv, pc \in {"mutator", "scan", "place"}
               PROVE  /\ \A x \in Locals : stack[x] \in Reachable \cup {NULL}
                      /\ \A b \in Reachable : Interpretable(b)
                      /\ Closed(Reachable)
    BY DEF ReachablePointersValid
  <2>1. PICK S \in SUBSET blocks : Sound(S)
    BY SoundSet
  <2> QED
    BY <2>1, ReachableWithin DEF Sound
<1> QED
  BY <1>1, CollectorInvariantHolds, PTL

\* traverse_and_move loses no object, whatever the stack holds besides the
\* program's variables.
THEOREM NothingIsLostByMove ==
  ASSUME RawFitsSlot
  PROVE  Spec => []NothingLostByMove
<1>1. CollectorIInv => NothingLostByMove
  <2> SUFFICES ASSUME CollectorIInv, pc = "move"
               PROVE  NothingLostByMove
    BY DEF NothingLostByMove
  <2>1. PICK S \in SUBSET blocks : Moved(S)
    BY MoveFacts
  <2>2. Reachable \subseteq S
    BY <2>1, ReachableWithin DEF Moved
  <2>3. ASSUME NEW b \in Reachable, IsForwarded(b)
        PROVE  /\ mem[b - 1].to \in copies
               /\ \A w \in FieldsOf(b) : mem[w].value # NULL =>
                    IsForwarded(mem[w].value) \/ Pending(HeapWord(w))
    BY <2>1, <2>2, <2>3 DEF Moved, CopyOf
  <2> QED
    BY <2>1, <2>3 DEF Moved, NothingLostByMove
<1> QED
  BY <1>1, CollectorInvariantHolds, PTL

\* traverse_and_forward forgets no pointer: when its queue is empty, the heap it
\* leaves is closed.
THEOREM NoPointerIsForgotten ==
  ASSUME RawFitsSlot
  PROVE  Spec => []NoPointerForgotten
<1>1. CollectorIInv => NoPointerForgotten
  <2> SUFFICES ASSUME CollectorIInv, pc = "forward"
               PROVE  NoPointerForgotten
    BY DEF NoPointerForgotten
  <2>1. PICK S \in SUBSET {v \in Pointers : IsForwarded(v)} : Forwarded(S)
    BY ForwardFacts
  <2>2. PICK T : T = {mem[b - 1].to : b \in S \cap visited}
    OBVIOUS
  <2>3. T \in SUBSET (copies \cap {mem[v - 1].to : v \in visited})
    BY <2>1, <2>2 DEF Forwarded, CopyOf
  <2>4. \A x \in Locals : stack[x] \in T \cup {NULL} \/ Pending(StackWord(x))
    BY <2>1, <2>2 DEF Forwarded
  <2>5. ASSUME NEW c \in T, NEW w \in FieldsOf(c)
        PROVE  mem[w].value \in T \cup {NULL} \/ Pending(HeapWord(w))
    <3>1. PICK b \in S \cap visited : c = mem[b - 1].to
      BY <2>2
    <3>2. KindOf(c) = KindOf(b) /\ FieldsWithin(b, S)
      BY <2>1, <3>1 DEF Forwarded, CopyOf
    <3>3. PICK f \in PointerFields[KindOf(b)] : w = c + f
      BY <3>2 DEF FieldsOf
    <3>4. PICK old : old = mem[b + f].value
      OBVIOUS
    <3>5. /\ mem[c + f].value = old \/ FieldForwarded(b, f)
          /\ old # NULL => FieldForwarded(b, f) \/ Pending(HeapWord(c + f))
      BY <2>1, <3>1, <3>4 DEF Forwarded
    <3>6. ASSUME FieldForwarded(b, f)
          PROVE  mem[c + f].value \in T
      <4>1. old \in visited /\ mem[c + f].value = mem[old - 1].to
        BY <3>1, <3>4, <3>6 DEF FieldForwarded
      <4>2. old \in S \cup {NULL}
        BY <3>2, <3>4 DEF FieldsWithin, FieldsOf
      <4>3. old \in S
        BY <4>1, <4>2, ForwardFacts, NullFacts
      <4> QED
        BY <4>1, <4>3, <2>2
    <3> QED
      BY <3>3, <3>5, <3>6
  <2> QED
    BY <2>3, <2>4, <2>5 DEF NoPointerForgotten
<1> QED
  BY <1>1, CollectorInvariantHolds, PTL

\* Every variable keeps its type; the count of bytes at the beginning of a
\* collection is a number, no matter what is in the pages.
THEOREM CompactingTypeCorrect ==
  ASSUME RawFitsSlot
  PROVE  Spec => []CompactingTypeOK
<1> DEFINE Sized == initial_size_usage \in Nat
<1>1. Init => Sized
  BY DEF Init
<1>2. CollectorIInv /\ Sized /\ [Next]_vars => Sized'
  <2> SUFFICES ASSUME CollectorIInv, Sized, [Next]_vars
               PROVE  Sized'
    OBVIOUS
  <2>1. count_allocated_bytes_on_heap \in Nat
    BY Typed, CountType
  <2>2. initial_size_usage' \in
          {initial_size_usage, 0, count_allocated_bytes_on_heap}
    BY DEF Next, vars, Program, Collector, Placement, Alloc, Gc, Load, Store,
           Clear, WriteRaw, LeaveStale, Clobber, ScanWord, StartMove, MoveSkip,
           MoveObject, MoveFails, StartForward, ForwardSkip, ForwardPointer,
           ForwardFails, FinishGc, PlaceObject, PlaceObjectFails, gcVars
  <2> QED
    BY <2>1, <2>2
<1>3. CollectorIInv /\ Sized => CompactingTypeOK
  <2> SUFFICES ASSUME CollectorIInv, Sized
               PROVE  CompactingTypeOK
    OBVIOUS
  <2>1. Pointers \subseteq Words
    BY HeaderWord
  <2>2. mem \in [Words -> Word]
    BY Typed, WordCases
  <2>3. \A i \in DOMAIN roots : roots[i] \in {StackWord(s) : s \in Slots}
    BY DEF CollectorIInv, TypesOK, StackWords
  <2>4. \A i \in DOMAIN queue :
          queue[i] \in {StackWord(s) : s \in Slots} \cup
                       {HeapWord(w) : w \in Words}
    BY DEF CollectorIInv, TypesOK, StackWords, QueueWords
  <2>5. expected1 \in Seq(Words) /\ expected2 \in Seq(Words)
    BY <2>1, WiderSeq DEF CollectorIInv, TypesOK
  <2> QED
    BY <2>1, <2>2, <2>3, <2>4, <2>5, Typed
       DEF CollectorIInv, TypesOK, CompactingTypeOK
<1> QED
  BY <1>1, <1>2, <1>3, CollectorInvariantHolds, PTL DEF Spec

=============================================================================
