-------------------------- MODULE LinkedListProofs --------------------------
(***************************************************************************)
(* Lists of every length, of elements, predicates and updates of every     *)
(* kind, in any number of nodes: the nodes form the list that size, last   *)
(* and the sentinel say, memory is safe, and the module implements         *)
(* AbstractList.                                                           *)
(***************************************************************************)
EXTENDS LinkedList, TLAPS

\* What kind of call it is, its op says.
LEMMA CallKinds ==
  /\ \A c \in IndexedCalls :
       /\ c.op \in {"insert", "get", "remove"} /\ c.index \in Int
       /\ c.op = "insert" => c.value \in Value
  /\ \A c \in SearchCalls : c.op \in {"contains", "any", "all"}
  /\ \A c \in ApplyCalls : c.op = "apply_to_all" /\ c.fun \in Updates
  /\ \A c \in FreeingCalls : c.op \in {"clear", "destroy"}
  /\ \A c \in SizeCalls : c.op \in {"size", "is_empty"}
  /\ NoCall \notin IndexedCalls \cup SearchCalls \cup ApplyCalls
                     \cup FreeingCalls \cup SizeCalls
<1>1. \A c \in IndexedCalls :
        /\ c.op \in {"insert", "get", "remove"} /\ c.index \in Indices
        /\ c.op = "insert" => c.value \in Value
  BY DEF IndexedCalls
<1>2. Indices \subseteq Int /\ NoCall \notin Calls
  BY ListCallsAssumption
<1>3. /\ \A c \in SearchCalls : c.op \in {"contains", "any", "all"}
      /\ \A c \in ApplyCalls : c.op = "apply_to_all" /\ c.fun \in Updates
      /\ \A c \in FreeingCalls : c.op \in {"clear", "destroy"}
      /\ \A c \in SizeCalls : c.op \in {"size", "is_empty"}
  BY DEF SearchCalls, ApplyCalls, FreeingCalls, SizeCalls
<1> QED
  BY <1>1, <1>2, <1>3 DEF Calls

\* No call is of two kinds.
LEMMA KindsDisjoint ==
  ASSUME NEW c
  PROVE  /\ c \in IndexedCalls => c \notin SearchCalls \cup ApplyCalls
                                    \cup FreeingCalls \cup SizeCalls
         /\ c \in SearchCalls =>
              c \notin ApplyCalls \cup FreeingCalls \cup SizeCalls
         /\ c \in ApplyCalls => c \notin FreeingCalls \cup SizeCalls
         /\ c \in FreeingCalls => c \notin SizeCalls
  BY CallKinds

LEMMA ListInitInv == Init => ListIInv
<1> SUFFICES ASSUME Init PROVE ListIInv
  OBVIOUS
<1> USE DEF Init
<1>1. ListTypeOK
  BY ListCallsAssumption DEF ListTypeOK
<1>2. PathIntact /\ MemorySafe
  BY DEF PathIntact, MemorySafe
<1>3. ListShape /\ CallPosition /\ SearchedSoFar /\ AppliedSoFar /\ FreedSoFar
  BY CallKinds DEF ListShape, CallPosition, SearchedSoFar, AppliedSoFar,
                   FreedSoFar
<1> QED
  BY <1>1, <1>2, <1>3 DEF ListIInv

\* When a call returns, nothing is claimed of its locals any more.
LEMMA ReturnedInv ==
  ASSUME NEW a, Answers(a)
  PROVE  CallPosition' /\ SearchedSoFar' /\ AppliedSoFar' /\ FreedSoFar'
<1>1. call' = NoCall /\ ptr' = NULL /\ prev' = NULL
  BY DEF Answers
<1> QED
  BY <1>1, CallKinds
     DEF CallPosition, SearchedSoFar, AppliedSoFar, FreedSoFar

\* A step that only moves a call along the list leaves the list in order.
LEMMA ListKept ==
  ASSUME ListIInv, first # NULL, call \notin FreeingCalls,
         UNCHANGED <<memoryVars, listVars, path>>,
         call' \in Calls \cup {NoCall}, prev' = NULL, i' \in 0 .. MaxLength,
         ptr' \in {path[j] : j \in 0 .. size} \cup {NULL}
  PROVE  ListTypeOK' /\ PathIntact' /\ MemorySafe' /\ ListShape'
<1> USE DEF ListIInv, memoryVars, listVars
<1>1. /\ {path[j] : j \in 0 .. size} \subseteq Nodes
      /\ allocated = {path[j] : j \in 0 .. size}
  BY DEF ListShape, MemorySafe
<1>2. ListTypeOK'
  BY <1>1 DEF ListTypeOK
<1>3. PathIntact'
  BY DEF PathIntact
<1>4. MemorySafe'
  BY <1>1 DEF MemorySafe
<1>5. ListShape'
  BY DEF ListShape
<1> QED
  BY <1>2, <1>3, <1>4, <1>5

\* What the invariant says of a list that is not being freed
LEMMA ListFacts ==
  ASSUME ListIInv, first # NULL, call \notin FreeingCalls
  PROVE  /\ size \in Nat /\ size <= MaxLength /\ MaxLength \in Nat
         /\ path \in [0 .. size -> Nodes]
         /\ \A j, k \in 0 .. size : path[j] = path[k] => j = k
         /\ path[0] = first /\ path[size] = last /\ prev = NULL
         /\ \A j \in 0 .. size : next[path[j]] = Successor(j)
         /\ \A j \in 1 .. size : value[path[j]] \in Value
         /\ \A j \in 0 .. size : path[j] # NULL
         /\ allocated = {path[j] : j \in 0 .. size}
  BY ListCallsAssumption, LinkedListAssumption
     DEF ListIInv, ListTypeOK, PathIntact, MemorySafe, ListShape,
         CallPosition, Successor

\* A call under way has a list.
LEMMA CallHasList == ListIInv /\ call # NoCall => first # NULL
  BY DEF ListIInv, ListShape

\* A list appears: a sentinel and nothing after it.
LEMMA CreateInv ==
  ASSUME ListIInv, NEW n \in Nodes, Create(n)
  PROVE  ListIInv'
<1> USE DEF ListIInv, Create, listVars, localVars
<1>0. /\ call = NoCall /\ call' = NoCall /\ ptr' = NULL /\ prev' = NULL
      /\ first' = n /\ last' = n /\ size' = 0 /\ path' = [j \in {0} |-> n]
      /\ n # NULL /\ allocated = {} /\ allocated' = {n}
      /\ next' = [next EXCEPT ![n] = NULL] /\ 0 .. 0 = {0}
  BY CallKinds, LinkedListAssumption
     DEF ListShape, CallPosition, MemorySafe
<1>1. ListTypeOK'
  BY <1>0, ListCallsAssumption DEF ListTypeOK
<1>2. PathIntact' /\ MemorySafe'
  BY <1>0, CallKinds DEF PathIntact, MemorySafe, ListTypeOK
<1>3. ListShape'
  <2>1. path' \in [0 .. size' -> Nodes] /\ path'[0] = n
    BY <1>0
  <2>2. \A j \in 0 .. size' : j = 0
    BY <1>0
  <2> QED
    BY <1>0, <2>1, <2>2 DEF ListShape
<1>4. CallPosition' /\ SearchedSoFar' /\ AppliedSoFar' /\ FreedSoFar'
  BY <1>0, CallKinds
     DEF CallPosition, SearchedSoFar, AppliedSoFar, FreedSoFar
<1> QED
  BY <1>1, <1>2, <1>3, <1>4
\* A call enters the list at its sentinel, its first or its last node.
LEMMA BeginInv ==
  ASSUME ListIInv, NEW c \in Calls, Begin(c)
  PROVE  ListIInv'
<1> USE DEF Begin
<1>0. /\ first # NULL /\ call = NoCall /\ call' = c /\ call \notin FreeingCalls
      /\ prev' = NULL /\ UNCHANGED <<memoryVars, listVars, path>>
      /\ ptr' = Entry(c) /\ before' = Items
  BY CallKinds
<1>1. i' \in {0, size} /\ i' \in 0 .. MaxLength
  BY <1>0, ListFacts
<1>2. next[first] = Successor(0)
  BY <1>0, ListFacts
<1>3. ptr' \in {path[j] : j \in 0 .. size} \cup {NULL}
  <2>1. Successor(0) \in {path[j] : j \in 0 .. size} \cup {NULL}
    BY <1>0, ListFacts DEF Successor
  <2>2. {first, last} \subseteq {path[j] : j \in 0 .. size}
    BY <1>0, ListFacts
  <2> QED
    BY <1>0, <1>2, <2>1, <2>2 DEF Entry
<1>4. ListTypeOK' /\ PathIntact' /\ MemorySafe' /\ ListShape'
  BY <1>0, <1>1, <1>3, ListKept
<1>u. size' = size /\ path' = path /\ value' = value /\ next' = next
      /\ first' = first /\ last' = last /\ allocated' = allocated
  BY <1>0 DEF memoryVars, listVars
<1>5. CallPosition'
  <2>1. CASE c \in IndexedCalls
    BY <1>0, <1>u, <2>1, ListFacts, KindsDisjoint, CallKinds
       DEF CallPosition, Entry
  <2>2. CASE c \in SearchCalls \cup ApplyCalls \cup FreeingCalls
    <3>1. i' = 0 /\ ptr' = Successor(0)
      BY <1>0, <1>2, <2>2, KindsDisjoint DEF Entry
    <3> QED
      BY <1>0, <1>u, <2>2, <3>1, ListFacts, KindsDisjoint, CallKinds
         DEF CallPosition, Successor
  <2>3. CASE c \in SizeCalls
    BY <1>0, <1>u, <2>3, KindsDisjoint, CallKinds DEF CallPosition, Entry
  <2> QED
    BY <2>1, <2>2, <2>3 DEF Calls
<1>6. c \in SearchCalls \cup ApplyCalls \cup FreeingCalls => i' = 0
  BY KindsDisjoint
<1>7. SearchedSoFar'
  BY <1>0, <1>6 DEF SearchedSoFar
<1>8. AppliedSoFar'
  BY <1>0, <1>6, <1>u, ListFacts DEF AppliedSoFar, Items
<1>9. FreedSoFar'
  BY <1>0, <1>6, <1>u, ListFacts DEF FreedSoFar, Successor
<1> QED
  BY <1>4, <1>5, <1>7, <1>8, <1>9 DEF ListIInv

\* One node further, on the way to an index
LEMMA WalkInv ==
  ASSUME ListIInv, Walk
  PROVE  ListIInv'
<1> USE DEF Walk
<1>0. /\ call # NoCall /\ first # NULL /\ call \notin FreeingCalls
      /\ call \notin SearchCalls \cup ApplyCalls \cup SizeCalls
      /\ call' = call /\ prev' = prev /\ ptr' = next[ptr] /\ i' = i + 1
      /\ UNCHANGED <<memoryVars, listVars, path>>
      /\ call.index \in Int
  BY CallKinds, KindsDisjoint, CallHasList DEF historyVars
<1>1. /\ call.index \in 0 .. size /\ i \in 0 .. call.index /\ ptr = path[i]
      /\ i < call.index
  BY <1>0 DEF ListIInv, CallPosition
<1>2. i + 1 \in 0 .. call.index /\ next[ptr] = path[i + 1]
  BY <1>0, <1>1, ListFacts DEF Successor
<1>3. ListTypeOK' /\ PathIntact' /\ MemorySafe' /\ ListShape'
  <2>1. call' \in Calls /\ i' \in 0 .. MaxLength
    BY <1>0, <1>1, <1>2, ListFacts DEF ListIInv, ListTypeOK
  <2>2. ptr' \in {path[j] : j \in 0 .. size} \cup {NULL}
    BY <1>0, <1>1, <1>2, ListFacts
  <2> QED
    BY <1>0, <2>1, <2>2, ListFacts, ListKept
<1>4. CallPosition'
  BY <1>0, <1>1, <1>2, CallKinds
     DEF ListIInv, CallPosition, memoryVars, listVars
<1>5. SearchedSoFar' /\ AppliedSoFar' /\ FreedSoFar'
  BY <1>0 DEF SearchedSoFar, AppliedSoFar, FreedSoFar
<1> QED
  BY <1>3, <1>4, <1>5 DEF ListIInv

\* A call that changes nothing returns.
LEMMA AnsweredInv ==
  ASSUME ListIInv, first # NULL, call \notin FreeingCalls, NEW a, Answers(a),
         UNCHANGED <<memoryVars, listVars, path>>
  PROVE  ListIInv'
<1>1. /\ call' \in Calls \cup {NoCall} /\ prev' = NULL
      /\ i' \in 0 .. MaxLength
      /\ ptr' \in {path[j] : j \in 0 .. size} \cup {NULL}
  BY ListCallsAssumption DEF Answers
<1>2. ListTypeOK' /\ PathIntact' /\ MemorySafe' /\ ListShape'
  BY <1>1, ListKept
<1> QED
  BY <1>2, ReturnedInv DEF ListIInv

\* The calls that look something up, or are refused, return like that.
LEMMA LookupsInv ==
  ASSUME ListIInv, Refuse \/ Get \/ SearchEnds \/ ApplyEnds \/ Size
  PROVE  ListIInv'
<1>1. call # NoCall /\ call \notin FreeingCalls
  BY CallKinds, KindsDisjoint
     DEF Refuse, Get, SearchEnds, ApplyEnds, Size, Found
<1>2. \E a : Answers(a)
  BY DEF Refuse, Get, SearchEnds, ApplyEnds, Size
<1>3. UNCHANGED <<memoryVars, listVars, path>>
  BY DEF Refuse, Get, SearchEnds, ApplyEnds, Size
<1> QED
  BY <1>1, <1>2, <1>3, CallHasList, AnsweredInv

\* A loop that starts at the first node, one node further
LEMMA NextNode ==
  ASSUME ListIInv, first # NULL, ptr # NULL,
         call \in SearchCalls \cup ApplyCalls \cup FreeingCalls
  PROVE  /\ i \in Nat /\ size \in Nat /\ i < size /\ size <= MaxLength
         /\ MaxLength \in Nat
         /\ ptr = path[i + 1] /\ i + 1 \in 1 .. size
         /\ next[ptr] = Successor(i + 1)
<1>1. i \in 0 .. size /\ ptr = Successor(i) /\ size \in 0 .. MaxLength
  BY DEF ListIInv, CallPosition, ListTypeOK
<1>2. i < size /\ ptr = path[i + 1]
  BY <1>1 DEF Successor
<1>3. next[path[i + 1]] = Successor(i + 1)
  BY <1>1, <1>2, ListFacts DEF ListIInv, FreedSoFar
<1> QED
  BY <1>1, <1>2, <1>3, ListCallsAssumption

\* The element at ptr does not decide the search, which goes on.
LEMMA SearchOnInv ==
  ASSUME ListIInv, SearchOn
  PROVE  ListIInv'
<1> USE DEF SearchOn
<1>0. /\ call # NoCall /\ first # NULL /\ call \notin FreeingCalls
      /\ call \notin IndexedCalls \cup ApplyCalls \cup SizeCalls
      /\ call' = call /\ prev' = prev /\ ptr' = next[ptr] /\ i' = i + 1
      /\ UNCHANGED <<memoryVars, listVars, path>>
  BY CallKinds, KindsDisjoint, CallHasList DEF historyVars
<1>1. /\ i \in Nat /\ size \in Nat /\ i < size /\ size <= MaxLength
      /\ MaxLength \in Nat
      /\ ptr = path[i + 1] /\ i + 1 \in 1 .. size
      /\ next[ptr] = Successor(i + 1)
  BY <1>0, NextNode
<1>2. ListTypeOK' /\ PathIntact' /\ MemorySafe' /\ ListShape'
  <2>1. call' \in Calls /\ i' \in 0 .. MaxLength
    BY <1>0, <1>1 DEF Calls
  <2>2. ptr' \in {path[j] : j \in 0 .. size} \cup {NULL}
    BY <1>0, <1>1 DEF Successor
  <2> QED
    BY <1>0, <2>1, <2>2, ListFacts, ListKept
<1>u. size' = size /\ path' = path /\ value' = value
  BY <1>0 DEF memoryVars, listVars
<1>3. CallPosition'
  BY <1>0, <1>1, <1>u, CallKinds, ListFacts DEF CallPosition, Successor
<1>4. SearchedSoFar'
  <2>1. \A j \in 1 .. i + 1 : j \in 1 .. i \/ j = i + 1
    BY <1>1
  <2>2. call.op = "contains" => value[path[i + 1]] # call.value
    <3>1. call.op = "contains" => call.value \in Value
      BY DEF SearchCalls
    <3>2. value[path[i + 1]] \in Value
      BY <1>0, <1>1, ListFacts
    <3> QED
      BY <1>1, <3>1, <3>2, LinkedListAssumption DEF Decides
  <2>3. call.op = "any" => <<i, value[path[i + 1]]>> \notin call.prop
    BY <1>1 DEF Decides
  <2>4. call.op = "all" => <<i, value[path[i + 1]]>> \in call.prop
    BY <1>1 DEF Decides
  <2> SUFFICES
        ASSUME NEW j \in 1 .. i + 1
        PROVE  /\ call.op = "contains" => value[path[j]] # call.value
               /\ call.op = "any" => <<j - 1, value[path[j]]>> \notin call.prop
               /\ call.op = "all" => <<j - 1, value[path[j]]>> \in call.prop
    BY <1>0, <1>u DEF SearchedSoFar
  <2>5. CASE j \in 1 .. i
    BY <2>5 DEF ListIInv, SearchedSoFar
  <2>6. CASE j = i + 1
    <3>1. j - 1 = i
      BY <1>1, <2>6
    <3> QED
      BY <2>2, <2>3, <2>4, <2>6, <3>1
  <2> QED
    BY <2>1, <2>5, <2>6
<1>5. AppliedSoFar' /\ FreedSoFar'
  BY <1>0 DEF AppliedSoFar, FreedSoFar
<1> QED
  BY <1>2, <1>3, <1>4, <1>5 DEF ListIInv

\* The element at ptr is replaced, and no other.
LEMMA ApplyOnInv ==
  ASSUME ListIInv, ApplyOn
  PROVE  ListIInv'
<1> USE DEF ApplyOn
<1>0. /\ call # NoCall /\ first # NULL /\ call \notin FreeingCalls
      /\ call \notin IndexedCalls \cup SearchCalls \cup SizeCalls
      /\ call' = call /\ prev' = prev /\ ptr' = next[ptr] /\ i' = i + 1
      /\ next' = next /\ allocated' = allocated /\ path' = path
      /\ before' = before /\ first' = first /\ last' = last /\ size' = size
  BY CallKinds, KindsDisjoint, CallHasList DEF historyVars, listVars
<1>1. /\ i \in Nat /\ size \in Nat /\ i < size /\ size <= MaxLength
      /\ MaxLength \in Nat
      /\ ptr = path[i + 1] /\ i + 1 \in 1 .. size
      /\ next[ptr] = Successor(i + 1)
  BY <1>0, NextNode
<1>2. /\ before \in [1 .. size -> Value]
      /\ \A j \in 1 .. size :
           value[path[j]] = IF j <= i THEN call.fun[<<j - 1, before[j]>>]
                                      ELSE before[j]
  BY DEF ListIInv, AppliedSoFar
<1>3. value[ptr] = before[i + 1] /\ before[i + 1] \in Value
  <2>1. ~(i + 1 <= i)
    BY <1>1
  <2>2. value[path[i + 1]] = before[i + 1]
    BY <1>1, <1>2, <2>1
  <2> QED
    BY <1>1, <1>2, <2>2
<1>4. call.fun[<<i, before[i + 1]>>] \in Value
  <2>1. call.fun \in [(0 .. MaxLength) \X Value -> Value]
    BY CallKinds, ListCallsAssumption
  <2>2. <<i, before[i + 1]>> \in (0 .. MaxLength) \X Value
    BY <1>1, <1>3
  <2> QED
    BY <2>1, <2>2
<1>5. value' = [value EXCEPT ![ptr] = call.fun[<<i, before[i + 1]>>]]
  BY <1>3
<1>6. ptr \in Nodes /\ value \in [Nodes -> Value \cup {NULL}]
  BY DEF ListIInv, ListTypeOK
<1>7. /\ value'[path[i + 1]] = call.fun[<<i, before[i + 1]>>]
      /\ \A j \in 1 .. size : j # i + 1 => value'[path[j]] = value[path[j]]
  <2>1. value'[ptr] = call.fun[<<i, before[i + 1]>>]
        /\ \A m \in Nodes : m # ptr => value'[m] = value[m]
    BY <1>5, <1>6
  <2>2. \A j \in 1 .. size : j # i + 1 => path[j] \in Nodes /\ path[j] # ptr
    BY <1>0, <1>1, ListFacts
  <2> QED
    BY <1>1, <2>1, <2>2
<1>8. ListTypeOK'
  <2>1. value' \in [Nodes -> Value \cup {NULL}]
    BY <1>4, <1>5, <1>6
  <2>2. ptr' \in Nodes \cup {NULL} /\ i' \in 0 .. MaxLength
    BY <1>0, <1>1 DEF ListIInv, ListTypeOK
  <2> QED
    BY <1>0, <2>1, <2>2 DEF ListIInv, ListTypeOK
<1>9. PathIntact'
  BY <1>0 DEF ListIInv, PathIntact
<1>10. MemorySafe'
  <2>1. ptr' \in {NULL} \cup {path[j] : j \in 0 .. size}
    BY <1>0, <1>1 DEF Successor
  <2> QED
    BY <1>0, <2>1, ListFacts DEF ListIInv, MemorySafe
<1>11. ListShape'
  <2>1. \A j \in 1 .. size : value'[path[j]] \in Value
    BY <1>0, <1>4, <1>7, ListFacts
  <2> QED
    BY <1>0, <2>1 DEF ListIInv, ListShape
<1>12. CallPosition'
  BY <1>0, <1>1, CallKinds, ListFacts DEF CallPosition, Successor
<1>13. AppliedSoFar'
  <2> SUFFICES ASSUME NEW j \in 1 .. size
               PROVE  value'[path[j]] =
                        IF j <= i + 1 THEN call.fun[<<j - 1, before[j]>>]
                                      ELSE before[j]
    BY <1>0, <1>2 DEF AppliedSoFar
  <2>1. CASE j = i + 1
    <3>1. j - 1 = i
      BY <1>1, <2>1
    <3> QED
      BY <1>1, <1>7, <2>1, <3>1
  <2>2. CASE j # i + 1
    <3>1. j <= i + 1 <=> j <= i
      BY <1>1, <2>2
    <3> QED
      BY <1>2, <1>7, <2>2, <3>1
  <2> QED
    BY <2>1, <2>2
<1>14. SearchedSoFar' /\ FreedSoFar'
  BY <1>0 DEF SearchedSoFar, FreedSoFar
<1> QED
  BY <1>8, <1>9, <1>10, <1>11, <1>12, <1>13, <1>14 DEF ListIInv

\* The node before the one at ptr is freed, and is no longer part of what is
\* left of the list.
LEMMA FreeOnInv ==
  ASSUME ListIInv, FreeOn
  PROVE  ListIInv'
<1> USE DEF FreeOn, Free
<1>0. /\ call # NoCall /\ first # NULL
      /\ call \notin IndexedCalls \cup SearchCalls \cup ApplyCalls
                       \cup SizeCalls
      /\ call' = call /\ prev' = ptr /\ ptr' = next[ptr] /\ i' = i + 1
      /\ path' = path /\ first' = first /\ last' = last /\ size' = size
  BY CallKinds, KindsDisjoint, CallHasList DEF historyVars, listVars
<1>1. /\ i \in Nat /\ size \in Nat /\ i < size /\ size <= MaxLength
      /\ MaxLength \in Nat
      /\ ptr = path[i + 1] /\ i + 1 \in 1 .. size
      /\ next[ptr] = Successor(i + 1)
  BY <1>0, NextNode
<1>2. /\ path \in [0 .. size -> Nodes] /\ path[0] = first
      /\ \A j, k \in 0 .. size : path[j] = path[k] => j = k
      /\ prev = IF i = 0 THEN NULL ELSE path[i]
      /\ allocated = {first} \cup {path[j] : j \in i .. size}
      /\ \A j \in i .. size : next[path[j]] = Successor(j)
      /\ NULL \notin Nodes
  BY <1>0, LinkedListAssumption DEF ListIInv, ListShape, FreedSoFar
<1>3. \A j \in i + 1 .. size : path[j] # prev /\ path[j] \in Nodes
  BY <1>1, <1>2
<1>4. ListTypeOK'
  <2>1. ptr \in Nodes /\ next \in [Nodes -> Nodes \cup {NULL}]
        /\ value \in [Nodes -> Value \cup {NULL}]
    BY DEF ListIInv, ListTypeOK
  <2>2. /\ next' \in [Nodes -> Nodes \cup {NULL}]
        /\ value' \in [Nodes -> Value \cup {NULL}]
        /\ ptr' \in Nodes \cup {NULL} /\ i' \in 0 .. MaxLength
    BY <1>0, <1>1, <2>1
  <2> QED
    BY <1>0, <2>1, <2>2 DEF ListIInv, ListTypeOK
<1>5. PathIntact'
  BY <1>0 DEF PathIntact
<1>6. allocated' = {first} \cup {path[j] : j \in i + 1 .. size}
  <2>1. allocated' = allocated \ ({prev} \ {NULL})
    OBVIOUS
  <2>2. \A j \in i .. size : j = i \/ j \in i + 1 .. size
    BY <1>1
  <2>3. \A j \in i + 1 .. size : j \in i .. size
    BY <1>1
  <2>4. CASE i = 0
    BY <1>2, <2>1, <2>2, <2>3, <2>4
  <2>5. CASE i # 0
    <3>1. first # prev /\ prev # NULL /\ prev = path[i]
      BY <1>1, <1>2, <2>5
    <3> QED
      BY <1>2, <1>3, <2>1, <2>2, <2>3, <3>1
  <2> QED
    BY <2>4, <2>5
<1>7. MemorySafe'
  <2>1. ptr' \in {NULL} \cup {path[j] : j \in i + 1 .. size}
    BY <1>0, <1>1 DEF Successor
  <2>2. prev' \in {path[j] : j \in i + 1 .. size}
    BY <1>0, <1>1
  <2> QED
    BY <1>0, <1>6, <2>1, <2>2 DEF MemorySafe
<1>8. ListShape'
  BY <1>0 DEF ListIInv, ListShape
<1>9. CallPosition'
  BY <1>0, <1>1, CallKinds DEF CallPosition, Successor
<1>10. FreedSoFar'
  <2>1. prev' = IF i' = 0 THEN NULL ELSE path'[i']
    BY <1>0, <1>1
  <2>2. allocated' = {first'} \cup {path'[j] : j \in i' .. size'}
    BY <1>0, <1>6
  <2>3. \A j \in i + 1 .. size : next'[path[j]] = Successor(j)
    BY <1>1, <1>2, <1>3
  <2>4. \A j \in i' .. size' : next'[path'[j]] = Successor(j)'
    BY <1>0, <2>3 DEF Successor
  <2> QED
    BY <2>1, <2>2, <2>4 DEF FreedSoFar
<1>11. SearchedSoFar' /\ AppliedSoFar'
  BY <1>0 DEF SearchedSoFar, AppliedSoFar
<1> QED
  BY <1>4, <1>5, <1>7, <1>8, <1>9, <1>10, <1>11 DEF ListIInv

\* The position of a node to insert or remove, found by its index
LEMMA FoundFacts ==
  ASSUME ListIInv, Found
  PROVE  /\ call # NoCall /\ first # NULL /\ call \notin FreeingCalls
         /\ i \in 0 .. size /\ i = call.index /\ ptr = path[i]
         /\ next[ptr] = Successor(i)
         /\ call.op = "insert" => size < MaxLength
<1>1. call # NoCall /\ first # NULL /\ call \notin FreeingCalls
  BY CallKinds, KindsDisjoint, CallHasList DEF Found
<1>2. /\ i \in 0 .. size /\ i = call.index /\ ptr = path[i]
      /\ call.op = "insert" => size < MaxLength
  BY DEF ListIInv, CallPosition, Found
<1>3. next[path[i]] = Successor(i)
  BY <1>1, <1>2, ListFacts
<1> QED
  BY <1>1, <1>2, <1>3

\* A node joins the list between its neighbours, and size and last know.
LEMMA InsertInv ==
  ASSUME ListIInv, NEW n \in Nodes, Insert(n)
  PROVE  ListIInv'
<1>0. /\ first # NULL /\ call \notin FreeingCalls /\ call.op = "insert"
      /\ i \in 0 .. size /\ i = call.index /\ ptr = path[i]
      /\ next[ptr] = Successor(i) /\ size < MaxLength
      /\ call' = NoCall /\ ptr' = NULL /\ prev' = NULL /\ i' = 0
      /\ first' = first /\ size' = size + 1 /\ n \notin allocated
      /\ allocated' = allocated \cup {n}
  BY FoundFacts DEF Insert, Answers
<1>1. /\ size \in Nat /\ MaxLength \in Nat
      /\ path \in [0 .. size -> Nodes]
      /\ \A j, k \in 0 .. size : path[j] = path[k] => j = k
      /\ path[0] = first /\ path[size] = last
      /\ \A j \in 0 .. size : next[path[j]] = Successor(j)
      /\ \A j \in 1 .. size : value[path[j]] \in Value
      /\ allocated = {path[j] : j \in 0 .. size}
  BY <1>0, ListFacts
<1>2. \A j \in 0 .. size : path[j] # n /\ path[j] \in Nodes
  BY <1>0, <1>1
<1>3. call.value \in Value
  BY <1>0, CallKinds DEF Insert, Found
<1>4. /\ path' \in [0 .. size + 1 -> Nodes]
      /\ \A j \in 0 .. size + 1 :
           path'[j] = IF j <= i THEN path[j]
                      ELSE IF j = i + 1 THEN n ELSE path[j - 1]
  BY <1>0, <1>1, <1>2 DEF Insert
<1>5. \A j, k \in 0 .. size + 1 : path'[j] = path'[k] => j = k
  BY <1>0, <1>1, <1>2, <1>4
<1>6. /\ value \in [Nodes -> Value \cup {NULL}]
      /\ next \in [Nodes -> Nodes \cup {NULL}]
  BY DEF ListIInv, ListTypeOK
<1>e. /\ next' = [next EXCEPT ![ptr] = n, ![n] = Successor(i)]
      /\ value' = [value EXCEPT ![n] = call.value]
      /\ last' = IF i = size THEN n ELSE last
  BY <1>0 DEF Insert
<1>7. /\ next'[n] = Successor(i)
      /\ next'[path[i]] = n
      /\ \A j \in 0 .. size : j # i => next'[path[j]] = next[path[j]]
  BY <1>0, <1>1, <1>2, <1>6, <1>e
<1>8. /\ value'[n] = call.value
      /\ \A j \in 0 .. size : value'[path[j]] = value[path[j]]
  BY <1>0, <1>1, <1>2, <1>6, <1>e
<1>9. ListTypeOK'
  <2>1. /\ value' \in [Nodes -> Value \cup {NULL}]
        /\ next' \in [Nodes -> Nodes \cup {NULL}]
    BY <1>0, <1>1, <1>2, <1>3, <1>6, <1>e DEF Successor
  <2>2. /\ last' \in Nodes \cup {NULL} /\ first' \in Nodes \cup {NULL}
        /\ allocated' \subseteq Nodes /\ size' \in 0 .. MaxLength
    BY <1>0, <1>1, <1>2, <1>e
  <2> QED
    BY <1>0, <1>1, <2>1, <2>2 DEF ListTypeOK
<1>10. PathIntact'
  <2>1. path'[0] = first /\ path'[size + 1] = last'
    BY <1>0, <1>1, <1>4, <1>e
  <2>2. ASSUME NEW j \in 0 .. size + 1
        PROVE  next'[path'[j]] =
                 IF j < size + 1 THEN path'[j + 1] ELSE NULL
    <3>1. CASE j < i
      <4>1. j \in 0 .. size /\ j + 1 \in 0 .. size + 1 /\ j + 1 <= i
            /\ j < size /\ j # i
        BY <1>0, <1>1, <3>1
      <4>2. path'[j] = path[j] /\ path'[j + 1] = path[j + 1]
        BY <1>0, <1>1, <1>4, <4>1
      <4>3. next'[path[j]] = path[j + 1]
        BY <1>1, <1>7, <4>1 DEF Successor
      <4> QED
        BY <1>0, <1>1, <4>1, <4>2, <4>3
    <3>2. CASE j = i
      <4>1. path'[j] = path[i] /\ j < size + 1
        BY <1>0, <1>1, <1>4, <3>2
      <4>2. path'[j + 1] = n
        BY <1>0, <1>1, <1>4, <3>2
      <4> QED
        BY <1>7, <4>1, <4>2
    <3>3. CASE j = i + 1
      <4>0. path'[j] = n
        BY <1>0, <1>1, <1>4, <3>3
      <4>1. next'[path'[j]] = Successor(i)
        BY <1>7, <4>0
      <4>2. j < size + 1 => path'[j + 1] = path[i + 1]
        <5> SUFFICES ASSUME j < size + 1 PROVE path'[j + 1] = path[i + 1]
          OBVIOUS
        <5>1. /\ j + 1 \in 0 .. size + 1 /\ ~(j + 1 <= i) /\ j + 1 # i + 1
              /\ (j + 1) - 1 = i + 1
          BY <1>0, <1>1, <3>3
        <5> QED
          BY <1>4, <5>1
      <4> QED
        BY <1>0, <1>1, <3>3, <4>1, <4>2 DEF Successor
    <3>4. CASE j > i + 1
      <4>1. path'[j] = path[j - 1] /\ j - 1 \in 0 .. size /\ j - 1 # i
        BY <1>0, <1>1, <1>4, <3>4
      <4>2. next'[path'[j]] = Successor(j - 1)
        BY <1>1, <1>7, <4>1
      <4>3. j < size + 1 => path'[j + 1] = path[j]
        BY <1>0, <1>1, <1>4, <3>4
      <4> QED
        BY <1>0, <1>1, <4>2, <4>3 DEF Successor
    <3> QED
      BY <1>0, <1>1, <3>1, <3>2, <3>3, <3>4
  <2>3. size' = size + 1 /\ first' = first
    BY <1>0
  <2> QED
    BY <2>1, <2>2, <2>3 DEF PathIntact
<1>11. allocated' = {path'[j] : j \in 0 .. size + 1}
  <2>1. \A j \in 0 .. size : path[j] \in {path'[k] : k \in 0 .. size + 1}
    <3> TAKE j \in 0 .. size
    <3>1. CASE j <= i
      BY <1>0, <1>1, <1>4, <3>1
    <3>2. CASE j > i
      <4>1. j + 1 \in 0 .. size + 1 /\ path'[j + 1] = path[j]
        BY <1>0, <1>1, <1>4, <3>2
      <4> QED
        BY <4>1
    <3> QED
      BY <1>0, <1>1, <3>1, <3>2
  <2>2. n \in {path'[k] : k \in 0 .. size + 1}
    <3>1. i + 1 \in 0 .. size + 1 /\ path'[i + 1] = n
      BY <1>0, <1>1, <1>4
    <3> QED
      BY <3>1
  <2>3. \A k \in 0 .. size + 1 : path'[k] \in allocated'
    BY <1>0, <1>1, <1>4
  <2>4. allocated' = {path[j] : j \in 0 .. size} \cup {n}
    BY <1>0, <1>1
  <2> QED
    BY <2>1, <2>2, <2>3, <2>4, ZenonT(20)
<1>12. MemorySafe'
  <2>1. first' \in allocated' /\ last' \in allocated'
    BY <1>0, <1>1, <1>e
  <2> QED
    BY <1>0, <1>11, <2>1 DEF MemorySafe
<1>13. ListShape'
  <2>1. \A j \in 1 .. size + 1 : value'[path'[j]] \in Value
    <3> TAKE j \in 1 .. size + 1
    <3>1. CASE j <= i
      BY <1>0, <1>1, <1>4, <1>8, <3>1
    <3>2. CASE j = i + 1
      BY <1>0, <1>1, <1>3, <1>4, <1>8, <3>2
    <3>3. CASE j > i + 1
      <4>1. path'[j] = path[j - 1] /\ j - 1 \in 1 .. size
        BY <1>0, <1>1, <1>4, <3>3
      <4> QED
        BY <1>1, <1>8, <4>1
    <3> QED
      BY <1>0, <1>1, <3>1, <3>2, <3>3
  <2>2. path'[0] = first
    BY <1>0, <1>1, <1>4
  <2> QED
    BY <1>0, <1>4, <1>5, <2>1, <2>2 DEF ListShape
<1> QED
  BY <1>9, <1>10, <1>12, <1>13, ReturnedInv DEF ListIInv, Insert

\* A node leaves the list, and last moves back when it was the last one.
LEMMA RemoveInv ==
  ASSUME ListIInv, Remove
  PROVE  ListIInv'
<1> DEFINE removed == next[ptr]
<1>0. /\ first # NULL /\ call \notin FreeingCalls
      /\ i \in 0 .. size /\ i = call.index /\ ptr = path[i]
      /\ next[ptr] = Successor(i) /\ removed # NULL
      /\ call' = NoCall /\ ptr' = NULL /\ prev' = NULL /\ i' = 0
      /\ first' = first /\ size' = size - 1
      /\ allocated' = allocated \ {removed}
      /\ last' = IF i = size - 1 THEN ptr ELSE last
  BY FoundFacts DEF Remove, Free, Answers, LastAfterRemove
<1>1. /\ size \in Nat /\ MaxLength \in Nat /\ size <= MaxLength
      /\ path \in [0 .. size -> Nodes]
      /\ \A j, k \in 0 .. size : path[j] = path[k] => j = k
      /\ path[0] = first /\ path[size] = last
      /\ \A j \in 0 .. size : next[path[j]] = Successor(j)
      /\ \A j \in 1 .. size : value[path[j]] \in Value
      /\ allocated = {path[j] : j \in 0 .. size}
  BY <1>0, ListFacts
<1>2. i < size /\ removed = path[i + 1] /\ i + 1 \in 1 .. size
  BY <1>0, <1>1 DEF Successor
<1>3. next[removed] = Successor(i + 1)
  BY <1>1, <1>2
<1>4. /\ path' \in [0 .. size - 1 -> Nodes]
      /\ \A j \in 0 .. size - 1 :
           path'[j] = IF j <= i THEN path[j] ELSE path[j + 1]
  BY <1>0, <1>1, <1>2 DEF Remove
<1>5. /\ \A j, k \in 0 .. size - 1 : path'[j] = path'[k] => j = k
      /\ \A j \in 0 .. size - 1 : path'[j] # removed
  <2> DEFINE at(j) == IF j <= i THEN j ELSE j + 1
  <2>1. \A j \in 0 .. size - 1 : path'[j] = path[at(j)]
    BY <1>4
  <2>2. /\ \A j \in 0 .. size - 1 : at(j) \in 0 .. size /\ at(j) # i + 1
        /\ \A j, k \in 0 .. size - 1 : at(j) = at(k) => j = k
    BY <1>0, <1>1
  <2>3. i + 1 \in 0 .. size
    BY <1>0, <1>1, <1>2
  <2> HIDE DEF at
  <2>4. \A j \in 0 .. size - 1 : path'[j] # removed
    BY <1>1, <1>2, <2>1, <2>2, <2>3
  <2>5. ASSUME NEW j \in 0 .. size - 1, NEW k \in 0 .. size - 1,
               path'[j] = path'[k]
        PROVE  j = k
    <3>1. path[at(j)] = path[at(k)] /\ at(j) \in 0 .. size /\ at(k) \in 0 .. size
      BY <2>1, <2>2, <2>5
    <3>2. at(j) = at(k)
      BY <1>1, <3>1
    <3> QED
      BY <2>2, <3>2
  <2> QED
    BY <2>4, <2>5
<1>6. /\ value \in [Nodes -> Value \cup {NULL}]
      /\ next \in [Nodes -> Nodes \cup {NULL}]
      /\ removed \in Nodes /\ ptr \in Nodes /\ ptr # removed
  BY <1>0, <1>1, <1>2 DEF ListIInv, ListTypeOK
<1>7. /\ next' = [next EXCEPT ![ptr] = next[removed], ![removed] = NULL]
      /\ value' = [n \in Nodes |-> IF n = removed THEN NULL ELSE value[n]]
  BY <1>0 DEF Remove, Free
<1> HIDE DEF removed
<1>8. /\ next'[path[i]] = Successor(i + 1)
      /\ \A j \in 0 .. size : j # i /\ j # i + 1 =>
           next'[path[j]] = next[path[j]]
      /\ \A j \in 0 .. size : j # i + 1 => value'[path[j]] = value[path[j]]
  BY <1>0, <1>1, <1>2, <1>3, <1>6, <1>7
<1>9. ListTypeOK'
  <2>1. /\ value' \in [Nodes -> Value \cup {NULL}]
        /\ next' \in [Nodes -> Nodes \cup {NULL}]
    BY <1>6, <1>7
  <2>2. /\ last' \in Nodes \cup {NULL} /\ first' \in Nodes \cup {NULL}
        /\ allocated' \subseteq Nodes /\ size' \in 0 .. MaxLength
    <3>1. last \in Nodes /\ first \in Nodes /\ allocated \subseteq Nodes
      BY <1>1
    <3> QED
      BY <1>0, <1>1, <1>2, <1>6, <3>1
  <2> QED
    BY <1>0, <1>1, <2>1, <2>2 DEF ListTypeOK
<1>10. PathIntact'
  <2>1. path'[0] = first /\ path'[size - 1] = last'
    BY <1>0, <1>1, <1>2, <1>4
  <2>2. ASSUME NEW j \in 0 .. size - 1
        PROVE  next'[path'[j]] =
                 IF j < size - 1 THEN path'[j + 1] ELSE NULL
    <3>1. CASE j < i
      <4>1. j \in 0 .. size /\ j + 1 \in 0 .. size - 1 /\ j + 1 <= i
            /\ j < size - 1 /\ j < size /\ j # i /\ j # i + 1
        BY <1>0, <1>1, <1>2, <3>1
      <4>2. path'[j] = path[j] /\ path'[j + 1] = path[j + 1]
        BY <1>0, <1>1, <1>4, <4>1
      <4>3. next'[path[j]] = path[j + 1]
        BY <1>1, <1>8, <4>1 DEF Successor
      <4> QED
        BY <4>1, <4>2, <4>3
    <3>2. CASE j = i
      <4>0. path'[j] = path[i]
        BY <1>0, <1>1, <1>2, <1>4, <3>2
      <4>1. next'[path'[j]] = Successor(i + 1)
        BY <1>8, <4>0
      <4>2. j < size - 1 => path'[j + 1] = path[i + 2]
        BY <1>0, <1>1, <1>2, <1>4, <3>2
      <4> QED
        BY <1>0, <1>1, <3>2, <4>1, <4>2 DEF Successor
    <3>3. CASE j > i
      <4>1. path'[j] = path[j + 1] /\ j + 1 \in 0 .. size
            /\ j + 1 # i /\ j + 1 # i + 1
        BY <1>0, <1>1, <1>4, <3>3
      <4>2. next'[path'[j]] = Successor(j + 1)
        BY <1>1, <1>8, <4>1
      <4>3. j < size - 1 => path'[j + 1] = path[j + 2]
        BY <1>0, <1>1, <1>4, <3>3
      <4> QED
        BY <1>0, <1>1, <4>2, <4>3 DEF Successor
    <3> QED
      BY <1>0, <1>1, <3>1, <3>2, <3>3
  <2>3. size' = size - 1 /\ first' = first
    BY <1>0
  <2> QED
    BY <2>1, <2>2, <2>3 DEF PathIntact
<1>11. allocated' = {path'[j] : j \in 0 .. size - 1}
  <2>1. \A j \in 0 .. size :
          j # i + 1 => path[j] \in {path'[k] : k \in 0 .. size - 1}
    <3> SUFFICES ASSUME NEW j \in 0 .. size, j # i + 1
                 PROVE  path[j] \in {path'[k] : k \in 0 .. size - 1}
      OBVIOUS
    <3>1. CASE j <= i
      BY <1>0, <1>1, <1>2, <1>4, <3>1
    <3>2. CASE j > i
      <4>1. j - 1 \in 0 .. size - 1 /\ path'[j - 1] = path[j]
        BY <1>0, <1>1, <1>4, <3>2
      <4> QED
        BY <4>1
    <3> QED
      BY <1>0, <1>1, <3>1, <3>2
  <2>2. \A k \in 0 .. size - 1 : path'[k] \in allocated'
    <3> TAKE k \in 0 .. size - 1
    <3>1. k \in 0 .. size /\ k + 1 \in 0 .. size
      BY <1>1
    <3>2. path'[k] \in {path[k], path[k + 1]}
      BY <1>4
    <3> QED
      BY <1>0, <1>1, <1>5, <3>1, <3>2
  <2>3. allocated' = {path[j] : j \in 0 .. size} \ {path[i + 1]}
    BY <1>0, <1>1, <1>2
  <2>4. \A j \in 0 .. size : path[j] # path[i + 1] => j # i + 1
    OBVIOUS
  <2> QED
    BY <2>1, <2>2, <2>3, <2>4, ZenonT(20)
<1>12. MemorySafe'
  <2>1. 0 \in 0 .. size - 1 /\ size - 1 \in 0 .. size - 1
    BY <1>0, <1>1, <1>2
  <2>2. path'[0] = first /\ path'[size - 1] = last'
    BY <1>0, <1>1, <1>2, <1>4
  <2>3. first' \in allocated' /\ last' \in allocated'
    BY <1>0, <1>11, <2>1, <2>2
  <2> QED
    BY <1>0, <1>11, <2>3 DEF MemorySafe
<1>13. ListShape'
  <2>1. \A j \in 1 .. size - 1 : value'[path'[j]] \in Value
    <3> TAKE j \in 1 .. size - 1
    <3>1. CASE j <= i
      <4>1. path'[j] = path[j] /\ j \in 1 .. size /\ j # i + 1
        BY <1>0, <1>1, <1>4, <3>1
      <4> QED
        BY <1>1, <1>8, <4>1
    <3>2. CASE j > i
      <4>1. path'[j] = path[j + 1] /\ j + 1 \in 1 .. size /\ j + 1 # i + 1
        BY <1>0, <1>1, <1>4, <3>2
      <4> QED
        BY <1>1, <1>8, <4>1
    <3> QED
      BY <1>0, <3>1, <3>2
  <2>2. path'[0] = first
    BY <1>0, <1>1, <1>2, <1>4
  <2> QED
    BY <1>0, <1>4, <1>5, <2>1, <2>2 DEF ListShape
<1> QED
  BY <1>9, <1>10, <1>12, <1>13, ReturnedInv DEF ListIInv, Remove

\* What is left to free when the loop of clear has ended: the sentinel and the
\* last node that the loop came to.
LEMMA FreeingEnds ==
  ASSUME ListIInv, call \in FreeingCalls, ptr = NULL
  PROVE  /\ call # NoCall /\ first # NULL /\ first \in Nodes
         /\ allocated = {first} \cup ({prev} \ {NULL})
         /\ prev # first
<1>1. call # NoCall /\ first # NULL
  BY CallKinds, CallHasList
<1>2. /\ i \in 0 .. size /\ ptr = Successor(i) /\ size \in Nat
      /\ path \in [0 .. size -> Nodes] /\ path[0] = first
      /\ \A j, k \in 0 .. size : path[j] = path[k] => j = k
      /\ prev = IF i = 0 THEN NULL ELSE path[i]
      /\ allocated = {first} \cup {path[j] : j \in i .. size}
      /\ NULL \notin Nodes
  BY <1>1, LinkedListAssumption
     DEF ListIInv, ListTypeOK, CallPosition, ListShape, FreedSoFar
<1>3. i = size
  <2> SUFFICES ASSUME i < size PROVE FALSE
    BY <1>2
  <2>1. ptr = path[i + 1] /\ i + 1 \in 0 .. size
    BY <1>2 DEF Successor
  <2> QED
    BY <1>2, <2>1
<1>4. \A j : j \in i .. size <=> j = i
  BY <1>2, <1>3
<1>5. allocated = {first, path[i]}
  BY <1>2, <1>4
<1>6. CASE i = 0
  BY <1>1, <1>2, <1>5, <1>6
<1>7. CASE i # 0
  <2>1. prev = path[i] /\ prev # NULL /\ prev # first
    BY <1>2, <1>7
  <2>2. {prev} \ {NULL} = {prev}
    BY <2>1
  <2>3. first \in Nodes
    BY <1>2
  <2> QED
    BY <1>1, <1>5, <2>1, <2>2, <2>3
<1> QED
  BY <1>6, <1>7

\* After clear the sentinel is left.
LEMMA ClearEndsInv ==
  ASSUME ListIInv, ClearEnds
  PROVE  ListIInv'
<1>0. /\ first # NULL /\ first \in Nodes /\ prev # first
      /\ allocated' = {first}
      /\ first' = first /\ last' = first /\ size' = 0
      /\ path' = [j \in {0} |-> first] /\ 0 .. 0 = {0}
      /\ call' = NoCall /\ ptr' = NULL /\ prev' = NULL /\ i' = 0
      /\ \A c \in FreeingCalls : c # NoCall
  BY FreeingEnds, CallKinds DEF ClearEnds, Free, Answers
<1>1. /\ value' = [m \in Nodes |->
                    IF m \in {prev} \ {NULL} THEN NULL ELSE value[m]]
      /\ next' = [m \in Nodes |->
                   IF m \in {prev, first} THEN NULL ELSE next[m]]
  BY DEF ClearEnds, Free
<1>2. ListTypeOK'
  <2>1. /\ value' \in [Nodes -> Value \cup {NULL}]
        /\ next' \in [Nodes -> Nodes \cup {NULL}]
    BY <1>1 DEF ListIInv, ListTypeOK
  <2> QED
    BY <1>0, <2>1, ListCallsAssumption DEF ListTypeOK
<1>3. PathIntact' /\ MemorySafe'
  <2>1. next'[first] = NULL
    BY <1>0, <1>1
  <2> QED
    BY <1>0, <2>1 DEF PathIntact, MemorySafe
<1>4. ListShape'
  <2>1. path' \in [0 .. size' -> Nodes] /\ path'[0] = first
    BY <1>0
  <2>2. \A j \in 0 .. size' : j = 0
    BY <1>0
  <2> QED
    BY <1>0, <2>1, <2>2 DEF ListShape
<1> QED
  BY <1>2, <1>3, <1>4, ReturnedInv DEF ListIInv, ClearEnds

\* After destroy nothing is left.
LEMMA DestroyEndsInv ==
  ASSUME ListIInv, DestroyEnds
  PROVE  ListIInv'
<1>0. /\ allocated' = {}
      /\ first' = NULL /\ last' = NULL /\ size' = 0
      /\ call' = NoCall /\ ptr' = NULL /\ prev' = NULL /\ i' = 0
      /\ \A c \in FreeingCalls : c # NoCall
  <2>1. allocated = {first} \cup ({prev} \ {NULL}) /\ first # NULL
    BY FreeingEnds DEF DestroyEnds
  <2>2. allocated' = allocated \ ({prev, first} \ {NULL})
    BY DEF DestroyEnds, Free
  <2>3. allocated' = {}
    BY <2>1, <2>2
  <2> QED
    BY <2>3, CallKinds DEF DestroyEnds, Answers
<1>1. /\ value' \in [Nodes -> Value \cup {NULL}]
      /\ next' \in [Nodes -> Nodes \cup {NULL}]
  BY DEF DestroyEnds, Free, ListIInv, ListTypeOK
<1>2. ListTypeOK'
  BY <1>0, <1>1, ListCallsAssumption DEF ListTypeOK
<1>3. PathIntact' /\ MemorySafe' /\ ListShape'
  BY <1>0 DEF PathIntact, MemorySafe, ListShape
<1> QED
  BY <1>2, <1>3, ReturnedInv DEF ListIInv, DestroyEnds

LEMMA ListNextInv == ListIInv /\ [Next]_vars => ListIInv'
<1> SUFFICES ASSUME ListIInv, [Next]_vars PROVE ListIInv'
  OBVIOUS
<1>1. ASSUME NEW n \in Nodes, Create(n) PROVE ListIInv'
  BY <1>1, CreateInv
<1>2. ASSUME NEW c \in Calls, Begin(c) PROVE ListIInv'
  BY <1>2, BeginInv
<1>3. ASSUME NEW n \in Nodes, Insert(n) PROVE ListIInv'
  BY <1>3, InsertInv
<1>4. CASE Walk
  BY <1>4, WalkInv
<1>5. CASE Refuse \/ Get \/ SearchEnds \/ ApplyEnds \/ Size
  BY <1>5, LookupsInv
<1>6. CASE Remove
  BY <1>6, RemoveInv
<1>7. CASE SearchOn
  BY <1>7, SearchOnInv
<1>8. CASE ApplyOn
  BY <1>8, ApplyOnInv
<1>9. CASE FreeOn
  BY <1>9, FreeOnInv
<1>10. CASE ClearEnds
  BY <1>10, ClearEndsInv
<1>11. CASE DestroyEnds
  BY <1>11, DestroyEndsInv
<1>12. CASE UNCHANGED vars
  BY <1>12
     DEF vars, memoryVars, listVars, localVars, historyVars, ListIInv,
         ListTypeOK, PathIntact, MemorySafe, ListShape, CallPosition, Successor,
         SearchedSoFar, AppliedSoFar, FreedSoFar
<1> QED
  BY <1>1, <1>2, <1>3, <1>4, <1>5, <1>6, <1>7, <1>8, <1>9, <1>10, <1>11, <1>12
     DEF Next, Steps

-----------------------------------------------------------------------------

\* What a call does to a sequence, by its op
LEMMA EffectOf ==
  ASSUME NEW l, NEW c
  PROVE  /\ c.op = "insert" /\ c.index \in 0 .. Len(l) =>
              Abstract!Effect(l, c) = Abstract!InsertedAt(l, c.index, c.value)
         /\ c.op = "insert" /\ c.index \notin 0 .. Len(l) =>
              Abstract!Effect(l, c) = l
         /\ c.op = "remove" /\ c.index \in 0 .. Len(l) - 1 =>
              Abstract!Effect(l, c) = Abstract!RemovedAt(l, c.index)
         /\ c.op = "remove" /\ c.index \notin 0 .. Len(l) - 1 =>
              Abstract!Effect(l, c) = l
         /\ c.op \in {"get", "contains", "all", "any", "size", "is_empty"} =>
              Abstract!Effect(l, c) = l
         /\ c.op = "apply_to_all" =>
              Abstract!Effect(l, c) =
                [j \in 1 .. Len(l) |-> c.fun[<<j - 1, l[j]>>]]
         /\ c.op = "clear" => Abstract!Effect(l, c) = <<>>
         /\ c.op = "destroy" => Abstract!Effect(l, c) = NoList
  BY DEF Abstract!Effect

\* What a call answers, by its op
LEMMA ResultOf ==
  ASSUME NEW l, NEW c
  PROVE  /\ c.op \in {"get", "remove"} /\ c.index \in 0 .. Len(l) - 1 =>
              Abstract!Result(l, c) = Answer(TRUE, l[c.index + 1])
         /\ c.op \in {"get", "remove"} /\ c.index \notin 0 .. Len(l) - 1 =>
              Abstract!Result(l, c) = Answer(FALSE, NULL)
         /\ c.op = "contains" =>
              Abstract!Result(l, c) =
                Answer(\E j \in 1 .. Len(l) : l[j] = c.value, NULL)
         /\ c.op = "all" =>
              Abstract!Result(l, c) =
                Answer(\A j \in 1 .. Len(l) : <<j - 1, l[j]>> \in c.prop, NULL)
         /\ c.op = "any" =>
              Abstract!Result(l, c) =
                Answer(\E j \in 1 .. Len(l) : <<j - 1, l[j]>> \in c.prop, NULL)
         /\ c.op = "size" => Abstract!Result(l, c) = Answer(TRUE, Len(l))
         /\ c.op = "is_empty" =>
              Abstract!Result(l, c) = Answer(Len(l) = 0, NULL)
         /\ c.op \in {"insert", "apply_to_all", "clear", "destroy"} =>
              Abstract!Result(l, c) = Done
  BY DEF Abstract!Result, Abstract!Answer, Abstract!Done, Answer, Done

\* The last step of a call is the call, done in one step.
LEMMA Returns ==
  ASSUME call # NoCall, call' = NoCall,
         List' = Abstract!Effect(List, call),
         answer' = Abstract!Result(List, call)
  PROVE  Abstract!AbstractNext
  BY DEF Abstract!AbstractNext, Abstract!Return

\* The elements are a sequence, as long as size says.
LEMMA ItemsSequence ==
  ASSUME ListIInv, first # NULL, call \notin FreeingCalls
  PROVE  /\ Items \in [1 .. size -> Value] /\ Items \in Seq(Value)
         /\ Len(Items) = size /\ Items # NoList
<1>1. Items \in [1 .. size -> Value] /\ size \in Nat
  BY ListFacts DEF Items
<1>2. Items \in Seq(Value) /\ Len(Items) = size
  BY <1>1
<1> QED
  BY <1>1, <1>2, ListCallsAssumption

\* The calls are the same there and here.
LEMMA SameCalls == Abstract!Calls = Calls
  BY DEF Abstract!Calls, Abstract!IndexedCalls, Abstract!SearchCalls,
         Abstract!ApplyCalls, Abstract!FreeingCalls, Abstract!SizeCalls,
         Calls, IndexedCalls, SearchCalls, ApplyCalls, FreeingCalls, SizeCalls

\* A list appears.
LEMMA CreateRefines ==
  ASSUME ListIInv, NEW n \in Nodes, Create(n)
  PROVE  Abstract!AbstractNext
<1>1. /\ first = NULL /\ first' = n /\ n # NULL /\ size' = 0 /\ call = NoCall
      /\ call' = NoCall /\ answer' = answer
  BY LinkedListAssumption DEF Create, ListIInv, ListShape
<1>2. List = NoList /\ List' = Items'
  BY <1>1, CallKinds DEF List
<1>3. Items' = <<>>
  BY <1>1 DEF Items
<1> QED
  BY <1>1, <1>2, <1>3 DEF Abstract!AbstractNext, Abstract!Create

\* A call is made.
LEMMA BeginRefines ==
  ASSUME ListIInv, NEW c \in Calls, Begin(c)
  PROVE  Abstract!AbstractNext
<1>1. /\ first # NULL /\ call = NoCall /\ call' = c /\ answer' = NoAnswer
      /\ first' = first /\ before' = Items /\ Items' = Items
  BY DEF Begin, memoryVars, listVars, Items
<1>2. List = Items /\ List' = Items
  BY <1>1, CallKinds DEF List
<1>3. List # NoList
  BY <1>1, <1>2, CallKinds, ItemsSequence
<1>4. Abstract!Call(c)
  BY <1>1, <1>2, <1>3 DEF Abstract!Call
<1> QED
  BY <1>4, SameCalls DEF Abstract!AbstractNext

\* The rounds of the loops change nothing that the caller can see.
LEMMA RoundsStutter ==
  ASSUME ListIInv, Walk \/ SearchOn \/ ApplyOn \/ FreeOn
  PROVE  UNCHANGED Abstract!abstractVars
<1>1. call' = call /\ answer' = answer /\ first' = first
  BY DEF Walk, SearchOn, ApplyOn, FreeOn, listVars
<1>2. List' = List
  <2>1. CASE Walk \/ SearchOn
    <3>1. before' = before /\ Items' = Items
      BY <2>1 DEF Walk, SearchOn, memoryVars, listVars, historyVars, Items
    <3> QED
      BY <1>1, <3>1 DEF List
  <2>2. CASE ApplyOn \/ FreeOn
    <3>1. before' = before /\ call \in ApplyCalls \cup FreeingCalls
      BY <2>2 DEF ApplyOn, FreeOn, historyVars
    <3> QED
      BY <1>1, <3>1 DEF List
  <2> QED
    BY <2>1, <2>2
<1> QED
  BY <1>1, <1>2 DEF Abstract!abstractVars

\* A call that changes nothing leaves the sequence it found.
LEMMA LookupKeeps ==
  ASSUME ListIInv, first # NULL, call \notin FreeingCalls, NEW a, Answers(a),
         UNCHANGED <<memoryVars, listVars, path>>
  PROVE  call' = NoCall /\ answer' = a /\ List' = Items
<1>1. call' = NoCall /\ answer' = a /\ first' = first
  BY DEF Answers, listVars
<1>2. Items' = Items
  BY DEF Items, memoryVars, listVars
<1> QED
  BY <1>1, <1>2, CallKinds DEF List

LEMMA RefuseRefines ==
  ASSUME ListIInv, Refuse
  PROVE  Abstract!AbstractNext
<1>0. /\ call \in IndexedCalls /\ call # NoCall /\ first # NULL
      /\ call \notin ApplyCalls \cup FreeingCalls
  BY CallKinds, KindsDisjoint, CallHasList DEF Refuse, Found
<1>1. /\ List = Items /\ List' = Items /\ call' = NoCall /\ Len(List) = size
      /\ answer' = IF call.op = "insert" THEN Done ELSE Answer(FALSE, NULL)
  BY <1>0, LookupKeeps, ItemsSequence DEF Refuse, List
<1>2. /\ call.op \in {"insert", "get", "remove"} /\ call.index \in Int
      /\ size \in Nat
  BY <1>0, CallKinds, ListFacts
<1>3. CASE ptr = NULL
  <2>1. call.index \notin 0 .. size
    <3> SUFFICES ASSUME call.index \in 0 .. size PROVE FALSE
      OBVIOUS
    <3>1. ptr = path[i] /\ i \in 0 .. size
      BY <1>0, <1>2 DEF ListIInv, CallPosition
    <3> QED
      BY <1>0, <1>3, <3>1, ListFacts
  <2>2. call.index \notin 0 .. size - 1
    BY <1>2, <2>1
  <2>3. Abstract!Effect(List, call) = List
    BY <1>1, <1>2, <2>1, <2>2, EffectOf
  <2>4. Abstract!Result(List, call) = answer'
    BY <1>1, <1>2, <2>2, ResultOf
  <2> QED
    BY <1>0, <1>1, <2>3, <2>4, Returns
<1>4. CASE Found /\ call.op \in {"get", "remove"} /\ next[ptr] = NULL
  <2>1. i = call.index /\ i \in 0 .. size /\ next[ptr] = Successor(i)
    BY <1>4, FoundFacts
  <2>2. call.index \notin 0 .. size - 1
    <3> SUFFICES ASSUME i < size PROVE FALSE
      BY <1>2, <2>1
    <3>1. next[ptr] = path[i + 1] /\ i + 1 \in 0 .. size
      BY <1>2, <2>1 DEF Successor
    <3> QED
      BY <1>0, <1>4, <3>1, ListFacts
  <2>3. Abstract!Effect(List, call) = List
    BY <1>1, <1>4, <2>2, EffectOf
  <2>4. Abstract!Result(List, call) = answer'
    BY <1>1, <1>4, <2>2, ResultOf
  <2> QED
    BY <1>0, <1>1, <2>3, <2>4, Returns
<1> QED
  BY <1>0, <1>3, <1>4 DEF Refuse

LEMMA GetRefines ==
  ASSUME ListIInv, Get
  PROVE  Abstract!AbstractNext
<1>0. /\ call \in IndexedCalls /\ call # NoCall /\ first # NULL
      /\ call \notin ApplyCalls \cup FreeingCalls
      /\ i = call.index /\ i \in 0 .. size /\ next[ptr] = Successor(i)
      /\ call.op = "get" /\ next[ptr] # NULL
  BY KindsDisjoint, FoundFacts DEF Get, Found
<1>1. /\ List = Items /\ List' = Items /\ call' = NoCall /\ Len(List) = size
      /\ answer' = Answer(TRUE, value[next[ptr]]) /\ size \in Nat
  BY <1>0, LookupKeeps, ItemsSequence, ListFacts DEF Get, List
<1>2. i < size /\ next[ptr] = path[i + 1] /\ i + 1 \in 1 .. size
  BY <1>0, <1>1 DEF Successor
<1>3. Items[i + 1] = value[path[i + 1]]
  BY <1>2 DEF Items
<1>4. call.index \in 0 .. size - 1
  BY <1>0, <1>1, <1>2
<1>5. Abstract!Effect(List, call) = List
  BY <1>0, EffectOf
<1>6. Abstract!Result(List, call) = answer'
  <2>1. List[call.index + 1] = value[next[ptr]]
    BY <1>0, <1>1, <1>2, <1>3
  <2>2. Abstract!Result(List, call) = Answer(TRUE, List[call.index + 1])
    BY <1>0, <1>1, <1>4, ResultOf
  <2> QED
    BY <1>1, <2>1, <2>2
<1> QED
  BY <1>0, <1>1, <1>5, <1>6, Returns

LEMMA SizeRefines ==
  ASSUME ListIInv, Size
  PROVE  Abstract!AbstractNext
<1>0. /\ call \in SizeCalls /\ call # NoCall /\ first # NULL
      /\ call \notin ApplyCalls \cup FreeingCalls
      /\ call.op \in {"size", "is_empty"}
  BY CallKinds, KindsDisjoint, CallHasList DEF Size
<1>1. /\ List = Items /\ List' = Items /\ call' = NoCall /\ Len(List) = size
      /\ answer' = IF call.op = "size" THEN Answer(TRUE, size)
                                       ELSE Answer(size = 0, NULL)
  BY <1>0, LookupKeeps, ItemsSequence DEF Size, List
<1>2. Abstract!Effect(List, call) = List
  BY <1>0, EffectOf
<1>3. Abstract!Result(List, call) = answer'
  <2>1. CASE call.op = "size"
    BY <1>1, <2>1, ResultOf
  <2>2. CASE call.op = "is_empty"
    <3>1. Abstract!Result(List, call) = Answer(Len(List) = 0, NULL)
      BY <2>2, ResultOf
    <3> QED
      BY <1>1, <2>2, <3>1
  <2> QED
    BY <1>0, <2>1, <2>2
<1> QED
  BY <1>0, <1>1, <1>2, <1>3, Returns

\* What a call that ended at its index has found
LEMMA FoundItem ==
  ASSUME ListIInv, Found
  PROVE  /\ call # NoCall /\ first # NULL
         /\ call \notin ApplyCalls \cup FreeingCalls
         /\ List = Items /\ Len(List) = size /\ size \in Nat
         /\ i = call.index /\ i \in 0 .. size /\ ptr = path[i]
         /\ next[ptr] # NULL =>
              /\ i + 1 \in 1 .. size /\ next[ptr] = path[i + 1]
              /\ List[i + 1] = value[next[ptr]]
<1>0. /\ call \in IndexedCalls /\ call # NoCall /\ first # NULL
      /\ call \notin ApplyCalls \cup FreeingCalls
      /\ i = call.index /\ i \in 0 .. size /\ next[ptr] = Successor(i)
      /\ ptr = path[i]
  BY KindsDisjoint, FoundFacts DEF Found
<1>1. List = Items /\ Len(List) = size /\ size \in Nat
  BY <1>0, ItemsSequence, ListFacts DEF List
<1>2. ASSUME next[ptr] # NULL
      PROVE  /\ i + 1 \in 1 .. size /\ next[ptr] = path[i + 1]
             /\ List[i + 1] = value[next[ptr]]
  <2>1. i + 1 \in 1 .. size /\ next[ptr] = path[i + 1]
    BY <1>0, <1>1, <1>2 DEF Successor
  <2> QED
    BY <1>1, <2>1 DEF Items
<1> QED
  BY <1>0, <1>1, <1>2

LEMMA InsertRefines ==
  ASSUME ListIInv, NEW n \in Nodes, Insert(n)
  PROVE  Abstract!AbstractNext
<1>0. /\ call # NoCall /\ first # NULL /\ call \notin FreeingCalls
      /\ List = Items /\ Len(List) = size /\ size \in Nat
      /\ i = call.index /\ i \in 0 .. size /\ call.op = "insert"
      /\ call' = NoCall /\ answer' = Done /\ first' = first
      /\ size' = size + 1 /\ n \notin allocated
  BY FoundItem DEF Insert, Answers
<1>1. /\ path \in [0 .. size -> Nodes]
      /\ \A j \in 0 .. size : path[j] # n
      /\ value \in [Nodes -> Value \cup {NULL}]
  BY <1>0, ListFacts DEF ListIInv, ListTypeOK
<1>2. /\ value'[n] = call.value
      /\ \A j \in 0 .. size : value'[path[j]] = value[path[j]]
  BY <1>1 DEF Insert
<1>3. \A j \in 0 .. size + 1 :
        path'[j] = IF j <= i THEN path[j]
                   ELSE IF j = i + 1 THEN n ELSE path[j - 1]
  BY <1>0 DEF Insert
<1>4. List' = [j \in 1 .. size + 1 |-> value'[path'[j]]]
  BY <1>0, CallKinds DEF List, Items
<1>5. ASSUME NEW j \in 1 .. size + 1
      PROVE  value'[path'[j]] = IF j <= i THEN List[j]
                                ELSE IF j = i + 1 THEN call.value
                                ELSE List[j - 1]
  <2>1. CASE j <= i
    <3>1. j \in 1 .. size /\ path'[j] = path[j]
      BY <1>0, <1>3, <2>1
    <3> QED
      BY <1>0, <1>2, <2>1, <3>1 DEF Items
  <2>2. CASE j = i + 1
    <3>1. path'[j] = n /\ ~(j <= i)
      BY <1>0, <1>3, <2>2
    <3> QED
      BY <1>2, <2>2, <3>1
  <2>3. CASE j > i + 1
    <3>1. j - 1 \in 1 .. size /\ path'[j] = path[j - 1] /\ ~(j <= i)
      BY <1>0, <1>3, <2>3
    <3>2. List[j - 1] = value[path[j - 1]] /\ j - 1 \in 0 .. size
      BY <1>0, <3>1 DEF Items
    <3> QED
      BY <1>0, <1>2, <2>3, <3>1, <3>2
  <2> QED
    BY <1>0, <2>1, <2>2, <2>3
<1>6. List' = Abstract!InsertedAt(List, call.index, call.value)
  BY <1>0, <1>4, <1>5 DEF Abstract!InsertedAt
<1>7. Abstract!Effect(List, call) = List'
  BY <1>0, <1>6, EffectOf
<1>8. Abstract!Result(List, call) = answer'
  BY <1>0, ResultOf
<1> QED
  BY <1>0, <1>7, <1>8, Returns

LEMMA RemoveRefines ==
  ASSUME ListIInv, Remove
  PROVE  Abstract!AbstractNext
<1> DEFINE removed == next[ptr]
<1>0. /\ call # NoCall /\ first # NULL /\ call \notin FreeingCalls
      /\ List = Items /\ Len(List) = size /\ size \in Nat
      /\ i = call.index /\ i \in 0 .. size /\ call.op = "remove"
      /\ i + 1 \in 1 .. size /\ removed = path[i + 1]
      /\ List[i + 1] = value[removed]
      /\ call' = NoCall /\ answer' = Answer(TRUE, value[removed])
      /\ first' = first /\ size' = size - 1
  BY FoundItem DEF Remove, Answers
<1>1. /\ path \in [0 .. size -> Nodes]
      /\ \A j, k \in 0 .. size : path[j] = path[k] => j = k
  BY <1>0, ListFacts
<1>2. \A j \in 0 .. size : j # i + 1 => value'[path[j]] = value[path[j]]
  <2>1. value' = [m \in Nodes |-> IF m = removed THEN NULL ELSE value[m]]
    BY DEF Remove, Free
  <2> HIDE DEF removed
  <2>2. \A j \in 0 .. size : j # i + 1 => path[j] # removed /\ path[j] \in Nodes
    BY <1>0, <1>1
  <2> QED
    BY <2>1, <2>2
<1>3. \A j \in 0 .. size - 1 :
        path'[j] = IF j <= i THEN path[j] ELSE path[j + 1]
  BY <1>0 DEF Remove
<1>4. List' = [j \in 1 .. size - 1 |-> value'[path'[j]]]
  BY <1>0, CallKinds DEF List, Items
<1>5. ASSUME NEW j \in 1 .. size - 1
      PROVE  value'[path'[j]] = IF j <= i THEN List[j] ELSE List[j + 1]
  <2>1. CASE j <= i
    <3>1. /\ j \in 1 .. size /\ j \in 0 .. size /\ j # i + 1
          /\ path'[j] = path[j]
      BY <1>0, <1>3, <2>1
    <3>2. List[j] = value[path[j]]
      BY <1>0, <3>1 DEF Items
    <3> QED
      BY <1>2, <2>1, <3>1, <3>2
  <2>2. CASE j > i
    <3>1. /\ j + 1 \in 1 .. size /\ j + 1 \in 0 .. size /\ j + 1 # i + 1
          /\ path'[j] = path[j + 1] /\ ~(j <= i)
      BY <1>0, <1>3, <2>2
    <3>2. List[j + 1] = value[path[j + 1]]
      BY <1>0, <3>1 DEF Items
    <3> QED
      BY <1>2, <2>2, <3>1, <3>2
  <2> QED
    BY <1>0, <2>1, <2>2
<1> HIDE DEF removed
<1>6. List' = Abstract!RemovedAt(List, call.index)
  BY <1>0, <1>4, <1>5 DEF Abstract!RemovedAt
<1>7. call.index \in 0 .. Len(List) - 1
  BY <1>0
<1>8. Abstract!Effect(List, call) = List'
  BY <1>0, <1>6, <1>7, EffectOf
<1>9. Abstract!Result(List, call) = answer'
  <2>1. Abstract!Result(List, call) = Answer(TRUE, List[call.index + 1])
    BY <1>0, <1>7, ResultOf
  <2> QED
    BY <1>0, <2>1
<1> QED
  BY <1>0, <1>8, <1>9, Returns

\* A search ends with the answer about the whole sequence: every element it
\* passed did not decide it, and the one at ptr does.
LEMMA SearchRefines ==
  ASSUME ListIInv, SearchEnds
  PROVE  Abstract!AbstractNext
<1>0. /\ call \in SearchCalls /\ call # NoCall /\ first # NULL
      /\ call \notin ApplyCalls \cup FreeingCalls
      /\ call.op \in {"contains", "all", "any"}
      /\ i \in 0 .. size /\ ptr = Successor(i)
  BY CallKinds, KindsDisjoint, CallHasList
     DEF SearchEnds, ListIInv, CallPosition
<1>1. /\ List = Items /\ List' = Items /\ call' = NoCall /\ Len(List) = size
      /\ answer' = Answer((ptr = NULL) = (call.op = "all"), NULL)
      /\ size \in Nat
  BY <1>0, LookupKeeps, ItemsSequence, ListFacts DEF SearchEnds, List
<1>2. \A j \in 1 .. size : List[j] = value[path[j]] /\ List[j] \in Value
  BY <1>0, <1>1, ListFacts DEF Items
<1>3. ptr # NULL => i + 1 \in 1 .. size /\ ptr = path[i + 1]
  BY <1>0, <1>1 DEF Successor
<1>4. ptr = NULL => i = size
  <2> SUFFICES ASSUME i < size PROVE ptr # NULL
    BY <1>0, <1>1
  <2>1. i + 1 \in 0 .. size /\ ptr = path[i + 1]
    BY <1>0, <1>1 DEF Successor
  <2> QED
    BY <1>0, <2>1, ListFacts
<1>5. /\ ptr # NULL => Decides /\ i = (i + 1) - 1
      /\ \A j \in 1 .. i :
           /\ call.op = "contains" => value[path[j]] # call.value
           /\ call.op = "any" => <<j - 1, value[path[j]]>> \notin call.prop
           /\ call.op = "all" => <<j - 1, value[path[j]]>> \in call.prop
  BY <1>0, <1>1 DEF SearchEnds, ListIInv, SearchedSoFar
<1>6. Abstract!Effect(List, call) = List
  BY <1>0, EffectOf
<1>7. CASE call.op = "contains"
  <2>1. call.value \in Value
    BY <1>0, <1>7 DEF SearchCalls
  <2>2. (\E j \in 1 .. size : List[j] = call.value) <=> ptr # NULL
    <3>1. CASE ptr = NULL
      BY <1>2, <1>4, <1>5, <1>7, <3>1
    <3>2. CASE ptr # NULL
      <4>1. value[path[i + 1]] = call.value
        BY <1>2, <1>3, <1>5, <1>7, <2>1, <3>2, LinkedListAssumption DEF Decides
      <4> QED
        BY <1>2, <1>3, <3>2, <4>1
    <3> QED
      BY <3>1, <3>2
  <2>3. Abstract!Result(List, call) =
          Answer(\E j \in 1 .. Len(List) : List[j] = call.value, NULL)
    BY <1>7, ResultOf
  <2>4. ((ptr = NULL) = (call.op = "all")) = (ptr # NULL)
    BY <1>7
  <2>5. answer' = Answer(ptr # NULL, NULL)
    BY <1>1, <2>4
  <2>6. (\E j \in 1 .. size : List[j] = call.value) = (ptr # NULL)
    BY <2>2
  <2>7. Abstract!Result(List, call) = answer'
    BY <1>1, <2>3, <2>5, <2>6
  <2> QED
    BY <1>0, <1>1, <1>6, <2>7, Returns
<1>8. CASE call.op = "any"
  <2>2. (\E j \in 1 .. size : <<j - 1, List[j]>> \in call.prop) <=> ptr # NULL
    <3>1. CASE ptr = NULL
      BY <1>2, <1>4, <1>5, <1>8, <3>1
    <3>2. CASE ptr # NULL
      <4>1. <<(i + 1) - 1, List[i + 1]>> \in call.prop
        BY <1>2, <1>3, <1>5, <1>8, <3>2 DEF Decides
      <4> QED
        BY <1>3, <3>2, <4>1
    <3> QED
      BY <3>1, <3>2
  <2>3. Abstract!Result(List, call) =
          Answer(\E j \in 1 .. Len(List) : <<j - 1, List[j]>> \in call.prop,
                 NULL)
    BY <1>8, ResultOf
  <2>4. ((ptr = NULL) = (call.op = "all")) = (ptr # NULL)
    BY <1>8
  <2>5. answer' = Answer(ptr # NULL, NULL)
    BY <1>1, <2>4
  <2>6. (\E j \in 1 .. size : <<j - 1, List[j]>> \in call.prop) = (ptr # NULL)
    BY <2>2
  <2>7. Abstract!Result(List, call) = answer'
    BY <1>1, <2>3, <2>5, <2>6
  <2> QED
    BY <1>0, <1>1, <1>6, <2>7, Returns
<1>9. CASE call.op = "all"
  <2>2. (\A j \in 1 .. size : <<j - 1, List[j]>> \in call.prop) <=> ptr = NULL
    <3>1. CASE ptr = NULL
      BY <1>2, <1>4, <1>5, <1>9, <3>1
    <3>2. CASE ptr # NULL
      <4>1. <<(i + 1) - 1, List[i + 1]>> \notin call.prop
        BY <1>2, <1>3, <1>5, <1>9, <3>2 DEF Decides
      <4> QED
        BY <1>3, <3>2, <4>1
    <3> QED
      BY <3>1, <3>2
  <2>3. Abstract!Result(List, call) =
          Answer(\A j \in 1 .. Len(List) : <<j - 1, List[j]>> \in call.prop,
                 NULL)
    BY <1>9, ResultOf
  <2>4. ((ptr = NULL) = (call.op = "all")) = (ptr = NULL)
    BY <1>9
  <2>5. answer' = Answer(ptr = NULL, NULL)
    BY <1>1, <2>4
  <2>6. (\A j \in 1 .. size : <<j - 1, List[j]>> \in call.prop) = (ptr = NULL)
    BY <2>2
  <2>7. Abstract!Result(List, call) = answer'
    BY <1>1, <2>3, <2>5, <2>6
  <2> QED
    BY <1>0, <1>1, <1>6, <2>7, Returns
<1> QED
  BY <1>0, <1>7, <1>8, <1>9

\* When the loop has ended, every element is what the function made of it.
LEMMA ApplyRefines ==
  ASSUME ListIInv, ApplyEnds
  PROVE  Abstract!AbstractNext
<1>0. /\ call \in ApplyCalls /\ call # NoCall /\ first # NULL
      /\ call \notin FreeingCalls /\ call.op = "apply_to_all"
      /\ i \in 0 .. size /\ NULL = Successor(i) /\ size \in Nat
      /\ call' = NoCall /\ answer' = Done /\ first' = first
      /\ value' = value /\ path' = path /\ size' = size
  BY CallKinds, KindsDisjoint, CallHasList
     DEF ApplyEnds, ListIInv, ListTypeOK, CallPosition, Answers, memoryVars,
         listVars
<1>1. /\ before \in [1 .. size -> Value] /\ List = before
      /\ \A j \in 1 .. size :
           value[path[j]] = IF j <= i THEN call.fun[<<j - 1, before[j]>>]
                                      ELSE before[j]
  BY <1>0 DEF ListIInv, AppliedSoFar, List
<1>2. i = size
  <2> SUFFICES ASSUME i < size PROVE FALSE
    BY <1>0
  <2>1. i + 1 \in 0 .. size /\ NULL = path[i + 1]
    BY <1>0 DEF Successor
  <2> QED
    BY <1>0, <2>1, ListFacts
<1>3. Len(List) = size
  BY <1>0, <1>1
<1>4. List' = [j \in 1 .. size |-> value[path[j]]]
  BY <1>0, CallKinds DEF List, Items
<1>5. \A j \in 1 .. size : value[path[j]] = call.fun[<<j - 1, List[j]>>]
  BY <1>0, <1>1, <1>2
<1>6. Abstract!Effect(List, call) = List'
  <2>1. Abstract!Effect(List, call) =
          [j \in 1 .. Len(List) |-> call.fun[<<j - 1, List[j]>>]]
    BY <1>0, EffectOf
  <2>2. List' = [j \in 1 .. size |-> call.fun[<<j - 1, List[j]>>]]
    BY <1>4, <1>5, Zenon
  <2> QED
    BY <1>3, <2>1, <2>2
<1>7. Abstract!Result(List, call) = answer'
  BY <1>0, ResultOf
<1> QED
  BY <1>0, <1>6, <1>7, Returns

LEMMA FreeingRefines ==
  ASSUME ListIInv, ClearEnds \/ DestroyEnds
  PROVE  Abstract!AbstractNext
<1>0. /\ call # NoCall /\ first # NULL /\ call' = NoCall /\ answer' = Done
      /\ size' = 0
  BY FreeingEnds DEF ClearEnds, DestroyEnds, Answers
<1>1. Abstract!Result(List, call) = answer'
  BY <1>0, ResultOf DEF ClearEnds, DestroyEnds
<1>2. CASE ClearEnds
  <2>1. List' = Items' /\ Items' = <<>>
    BY <1>0, <1>2, CallKinds DEF List, Items, ClearEnds
  <2>2. Abstract!Effect(List, call) = <<>>
    BY <1>2, EffectOf DEF ClearEnds
  <2> QED
    BY <1>0, <1>1, <2>1, <2>2, Returns
<1>3. CASE DestroyEnds
  <2>1. List' = NoList
    BY <1>3 DEF List, DestroyEnds
  <2>2. Abstract!Effect(List, call) = NoList
    BY <1>3, EffectOf DEF DestroyEnds
  <2> QED
    BY <1>0, <1>1, <2>1, <2>2, Returns
<1> QED
  BY <1>2, <1>3

LEMMA StepRefines ==
  ListIInv /\ [Next]_vars => [Abstract!AbstractNext]_(Abstract!abstractVars)
<1> SUFFICES ASSUME ListIInv, [Next]_vars
             PROVE  Abstract!AbstractNext \/ UNCHANGED Abstract!abstractVars
  OBVIOUS
<1>1. ASSUME NEW n \in Nodes, Create(n) \/ Insert(n)
      PROVE  Abstract!AbstractNext
  BY <1>1, CreateRefines, InsertRefines
<1>2. ASSUME NEW c \in Calls, Begin(c) PROVE Abstract!AbstractNext
  BY <1>2, BeginRefines
<1>3. CASE Walk \/ SearchOn \/ ApplyOn \/ FreeOn
  BY <1>3, RoundsStutter
<1>4. CASE Refuse \/ Get \/ Size
  BY <1>4, RefuseRefines, GetRefines, SizeRefines
<1>5. CASE Remove
  BY <1>5, RemoveRefines
<1>6. CASE SearchEnds \/ ApplyEnds
  BY <1>6, SearchRefines, ApplyRefines
<1>7. CASE ClearEnds \/ DestroyEnds
  BY <1>7, FreeingRefines
<1>8. CASE UNCHANGED vars
  <2>1. List' = List /\ call' = call /\ answer' = answer
    BY <1>8 DEF vars, memoryVars, listVars, historyVars, List, Items
  <2> QED
    BY <2>1 DEF Abstract!abstractVars
<1> QED
  BY <1>1, <1>2, <1>3, <1>4, <1>5, <1>6, <1>7, <1>8 DEF Next, Steps

-----------------------------------------------------------------------------

\* Whatever calls are made of a list, of whatever length: its nodes are where
\* its count and its fields say, and its loops are where their counts say.
THEOREM ListInvariant == Spec => []ListIInv
<1> QED
  BY ListInitInv, ListNextInv, PTL DEF Spec

\* linked_list.c never has a local, a link or a field that points to a node
\* that was freed, frees none twice, and leaves none behind.
THEOREM MemorySafeHolds == Spec => []MemorySafe
<1>1. ListIInv => MemorySafe
  BY DEF ListIInv
<1> QED
  BY <1>1, ListInvariant, PTL

\* insert, remove and clear leave size, last and the links of linked_list.c in
\* agreement.
THEOREM PathIntactHolds == Spec => []PathIntact
<1>1. ListIInv => PathIntact
  BY DEF ListIInv
<1> QED
  BY <1>1, ListInvariant, PTL

\* The fields and locals of linked_list.c are of their types.
THEOREM ListTypeCorrect == Spec => []ListTypeOK
<1>1. ListIInv => ListTypeOK
  BY DEF ListIInv
<1> QED
  BY <1>1, ListInvariant, PTL

\* Each function of linked_list.c does to the list, and answers, what
\* linked_list.h says, for every list, element, predicate and update.
THEOREM ListRefinement == Spec => RefinesAbstractList
<1>1. Init => Abstract!AbstractInit
  BY DEF Init, List, Abstract!AbstractInit
<1> QED
  BY <1>1, StepRefines, ListInvariant, PTL
     DEF Spec, RefinesAbstractList, Abstract!AbstractSpec

=============================================================================
