----------------------------- MODULE LinkedList -----------------------------
(***************************************************************************)
(* lib/linked_list.c: nodes from malloc, a sentinel before the first of    *)
(* them, a pointer to the last one.  The collector keeps its queues, its   *)
(* expected roots and its visited objects in such lists.  There is one     *)
(* list at a time; a step is one round of a loop, or the straight-line     *)
(* code around it.                                                         *)
(***************************************************************************)
EXTENDS ListCalls

CONSTANTS
  Nodes,       \* the addresses malloc chooses from
  equal_func   \* what two elements compare to: 0 when they are equal

\* As eq_function_ptr does, which every list is created with that is searched.
ASSUME LinkedListAssumption ==
  /\ \A a, b \in Value : equal_func[<<a, b>>] = 0 <=> a = b
  /\ NULL \notin Nodes

VARIABLES
  value, next,        \* node_t
  allocated,          \* the nodes that were not freed
  first, last, size,  \* ioopm_list_t; first is NULL when there is no list
  call,               \* the call under way
  answer,             \* what the last call answered
  ptr, prev, i,       \* its locals
  path,               \* history: the sentinel and the nodes, in order
  before              \* history: the elements when the call was made

memoryVars == <<value, next, allocated>>
listVars == <<first, last, size>>
localVars == <<ptr, prev, i>>
historyVars == <<path, before>>
vars == <<memoryVars, listVars, call, answer, localVars, historyVars>>

-----------------------------------------------------------------------------

\* The elements of the list
Items == [j \in 1 .. size |-> value[path[j]]]

Init ==
  /\ value = [n \in Nodes |-> NULL]
  /\ next = [n \in Nodes |-> NULL]
  /\ allocated = {}
  /\ first = NULL /\ last = NULL /\ size = 0
  /\ call = NoCall /\ answer = NoAnswer
  /\ ptr = NULL /\ prev = NULL /\ i = 0
  /\ path = <<>> /\ before = <<>>

\* ioopm_linked_list_create: the sentinel comes from calloc.
Create(n) ==
  /\ first = NULL
  /\ n \in Nodes \ allocated
  /\ allocated' = allocated \cup {n}
  /\ value' = [value EXCEPT ![n] = NULL]
  /\ next' = [next EXCEPT ![n] = NULL]
  /\ first' = n /\ last' = n /\ size' = 0
  /\ path' = [j \in {0} |-> n]
  /\ UNCHANGED <<call, answer, localVars, before>>

\* Mutant of Entry: the index after the last element is refused.
EntryNotAtEnd(c) ==
  CASE c \in IndexedCalls ->
         IF c.index \notin 0 .. size - 1 THEN NULL ELSE first
    [] c \in SizeCalls -> NULL
    [] OTHER -> next[first]

\* Where a call enters the list: find_previous_node and find_previous_ptr
\* return NULL for an index out of range and last for the index of the end.
Entry(c) ==
  CASE c \in IndexedCalls ->
         IF c.index \notin 0 .. size THEN NULL
         ELSE IF c.index = size THEN last
         ELSE first
    [] c \in SizeCalls -> NULL
    [] OTHER -> next[first]

\* A call is made and enters the list.
Begin(c) ==
  /\ first # NULL /\ call = NoCall
  /\ c.op = "insert" => size < MaxLength
  /\ call' = c
  /\ answer' = NoAnswer
  /\ ptr' = Entry(c)
  /\ prev' = NULL
  /\ i' = IF c \in IndexedCalls /\ c.index = size THEN size ELSE 0
  /\ before' = Items
  /\ UNCHANGED <<memoryVars, listVars, path>>

\* The call returns; its locals are gone.
Answers(a) ==
  /\ answer' = a
  /\ call' = NoCall
  /\ ptr' = NULL /\ prev' = NULL /\ i' = 0
  /\ before' = <<>>

\* One round of the loops of find_previous_node and find_previous_ptr
Walk ==
  /\ call \in IndexedCalls /\ ptr # NULL
  /\ i < call.index
  /\ ptr' = next[ptr]
  /\ i' = i + 1
  /\ UNCHANGED <<memoryVars, listVars, call, answer, prev, historyVars>>

\* The loop has ended at the node before the index.
Found == call \in IndexedCalls /\ ptr # NULL /\ i = call.index

\* The index is out of range: insert ignores it, get and remove say so.
Refuse ==
  /\ \/ call \in IndexedCalls /\ ptr = NULL
     \/ Found /\ call.op \in {"get", "remove"} /\ next[ptr] = NULL
  /\ Answers(IF call.op = "insert" THEN Done ELSE Answer(FALSE, NULL))
  /\ UNCHANGED <<memoryVars, listVars, path>>

\* Mutant of Insert: the node is linked before its successor is read.
InsertLinkedFirst(n) ==
  /\ Found /\ call.op = "insert"
  /\ n \in Nodes \ allocated
  /\ allocated' = allocated \cup {n}
  /\ value' = [value EXCEPT ![n] = call.value]
  /\ next' = [next EXCEPT ![ptr] = n, ![n] = n]
  /\ last' = IF call.index = size THEN n ELSE last
  /\ size' = size + 1
  /\ path' = [j \in 0 .. size + 1 |-> IF j <= call.index THEN path[j]
                                      ELSE IF j = call.index + 1 THEN n
                                      ELSE path[j - 1]]
  /\ Answers(Done)
  /\ UNCHANGED first

\* ioopm_linked_list_insert
Insert(n) ==
  /\ Found /\ call.op = "insert"
  /\ n \in Nodes \ allocated
  /\ allocated' = allocated \cup {n}
  /\ value' = [value EXCEPT ![n] = call.value]
  /\ next' = [next EXCEPT ![ptr] = n, ![n] = next[ptr]]
  /\ last' = IF call.index = size THEN n ELSE last
  /\ size' = size + 1
  /\ path' = [j \in 0 .. size + 1 |-> IF j <= call.index THEN path[j]
                                      ELSE IF j = call.index + 1 THEN n
                                      ELSE path[j - 1]]
  /\ Answers(Done)
  /\ UNCHANGED first

\* ioopm_linked_list_get
Get ==
  /\ Found /\ call.op = "get" /\ next[ptr] # NULL
  /\ Answers(Answer(TRUE, value[next[ptr]]))
  /\ UNCHANGED <<memoryVars, listVars, path>>

\* What a freed node holds is not defined; nothing may depend on it.
Free(N) ==
  /\ allocated' = allocated \ N
  /\ value' = [n \in Nodes |-> IF n \in N THEN NULL ELSE value[n]]

\* Mutant of LastAfterRemove: list->last stays where it is.
LastKept == last

\* The end of the list moves back when its last node goes.
LastAfterRemove == IF call.index = size - 1 THEN ptr ELSE last

\* ioopm_linked_list_remove
Remove ==
  /\ Found /\ call.op = "remove" /\ next[ptr] # NULL
  /\ LET removed == next[ptr]
     IN  /\ Free({removed})
         /\ next' = [next EXCEPT ![ptr] = next[removed], ![removed] = NULL]
         /\ last' = LastAfterRemove
         /\ Answers(Answer(TRUE, value[removed]))
  /\ size' = size - 1
  /\ path' = [j \in 0 .. size - 1 |-> IF j <= call.index THEN path[j]
                                      ELSE path[j + 1]]
  /\ UNCHANGED first

\* The element at ptr decides the search: for contains and any it is one that
\* is sought, for all one that fails.
Decides ==
  CASE call.op = "contains" -> equal_func[<<value[ptr], call.value>>] = 0
    [] call.op = "any" -> <<i, value[ptr]>> \in call.prop
    [] call.op = "all" -> <<i, value[ptr]>> \notin call.prop

\* One round of the loops of contains, all and any
SearchOn ==
  /\ call \in SearchCalls /\ ptr # NULL
  /\ ~Decides
  /\ ptr' = next[ptr]
  /\ i' = i + 1
  /\ UNCHANGED <<memoryVars, listVars, call, answer, prev, historyVars>>

SearchEnds ==
  /\ call \in SearchCalls
  /\ ptr # NULL => Decides
  /\ Answers(Answer((ptr = NULL) = (call.op = "all"), NULL))
  /\ UNCHANGED <<memoryVars, listVars, path>>

\* One round of the loop of apply_to_all, which changes the element in place
ApplyOn ==
  /\ call \in ApplyCalls /\ ptr # NULL
  /\ value' = [value EXCEPT ![ptr] = call.fun[<<i, @>>]]
  /\ ptr' = next[ptr]
  /\ i' = i + 1
  /\ UNCHANGED <<next, allocated, listVars, call, answer, prev, historyVars>>

ApplyEnds ==
  /\ call \in ApplyCalls /\ ptr = NULL
  /\ Answers(Done)
  /\ UNCHANGED <<memoryVars, listVars, path>>

\* Mutant of FreeOn: the loop does not advance.
FreeOnStays ==
  /\ call \in FreeingCalls /\ ptr # NULL
  /\ prev' = ptr
  /\ UNCHANGED <<memoryVars, listVars, call, answer, ptr, i, historyVars>>

\* One round of the loop of clear: the node before the current one is freed.
FreeOn ==
  /\ call \in FreeingCalls /\ ptr # NULL
  /\ Free({prev} \ {NULL})
  /\ next' = [n \in Nodes |-> IF n = prev THEN NULL ELSE next[n]]
  /\ prev' = ptr
  /\ ptr' = next[ptr]
  /\ i' = i + 1
  /\ UNCHANGED <<listVars, call, answer, historyVars>>

\* Mutant of ClearEnds: the last node is not freed after the loop.
ClearEndsEarly ==
  /\ call \in FreeingCalls /\ call.op = "clear" /\ ptr = NULL
  /\ next' = [n \in Nodes |-> IF n \in {prev, first} THEN NULL ELSE next[n]]
  /\ last' = first
  /\ size' = 0
  /\ path' = [j \in {0} |-> first]
  /\ Answers(Done)
  /\ UNCHANGED <<value, allocated, first>>

\* The rest of ioopm_linked_list_clear
ClearEnds ==
  /\ call \in FreeingCalls /\ call.op = "clear" /\ ptr = NULL
  /\ Free({prev} \ {NULL})
  /\ next' = [n \in Nodes |-> IF n \in {prev, first} THEN NULL ELSE next[n]]
  /\ last' = first
  /\ size' = 0
  /\ path' = [j \in {0} |-> first]
  /\ Answers(Done)
  /\ UNCHANGED first

\* The rest of ioopm_linked_list_destroy: the sentinel and the list go too.
DestroyEnds ==
  /\ call \in FreeingCalls /\ call.op = "destroy" /\ ptr = NULL
  /\ Free({prev, first} \ {NULL})
  /\ next' = [n \in Nodes |-> IF n \in {prev, first} THEN NULL ELSE next[n]]
  /\ first' = NULL /\ last' = NULL
  /\ size' = 0
  /\ path' = <<>>
  /\ Answers(Done)

\* ioopm_linked_list_size, ioopm_linked_list_is_empty
Size ==
  /\ call \in SizeCalls
  /\ Answers(IF call.op = "size" THEN Answer(TRUE, size)
                                 ELSE Answer(size = 0, NULL))
  /\ UNCHANGED <<memoryVars, listVars, path>>

\* A call that was made runs to its end.
Steps ==
  \/ Walk \/ Refuse \/ Get \/ Remove
  \/ SearchOn \/ SearchEnds \/ ApplyOn \/ ApplyEnds
  \/ FreeOn \/ ClearEnds \/ DestroyEnds \/ Size
  \/ \E n \in Nodes : Insert(n)

Next ==
  \/ Steps
  \/ \E n \in Nodes : Create(n)
  \/ \E c \in Calls : Begin(c)

Spec == Init /\ [][Next]_vars

\* The calls are loops and straight-line code of one thread.
FairSpec == Spec /\ WF_vars(Steps)

-----------------------------------------------------------------------------
(* Properties *)

ListTypeOK ==
  /\ value \in [Nodes -> Value \cup {NULL}]
  /\ next \in [Nodes -> Nodes \cup {NULL}]
  /\ allocated \subseteq Nodes
  /\ first \in Nodes \cup {NULL} /\ last \in Nodes \cup {NULL}
  /\ size \in 0 .. MaxLength
  /\ call \in Calls \cup {NoCall}
  /\ ptr \in Nodes \cup {NULL} /\ prev \in Nodes \cup {NULL}
  /\ i \in 0 .. MaxLength

\* The path of the list through memory, unless it is being freed: from the
\* sentinel over as many nodes as size says to NULL, ending at last, whichever
\* of insert, remove and clear moved them.
PathIntact ==
  first # NULL /\ call \notin FreeingCalls =>
    /\ path[0] = first /\ path[size] = last
    /\ \A j \in 0 .. size :
         next[path[j]] = IF j < size THEN path[j + 1] ELSE NULL

\* No node is used after it was freed, freed twice, or lost: the sentinel, the
\* last node and the locals of a call are allocated, and between calls what is
\* allocated is the list, or nothing when it was destroyed.
MemorySafe ==
  /\ {first, ptr, prev} \ {NULL} \subseteq allocated
  /\ call \notin FreeingCalls =>
       /\ {last} \ {NULL} \subseteq allocated
       /\ allocated = IF first = NULL THEN {}
                                      ELSE {path[j] : j \in 0 .. size}

\* The inductive strengthening of the invariants above: the nodes of the list
\* are different ones, and each loop is where its count says.
Successor(j) == IF j < size THEN path[j + 1] ELSE NULL

ListShape ==
  IF first = NULL
    THEN call = NoCall /\ size = 0 /\ last = NULL
    ELSE /\ path \in [0 .. size -> Nodes]
         /\ \A j, k \in 0 .. size : path[j] = path[k] => j = k
         /\ path[0] = first
         /\ call \notin FreeingCalls =>
              \A j \in 1 .. size : value[path[j]] \in Value

CallPosition ==
  /\ call \notin FreeingCalls => prev = NULL
  /\ call \in IndexedCalls =>
       /\ IF call.index \in 0 .. size
            THEN i \in 0 .. call.index /\ ptr = path[i]
            ELSE ptr = NULL
       /\ call.op = "insert" => size < MaxLength
  /\ call \in SearchCalls \cup ApplyCalls \cup FreeingCalls =>
       i \in 0 .. size /\ ptr = Successor(i)
  /\ call \in SizeCalls \cup {NoCall} => ptr = NULL

SearchedSoFar ==
  call \in SearchCalls =>
    \A j \in 1 .. i :
      /\ call.op = "contains" => value[path[j]] # call.value
      /\ call.op = "any" => <<j - 1, value[path[j]]>> \notin call.prop
      /\ call.op = "all" => <<j - 1, value[path[j]]>> \in call.prop

AppliedSoFar ==
  call \in ApplyCalls =>
    /\ before \in [1 .. size -> Value]
    /\ \A j \in 1 .. size :
         value[path[j]] = IF j <= i THEN call.fun[<<j - 1, before[j]>>]
                                    ELSE before[j]

FreedSoFar ==
  call \in FreeingCalls =>
    /\ prev = IF i = 0 THEN NULL ELSE path[i]
    /\ allocated = {first} \cup {path[j] : j \in i .. size}
    /\ \A j \in i .. size : next[path[j]] = Successor(j)

ListIInv ==
  /\ ListTypeOK /\ PathIntact /\ MemorySafe
  /\ ListShape /\ CallPosition
  /\ SearchedSoFar /\ AppliedSoFar /\ FreedSoFar

\* Every call returns.
CallsReturn == call # NoCall ~> call = NoCall

\* While elements are changed in place or freed, the list is still what it was
\* when the call was made.
List ==
  IF first = NULL THEN NoList
  ELSE IF call \in ApplyCalls \cup FreeingCalls THEN before
  ELSE Items

Abstract == INSTANCE AbstractList WITH list <- List

\* The nodes are a sequence: each call does to it, and answers, what
\* linked_list.h says.
RefinesAbstractList == Abstract!AbstractSpec

=============================================================================
