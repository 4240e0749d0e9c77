----------------------------- MODULE ManagedHeap -----------------------------
(***************************************************************************)
(* What the collector promises the program (gc.h): objects keep their      *)
(* identity, their layout and their pointer fields for as long as the      *)
(* program can reach them, wherever a collection puts them.  There are no  *)
(* addresses, pages, headers or collections here; objects the program does *)
(* not reach may disappear at any moment.                                  *)
(***************************************************************************)
EXTENDS Integers, FiniteSets

CONSTANTS
  Variables,      \* the pointer variables of the program
  Ids,            \* identities of objects
  Kinds,          \* layouts and raw sizes
  PointerFields,  \* the fields of each kind that hold pointers
  NULL

VARIABLES
  var,    \* the object each variable points to
  graph   \* the objects there are: a kind and pointer fields for each

managedVars == <<var, graph>>

Object(k, fields) == [kind |-> k, fields |-> fields]

\* h_alloc_struct zeroes an object, so its pointers start as NULL.
NewObject(k) == Object(k, [f \in PointerFields[k] |-> NULL])

HasField(x, f) == var[x] # NULL /\ f \in DOMAIN graph[var[x]].fields

\* The next graph is g without some objects that neither a variable nor an
\* object that stays refers to: an unreachable object may be gone at any step.
Becomes(g) ==
  LET kept == DOMAIN graph'
      gone == DOMAIN g \ kept
  IN  /\ kept \subseteq DOMAIN g
      /\ graph' = [i \in kept |-> g[i]]
      /\ \A x \in Variables : var'[x] \notin gone
      /\ \A i \in kept :
           \A f \in DOMAIN g[i].fields : g[i].fields[f] \notin gone

-----------------------------------------------------------------------------

Init ==
  /\ var = [x \in Variables |-> NULL]
  /\ graph = [i \in {} |-> NULL]

\* x = h_alloc_struct(h, k) or x = h_alloc_raw(h, k)
New(x, k) ==
  \E i \in Ids \ DOMAIN graph :
    /\ var' = [var EXCEPT ![x] = i]
    /\ Becomes([j \in DOMAIN graph \cup {i} |->
                  IF j = i THEN NewObject(k) ELSE graph[j]])

\* x = y->f
Load(x, y, f) ==
  /\ HasField(y, f)
  /\ var' = [var EXCEPT ![x] = graph[var[y]].fields[f]]
  /\ Becomes(graph)

\* y->f = x
Store(y, f, x) ==
  /\ HasField(y, f)
  /\ var' = var
  /\ Becomes([graph EXCEPT ![var[y]].fields[f] = var[x]])

\* x = NULL
Clear(x) ==
  /\ var' = [var EXCEPT ![x] = NULL]
  /\ Becomes(graph)

\* A collection
Collect ==
  /\ var' = var
  /\ Becomes(graph)

Next ==
  \/ Collect
  \/ \E x \in Variables : Clear(x)
  \/ \E x, y \in Variables : \E f \in UNION {PointerFields[k] : k \in Kinds} :
       Load(x, y, f) \/ Store(y, f, x)
  \/ \E x \in Variables, k \in Kinds : New(x, k)

Spec == Init /\ [][Next]_managedVars

-----------------------------------------------------------------------------

TypeOK ==
  /\ DOMAIN graph \subseteq Ids
  /\ var \in [Variables -> Ids \cup {NULL}]
  /\ \A i \in DOMAIN graph :
       /\ graph[i].kind \in Kinds
       /\ graph[i].fields \in
            [PointerFields[graph[i].kind] -> Ids \cup {NULL}]

\* No pointer dangles: this is what makes the abstract heap worth having.
NoDangling ==
  /\ \A x \in Variables : var[x] \in DOMAIN graph \cup {NULL}
  /\ \A i \in DOMAIN graph :
       \A f \in DOMAIN graph[i].fields :
         graph[i].fields[f] \in DOMAIN graph \cup {NULL}

=============================================================================
