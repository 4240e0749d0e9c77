------------------------------ MODULE MCRoots ------------------------------
(***************************************************************************)
(* The objects of module Compacting at the addresses of module FindRoots:  *)
(* what the scan of find_roots.c says of objects that a program allocated  *)
(* and a collection moved.                                                 *)
(***************************************************************************)
EXTENDS MCCompacting

CONSTANT SIZEOF_PAGE

\* Constants and variables have the same names in both modules.
Scan == INSTANCE FindRoots

\* The pointer v in bytes from heap_start
AddressOf(v) == Scan!PageStart(PageOf(v)) + 8 * (v % WORDS_PER_PAGE)

\* "true if the pointer points to a currently allocated object in the heap":
\* is_allocated_on_heap (find_roots.c) accepts every object of the program,
\* between collections and while it looks for roots.
ObjectsRecognised ==
  pc \in {"mutator", "scan", "place"} =>
    \A b \in blocks : Scan!is_allocated_on_heap(AddressOf(b))

=============================================================================
