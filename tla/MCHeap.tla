------------------------------- MODULE MCHeap -------------------------------
(***************************************************************************)
(* Modules Heap and FindRoots on three pages of four slots (a heap of one  *)
(* byte less than four pages), with objects of one to three slots, one of  *)
(* which needs no padding.  The header of a page has 24 bytes, so that two *)
(* headers fit a page and three do not; the last slot begins beyond        *)
(* heap_start + heap_size.                                                 *)
(***************************************************************************)
EXTENDS FindRoots

CONSTANTS star, starInt, starStarStar, raw3, raw40

MCLayouts == {star, starInt, starStarStar}
MCRawSizes == {raw3, raw40}

\* object_size of "*", "*i", "***"; the byte counts of two raw requests
MCObjectSize ==
  [k \in Kinds |-> CASE k = star -> 8
                     [] k = starInt -> 12
                     [] k = starStarStar -> 24
                     [] k = raw3 -> 3
                     [] k = raw40 -> 40]
=============================================================================
