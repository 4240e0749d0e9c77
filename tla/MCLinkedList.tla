---------------------------- MODULE MCLinkedList ----------------------------
(***************************************************************************)
(* Lists of up to three of two elements, in four nodes.  The predicates    *)
(* and the update tell positions apart as well as elements.                *)
(***************************************************************************)
EXTENDS LinkedList

\* eq_function_ptr (compacting.c)
MCEqualFunc ==
  [p \in Value \X Value |-> IF p[1] > p[2] THEN 1
                            ELSE IF p[1] < p[2] THEN -1
                            ELSE 0]

MCIndices == -1 .. MaxLength + 1
Positions == 0 .. MaxLength

MCPredicates == {Positions \X {0}, {0, 2} \X Value, {<<1, 1>>}}

\* The elements at odd positions are exchanged.
MCUpdates ==
  {[p \in Positions \X Value |-> IF p[1] % 2 = 0 THEN p[2] ELSE 1 - p[2]]}
=============================================================================
