---------------------------- MODULE MCRefinement ----------------------------
(***************************************************************************)
(* The refinement of ManagedHeap by Compacting, checked with the mapped    *)
(* state kept in a variable of its own: TLC would evaluate the mapping     *)
(* anew at every occurrence of var and graph.                              *)
(***************************************************************************)
EXTENDS MCCompacting

VARIABLE managed  \* the refinement mapping: what stands for var and graph

MappedHeap(live) ==
  [var |-> [x \in Locals |-> Identity(stack[x])], graph |-> GraphOf(live)]

\* \E makes TLC evaluate Live once.
MCInit == Init /\ \E live \in {Live} : managed = MappedHeap(live)
MCNext == Next /\ \E live \in {Live'} : managed' = MappedHeap(live)'
MCSpec == MCInit /\ [][MCNext]_<<vars, managed>>

MCManaged ==
  INSTANCE ManagedHeap WITH
    Variables <- Locals, var <- managed.var, graph <- managed.graph

\* What the program sees is the managed heap of gc.h: through any number of
\* collections its variables, and the pointer fields of the objects it
\* reaches, lead to the same objects.
RefinesManagedHeap == MCManaged!Spec

=============================================================================
