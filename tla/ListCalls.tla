------------------------------ MODULE ListCalls ------------------------------
(***************************************************************************)
(* The calls of a list (lib/linked_list.h) and what they answer, common to *)
(* the promise (AbstractList) and the code (LinkedList).                   *)
(***************************************************************************)
EXTENDS Integers, Sequences

CONSTANTS
  Value,       \* elem_t
  Indices,     \* the index arguments
  Predicates,  \* the functions given to all and any: the pairs they accept
  Updates,     \* the functions given to apply_to_all, from pairs to values
  MaxLength,   \* bound: the length of the longest list
  NULL,
  NoCall, NoAnswer, NoList

\* ioopm_linked_list_...: append and prepend are insertions at size and at 0.
IndexedCalls ==
  [op : {"insert"}, index : Indices, value : Value]
    \cup [op : {"get", "remove"}, index : Indices]

SearchCalls ==
  [op : {"contains"}, value : Value]
    \cup [op : {"all", "any"}, prop : Predicates]

ApplyCalls == [op : {"apply_to_all"}, fun : Updates]

FreeingCalls == [op : {"clear", "destroy"}]

SizeCalls == [op : {"size", "is_empty"}]

Calls ==
  IndexedCalls \cup SearchCalls \cup ApplyCalls \cup FreeingCalls
    \cup SizeCalls

ASSUME ListCallsAssumption ==
  /\ Indices \subseteq Int
  /\ MaxLength \in Nat
  /\ Updates \subseteq [(0 .. MaxLength) \X Value -> Value]
  /\ NULL \notin Value
  /\ NoCall \notin Calls
  /\ NoList \notin Seq(Value)

\* What a call returns, and what it stores through its result pointer.
Answer(b, v) == [returns |-> b, result |-> v]
Done == Answer(TRUE, NULL)

=============================================================================
