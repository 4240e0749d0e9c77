---------------------------- MODULE AbstractList ----------------------------
(***************************************************************************)
(* What lib/linked_list.h promises: a list is a sequence, and a call works *)
(* on it in one step, between being made and being answered.               *)
(***************************************************************************)
EXTENDS ListCalls

VARIABLES list, call, answer

abstractVars == <<list, call, answer>>

InsertedAt(l, k, v) ==
  [j \in 1 .. Len(l) + 1 |-> IF j <= k THEN l[j]
                             ELSE IF j = k + 1 THEN v
                             ELSE l[j - 1]]

RemovedAt(l, k) ==
  [j \in 1 .. Len(l) - 1 |-> IF j <= k THEN l[j] ELSE l[j + 1]]

\* The list after call c
Effect(l, c) ==
  CASE c.op = "insert" /\ c.index \in 0 .. Len(l) ->
         InsertedAt(l, c.index, c.value)
    [] c.op = "remove" /\ c.index \in 0 .. Len(l) - 1 -> RemovedAt(l, c.index)
    [] c.op = "apply_to_all" ->
         [j \in 1 .. Len(l) |-> c.fun[<<j - 1, l[j]>>]]
    [] c.op = "clear" -> <<>>
    [] c.op = "destroy" -> NoList
    [] OTHER -> l

\* The answer to call c
Result(l, c) ==
  CASE c.op \in {"get", "remove"} ->
         IF c.index \in 0 .. Len(l) - 1
           THEN Answer(TRUE, l[c.index + 1])
           ELSE Answer(FALSE, NULL)
    [] c.op = "contains" ->
         Answer(\E j \in 1 .. Len(l) : l[j] = c.value, NULL)
    [] c.op = "all" ->
         Answer(\A j \in 1 .. Len(l) : <<j - 1, l[j]>> \in c.prop, NULL)
    [] c.op = "any" ->
         Answer(\E j \in 1 .. Len(l) : <<j - 1, l[j]>> \in c.prop, NULL)
    [] c.op = "size" -> Answer(TRUE, Len(l))
    [] c.op = "is_empty" -> Answer(Len(l) = 0, NULL)
    [] OTHER -> Done

-----------------------------------------------------------------------------

AbstractInit == list = NoList /\ call = NoCall /\ answer = NoAnswer

Create ==
  /\ list = NoList
  /\ list' = <<>>
  /\ UNCHANGED <<call, answer>>

Call(c) ==
  /\ list # NoList /\ call = NoCall
  /\ call' = c
  /\ answer' = NoAnswer
  /\ UNCHANGED list

Return ==
  /\ call # NoCall
  /\ list' = Effect(list, call)
  /\ answer' = Result(list, call)
  /\ call' = NoCall

AbstractNext == Create \/ Return \/ \E c \in Calls : Call(c)

AbstractSpec == AbstractInit /\ [][AbstractNext]_abstractVars

=============================================================================
