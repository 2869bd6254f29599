----------------------------- MODULE ElementList -----------------------------
(***************************************************************************)
(* What a List promises those who use it (platform/osal/include/list.h):   *)
(* elements in the order they were added, counted from zero.               *)
(***************************************************************************)
EXTENDS Naturals, Sequences, SequencesExt

CONSTANTS Elements, Indices, Null

VARIABLES list,     \* the elements
          answer    \* what the last call returned

Init == list = <<>> /\ answer = Null

Element(i) == IF i < Len(list) THEN list[i + 1] ELSE Null

Add(e) == list' = Append(list, e) /\ UNCHANGED answer
Get(i) == answer' = Element(i) /\ UNCHANGED list
Size == answer' = Len(list) /\ UNCHANGED list
TakeOut(i) == /\ answer' = Element(i)
             /\ list' = IF i < Len(list) THEN RemoveAt(list, i + 1) ELSE list
Renew == list' = <<>> /\ UNCHANGED answer

Next == \/ \E e \in Elements : Add(e)
        \/ \E i \in Indices : Get(i) \/ TakeOut(i)
        \/ Size \/ Renew

Spec == Init /\ [][Next]_<<list, answer>>
=============================================================================
