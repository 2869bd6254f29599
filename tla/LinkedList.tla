------------------------------ MODULE LinkedList ------------------------------
(***************************************************************************)
(* platform/osal/src/singlelinkedlist.c: a List made of nodes, with a      *)
(* pointer to the last node for adding and one to the node that was asked  *)
(* for last, so that walking through the list by index takes one step per  *)
(* element.                                                                *)
(*                                                                         *)
(* A list belongs to one caller at a time; each operation is one step.     *)
(***************************************************************************)
EXTENDS Naturals, FiniteSets

CONSTANTS Nodes,      \* the addresses getmem may give to a node
          Elements,
          Indices,    \* those asked for, in the list or beyond
          Null

ASSUME ListAssumption == Null \notin Nodes /\ IsFiniteSet(Nodes) /\ Indices \subseteq Nat

VARIABLES element, next,    \* of each node
          allocated,        \* the nodes in use
          first, last_elm, size,
          last, lasti,      \* the node asked for last, and its index
          list_answer       \* what the last call returned

chainVars == <<element, next, allocated, first, last_elm, size>>
listVars == <<chainVars, last, lasti, list_answer>>

SingleLinkedList_new ==
  /\ element = [n \in Nodes |-> Null]
  /\ next = [n \in Nodes |-> Null]
  /\ allocated = {}
  /\ first = Null /\ last_elm = Null /\ size = 0
  /\ last = Null /\ lasti = 0
  /\ list_answer = Null

(* Where a walk of i steps from the first node ends; it stops early at the *)
(* end of the chain.                                                       *)
Walk(i) == LET cur[j \in 0 .. i] ==
                 IF j = 0 THEN first
                 ELSE IF next[cur[j - 1]] = Null THEN cur[j - 1]
                 ELSE next[cur[j - 1]]
           IN  cur[i]

Forget == last' = Null /\ lasti' = 0

(* NodeNew, and hang it behind the last node or, in an empty list, make it *)
(* the first.                                                              *)
List_add_element(e) ==
  \E n \in Nodes \ allocated :
    /\ allocated' = allocated \cup {n}
    /\ element' = [element EXCEPT ![n] = e]
    /\ next' = [m \in Nodes |-> IF m = n THEN Null
                                ELSE IF m = last_elm /\ first # Null THEN n
                                ELSE next[m]]
    /\ first' = IF first = Null THEN n ELSE first
    /\ size' = IF first = Null THEN 1 ELSE size + 1
    /\ last_elm' = n
    /\ Forget
    /\ UNCHANGED list_answer

GetBeyond(i) == /\ i >= size
                /\ list_answer' = Null
                /\ UNCHANGED <<last, lasti>>
GetNext(i) == /\ i < size /\ last # Null /\ i = lasti + 1
              /\ last' = next[last] /\ lasti' = i
              /\ list_answer' = element[next[last]]
GetAgain(i) == /\ i < size /\ last # Null /\ i = lasti
               /\ list_answer' = element[last]
               /\ UNCHANGED <<last, lasti>>
GetFromFirst(i) == /\ i < size /\ (last = Null \/ i \notin {lasti, lasti + 1})
                   /\ last' = Walk(i) /\ lasti' = i
                   /\ list_answer' = element[Walk(i)]

List_get_element(i) == /\ GetBeyond(i) \/ GetNext(i) \/ GetAgain(i) \/ GetFromFirst(i)
                       /\ UNCHANGED chainVars

\* Mutant of List_rem_element: the node asked for last stays remembered.
List_rem_element_Remembers(i) ==
  IF i >= size
  THEN list_answer' = Null /\ UNCHANGED <<chainVars, last, lasti>>
  ELSE LET cur == Walk(i)
           prv == IF cur = first THEN Null ELSE Walk(i - 1)
       IN  /\ first' = IF prv = Null THEN next[cur] ELSE first
           /\ next' = [m \in Nodes |-> IF m = prv THEN next[cur] ELSE next[m]]
           /\ last_elm' = IF cur = last_elm THEN prv ELSE last_elm
           /\ allocated' = allocated \ {cur}
           /\ size' = size - 1
           /\ list_answer' = element[cur]
           /\ UNCHANGED <<element, last, lasti>>

(* Take a node out and free it.                                            *)
List_rem_element(i) ==
  IF i >= size
  THEN list_answer' = Null /\ UNCHANGED <<chainVars, last, lasti>>
  ELSE LET cur == Walk(i)
           prv == IF cur = first THEN Null ELSE Walk(i - 1)
       IN  /\ first' = IF prv = Null THEN next[cur] ELSE first
           /\ next' = [m \in Nodes |-> IF m = prv THEN next[cur] ELSE next[m]]
           /\ last_elm' = IF cur = last_elm THEN prv ELSE last_elm
           /\ allocated' = allocated \ {cur}
           /\ size' = size - 1
           /\ list_answer' = element[cur]
           /\ Forget
           /\ UNCHANGED element

List_size == list_answer' = size /\ UNCHANGED <<chainVars, last, lasti>>

(* Free the nodes, from the first to the end of the chain; then a new list.*)
SingleLinkedList_destroy ==
  /\ allocated' = IF first = Null THEN allocated
                  ELSE allocated \ {Walk(i) : i \in 0 .. Cardinality(Nodes)}
  /\ first' = Null /\ last_elm' = Null /\ size' = 0
  /\ Forget
  /\ UNCHANGED <<element, next, list_answer>>

ListNext == \/ \E e \in Elements : List_add_element(e)
            \/ \E i \in Indices : List_get_element(i) \/ List_rem_element(i)
            \/ List_size \/ SingleLinkedList_destroy

ListSpec == SingleLinkedList_new /\ [][ListNext]_listVars
----------------------------------------------------------------------------
(* The nodes in use are those of a chain of size nodes, each the next of   *)
(* the one before, the last of which adding hangs new nodes behind; the    *)
(* remembered node is the one at the remembered index.                     *)
ListShape ==
  /\ allocated = {Walk(i) : i \in 0 .. size - 1}
  /\ Cardinality(allocated) = size
  /\ first = Null <=> size = 0
  /\ size > 0 => last_elm = Walk(size - 1) /\ next[last_elm] = Null
  /\ last # Null => lasti < size /\ last = Walk(lasti)

ElementsOf == [i \in 1 .. size |-> element[Walk(i - 1)]]

Elist == INSTANCE ElementList WITH list <- ElementsOf, answer <- list_answer

(* A linked list is a list: whatever was asked, added and taken out before,*)
(* each call gives and leaves what it would on a sequence, in a chain of   *)
(* the right shape.                                                        *)
ListImplementsSequence == Elist!Spec /\ [][ListShape']_listVars
=============================================================================
