----------------------------- MODULE LibraryProofs -----------------------------
(***************************************************************************)
(* The parts of the library that serve one caller at a time.               *)
(*                                                                         *)
(* A single linked list is a sequence, whatever calls come in which order: *)
(* the nodes that hang together behind the first hold the elements, and    *)
(* they are the nodes allocated.                                           *)
(*                                                                         *)
(* The two maps are keyed stores: equal keys of a bucket have equal        *)
(* elements, a key is in the bucket it hashes to and in no other.          *)
(*                                                                         *)
(* A commitment binds, for messages of any length, any block size and      *)
(* field of the length: what sha512_hash makes of two messages before it   *)
(* compresses differs.  The proof makes no use of the length at the end:   *)
(* that the marker is followed by zeros only is enough.                    *)
(*                                                                         *)
(* The parser makes of a listing the gates that are written in it, however *)
(* many there are, whatever the lines between them, wherever it ends.      *)
(***************************************************************************)
EXTENDS LinkedList, HashMaps, Commitments, CircuitParser, SequenceLemmas, FiniteSetTheorems,
        FunctionTheorems, TLAPS

-----------------------------------------------------------------------------
(* Sequences without one of their members.                                 *)
LEMMA RemoveAtMembers ==
  ASSUME NEW T, NEW s \in Seq(T), NEW i \in 1 .. Len(s)
  PROVE  /\ RemoveAt(s, i) \in Seq(T) /\ Len(RemoveAt(s, i)) = Len(s) - 1
         /\ \A j \in 1 .. i - 1 : RemoveAt(s, i)[j] = s[j]
         /\ \A j \in i .. Len(s) - 1 : RemoveAt(s, i)[j] = s[j + 1]
<1> DEFINE n == Len(s)
           a == SubSeq(s, 1, i - 1)
           b == SubSeq(s, i + 1, n)
<1>1. n \in Nat /\ i \in Nat /\ 1 <= i /\ i <= n /\ i - 1 \in Nat /\ n - i \in Nat
  OBVIOUS
<1>2. a \in Seq(T) /\ Len(a) = i - 1 /\ \A j \in 1 .. i - 1 : a[j] = s[j]
  <2>1. /\ SubSeq(s, 0 + 1, 0 + (i - 1)) \in Seq(T)
        /\ Len(SubSeq(s, 0 + 1, 0 + (i - 1))) = i - 1
        /\ \A j \in 1 .. i - 1 : SubSeq(s, 0 + 1, 0 + (i - 1))[j] = s[0 + j]
    <3>1. 0 + (i - 1) <= Len(s)
      BY <1>1
    <3> QED BY <1>1, <3>1, Window
  <2>2. a = SubSeq(s, 0 + 1, 0 + (i - 1))
    BY <1>1
  <2> HIDE DEF a
  <2>3. \A j \in 1 .. i - 1 : 0 + j = j
    OBVIOUS
  <2> QED BY <2>1, <2>2, <2>3
<1>3. b \in Seq(T) /\ Len(b) = n - i /\ \A j \in 1 .. n - i : b[j] = s[i + j]
  <2>1. /\ SubSeq(s, i + 1, i + (n - i)) \in Seq(T)
        /\ Len(SubSeq(s, i + 1, i + (n - i))) = n - i
        /\ \A j \in 1 .. n - i : SubSeq(s, i + 1, i + (n - i))[j] = s[i + j]
    <3>1. i + (n - i) <= Len(s)
      BY <1>1
    <3> HIDE DEF n
    <3> QED BY <1>1, <3>1, Window
  <2>2. b = SubSeq(s, i + 1, i + (n - i))
    BY <1>1
  <2> QED BY <2>1, <2>2
<1>4. RemoveAt(s, i) = a \o b
  BY DEF RemoveAt
<1> HIDE DEF a, b
<1>5. /\ a \o b \in Seq(T) /\ Len(a \o b) = Len(a) + Len(b)
      /\ \A j \in 1 .. Len(a) : (a \o b)[j] = a[j]
      /\ \A j \in 1 .. Len(b) : (a \o b)[Len(a) + j] = b[j]
  <2>1. a \in Seq(T) /\ b \in Seq(T)
    BY <1>2, <1>3
  <2> QED BY <2>1
<1>6. Len(a \o b) = n - 1
  BY <1>1, <1>2, <1>3, <1>5
<1>7. ASSUME NEW j \in i .. n - 1 PROVE (a \o b)[j] = s[j + 1]
  <2>1. j - (i - 1) \in 1 .. n - i /\ (i - 1) + (j - (i - 1)) = j /\ i + (j - (i - 1)) = j + 1
    BY <1>1
  <2>2. (a \o b)[Len(a) + (j - (i - 1))] = b[j - (i - 1)]
    BY <1>3, <1>5, <2>1
  <2> QED BY <1>2, <1>3, <2>1, <2>2
<1> QED BY <1>2, <1>4, <1>5, <1>6, <1>7
-----------------------------------------------------------------------------
(* Walks along a chain: the function that Walk picks, with the pointers it *)
(* follows as parameters.                                                  *)
Follow(nx, s, i) ==
  LET at[j \in 0 .. i] == IF j = 0 THEN s
                          ELSE IF nx[at[j - 1]] = Null THEN at[j - 1]
                          ELSE nx[at[j - 1]]
  IN  at[i]

Steps(c, nx, s, i) ==
  c = [j \in 0 .. i |-> IF j = 0 THEN s
                        ELSE IF nx[c[j - 1]] = Null THEN c[j - 1]
                        ELSE nx[c[j - 1]]]

LEMMA StepsExist ==
  ASSUME NEW nx, NEW s, NEW k \in Nat
  PROVE  \E c : Steps(c, nx, s, k)
<1> DEFINE P == {n \in Nat : \E c : Steps(c, nx, s, n)}
<1>1. 0 \in P
  <2>1. Steps([j \in 0 .. 0 |-> s], nx, s, 0)
    BY DEF Steps
  <2> QED BY <2>1
<1>2. ASSUME NEW n \in Nat, n \in P PROVE n + 1 \in P
  <2>1. PICK c : Steps(c, nx, s, n)
    BY <1>2
  <2> DEFINE v == IF nx[c[n]] = Null THEN c[n] ELSE nx[c[n]]
             d == [j \in 0 .. n + 1 |-> IF j = n + 1 THEN v ELSE c[j]]
  <2>2. ASSUME NEW j \in 0 .. n + 1
        PROVE  d[j] = IF j = 0 THEN s ELSE IF nx[d[j - 1]] = Null THEN d[j - 1]
                                           ELSE nx[d[j - 1]]
    <3>1. CASE j = n + 1
      <4>1. j # 0 /\ j - 1 = n /\ n \in 0 .. n + 1 /\ n # n + 1
        BY <3>1
      <4>2. d[j] = v /\ d[j - 1] = c[n]
        BY <3>1, <4>1
      <4> QED BY <4>1, <4>2
    <3>2. CASE j \in 0 .. n
      <4>1. d[j] = c[j] /\ (j # 0 => d[j - 1] = c[j - 1])
        BY <3>2
      <4>2. c[j] = IF j = 0 THEN s ELSE IF nx[c[j - 1]] = Null THEN c[j - 1]
                                        ELSE nx[c[j - 1]]
        BY <2>1, <3>2 DEF Steps
      <4> QED BY <4>1, <4>2
    <3> QED BY <3>1, <3>2
  <2>3. d = [j \in 0 .. n + 1 |-> d[j]]
    OBVIOUS
  <2> HIDE DEF d
  <2>4. Steps(d, nx, s, n + 1)
    BY <2>2, <2>3 DEF Steps
  <2> QED BY <2>4
<1>3. \A n \in Nat : n \in P
  <2> HIDE DEF P
  <2> QED BY <1>1, <1>2, SetInduction
<1> QED BY <1>3

(* c is a chain of n nodes that begins with s and ends with a null pointer.*)
IsChain(c, n, nx, s) ==
  /\ c \in [0 .. n - 1 -> Nodes]
  /\ \A i, j \in 0 .. n - 1 : c[i] = c[j] => i = j
  /\ s = IF n = 0 THEN Null ELSE c[0]
  /\ \A i \in 0 .. n - 1 : nx[c[i]] = IF i = n - 1 THEN Null ELSE c[i + 1]

LEMMA ChainFollowed ==
  ASSUME NEW n \in Nat, NEW nx, NEW s, NEW c, IsChain(c, n, nx, s), NEW i \in 0 .. n - 1
  PROVE  Follow(nx, s, i) = c[i]
<1> DEFINE h == CHOOSE f : Steps(f, nx, s, i)
<1>1. Follow(nx, s, i) = h[i]
  BY DEF Follow, Steps
<1>2. i \in Nat /\ i < n /\ n # 0
  OBVIOUS
<1>3. Steps(h, nx, s, i)
  BY <1>2, StepsExist
<1> HIDE DEF h
<1> DEFINE P == {j \in Nat : j <= i => h[j] = c[j]}
<1>4. 0 \in P
  <2>1. h[0] = s
    BY <1>2, <1>3 DEF Steps
  <2> QED BY <1>2, <2>1 DEF IsChain
<1>5. ASSUME NEW j \in Nat, j \in P PROVE j + 1 \in P
  <2> SUFFICES ASSUME j + 1 <= i PROVE h[j + 1] = c[j + 1]
    OBVIOUS
  <2>1. h[j] = c[j] /\ j \in 0 .. n - 1 /\ j + 1 \in 0 .. n - 1 /\ j # n - 1
    BY <1>2, <1>5
  <2>2. h[j + 1] = IF nx[h[j]] = Null THEN h[j] ELSE nx[h[j]]
    <3>1. j + 1 \in 0 .. i /\ j + 1 # 0 /\ (j + 1) - 1 = j
      BY <1>2
    <3>2. \A m \in 0 .. i : h[m] = IF m = 0 THEN s
                                   ELSE IF nx[h[m - 1]] = Null THEN h[m - 1]
                                   ELSE nx[h[m - 1]]
      BY <1>3 DEF Steps
    <3>3. h[j + 1] = IF nx[h[(j + 1) - 1]] = Null THEN h[(j + 1) - 1]
                     ELSE nx[h[(j + 1) - 1]]
      BY <3>1, <3>2
    <3> QED BY <3>1, <3>3
  <2>3. nx[c[j]] = c[j + 1] /\ c[j + 1] \in Nodes
    BY <2>1 DEF IsChain
  <2> QED BY <2>1, <2>2, <2>3, ListAssumption
<1>6. \A j \in Nat : j \in P
  <2> HIDE DEF P
  <2> QED BY <1>4, <1>5, SetInduction
<1> QED BY <1>1, <1>2, <1>6
-----------------------------------------------------------------------------
ListType ==
  /\ element \in [Nodes -> Elements \cup {Null}]
  /\ next \in [Nodes -> Nodes \cup {Null}]
  /\ size \in Nat

(* c is the chain of the list, and the pointers into it are right.         *)
ChainIs(c) ==
  /\ IsChain(c, size, next, first)
  /\ allocated = {c[i] : i \in 0 .. size - 1}
  /\ size > 0 => last_elm = c[size - 1]
  /\ last # Null => lasti \in 0 .. size - 1 /\ last = c[lasti]

ListInv == ListType /\ \E c : ChainIs(c)

(* What the list holds, by its chain.                                      *)
Held(c, n, el) == [i \in 1 .. n |-> el[c[i - 1]]]

LEMMA ChainWalked ==
  ASSUME size \in Nat, NEW c, ChainIs(c), NEW i \in 0 .. size - 1
  PROVE  Walk(i) = c[i] /\ c[i] \in Nodes
<1>1. Walk(i) = Follow(next, first, i)
  BY DEF Walk, Follow
<1>2. IsChain(c, size, next, first)
  BY DEF ChainIs
<1> QED BY <1>1, <1>2, ChainFollowed DEF IsChain

LEMMA ElementsHeld ==
  ASSUME size \in Nat, NEW c, ChainIs(c)
  PROVE  ElementsOf = Held(c, size, element)
<1>1. ASSUME NEW i \in 1 .. size PROVE element[Walk(i - 1)] = element[c[i - 1]]
  <2>1. i - 1 \in 0 .. size - 1
    OBVIOUS
  <2> QED BY <2>1, ChainWalked
<1> QED BY <1>1 DEF ElementsOf, Held

LEMMA ElementsHeldNext ==
  ASSUME NEW n \in Nat, size' = n, NEW c, IsChain(c, n, next', first')
  PROVE  ElementsOf' = Held(c, n, element')
<1>1. ASSUME NEW i \in 1 .. n PROVE Follow(next', first', i - 1) = c[i - 1]
  <2>1. i - 1 \in 0 .. n - 1
    OBVIOUS
  <2> QED BY <2>1, ChainFollowed
<1>2. ElementsOf' = [i \in 1 .. n |-> element'[Follow(next', first', i - 1)]]
  BY DEF ElementsOf, Walk, Follow
<1> QED BY <1>1, <1>2 DEF Held

LEMMA HeldType ==
  ASSUME NEW n \in Nat, NEW c \in [0 .. n - 1 -> Nodes],
         NEW el \in [Nodes -> Elements \cup {Null}]
  PROVE  /\ Held(c, n, el) \in Seq(Elements \cup {Null}) /\ Len(Held(c, n, el)) = n
         /\ \A i \in 1 .. n : Held(c, n, el)[i] = el[c[i - 1]]
<1>1. \A i \in 1 .. n : el[c[i - 1]] \in Elements \cup {Null}
  OBVIOUS
<1>2. Held(c, n, el) \in [1 .. n -> Elements \cup {Null}]
  BY <1>1 DEF Held
<1>3. \A i \in 1 .. n : Held(c, n, el)[i] = el[c[i - 1]]
  BY DEF Held
<1> HIDE DEF Held
<1> QED BY <1>2, <1>3

(* What the list answers of an index.                                      *)
LEMMA ElementIs ==
  ASSUME ListType, NEW c, ChainIs(c), NEW i \in Nat
  PROVE  Elist!Element(i) = IF i < size THEN element[c[i]] ELSE Null
<1>1. size \in Nat /\ c \in [0 .. size - 1 -> Nodes]
      /\ element \in [Nodes -> Elements \cup {Null}]
  BY DEF ListType, ChainIs, IsChain
<1>2. ElementsOf = Held(c, size, element)
  BY <1>1, ElementsHeld
<1>3. /\ Len(ElementsOf) = size
      /\ \A j \in 1 .. size : ElementsOf[j] = element[c[j - 1]]
  BY <1>1, <1>2, HeldType
<1>4. i < size => i + 1 \in 1 .. size /\ (i + 1) - 1 = i
  BY <1>1
<1> QED BY <1>3, <1>4 DEF Elist!Element
-----------------------------------------------------------------------------
LEMMA AddStep ==
  ASSUME ListType, NEW c, ChainIs(c), NEW e \in Elements, List_add_element(e)
  PROVE  ListType' /\ (\E d : ChainIs(d)') /\ Elist!Add(e)
<1> DEFINE S == Elements \cup {Null}
<1>1. /\ size \in Nat /\ element \in [Nodes -> S] /\ next \in [Nodes -> Nodes \cup {Null}]
      /\ c \in [0 .. size - 1 -> Nodes]
      /\ \A i, j \in 0 .. size - 1 : c[i] = c[j] => i = j
      /\ first = IF size = 0 THEN Null ELSE c[0]
      /\ \A i \in 0 .. size - 1 : next[c[i]] = IF i = size - 1 THEN Null ELSE c[i + 1]
      /\ allocated = {c[i] : i \in 0 .. size - 1}
      /\ size > 0 => last_elm = c[size - 1]
  BY DEF ListType, ChainIs, IsChain
<1>2. PICK n \in Nodes \ allocated :
        /\ allocated' = allocated \cup {n}
        /\ element' = [element EXCEPT ![n] = e]
        /\ next' = [m \in Nodes |-> IF m = n THEN Null
                                    ELSE IF m = last_elm /\ first # Null THEN n
                                    ELSE next[m]]
        /\ first' = IF first = Null THEN n ELSE first
        /\ size' = IF first = Null THEN 1 ELSE size + 1
        /\ last_elm' = n /\ last' = Null
        /\ UNCHANGED list_answer
  BY DEF List_add_element, Forget
<1>3. \A i \in 0 .. size - 1 : c[i] \in Nodes /\ c[i] # n /\ c[i] # Null
  BY <1>1, <1>2, ListAssumption
<1>4. first = Null <=> size = 0
  <2>1. size # 0 => 0 \in 0 .. size - 1
    BY <1>1
  <2> QED BY <1>1, <1>3, <2>1
<1>5. size' = size + 1
  BY <1>1, <1>2, <1>4
<1> DEFINE longer == [i \in 0 .. size |-> IF i = size THEN n ELSE c[i]]
<1>6. size' - 1 = size /\ size' # 0
  BY <1>1, <1>5
<1>7. PICK d : /\ d[size] = n /\ \A i \in 0 .. size - 1 : d[i] = c[i]
               /\ d \in [0 .. size -> Nodes]
  <2>1. /\ longer[size] = n /\ \A i \in 0 .. size - 1 : longer[i] = c[i]
        /\ longer \in [0 .. size -> Nodes]
    BY <1>1, <1>2
  <2> QED BY <2>1

<1>8. IsChain(d, size', next', first')
  <2>1. d \in [0 .. size' - 1 -> Nodes]
    BY <1>6, <1>7
  <2>2. ASSUME NEW i \in 0 .. size' - 1, NEW j \in 0 .. size' - 1, d[i] = d[j] PROVE i = j
    <3>1. (i = size \/ i \in 0 .. size - 1) /\ (j = size \/ j \in 0 .. size - 1)
      BY <1>1, <1>6
    <3> QED BY <1>1, <1>3, <1>7, <2>2, <3>1
  <2>3. first' = d[0]
    <3>1. CASE size = 0
      BY <1>2, <1>4, <1>7, <3>1
    <3>2. CASE size # 0
      <4>1. 0 \in 0 .. size - 1
        BY <1>1, <3>2
      <4> QED BY <1>1, <1>2, <1>4, <1>7, <3>2, <4>1
    <3> QED BY <3>1, <3>2
  <2>4. ASSUME NEW i \in 0 .. size' - 1
        PROVE  next'[d[i]] = IF i = size' - 1 THEN Null ELSE d[i + 1]
    <3>1. CASE i = size
      BY <1>2, <1>6, <1>7, <3>1
    <3>2. CASE i \in 0 .. size - 1
      <4>1. d[i] = c[i] /\ c[i] \in Nodes /\ c[i] # n /\ i # size /\ size > 0
        BY <1>1, <1>3, <1>7, <3>2
      <4>2. next'[c[i]] = IF c[i] = last_elm THEN n ELSE next[c[i]]
        BY <1>2, <1>4, <4>1
      <4>3. size - 1 \in 0 .. size - 1 /\ last_elm = c[size - 1]
        BY <1>1, <4>1
      <4>4. c[i] = last_elm <=> i = size - 1
        BY <1>1, <3>2, <4>3
      <4>5. i # size - 1 => i + 1 \in 0 .. size - 1
        BY <1>1, <3>2
      <4>6. i = size - 1 => i + 1 = size
        BY <1>1
      <4> QED BY <1>1, <1>6, <1>7, <3>2, <4>1, <4>2, <4>4, <4>5, <4>6
    <3>3. i = size \/ i \in 0 .. size - 1
      BY <1>1, <1>6
    <3> QED BY <3>1, <3>2, <3>3
  <2> QED BY <1>6, <2>1, <2>2, <2>3, <2>4 DEF IsChain
<1>9. ChainIs(d)'
  <2>1. allocated' = {d[i] : i \in 0 .. size' - 1}
    <3>1. \A i \in 0 .. size : i = size \/ i \in 0 .. size - 1
      BY <1>1
    <3>2. size \in 0 .. size /\ \A i \in 0 .. size - 1 : i \in 0 .. size
      BY <1>1
    <3>3. {d[i] : i \in 0 .. size} = {c[i] : i \in 0 .. size - 1} \cup {n}
      BY <1>7, <3>1, <3>2
    <3> QED BY <1>1, <1>2, <1>6, <3>3
  <2>2. last_elm' = d[size' - 1] /\ last' = Null
    BY <1>2, <1>6, <1>7
  <2> QED BY <1>8, <2>1, <2>2 DEF ChainIs
<1>10. ListType'
  <2>1. element' \in [Nodes -> S]
    BY <1>1, <1>2
  <2>2. next' \in [Nodes -> Nodes \cup {Null}]
    <3>1. \A m \in Nodes : next[m] \in Nodes \cup {Null}
      BY <1>1
    <3> QED BY <1>2, <3>1
  <2> QED BY <1>1, <1>5, <2>1, <2>2 DEF ListType
<1>11. ElementsOf' = Append(ElementsOf, e)
  <2>1. /\ ElementsOf \in Seq(S) /\ Len(ElementsOf) = size
        /\ \A i \in 1 .. size : ElementsOf[i] = element[c[i - 1]]
    BY <1>1, ElementsHeld, HeldType
  <2>2. size \in Nat /\ size + 1 \in Nat /\ size' = size + 1 /\ (size + 1) - 1 = size
    BY <1>1, <1>5
  <2>3. /\ ElementsOf' \in Seq(S) /\ Len(ElementsOf') = size + 1
        /\ \A i \in 1 .. size + 1 : ElementsOf'[i] = element'[d[i - 1]]
    <3>1. ElementsOf' = Held(d, size + 1, element')
      BY <1>8, <2>2, ElementsHeldNext
    <3>2. element' \in [Nodes -> Elements \cup {Null}] /\ d \in [0 .. (size + 1) - 1 -> Nodes]
      BY <1>7, <1>10, <2>2 DEF ListType
    <3> QED BY <2>2, <3>1, <3>2, HeldType
  <2>4. /\ Append(ElementsOf, e) \in Seq(S) /\ Len(Append(ElementsOf, e)) = size + 1
        /\ Append(ElementsOf, e)[size + 1] = e
        /\ \A i \in 1 .. size : Append(ElementsOf, e)[i] = ElementsOf[i]
    <3>1. e \in S
      OBVIOUS
    <3> HIDE DEF S
    <3> QED BY <2>1, <3>1
  <2>5. ASSUME NEW i \in 1 .. size + 1 PROVE ElementsOf'[i] = Append(ElementsOf, e)[i]
    <3>1. CASE i = size + 1
      <4>1. (size + 1) - 1 = size
        BY <1>1
      <4>2. element'[n] = e
        BY <1>1, <1>2
      <4> QED BY <1>7, <2>3, <2>4, <3>1, <4>1, <4>2
    <3>2. CASE i \in 1 .. size
      <4>1. i - 1 \in 0 .. size - 1
        BY <1>1, <3>2
      <4>2. d[i - 1] = c[i - 1] /\ c[i - 1] # n /\ c[i - 1] \in Nodes
        BY <1>3, <1>7, <4>1
      <4>3. element'[c[i - 1]] = element[c[i - 1]]
        BY <1>1, <1>2, <4>2
      <4> QED BY <2>1, <2>3, <2>4, <3>2, <4>2, <4>3
    <3>3. i = size + 1 \/ i \in 1 .. size
      BY <2>2
    <3> QED BY <3>1, <3>2, <3>3
  <2> HIDE DEF S
  <2> QED BY <2>3, <2>4, <2>5, SeqEqual
<1> QED BY <1>2, <1>9, <1>10, <1>11 DEF Elist!Add
(* Taking out the node at index i of the chain.                            *)
LEMMA RemStep ==
  ASSUME ListType, NEW c, ChainIs(c), NEW i \in Nat, i < size, List_rem_element(i)
  PROVE  ListType' /\ (\E d : ChainIs(d)') /\ Elist!TakeOut(i)
<1> DEFINE S == Elements \cup {Null}
<1>1. /\ size \in Nat /\ element \in [Nodes -> S] /\ next \in [Nodes -> Nodes \cup {Null}]
      /\ c \in [0 .. size - 1 -> Nodes]
      /\ \A j, k \in 0 .. size - 1 : c[j] = c[k] => j = k
      /\ first = IF size = 0 THEN Null ELSE c[0]
      /\ \A j \in 0 .. size - 1 : next[c[j]] = IF j = size - 1 THEN Null ELSE c[j + 1]
      /\ allocated = {c[j] : j \in 0 .. size - 1}
      /\ size > 0 => last_elm = c[size - 1]
  BY DEF ListType, ChainIs, IsChain
<1>2. i \in 0 .. size - 1 /\ size > 0 /\ 0 \in 0 .. size - 1 /\ first = c[0]
      /\ size - 1 \in 0 .. size - 1 /\ size - 1 \in Nat
  BY <1>1
<1>3. Walk(i) = c[i] /\ (i # 0 => Walk(i - 1) = c[i - 1] /\ i - 1 \in 0 .. size - 1)
  <2>1. i # 0 => i - 1 \in 0 .. size - 1
    BY <1>1
  <2> QED BY <1>1, <1>2, <2>1, ChainWalked
<1>4. \A j \in 0 .. size - 1 : c[j] \in Nodes /\ c[j] # Null
  BY <1>1, ListAssumption
<1>5. c[i] = first <=> i = 0
  BY <1>1, <1>2
<1> DEFINE prv == IF i = 0 THEN Null ELSE c[i - 1]
<1>6. /\ first' = IF prv = Null THEN next[c[i]] ELSE first
      /\ next' = [m \in Nodes |-> IF m = prv THEN next[c[i]] ELSE next[m]]
      /\ last_elm' = IF c[i] = last_elm THEN prv ELSE last_elm
      /\ allocated' = allocated \ {c[i]}
      /\ size' = size - 1
      /\ list_answer' = element[c[i]]
      /\ last' = Null /\ element' = element
  <2>1. ~(i >= size)
    BY <1>1
  <2>2. (IF Walk(i) = first THEN Null ELSE Walk(i - 1)) = prv
    BY <1>3, <1>5
  <2> HIDE DEF prv
  <2> QED BY <1>3, <2>1, <2>2 DEF List_rem_element, Forget
<1>7. prv = Null <=> i = 0
  BY <1>3, <1>4
<1> DEFINE shorter == [j \in 0 .. size - 2 |-> IF j < i THEN c[j] ELSE c[j + 1]]
<1>8. PICK d : /\ d \in [0 .. size - 2 -> Nodes]
               /\ \A j \in 0 .. size - 2 : d[j] = IF j < i THEN c[j] ELSE c[j + 1]
  <2>1. \A j \in 0 .. size - 2 : j \in 0 .. size - 1 /\ j + 1 \in 0 .. size - 1
    BY <1>1
  <2>2. shorter \in [0 .. size - 2 -> Nodes]
    BY <1>4, <2>1
  <2>3. \A j \in 0 .. size - 2 : shorter[j] = IF j < i THEN c[j] ELSE c[j + 1]
    OBVIOUS
  <2> HIDE DEF shorter
  <2> QED BY <2>2, <2>3
<1>9. \A j \in 0 .. size - 2 : j \in 0 .. size - 1 /\ j + 1 \in 0 .. size - 1 /\ j # size - 1
  BY <1>1
<1>10. (size - 1) - 1 = size - 2 /\ (size - 1 = 0 \/ 0 \in 0 .. size - 2)
  BY <1>1, <1>2
<1>11. IsChain(d, size - 1, next', first')
  <2>1. d \in [0 .. (size - 1) - 1 -> Nodes]
    BY <1>8, <1>10
  <2>2. ASSUME NEW j \in 0 .. size - 2, NEW k \in 0 .. size - 2, d[j] = d[k] PROVE j = k
    <3>1. /\ d[j] = IF j < i THEN c[j] ELSE c[j + 1]
          /\ d[k] = IF k < i THEN c[k] ELSE c[k + 1]
      BY <1>8
    <3> DEFINE p == IF j < i THEN j ELSE j + 1
               q == IF k < i THEN k ELSE k + 1
    <3>2. p \in 0 .. size - 1 /\ q \in 0 .. size - 1 /\ c[p] = c[q]
      BY <1>9, <2>2, <3>1
    <3>3. p = q
      BY <1>1, <3>2
    <3>4. j \in Int /\ k \in Int
      BY <1>1
    <3> QED BY <3>3, <3>4
  <2>3. first' = IF size - 1 = 0 THEN Null ELSE d[0]
    <3>1. CASE i = 0
      <4>1. first' = IF size - 1 = 0 THEN Null ELSE c[1]
        BY <1>1, <1>2, <1>6, <1>7, <3>1
      <4>2. size - 1 # 0 => d[0] = c[1]
        BY <1>8, <1>10, <3>1
      <4> QED BY <4>1, <4>2
    <3>2. CASE i # 0
      <4>1. first' = c[0] /\ size - 1 # 0
        BY <1>1, <1>2, <1>6, <1>7, <3>2
      <4>2. d[0] = c[0]
        BY <1>8, <1>10, <3>2, <4>1
      <4> QED BY <4>1, <4>2
    <3> QED BY <3>1, <3>2
  <2>4. ASSUME NEW j \in 0 .. size - 2
        PROVE  next'[d[j]] = IF j = size - 2 THEN Null ELSE d[j + 1]
    <3>1. j \in 0 .. size - 1 /\ j + 1 \in 0 .. size - 1 /\ j # size - 1 /\ j \in Int
      BY <1>1, <1>9
    <3>2. /\ d[j] = IF j < i THEN c[j] ELSE c[j + 1]
          /\ j # size - 2 => d[j + 1] = IF j + 1 < i THEN c[j + 1] ELSE c[j + 2]
      <4>1. j # size - 2 => j + 1 \in 0 .. size - 2 /\ (j + 1) + 1 = j + 2
        BY <1>1
      <4> QED BY <1>8, <4>1
    <3>3. d[j] \in Nodes
      BY <1>8
    <3>4. next'[d[j]] = IF d[j] = prv THEN next[c[i]] ELSE next[d[j]]
      BY <1>6, <3>3
    <3>5. CASE j + 1 = i
      <4>1. d[j] = prv /\ i - 1 = j /\ i # 0
        BY <3>1, <3>2, <3>5
      <4>2. next'[d[j]] = IF i = size - 1 THEN Null ELSE c[i + 1]
        BY <1>1, <1>2, <3>4, <4>1
      <4>3. (i = size - 1 <=> j = size - 2) /\ i + 1 = j + 2
        BY <1>1, <3>1, <3>5
      <4> QED BY <3>2, <3>5, <4>2, <4>3
    <3>6. CASE j + 1 < i
      <4>1. d[j] = c[j] /\ j + 1 # size - 1 /\ j # size - 2
        BY <1>1, <3>1, <3>2, <3>6
      <4>2. c[j] # prv
        BY <1>1, <1>3, <1>4, <3>1, <3>6
      <4>3. next[c[j]] = c[j + 1]
        BY <1>1, <3>1
      <4> QED BY <3>2, <3>4, <3>6, <4>1, <4>2, <4>3
    <3>7. CASE i <= j
      <4>1. d[j] = c[j + 1]
        BY <3>1, <3>2, <3>7
      <4>2. c[j + 1] # prv
        BY <1>1, <1>3, <1>4, <3>1, <3>7
      <4>3. next[c[j + 1]] = IF j + 1 = size - 1 THEN Null ELSE c[(j + 1) + 1]
        BY <1>1, <3>1
      <4>4. (j + 1 = size - 1 <=> j = size - 2) /\ (j + 1) + 1 = j + 2
        BY <1>1, <3>1
      <4> QED BY <3>1, <3>2, <3>4, <3>7, <4>1, <4>2, <4>3, <4>4
    <3> QED BY <3>1, <3>5, <3>6, <3>7
  <2> QED BY <1>10, <2>1, <2>2, <2>3, <2>4 DEF IsChain
<1>12. ChainIs(d)'
  <2>1. allocated' = {d[j] : j \in 0 .. size - 2}
    <3>1. ASSUME NEW j \in 0 .. size - 2
          PROVE  \E k \in 0 .. size - 1 : d[j] = c[k] /\ k # i
      <4>1. d[j] = IF j < i THEN c[j] ELSE c[j + 1]
        BY <1>8
      <4> QED BY <1>1, <1>9, <4>1
    <3>2. ASSUME NEW k \in 0 .. size - 1, k # i
          PROVE  \E j \in 0 .. size - 2 : d[j] = c[k]
      <4>1. CASE k < i
        <5>1. k \in 0 .. size - 2
          BY <1>1, <4>1
        <5> QED BY <1>8, <4>1, <5>1
      <4>2. CASE k > i
        <5>1. k - 1 \in 0 .. size - 2 /\ ~(k - 1 < i) /\ (k - 1) + 1 = k
          BY <1>1, <4>2
        <5> QED BY <1>8, <5>1
      <4>3. k < i \/ k > i
        BY <1>1, <3>2
      <4> QED BY <4>1, <4>2, <4>3
    <3>3. allocated' = {c[j] : j \in 0 .. size - 1} \ {c[i]}
      BY <1>1, <1>6
    <3>4. \A k \in 0 .. size - 1 : c[k] = c[i] <=> k = i
      BY <1>1, <1>2
    <3> QED BY <3>1, <3>2, <3>3, <3>4
  <2>2. size - 1 > 0 => last_elm' = d[(size - 1) - 1]
    <3> SUFFICES ASSUME size - 1 > 0 PROVE last_elm' = d[size - 2]
      BY <1>10
    <3>1. size - 2 \in 0 .. size - 2 /\ (size - 2) + 1 = size - 1
      BY <1>1
    <3>2. d[size - 2] = IF size - 2 < i THEN c[size - 2] ELSE c[size - 1]
      BY <1>8, <3>1
    <3>3. CASE i = size - 1
      <4>1. i - 1 = size - 2 /\ i # 0
        BY <1>1, <3>3
      <4>2. last_elm' = c[size - 2]
        BY <1>1, <1>2, <1>6, <3>3, <4>1
      <4> QED BY <1>1, <3>2, <3>3, <4>2
    <3>4. CASE i # size - 1
      <4>1. last_elm' = c[size - 1]
        BY <1>1, <1>2, <1>6, <3>4
      <4>2. ~(size - 2 < i)
        BY <1>1, <1>2, <3>4
      <4> QED BY <3>2, <4>1, <4>2
    <3> QED BY <3>3, <3>4
  <2>3. size' = size - 1 /\ last' = Null
    BY <1>6
  <2> QED BY <1>10, <1>11, <2>1, <2>2, <2>3 DEF ChainIs
<1>13. ListType'
  <2>1. next' \in [Nodes -> Nodes \cup {Null}]
    <3>1. next[c[i]] \in Nodes \cup {Null} /\ \A m \in Nodes : next[m] \in Nodes \cup {Null}
      BY <1>1, <1>2, <1>4
    <3> QED BY <1>6, <3>1
  <2>2. element' \in [Nodes -> Elements \cup {Null}]
    BY <1>1, <1>6
  <2> QED BY <1>2, <1>6, <2>1, <2>2 DEF ListType
<1>14. ElementsOf' = RemoveAt(ElementsOf, i + 1)
  <2>0. /\ size \in Nat /\ size - 1 \in Nat /\ c \in [0 .. size - 1 -> Nodes]
        /\ element \in [Nodes -> Elements \cup {Null}]
    BY <1>1, <1>2
  <2>1. /\ ElementsOf \in Seq(S) /\ Len(ElementsOf) = size
        /\ \A j \in 1 .. size : ElementsOf[j] = element[c[j - 1]]
    <3>1. ElementsOf = Held(c, size, element)
      BY <2>0, ElementsHeld
    <3> QED BY <2>0, <3>1, HeldType
  <2>2. /\ ElementsOf' \in Seq(S) /\ Len(ElementsOf') = size - 1
        /\ \A j \in 1 .. size - 1 : ElementsOf'[j] = element[d[j - 1]]
    <3>1. ElementsOf' = Held(d, size - 1, element)
      BY <1>2, <1>6, <1>11, ElementsHeldNext
    <3>2. d \in [0 .. (size - 1) - 1 -> Nodes]
      BY <1>8, <1>10
    <3> QED BY <2>0, <3>1, <3>2, HeldType
  <2>3. i + 1 \in 1 .. Len(ElementsOf)
    BY <1>1, <2>1
  <2>4. /\ RemoveAt(ElementsOf, i + 1) \in Seq(S)
        /\ Len(RemoveAt(ElementsOf, i + 1)) = size - 1
        /\ \A j \in 1 .. (i + 1) - 1 : RemoveAt(ElementsOf, i + 1)[j] = ElementsOf[j]
        /\ \A j \in i + 1 .. size - 1 : RemoveAt(ElementsOf, i + 1)[j] = ElementsOf[j + 1]
    <3> HIDE DEF S
    <3> QED BY <2>1, <2>3, RemoveAtMembers
  <2>5. ASSUME NEW j \in 1 .. size - 1
        PROVE  ElementsOf'[j] = RemoveAt(ElementsOf, i + 1)[j]
    <3>1. j - 1 \in 0 .. size - 2 /\ (j - 1) + 1 = j /\ j \in 1 .. size
          /\ j + 1 \in 1 .. size /\ (j + 1) - 1 = j
      BY <1>1
    <3>2. d[j - 1] = IF j - 1 < i THEN c[j - 1] ELSE c[j]
      BY <1>8, <3>1
    <3>3. CASE j - 1 < i
      <4>1. j \in 1 .. (i + 1) - 1
        BY <3>1, <3>3
      <4> QED BY <2>1, <2>2, <2>4, <3>1, <3>2, <3>3, <4>1
    <3>4. CASE ~(j - 1 < i)
      <4>1. j \in i + 1 .. size - 1
        BY <3>1, <3>4
      <4>2. RemoveAt(ElementsOf, i + 1)[j] = ElementsOf[j + 1]
        BY <2>4, <4>1
      <4>3. ElementsOf[j + 1] = element[c[j]]
        BY <2>1, <3>1
      <4> QED BY <2>2, <3>2, <3>4, <4>2, <4>3
    <3> QED BY <3>3, <3>4
  <2> HIDE DEF S
  <2> QED BY <2>2, <2>4, <2>5, SeqEqual
<1>15. Len(ElementsOf) = size /\ list_answer' = element[c[i]]
  <2>1. Len(ElementsOf) = size
    BY <1>1, ElementsHeld, HeldType
  <2> QED BY <1>6, <2>1
<1>16. Elist!Element(i) = element[c[i]]
  BY ElementIs
<1>17. Elist!TakeOut(i)
  BY <1>14, <1>15, <1>16 DEF Elist!TakeOut, Elist!RemoveAt, RemoveAt
<1> QED BY <1>12, <1>13, <1>17
(* Asking, by the remembered node or from the first, leaves the chain as   *)
(* it is.                                                                  *)
LEMMA SameElements ==
  ASSUME ListType, NEW c, ChainIs(c), UNCHANGED chainVars,
         last' # Null => lasti' \in 0 .. size - 1 /\ last' = c[lasti']
  PROVE  ListType' /\ (\E d : ChainIs(d)') /\ ElementsOf' = ElementsOf
<1>1. UNCHANGED <<element, next, allocated, first, last_elm, size>>
  BY DEF chainVars
<1>2. ListType'
  BY <1>1 DEF ListType
<1>3. ChainIs(c)'
  BY <1>1 DEF ChainIs
<1>4. ElementsOf' = ElementsOf
  BY <1>1 DEF ElementsOf, Walk
<1> QED BY <1>2, <1>3, <1>4

LEMMA GetStep ==
  ASSUME ListType, NEW c, ChainIs(c), NEW i \in Nat, List_get_element(i)
  PROVE  ListType' /\ (\E d : ChainIs(d)') /\ Elist!Get(i)
<1>1. /\ size \in Nat
      /\ last # Null => lasti \in 0 .. size - 1 /\ last = c[lasti]
      /\ \A j \in 0 .. size - 1 : next[c[j]] = IF j = size - 1 THEN Null ELSE c[j + 1]
  BY DEF ListType, ChainIs, IsChain
<1>2. UNCHANGED chainVars
  BY DEF List_get_element
<1>3. /\ last' # Null => lasti' \in 0 .. size - 1 /\ last' = c[lasti']
      /\ list_answer' = IF i < size THEN element[c[i]] ELSE Null
  <2>1. CASE GetBeyond(i)
    BY <1>1, <2>1 DEF GetBeyond
  <2>2. CASE GetNext(i)
    <3>1. i < size /\ last = c[lasti] /\ i = lasti + 1 /\ lasti \in 0 .. size - 1
      BY <1>1, <2>2 DEF GetNext
    <3>2. next[last] = c[i] /\ i \in 0 .. size - 1
      BY <1>1, <3>1
    <3> QED BY <2>2, <3>1, <3>2 DEF GetNext
  <2>3. CASE GetAgain(i)
    BY <1>1, <2>3 DEF GetAgain
  <2>4. CASE GetFromFirst(i)
    <3>1. i \in 0 .. size - 1
      BY <1>1, <2>4 DEF GetFromFirst
    <3>2. Walk(i) = c[i]
      BY <1>1, <3>1, ChainWalked
    <3> QED BY <2>4, <3>1, <3>2 DEF GetFromFirst
  <2> QED BY <2>1, <2>2, <2>3, <2>4 DEF List_get_element
<1>4. Elist!Element(i) = IF i < size THEN element[c[i]] ELSE Null
  BY ElementIs
<1>5. ListType' /\ (\E d : ChainIs(d)') /\ ElementsOf' = ElementsOf
  BY <1>2, <1>3, SameElements
<1> QED BY <1>3, <1>4, <1>5 DEF Elist!Get

LEMMA SizeStep ==
  ASSUME ListType, NEW c, ChainIs(c), List_size
  PROVE  ListType' /\ (\E d : ChainIs(d)') /\ Elist!Size
<1>1. UNCHANGED chainVars /\ last' = last /\ lasti' = lasti /\ list_answer' = size
  BY DEF List_size
<1>2. last' # Null => lasti' \in 0 .. size - 1 /\ last' = c[lasti']
  BY <1>1 DEF ChainIs
<1>3. ListType' /\ (\E d : ChainIs(d)') /\ ElementsOf' = ElementsOf
  BY <1>1, <1>2, SameElements
<1>4. Len(ElementsOf) = size
  BY ElementsHeld, HeldType DEF ListType, ChainIs, IsChain
<1> QED BY <1>1, <1>3, <1>4 DEF Elist!Size

LEMMA RemBeyondStep ==
  ASSUME ListType, NEW c, ChainIs(c), NEW i \in Nat, i >= size, List_rem_element(i)
  PROVE  ListType' /\ (\E d : ChainIs(d)') /\ Elist!TakeOut(i)
<1>1. list_answer' = Null /\ UNCHANGED chainVars /\ last' = last /\ lasti' = lasti
  BY DEF List_rem_element
<1>2. last' # Null => lasti' \in 0 .. size - 1 /\ last' = c[lasti']
  BY <1>1 DEF ChainIs
<1>3. ListType' /\ (\E d : ChainIs(d)') /\ ElementsOf' = ElementsOf
  BY <1>1, <1>2, SameElements
<1>4. size \in Nat /\ ~(i < size)
  BY DEF ListType
<1>5. Elist!Element(i) = Null
  BY <1>4, ElementIs
<1>6. Len(ElementsOf) = size
  BY ElementsHeld, HeldType DEF ListType, ChainIs, IsChain
<1> QED BY <1>1, <1>3, <1>4, <1>5, <1>6 DEF Elist!TakeOut

(* The nodes that destroy frees are all of them: the chain is no longer    *)
(* than there are nodes.                                                   *)
LEMMA ChainFits ==
  ASSUME NEW n \in Nat, NEW c \in [0 .. n - 1 -> Nodes],
         \A i, j \in 0 .. n - 1 : c[i] = c[j] => i = j
  PROVE  /\ Cardinality({c[i] : i \in 0 .. n - 1}) = n
         /\ n <= Cardinality(Nodes)
<1> DEFINE A == {c[i] : i \in 0 .. n - 1}
           f == [i \in 1 .. n |-> c[i - 1]]
<1>1. \A i \in 1 .. n : i - 1 \in 0 .. n - 1 /\ (i - 1) + 1 = i
  OBVIOUS
<1>2. f \in [1 .. n -> A]
  BY <1>1
<1>3. \A i, j \in 1 .. n : f[i] = f[j] => i = j
  <2> TAKE i, j \in 1 .. n
  <2> HAVE f[i] = f[j]
  <2>1. i - 1 = j - 1
    BY <1>1
  <2> QED BY <2>1
<1>4. \A a \in A : \E i \in 1 .. n : f[i] = a
  <2> TAKE a \in A
  <2>1. PICK i \in 0 .. n - 1 : a = c[i]
    OBVIOUS
  <2>2. i + 1 \in 1 .. n /\ (i + 1) - 1 = i
    OBVIOUS
  <2> QED BY <2>1, <2>2
<1> HIDE DEF f
<1>5. ExistsBijection(1 .. n, A)
  <2> HIDE DEF A
  <2>1. f \in Bijection(1 .. n, A)
    BY <1>2, <1>3, <1>4, Fun_IsBij
  <2> QED BY <2>1 DEF ExistsBijection
<1>6. Cardinality(A) = n
  <2> HIDE DEF A
  <2> QED BY <1>5, FS_CountingElements
<1>7. A \in SUBSET Nodes
  OBVIOUS
<1> HIDE DEF A
<1>8. Cardinality(A) <= Cardinality(Nodes)
  BY <1>7, ListAssumption, FS_Subset
<1> QED BY <1>6, <1>8 DEF A

LEMMA DestroyStep ==
  ASSUME ListType, NEW c, ChainIs(c), SingleLinkedList_destroy
  PROVE  ListType' /\ (\E d : ChainIs(d)') /\ Elist!Renew
<1>1. /\ size \in Nat /\ c \in [0 .. size - 1 -> Nodes]
      /\ \A j, k \in 0 .. size - 1 : c[j] = c[k] => j = k
      /\ first = IF size = 0 THEN Null ELSE c[0]
      /\ allocated = {c[j] : j \in 0 .. size - 1}
  BY DEF ListType, ChainIs, IsChain
<1>2. /\ first' = Null /\ size' = 0 /\ last' = Null
      /\ UNCHANGED <<element, next, list_answer>>
  BY DEF SingleLinkedList_destroy, Forget
<1>3. allocated' = {}
  <2>1. CASE first = Null
    <3>1. size = 0
      <4>1. size # 0 => 0 \in 0 .. size - 1
        BY <1>1
      <4> QED BY <1>1, <2>1, <4>1, ListAssumption
    <3> QED BY <1>1, <2>1, <3>1 DEF SingleLinkedList_destroy
  <2>2. CASE first # Null
    <3>1. size <= Cardinality(Nodes) /\ Cardinality(Nodes) \in Nat
      BY <1>1, ChainFits, ListAssumption, FS_CardinalityType
    <3>2. \A j \in 0 .. size - 1 : c[j] = Walk(j) /\ j \in 0 .. Cardinality(Nodes)
      BY <1>1, <3>1, ChainWalked
    <3>3. allocated' = allocated \ {Walk(j) : j \in 0 .. Cardinality(Nodes)}
      BY <2>2 DEF SingleLinkedList_destroy
    <3> QED BY <1>1, <3>2, <3>3
  <2> QED BY <2>1, <2>2
<1>4. IsChain(<<>>, 0, next', Null)
  <2>1. 0 .. 0 - 1 = {}
    OBVIOUS
  <2>2. <<>> \in [0 .. 0 - 1 -> Nodes]
    BY <2>1
  <2> QED BY <2>1, <2>2 DEF IsChain
<1>5. ChainIs(<<>>)'
  <2>1. allocated' = {<<>>[i] : i \in 0 .. size' - 1}
    BY <1>2, <1>3
  <2> QED BY <1>2, <1>4, <2>1 DEF ChainIs
<1>6. ListType'
  BY <1>2 DEF ListType
<1>7. ElementsOf' = <<>>
  BY <1>2 DEF ElementsOf
<1> QED BY <1>2, <1>5, <1>6, <1>7 DEF Elist!Renew
-----------------------------------------------------------------------------
LEMMA ListInit == SingleLinkedList_new => ListInv /\ Elist!Init
<1> SUFFICES ASSUME SingleLinkedList_new PROVE ListInv /\ Elist!Init
  OBVIOUS
<1>1. /\ element = [n \in Nodes |-> Null] /\ next = [n \in Nodes |-> Null]
      /\ allocated = {} /\ first = Null /\ size = 0 /\ last = Null /\ list_answer = Null
  BY DEF SingleLinkedList_new
<1>2. IsChain(<<>>, 0, next, Null)
  <2>1. 0 .. 0 - 1 = {}
    OBVIOUS
  <2>2. <<>> \in [0 .. 0 - 1 -> Nodes]
    BY <2>1
  <2> QED BY <2>1, <2>2 DEF IsChain
<1>3. ChainIs(<<>>)
  <2>1. allocated = {<<>>[i] : i \in 0 .. size - 1}
    BY <1>1
  <2> QED BY <1>1, <1>2, <2>1 DEF ChainIs
<1>4. ListType
  BY <1>1 DEF ListType
<1>5. ElementsOf = <<>>
  BY <1>1 DEF ElementsOf
<1> QED BY <1>1, <1>3, <1>4, <1>5 DEF ListInv, Elist!Init

LEMMA ListStep ==
  ASSUME ListInv, [ListNext]_listVars
  PROVE  ListInv' /\ [Elist!Next]_<<ElementsOf, list_answer>>
<1>1. ListType
  BY DEF ListInv
<1>2. PICK c : ChainIs(c)
  BY DEF ListInv
<1>3. ASSUME NEW e \in Elements, List_add_element(e)
      PROVE  ListInv' /\ Elist!Next
  BY <1>1, <1>2, <1>3, AddStep DEF ListInv, Elist!Next
<1>4. ASSUME NEW i \in Indices, List_get_element(i)
      PROVE  ListInv' /\ Elist!Next
  BY <1>1, <1>2, <1>4, GetStep, ListAssumption DEF ListInv, Elist!Next
<1>5. ASSUME NEW i \in Indices, List_rem_element(i)
      PROVE  ListInv' /\ Elist!Next
  <2>1. i \in Nat /\ size \in Nat
    BY <1>1, ListAssumption DEF ListType
  <2>2. i < size \/ i >= size
    BY <2>1
  <2>3. ListType' /\ (\E d : ChainIs(d)') /\ Elist!TakeOut(i)
    BY <1>1, <1>2, <1>5, <2>1, <2>2, RemStep, RemBeyondStep
  <2> QED BY <2>3 DEF ListInv, Elist!Next
<1>6. CASE List_size
  BY <1>1, <1>2, <1>6, SizeStep DEF ListInv, Elist!Next
<1>7. CASE SingleLinkedList_destroy
  BY <1>1, <1>2, <1>7, DestroyStep DEF ListInv, Elist!Next
<1>8. CASE UNCHANGED listVars
  <2>1. UNCHANGED chainVars /\ last' = last /\ lasti' = lasti /\ list_answer' = list_answer
    BY <1>8 DEF listVars
  <2>2. last' # Null => lasti' \in 0 .. size - 1 /\ last' = c[lasti']
    BY <1>2, <2>1 DEF ChainIs
  <2>3. ListType' /\ (\E d : ChainIs(d)') /\ ElementsOf' = ElementsOf
    BY <1>1, <1>2, <2>1, <2>2, SameElements
  <2> QED BY <2>1, <2>3 DEF ListInv
<1> QED BY <1>3, <1>4, <1>5, <1>6, <1>7, <1>8 DEF ListNext

LEMMA ChainHasShape == ListInv => ListShape
<1> SUFFICES ASSUME ListInv PROVE ListShape
  OBVIOUS
<1>1. PICK c : ChainIs(c)
  BY DEF ListInv
<1>2. /\ size \in Nat /\ c \in [0 .. size - 1 -> Nodes]
      /\ \A j, k \in 0 .. size - 1 : c[j] = c[k] => j = k
      /\ first = IF size = 0 THEN Null ELSE c[0]
      /\ \A j \in 0 .. size - 1 : next[c[j]] = IF j = size - 1 THEN Null ELSE c[j + 1]
      /\ allocated = {c[j] : j \in 0 .. size - 1}
      /\ size > 0 => last_elm = c[size - 1]
      /\ last # Null => lasti \in 0 .. size - 1 /\ last = c[lasti]
  BY <1>1 DEF ListInv, ListType, ChainIs, IsChain
<1>3. \A j \in 0 .. size - 1 : Walk(j) = c[j] /\ c[j] # Null
  BY <1>1, <1>2, ChainWalked, ListAssumption
<1>4. allocated = {Walk(i) : i \in 0 .. size - 1}
  BY <1>2, <1>3
<1>5. Cardinality(allocated) = size
  BY <1>2, ChainFits
<1>6. first = Null <=> size = 0
  <2>1. size # 0 => 0 \in 0 .. size - 1
    BY <1>2
  <2> QED BY <1>2, <1>3, <2>1
<1>7. size > 0 => last_elm = Walk(size - 1) /\ next[last_elm] = Null
  <2>1. size > 0 => size - 1 \in 0 .. size - 1
    BY <1>2
  <2> QED BY <1>2, <1>3, <2>1
<1>8. last # Null => lasti < size /\ last = Walk(lasti)
  BY <1>2, <1>3
<1> QED BY <1>4, <1>5, <1>6, <1>7, <1>8 DEF ListShape

(* For any nodes, elements and indices: whatever calls there were before,  *)
(* each gives and leaves what it would on a sequence, the chain has as     *)
(* many nodes as elements, all of them and no other are allocated, and the *)
(* pointers to its last node and to the one asked for last are right.      *)
THEOREM ListIsSequence == ListSpec => ListImplementsSequence
<1>1. SingleLinkedList_new => ListInv /\ Elist!Init
  BY ListInit
<1>2. ListInv /\ [ListNext]_listVars
        => ListInv' /\ [Elist!Next]_<<ElementsOf, list_answer>>
  BY ListStep
<1>3. ListInv' => ListShape'
  BY ChainHasShape, PTL
<1>4. ListInv /\ [ListNext]_listVars => [ListShape']_listVars
  BY <1>2, <1>3
<1>5. ListSpec => [][ListNext]_listVars /\ []ListInv
  BY <1>1, <1>2, PTL DEF ListSpec
<1>6. ListSpec => Elist!Spec
  BY <1>1, <1>2, <1>5, PTL DEF ListSpec, Elist!Spec
<1>7. ListSpec => [][ListShape']_listVars
  BY <1>4, <1>5, PTL
<1> QED BY <1>6, <1>7 DEF ListImplementsSequence
-----------------------------------------------------------------------------
Bucketed(V) == Seq([key : Keys, elm : V])
Uniform(bucket) ==
  \A i, j \in DOMAIN bucket : bucket[i].key = bucket[j].key => bucket[i].elm = bucket[j].elm
Count(bucket, key) == Cardinality(Places(bucket, key))

LEMMA PlacesFinite ==
  ASSUME NEW V, NEW b \in Bucketed(V), NEW k
  PROVE  /\ Places(b, k) \subseteq 1 .. Len(b) /\ IsFiniteSet(Places(b, k))
         /\ Count(b, k) \in Nat /\ (Count(b, k) = 0 <=> Places(b, k) = {})
         /\ DOMAIN b = 1 .. Len(b) /\ Len(b) \in Nat
<1>1. DOMAIN b = 1 .. Len(b) /\ Len(b) \in Nat
  BY LenProperties DEF Bucketed
<1>2. Places(b, k) \in SUBSET (1 .. Len(b))
  BY <1>1 DEF Places
<1>3. IsFiniteSet(1 .. Len(b))
  BY <1>1, FS_Interval
<1>4. IsFiniteSet(Places(b, k))
  BY <1>2, <1>3, FS_Subset
<1>5. Count(b, k) \in Nat /\ (Count(b, k) = 0 <=> Places(b, k) = {})
  BY <1>4, FS_CardinalityType, FS_EmptySet DEF Count
<1> QED BY <1>1, <1>2, <1>4, <1>5

LEMMA FirstPlaceIs ==
  ASSUME NEW V, NEW b \in Bucketed(V), NEW k, Places(b, k) # {}
  PROVE  FirstPlace(b, k) \in Places(b, k)
<1>1. Places(b, k) \in SUBSET Nat
  BY PlacesFinite
<1>2. \E i \in Places(b, k) : \A j \in Places(b, k) : i <= j
  BY <1>1, LeastElement
<1> QED BY <1>2 DEF FirstPlace

(* Any entry with the key tells what the map answers.                      *)
LEMMA ElmIs ==
  ASSUME NEW V, NEW b \in Bucketed(V), NEW k, Uniform(b), NEW i \in Places(b, k)
  PROVE  Elm(b, k) = b[i].elm /\ Elm(b, k) \in V
<1>1. FirstPlace(b, k) \in Places(b, k)
  BY FirstPlaceIs
<1>2. Elm(b, k) = b[FirstPlace(b, k)].elm
  BY DEF Elm
<1>3. b[i].elm = b[FirstPlace(b, k)].elm
  BY <1>1 DEF Uniform, Places
<1>4. b[i] \in [key : Keys, elm : V]
  <2>1. i \in 1 .. Len(b)
    BY PlacesFinite
  <2> QED BY <2>1, ElementOfSeq DEF Bucketed
<1> QED BY <1>2, <1>3, <1>4

LEMMA ElmNone ==
  ASSUME NEW b, NEW k, Places(b, k) = {}
  PROVE  Elm(b, k) = NoElm
BY DEF Elm

(* What both maps make of a bucket when they put.                          *)
PutInto(nb, b, key, elm) ==
  /\ Len(nb) = Len(b) + 1 /\ nb[Len(b) + 1] = Entry(key, elm)
  /\ \A i \in 1 .. Len(b) : nb[i] = IF b[i].key = key THEN Entry(key, elm) ELSE b[i]

LEMMA PutOne ==
  ASSUME NEW V, NEW b \in Bucketed(V), Uniform(b), NEW key \in Keys, NEW elm \in V,
         NEW nb \in Bucketed(V), PutInto(nb, b, key, elm)
  PROVE  /\ Uniform(nb)
         /\ Elm(nb, key) = elm /\ Count(nb, key) = Count(b, key) + 1
         /\ \A k : k # key => Elm(nb, k) = Elm(b, k) /\ Count(nb, k) = Count(b, k)
         /\ \A i \in DOMAIN nb : nb[i].key = key \/ \E j \in DOMAIN b : nb[i].key = b[j].key
<1> DEFINE n == Len(b)
<1>1. n \in Nat /\ DOMAIN b = 1 .. n /\ DOMAIN nb = 1 .. n + 1
  BY PlacesFinite DEF PutInto
<1>2. nb[n + 1].key = key /\ nb[n + 1].elm = elm
  BY DEF PutInto, Entry
<1>3. \A i \in 1 .. n : /\ nb[i].key = b[i].key
                        /\ nb[i].elm = IF b[i].key = key THEN elm ELSE b[i].elm
  BY DEF PutInto, Entry
<1> HIDE DEF n
<1>4. \A i \in 1 .. n + 1 : i = n + 1 \/ i \in 1 .. n
  BY <1>1
<1>5. n + 1 \in 1 .. n + 1 /\ n + 1 \notin 1 .. n /\ \A i \in 1 .. n : i \in 1 .. n + 1
  BY <1>1
<1>6. \A k : k # key => Places(nb, k) = Places(b, k)
  BY <1>1, <1>2, <1>3, <1>4, <1>5 DEF Places
<1>7. Places(nb, key) = Places(b, key) \cup {n + 1} /\ n + 1 \notin Places(b, key)
  BY <1>1, <1>2, <1>3, <1>4, <1>5 DEF Places
<1>8. Uniform(nb)
  <2> SUFFICES ASSUME NEW i \in 1 .. n + 1, NEW j \in 1 .. n + 1, nb[i].key = nb[j].key
               PROVE  nb[i].elm = nb[j].elm
    BY <1>1 DEF Uniform
  <2>1. CASE nb[i].key = key
    BY <1>2, <1>3, <1>4, <2>1
  <2>2. CASE nb[i].key # key
    <3>1. i \in 1 .. n /\ j \in 1 .. n
      BY <1>2, <1>4, <2>2
    <3>2. b[i].key = b[j].key /\ b[i].key # key
      BY <1>3, <2>2, <3>1
    <3>3. b[i].elm = b[j].elm
      BY <1>1, <3>1, <3>2 DEF Uniform
    <3> QED BY <1>3, <3>1, <3>2, <3>3
  <2> QED BY <2>1, <2>2
<1>9. Count(nb, key) = Count(b, key) + 1
  <2>1. IsFiniteSet(Places(b, key))
    BY PlacesFinite
  <2> QED BY <1>7, <2>1, FS_AddElement DEF Count
<1>10. Elm(nb, key) = elm
  <2>1. n + 1 \in Places(nb, key)
    BY <1>7
  <2> QED BY <1>2, <1>8, <2>1, ElmIs
<1>11. ASSUME NEW k, k # key PROVE Elm(nb, k) = Elm(b, k) /\ Count(nb, k) = Count(b, k)
  <2>1. Places(nb, k) = Places(b, k)
    BY <1>6, <1>11
  <2>2. CASE Places(b, k) = {}
    BY <2>1, <2>2, ElmNone DEF Count
  <2>3. CASE Places(b, k) # {}
    <3>1. PICK i \in Places(b, k) : TRUE
      BY <2>3
    <3>2. Elm(nb, k) = nb[i].elm /\ Elm(b, k) = b[i].elm
      BY <1>8, <2>1, <3>1, ElmIs
    <3>3. i \in 1 .. n /\ b[i].key = k
      BY <1>1, <3>1 DEF Places
    <3> QED BY <1>3, <1>11, <2>1, <3>2, <3>3 DEF Count
  <2> QED BY <2>2, <2>3
<1>12. ASSUME NEW i \in DOMAIN nb
       PROVE  nb[i].key = key \/ \E j \in DOMAIN b : nb[i].key = b[j].key
  BY <1>1, <1>2, <1>3, <1>4
<1> QED BY <1>8, <1>9, <1>10, <1>11, <1>12

(* A bijection keeps the number.                                           *)
LEMMA SameCount ==
  ASSUME NEW S, NEW T, IsFiniteSet(S), NEW f \in [S -> T],
         \A x, y \in S : f[x] = f[y] => x = y, \A y \in T : \E x \in S : f[x] = y
  PROVE  Cardinality(T) = Cardinality(S)
<1>1. f \in Bijection(S, T)
  BY Fun_IsBij
<1>2. ExistsBijection(S, T)
  BY <1>1 DEF ExistsBijection
<1> QED BY <1>2, FS_Bijection

LEMMA WithoutOne ==
  ASSUME NEW V, NEW b \in Bucketed(V), Uniform(b), NEW key
  PROVE  /\ Without(b, key) \in Bucketed(V) /\ Uniform(Without(b, key))
         /\ Count(Without(b, key), key) = IF Count(b, key) = 0 THEN 0 ELSE Count(b, key) - 1
         /\ Elm(Without(b, key), key) = IF Count(b, key) = 1 THEN NoElm ELSE Elm(b, key)
         /\ \A k : k # key => /\ Elm(Without(b, key), k) = Elm(b, k)
                              /\ Count(Without(b, key), k) = Count(b, k)
         /\ \A i \in DOMAIN Without(b, key) :
              \E j \in DOMAIN b : Without(b, key)[i].key = b[j].key
<1> DEFINE nb == Without(b, key)
           n == Len(b)
           p == FirstPlace(b, key)
<1>1. CASE Places(b, key) = {}
  <2>1. nb = b /\ Count(b, key) = 0
    BY <1>1, PlacesFinite DEF Without
  <2> HIDE DEF nb
  <2> QED BY <2>1 DEF nb
<1>2. CASE Places(b, key) # {}
  <2>1. p \in Places(b, key)
    BY <1>2, FirstPlaceIs
  <2>2. p \in 1 .. n /\ b[p].key = key /\ n \in Nat /\ DOMAIN b = 1 .. n
    BY <2>1, PlacesFinite DEF Places
  <2>3. nb = RemoveAt(b, p)
    BY <1>2 DEF Without
  <2> HIDE DEF nb, n, p
  <2>4. /\ nb \in Bucketed(V) /\ Len(nb) = n - 1
        /\ \A j \in 1 .. p - 1 : nb[j] = b[j]
        /\ \A j \in p .. n - 1 : nb[j] = b[j + 1]
    BY <2>2, <2>3, RemoveAtMembers DEF Bucketed, n
  <2>5. DOMAIN nb = 1 .. n - 1
    BY <2>4, LenProperties DEF Bucketed
  <2> DEFINE g == [i \in 1 .. n - 1 |-> IF i < p THEN i ELSE i + 1]
  <2>6. ASSUME NEW i \in 1 .. n - 1
        PROVE  g[i] \in 1 .. n /\ g[i] # p /\ nb[i] = b[g[i]]
    <3>1. g[i] = IF i < p THEN i ELSE i + 1
      OBVIOUS
    <3>2. i \in 1 .. p - 1 \/ i \in p .. n - 1
      BY <2>2
    <3> HIDE DEF g
    <3> QED BY <2>2, <2>4, <3>1, <3>2
  <2>7. \A i, j \in 1 .. n - 1 : g[i] = g[j] => i = j
    BY <2>2
  <2>8. \A j \in 1 .. n : j # p => \E i \in 1 .. n - 1 : g[i] = j
    <3> TAKE j \in 1 .. n
    <3> HAVE j # p
    <3>1. CASE j < p
      <4>1. j \in 1 .. n - 1 /\ g[j] = j
        BY <2>2, <3>1
      <4> QED BY <4>1
    <3>2. CASE j > p
      <4>1. j - 1 \in 1 .. n - 1 /\ ~(j - 1 < p) /\ (j - 1) + 1 = j
        BY <2>2, <3>2
      <4>2. g[j - 1] = j
        BY <4>1
      <4> QED BY <4>1, <4>2
    <3> QED BY <2>2, <3>1, <3>2
  <2> HIDE DEF g
  <2>9. ASSUME NEW i \in DOMAIN nb PROVE \E j \in DOMAIN b : nb[i].key = b[j].key
    BY <2>2, <2>5, <2>6
  <2>10. Uniform(nb)
    BY <2>2, <2>5, <2>6 DEF Uniform
  <2>11. ASSUME NEW k
         PROVE  Count(nb, k) = Cardinality(Places(b, k) \ {p})
    <3> DEFINE S == Places(nb, k)
               T == Places(b, k) \ {p}
               f == [i \in S |-> g[i]]
    <3>1. S \subseteq 1 .. n - 1 /\ T \subseteq 1 .. n /\ p \notin T
      BY <2>2, <2>5 DEF Places
    <3>2. \A i \in 1 .. n - 1 : i \in S <=> g[i] \in T
      BY <2>2, <2>5, <2>6 DEF Places
    <3>3. IsFiniteSet(S)
      BY <2>4, PlacesFinite
    <3> HIDE DEF S, T
    <3>4. f \in [S -> T]
      BY <3>1, <3>2
    <3>5. \A x, y \in S : f[x] = f[y] => x = y
      BY <2>7, <3>1
    <3>6. \A y \in T : \E x \in S : f[x] = y
      <4> TAKE y \in T
      <4>1. y \in 1 .. n /\ y # p
        BY <3>1
      <4>2. PICK i \in 1 .. n - 1 : g[i] = y
        BY <2>8, <4>1
      <4> QED BY <3>2, <4>2
    <3> HIDE DEF f
    <3>7. Cardinality(T) = Cardinality(S)
      BY <3>3, <3>4, <3>5, <3>6, SameCount
    <3> QED BY <3>7 DEF S, T, Count
  <2>12. Count(nb, key) = Count(b, key) - 1 /\ Count(b, key) # 0 /\ Count(b, key) \in Nat
    <3>1. IsFiniteSet(Places(b, key)) /\ Count(b, key) \in Nat /\ Count(b, key) # 0
      BY <1>2, PlacesFinite
    <3>2. Cardinality(Places(b, key) \ {p}) = Cardinality(Places(b, key)) - 1
      BY <2>1, <3>1, FS_RemoveElement
    <3> QED BY <2>11, <3>1, <3>2 DEF Count
  <2>13. ASSUME NEW k, k # key PROVE Elm(nb, k) = Elm(b, k) /\ Count(nb, k) = Count(b, k)
    <3>1. Places(b, k) \ {p} = Places(b, k)
      BY <2>2, <2>13 DEF Places
    <3>2. Count(nb, k) = Count(b, k)
      BY <2>11, <3>1 DEF Count
    <3>3. CASE Places(nb, k) = {}
      <4>1. Places(b, k) = {}
        BY <2>4, <3>2, <3>3, PlacesFinite
      <4> QED BY <3>2, <3>3, <4>1, ElmNone
    <3>4. CASE Places(nb, k) # {}
      <4>1. PICK i \in Places(nb, k) : TRUE
        BY <3>4
      <4>2. i \in 1 .. n - 1 /\ nb[i].key = k
        BY <2>5, <4>1 DEF Places
      <4>3. g[i] \in Places(b, k)
        BY <2>2, <2>6, <4>2 DEF Places
      <4>4. Elm(nb, k) = nb[i].elm /\ Elm(b, k) = b[g[i]].elm
        BY <2>4, <2>10, <4>1, <4>3, ElmIs
      <4> QED BY <2>6, <3>2, <4>2, <4>4
    <3> QED BY <3>3, <3>4
  <2>14. Elm(nb, key) = IF Count(b, key) = 1 THEN NoElm ELSE Elm(b, key)
    <3>1. CASE Count(b, key) = 1
      <4>1. Count(nb, key) = 0
        BY <2>12, <3>1
      <4>2. Places(nb, key) = {}
        BY <2>4, <4>1, PlacesFinite
      <4> QED BY <3>1, <4>2, ElmNone
    <3>2. CASE Count(b, key) # 1
      <4>1. Count(nb, key) # 0
        BY <2>12, <3>2
      <4>2. Places(nb, key) # {}
        BY <2>4, <4>1, PlacesFinite
      <4>3. PICK i \in Places(nb, key) : TRUE
        BY <4>2
      <4>4. i \in 1 .. n - 1 /\ nb[i].key = key
        BY <2>5, <4>3 DEF Places
      <4>5. g[i] \in Places(b, key)
        BY <2>2, <2>6, <4>4 DEF Places
      <4>6. Elm(nb, key) = nb[i].elm /\ Elm(b, key) = b[g[i]].elm
        BY <2>4, <2>10, <4>3, <4>5, ElmIs
      <4> QED BY <2>6, <3>2, <4>4, <4>6
    <3> QED BY <3>1, <3>2
  <2> QED BY <2>4, <2>9, <2>10, <2>12, <2>13, <2>14 DEF nb
<1> QED BY <1>1, <1>2
-----------------------------------------------------------------------------
(* The entries of two buckets whose keys differ.                           *)
LEMMA PlacesBehind ==
  ASSUME NEW V, NEW a \in Bucketed(V), NEW b \in Bucketed(V), NEW k,
         Places(a, k) = {} \/ Places(b, k) = {}
  PROVE  Count(a \o b, k) = IF Places(a, k) = {} THEN Count(b, k) ELSE Count(a, k)
<1> DEFINE n == Len(a)
           m == Len(b)
           c == a \o b
<1>1. n \in Nat /\ m \in Nat /\ DOMAIN a = 1 .. n /\ DOMAIN b = 1 .. m
  BY PlacesFinite
<1>2. /\ c \in Bucketed(V) /\ Len(c) = n + m
      /\ \A i \in 1 .. n : c[i] = a[i]
      /\ \A i \in 1 .. m : c[n + i] = b[i]
  <2> DEFINE E == [key : Keys, elm : V]
  <2>1. a \in Seq(E) /\ b \in Seq(E)
    BY DEF Bucketed
  <2> HIDE DEF E
  <2>2. /\ c \in Seq(E) /\ Len(c) = n + m
        /\ \A i \in 1 .. n : c[i] = a[i]
        /\ \A i \in 1 .. m : c[n + i] = b[i]
    BY <2>1
  <2> QED BY <2>2 DEF E, Bucketed
<1>3. DOMAIN c = 1 .. n + m
  BY <1>2, PlacesFinite
<1> HIDE DEF n, m, c
<1>4. \A i \in 1 .. n + m : i \in 1 .. n \/ (i - n \in 1 .. m /\ n + (i - n) = i)
  BY <1>1
<1>5. \A i \in 1 .. n : i \in 1 .. n + m
  BY <1>1
<1>6. \A i \in 1 .. m : n + i \in 1 .. n + m /\ n + i \notin 1 .. n
  BY <1>1
<1>7. \A i \in 1 .. n : i \in Places(c, k) <=> i \in Places(a, k)
  BY <1>1, <1>2, <1>3, <1>5 DEF Places
<1>8. \A i \in 1 .. m : n + i \in Places(c, k) <=> i \in Places(b, k)
  BY <1>1, <1>2, <1>3, <1>6 DEF Places
<1>9. Places(a, k) \subseteq 1 .. n /\ Places(b, k) \subseteq 1 .. m
      /\ Places(c, k) \subseteq 1 .. n + m
  BY <1>1, <1>3 DEF Places
<1>10. CASE Places(b, k) = {}
  <2>1. ASSUME NEW i \in Places(c, k) PROVE i \in Places(a, k)
    BY <1>4, <1>7, <1>8, <1>9, <1>10
  <2>2. Places(c, k) = Places(a, k)
    BY <1>5, <1>7, <1>9, <2>1
  <2> QED BY <1>10, <2>2 DEF Count, c
<1>11. CASE Places(a, k) = {}
  <2> DEFINE S == Places(b, k)
             T == Places(c, k)
             f == [i \in S |-> n + i]
  <2>1. S \subseteq 1 .. m /\ T \subseteq 1 .. n + m /\ IsFiniteSet(S)
    BY <1>9, PlacesFinite
  <2>2. \A i \in 1 .. m : i \in S <=> n + i \in T
    BY <1>8
  <2>3. \A i \in 1 .. n : i \notin T
    BY <1>7, <1>11
  <2> HIDE DEF S, T
  <2>4. f \in [S -> T]
    BY <2>1, <2>2
  <2>5. \A x, y \in S : f[x] = f[y] => x = y
    <3>1. \A x \in S : f[x] = n + x /\ x \in Int
      BY <2>1
    <3> HIDE DEF f
    <3> QED BY <1>1, <3>1
  <2>6. \A y \in T : \E x \in S : f[x] = y
    <3> TAKE y \in T
    <3>1. y - n \in 1 .. m /\ n + (y - n) = y
      BY <1>4, <2>1, <2>3
    <3>2. y - n \in S
      BY <2>2, <3>1
    <3> QED BY <3>1, <3>2
  <2> HIDE DEF f
  <2>7. Cardinality(T) = Cardinality(S)
    BY <2>1, <2>4, <2>5, <2>6, SameCount
  <2> QED BY <1>11, <2>7 DEF S, T, c, Count
<1> QED BY <1>10, <1>11

(* Buckets of a map: entries are in the bucket of the hash of their key.   *)
Filed(bs, n, hash, V) ==
  /\ bs \in [0 .. n - 1 -> Bucketed(V)]
  /\ \A b \in 0 .. n - 1 : /\ Uniform(bs[b])
                           /\ \A i \in DOMAIN bs[b] : hash[bs[b][i].key] = b

FirstBuckets(bs, m) == [b \in 1 .. m |-> bs[b - 1]]
CountedUpto(bs, m, hash, V) ==
  LET entries == FlattenSeq(FirstBuckets(bs, m))
  IN  /\ entries \in Bucketed(V)
      /\ \A k \in Keys : Count(entries, k) = IF hash[k] < m THEN Count(bs[hash[k]], k) ELSE 0

LEMMA FirstBucketsNext ==
  ASSUME NEW E, NEW n \in Nat, NEW m \in Nat, m < n, NEW bs \in [0 .. n - 1 -> Seq(E)]
  PROVE  /\ FirstBuckets(bs, m) \in Seq(Seq(E)) /\ bs[m] \in Seq(E)
         /\ FlattenSeq(FirstBuckets(bs, m + 1)) = FlattenSeq(FirstBuckets(bs, m)) \o bs[m]
<1> DEFINE a == FirstBuckets(bs, m)
           c == FirstBuckets(bs, m + 1)
<1>1. ASSUME NEW j \in Nat, j <= n
      PROVE  /\ FirstBuckets(bs, j) \in Seq(Seq(E)) /\ Len(FirstBuckets(bs, j)) = j
             /\ \A i \in 1 .. j : FirstBuckets(bs, j)[i] = bs[i - 1]
  <2>1. \A i \in 1 .. j : i - 1 \in 0 .. n - 1
    BY <1>1
  <2>2. \A i \in 1 .. j : bs[i - 1] \in Seq(E)
    BY <2>1
  <2>3. /\ FirstBuckets(bs, j) \in [1 .. j -> Seq(E)]
        /\ \A i \in 1 .. j : FirstBuckets(bs, j)[i] = bs[i - 1]
    BY <2>2 DEF FirstBuckets
  <2> QED BY <2>3
<1>2. m \in 0 .. n - 1 /\ m <= n /\ m + 1 \in Nat /\ m + 1 <= n
  OBVIOUS
<1>3. bs[m] \in Seq(E)
  BY <1>2
<1>4. /\ a \in Seq(Seq(E)) /\ Len(a) = m /\ \A i \in 1 .. m : a[i] = bs[i - 1]
      /\ c \in Seq(Seq(E)) /\ Len(c) = m + 1 /\ \A i \in 1 .. m + 1 : c[i] = bs[i - 1]
  BY <1>1, <1>2
<1> HIDE DEF a, c
<1>5. /\ Append(a, bs[m]) \in Seq(Seq(E)) /\ Len(Append(a, bs[m])) = m + 1
      /\ Append(a, bs[m])[m + 1] = bs[m]
      /\ \A i \in 1 .. m : Append(a, bs[m])[i] = a[i]
  <2>1. /\ Append(a, bs[m]) \in Seq(Seq(E)) /\ Len(Append(a, bs[m])) = Len(a) + 1
        /\ Append(a, bs[m])[Len(a) + 1] = bs[m]
        /\ \A i \in 1 .. Len(a) : Append(a, bs[m])[i] = a[i]
    <3>1. a \in Seq(Seq(E)) /\ bs[m] \in Seq(E)
      BY <1>3, <1>4
    <3> QED BY <3>1, AppendProperties
  <2> QED BY <1>4, <2>1
<1>6. ASSUME NEW i \in 1 .. m + 1 PROVE c[i] = Append(a, bs[m])[i]
  <2>1. i = m + 1 \/ i \in 1 .. m
    OBVIOUS
  <2>2. (m + 1) - 1 = m
    OBVIOUS
  <2> QED BY <1>4, <1>5, <2>1, <2>2
<1>7. c = Append(a, bs[m])
  BY <1>4, <1>5, <1>6, SeqEqual
<1>8. FlattenSeq(c) = FlattenSeq(a) \o bs[m]
  BY <1>3, <1>4, <1>7, FlattenAppend
<1> QED BY <1>3, <1>4, <1>8 DEF a, c

LEMMA CountedNext ==
  ASSUME NEW V, NEW n \in Nat, NEW hash \in [Keys -> 0 .. n - 1], NEW bs,
         Filed(bs, n, hash, V), NEW m \in Nat, m < n, CountedUpto(bs, m, hash, V)
  PROVE  CountedUpto(bs, m + 1, hash, V)
<1> DEFINE E == [key : Keys, elm : V]
           a == FlattenSeq(FirstBuckets(bs, m))
<1>1. /\ bs \in [0 .. n - 1 -> Seq(E)] /\ m \in 0 .. n - 1
      /\ \A k \in Keys : hash[k] \in 0 .. n - 1
  <2>1. bs \in [0 .. n - 1 -> Seq(E)]
    BY DEF Filed, Bucketed
  <2>2. m \in 0 .. n - 1
    OBVIOUS
  <2>3. \A k \in Keys : hash[k] \in 0 .. n - 1
    OBVIOUS
  <2> QED BY <2>1, <2>2, <2>3
<1>2. /\ a \in Bucketed(V)
      /\ \A k \in Keys : Count(a, k) = IF hash[k] < m THEN Count(bs[hash[k]], k) ELSE 0
  BY DEF CountedUpto
<1>3. bs[m] \in Bucketed(V)
  BY <1>1 DEF Bucketed
<1>4. FlattenSeq(FirstBuckets(bs, m + 1)) = a \o bs[m]
  <2> HIDE DEF E
  <2> QED BY <1>1, FirstBucketsNext
<1> HIDE DEF a
<1>5. ASSUME NEW k \in Keys
      PROVE  Count(a \o bs[m], k) = IF hash[k] < m + 1 THEN Count(bs[hash[k]], k) ELSE 0
  <2>1. hash[k] # m => Places(bs[m], k) = {}
    <3>1. \A i \in DOMAIN bs[m] : hash[bs[m][i].key] = m
      BY <1>1 DEF Filed
    <3> QED BY <3>1 DEF Places
  <2>2. ASSUME hash[k] >= m PROVE Places(a, k) = {}
    <3>1. Count(a, k) = 0
      BY <1>1, <1>2, <2>2
    <3> QED BY <1>2, <3>1, PlacesFinite
  <2>3. CASE hash[k] = m
    <3>1. Count(a \o bs[m], k) = Count(bs[m], k)
      <4>1. Places(a, k) = {}
        BY <2>2, <2>3
      <4> QED BY <1>2, <1>3, <4>1, PlacesBehind
    <3> QED BY <2>3, <3>1
  <2>4. CASE hash[k] # m
    <3>1. Count(a \o bs[m], k) = Count(a, k)
      <4>1. Places(bs[m], k) = {}
        BY <2>1, <2>4
      <4>2. Count(bs[m], k) = 0 /\ (Places(a, k) = {} => Count(a, k) = 0)
        BY <1>2, <1>3, <4>1, PlacesFinite
      <4> QED BY <1>2, <1>3, <4>1, <4>2, PlacesBehind
    <3>2. hash[k] < m + 1 <=> hash[k] < m
      BY <1>1, <2>4
    <3> QED BY <1>2, <3>1, <3>2
  <2> QED BY <2>3, <2>4
<1>6. a \o bs[m] \in Bucketed(V)
  <2>1. a \in Seq(E) /\ bs[m] \in Seq(E)
    BY <1>2, <1>3 DEF Bucketed
  <2> HIDE DEF E
  <2>2. a \o bs[m] \in Seq(E)
    BY <2>1
  <2> QED BY <2>2 DEF Bucketed, E
<1> QED BY <1>4, <1>5, <1>6 DEF CountedUpto

LEMMA EntriesCounted ==
  ASSUME NEW V, NEW n \in Nat, NEW hash \in [Keys -> 0 .. n - 1], NEW bs,
         Filed(bs, n, hash, V)
  PROVE  /\ EntriesOf(bs, n) \in Bucketed(V)
         /\ \A k \in Keys : Count(EntriesOf(bs, n), k) = Count(bs[hash[k]], k)
<1> DEFINE P == {m \in Nat : m <= n => CountedUpto(bs, m, hash, V)}
<1>1. 0 \in P
  <2>1. FlattenSeq(FirstBuckets(bs, 0)) = <<>>
    <3>1. FirstBuckets(bs, 0) = <<>>
      BY DEF FirstBuckets
    <3> QED BY <3>1, FlattenEmpty
  <2>2. <<>> \in Bucketed(V)
    BY DEF Bucketed
  <2>3. \A k \in Keys : Count(<<>>, k) = 0
    <3>1. \A k \in Keys : Places(<<>>, k) = {}
      BY DEF Places
    <3> QED BY <2>2, <3>1, PlacesFinite
  <2>4. \A k \in Keys : ~(hash[k] < 0)
    <3>1. \A k \in Keys : hash[k] \in 0 .. n - 1
      OBVIOUS
    <3> QED BY <3>1
  <2>5. CountedUpto(bs, 0, hash, V)
    BY <2>1, <2>2, <2>3, <2>4 DEF CountedUpto
  <2> QED BY <2>5
<1>2. ASSUME NEW m \in Nat, m \in P PROVE m + 1 \in P
  <2>1. m + 1 <= n => m < n /\ m <= n
    OBVIOUS
  <2> QED BY <1>2, <2>1, CountedNext
<1>3. \A m \in Nat : m \in P
  <2> HIDE DEF P
  <2> QED BY <1>1, <1>2, SetInduction
<1>4. CountedUpto(bs, n, hash, V)
  BY <1>3
<1>5. \A k \in Keys : hash[k] < n
  <2>1. \A k \in Keys : hash[k] \in 0 .. n - 1
    OBVIOUS
  <2> QED BY <2>1
<1>6. EntriesOf(bs, n) = FlattenSeq(FirstBuckets(bs, n))
  BY DEF EntriesOf, FirstBuckets
<1> QED BY <1>4, <1>5, <1>6 DEF CountedUpto
-----------------------------------------------------------------------------
(* There are at least as many entries as keys, and as many just when no    *)
(* key is twice.                                                           *)
LEMMA KeysCount ==
  ASSUME NEW V, NEW s \in Bucketed(V), NEW T, T = {k \in Keys : Places(s, k) # {}}
  PROVE  /\ IsFiniteSet(T) /\ Cardinality(T) \in Nat /\ Cardinality(T) <= Len(s)
         /\ Cardinality(T) = Len(s) <=> \A k \in Keys : Count(s, k) <= 1
<1> DEFINE n == Len(s)
           f == [i \in 1 .. n |-> s[i].key]
<1>1. n \in Nat /\ DOMAIN s = 1 .. n /\ \A i \in 1 .. n : s[i].key \in Keys
  <2>1. n \in Nat /\ DOMAIN s = 1 .. n
    BY PlacesFinite
  <2>2. ASSUME NEW i \in 1 .. n PROVE s[i].key \in Keys
    <3>1. s[i] \in [key : Keys, elm : V]
      BY <2>1, ElementOfSeq DEF Bucketed
    <3> QED BY <3>1
  <2> QED BY <2>1, <2>2
<1>2. f \in [1 .. n -> T] /\ \A i \in 1 .. n : f[i] = s[i].key
  BY <1>1 DEF Places
<1>3. ASSUME \A k \in Keys : Count(s, k) <= 1,
             NEW i \in 1 .. n, NEW j \in 1 .. n, f[i] = f[j]
      PROVE  i = j
  <2> DEFINE k == s[i].key
             P == Places(s, k)
  <2>1. k \in Keys /\ s[j].key = k
    BY <1>1, <1>2, <1>3
  <2>2. i \in P /\ j \in P
    BY <1>1, <2>1 DEF Places
  <2>3. IsFiniteSet(P) /\ Cardinality(P) \in Nat /\ Cardinality(P) <= 1
    BY <1>3, <2>1, PlacesFinite DEF Count
  <2> HIDE DEF P
  <2>4. ASSUME i # j PROVE FALSE
    <3>1. IsFiniteSet(P \ {i}) /\ Cardinality(P \ {i}) = Cardinality(P) - 1
      BY <2>2, <2>3, FS_RemoveElement
    <3>2. Cardinality(P \ {i}) \in Nat
      BY <3>1, FS_CardinalityType
    <3>3. Cardinality(P \ {i}) = 0
      BY <2>3, <3>1, <3>2
    <3>4. P \ {i} = {}
      BY <3>1, <3>3, FS_EmptySet
    <3> QED BY <2>2, <2>4, <3>4
  <2> QED BY <2>4
<1>4. ASSUME NEW k \in T PROVE \E i \in 1 .. n : f[i] = k
  BY <1>1, <1>2 DEF Places
<1>5. IsFiniteSet(1 .. n) /\ Cardinality(1 .. n) = n
  BY <1>1, FS_Interval
<1> HIDE DEF f
<1>6. f \in Surjection(1 .. n, T)
  BY <1>2, <1>4, Fun_IsSurj
<1>7. /\ IsFiniteSet(T) /\ Cardinality(T) <= n
      /\ Cardinality(T) = n <=> f \in Injection(1 .. n, T)
  BY <1>5, <1>6, FS_Surjection
<1>8. ASSUME \A k \in Keys : Count(s, k) <= 1 PROVE f \in Injection(1 .. n, T)
  BY <1>2, <1>3, <1>8, Fun_IsInj
<1>9. ASSUME f \in Injection(1 .. n, T), NEW k \in Keys PROVE Count(s, k) <= 1
  <2>1. CASE Places(s, k) = {}
    BY <2>1, PlacesFinite
  <2>2. ASSUME NEW i \in Places(s, k) PROVE Count(s, k) = 1
    <3>1. i \in 1 .. n /\ f[i] = k
      BY <1>1, <1>2 DEF Places
    <3>2. \A j \in Places(s, k) : j \in 1 .. n /\ f[j] = k
      BY <1>1, <1>2 DEF Places
    <3>3. \A j \in 1 .. n : f[j] = f[i] => j = i
      BY <1>9, <3>1 DEF Injection, IsInjective
    <3>4. Places(s, k) = {i}
      BY <3>1, <3>2, <3>3
    <3> QED BY <3>4, FS_Singleton DEF Count
  <2> QED BY <2>1, <2>2
<1>10. Cardinality(T) \in Nat
  BY <1>7, FS_CardinalityType
<1> QED BY <1>7, <1>8, <1>9, <1>10
-----------------------------------------------------------------------------
(* How often each key is there.                                            *)
TimesIn(bs, hash) == [k \in Keys |-> Count(bs[hash[k]], k)]

LEMMA FiledIs ==
  ASSUME NEW V, NEW n \in Nat, NEW hash \in [Keys -> 0 .. n - 1], NEW bs,
         Filed(bs, n, hash, V)
  PROVE  /\ TimesIn(bs, hash) \in [Keys -> Nat]
         /\ FiledIn(bs, hash) = {k \in Keys : TimesIn(bs, hash)[k] # 0}
<1>1. ASSUME NEW k \in Keys
      PROVE  /\ Count(bs[hash[k]], k) \in Nat
             /\ Places(bs[hash[k]], k) # {} <=> Count(bs[hash[k]], k) # 0
  <2>1. bs[hash[k]] \in Bucketed(V)
    BY DEF Filed
  <2> QED BY <2>1, PlacesFinite
<1>2. TimesIn(bs, hash) \in [Keys -> Nat]
  BY <1>1 DEF TimesIn
<1>3. \A k \in Keys : k \in FiledIn(bs, hash) <=> TimesIn(bs, hash)[k] # 0
  BY <1>1 DEF FiledIn, TimesIn
<1> QED BY <1>2, <1>3 DEF FiledIn

LEMMA CountIs ==
  ASSUME NEW V, NEW n \in Nat, NEW hash \in [Keys -> 0 .. n - 1], NEW bs,
         Filed(bs, n, hash, V), NEW k \in Keys
  PROVE  /\ Count(bs[hash[k]], k) \in Nat
         /\ k \in FiledIn(bs, hash) <=> Count(bs[hash[k]], k) # 0
<1>1. TimesIn(bs, hash) \in [Keys -> Nat]
  BY FiledIs
<1>2. FiledIn(bs, hash) = {j \in Keys : TimesIn(bs, hash)[j] # 0}
  BY FiledIs
<1>3. TimesIn(bs, hash)[k] = Count(bs[hash[k]], k)
  BY DEF TimesIn
<1> QED BY <1>1, <1>2, <1>3

(* What a call that changes one bucket changes: nothing under other keys.  *)
Replaces(nb, b, key) ==
  /\ Uniform(nb)
  /\ \A k : k # key => Elm(nb, k) = Elm(b, k) /\ Count(nb, k) = Count(b, k)
  /\ \A i \in DOMAIN nb : nb[i].key = key \/ \E j \in DOMAIN b : nb[i].key = b[j].key

Swapped(bs, h, nb) == [bs EXCEPT ![h] = nb]

LEMMA OneBucketChanges ==
  ASSUME NEW V, NEW n \in Nat, NEW hash \in [Keys -> 0 .. n - 1], NEW bs,
         Filed(bs, n, hash, V), NEW key \in Keys, NEW nb \in Bucketed(V),
         Replaces(nb, bs[hash[key]], key),
         NEW nbs, nbs = Swapped(bs, hash[key], nb)
  PROVE  /\ Filed(nbs, n, hash, V)
         /\ ValueIn(nbs, hash) = Swapped(ValueIn(bs, hash), key, Elm(nb, key))
         /\ TimesIn(nbs, hash) = Swapped(TimesIn(bs, hash), key, Count(nb, key))
<1> DEFINE h == hash[key]
<1>1. h \in 0 .. n - 1 /\ \A k \in Keys : hash[k] \in 0 .. n - 1
  OBVIOUS
<1>2. bs \in [0 .. n - 1 -> Bucketed(V)]
  BY DEF Filed
<1>3. /\ nbs \in [0 .. n - 1 -> Bucketed(V)]
      /\ \A b \in 0 .. n - 1 : nbs[b] = IF b = h THEN nb ELSE bs[b]
  BY <1>1, <1>2 DEF Swapped
<1>4. \A i \in DOMAIN nb : hash[nb[i].key] = h
  <2>1. \A j \in DOMAIN bs[h] : hash[bs[h][j].key] = h
    BY <1>1 DEF Filed
  <2> QED BY <2>1 DEF Replaces
<1>5. /\ Uniform(nb)
      /\ \A k : k # key => /\ Elm(nb, k) = Elm(bs[h], k)
                           /\ Count(nb, k) = Count(bs[h], k)
  BY DEF Replaces
<1> HIDE DEF h
<1>6. Filed(nbs, n, hash, V)
  BY <1>3, <1>4, <1>5 DEF Filed
<1>7. ASSUME NEW k \in Keys
      PROVE  /\ Elm(nbs[hash[k]], k) = IF k = key THEN Elm(nb, key) ELSE Elm(bs[hash[k]], k)
             /\ Count(nbs[hash[k]], k) = IF k = key THEN Count(nb, key) ELSE Count(bs[hash[k]], k)
  <2>1. CASE k = key
    BY <1>1, <1>3, <1>5, <2>1 DEF h
  <2>2. CASE k # key /\ hash[k] = h
    BY <1>1, <1>3, <1>5, <2>2 DEF h
  <2>3. CASE hash[k] # h
    BY <1>1, <1>3, <1>5, <2>3 DEF h
  <2> QED BY <2>1, <2>2, <2>3
<1>8. ValueIn(nbs, hash) = Swapped(ValueIn(bs, hash), key, Elm(nb, key))
  BY <1>7 DEF ValueIn, Swapped
<1>9. TimesIn(nbs, hash) = Swapped(TimesIn(bs, hash), key, Count(nb, key))
  BY <1>7 DEF TimesIn, Swapped
<1> QED BY <1>6, <1>8, <1>9

LEMMA StoreIs ==
  ASSUME NEW bs, NEW hash, NEW key \in Keys
  PROVE  /\ ValueIn(bs, hash)[key] = Elm(bs[hash[key]], key)
         /\ TimesIn(bs, hash)[key] = Count(bs[hash[key]], key)
BY DEF ValueIn, TimesIn

LEMMA SwappedTimes ==
  ASSUME NEW bs, NEW nbs, NEW hash, NEW key \in Keys, NEW c, NEW k \in Keys,
         TimesIn(nbs, hash) = Swapped(TimesIn(bs, hash), key, c)
  PROVE  Count(nbs[hash[k]], k) = IF k = key THEN c ELSE Count(bs[hash[k]], k)
<1>1. Swapped(TimesIn(bs, hash), key, c)[k] = IF k = key THEN c ELSE TimesIn(bs, hash)[k]
  BY DEF Swapped, TimesIn
<1>2. TimesIn(bs, hash)[k] = Count(bs[hash[k]], k)
  BY StoreIs
<1>3. TimesIn(nbs, hash)[k] = Count(nbs[hash[k]], k)
  BY StoreIs
<1> QED BY <1>1, <1>2, <1>3

LEMMA FiledChanges ==
  ASSUME NEW V, NEW n \in Nat, NEW hash \in [Keys -> 0 .. n - 1], NEW bs, NEW nbs,
         Filed(bs, n, hash, V), Filed(nbs, n, hash, V), NEW key \in Keys, NEW c,
         TimesIn(nbs, hash) = Swapped(TimesIn(bs, hash), key, c)
  PROVE  FiledIn(nbs, hash) = IF c = 0 THEN FiledIn(bs, hash) \ {key}
                                       ELSE FiledIn(bs, hash) \cup {key}
<1> DEFINE d == TimesIn(bs, hash)
           e == TimesIn(nbs, hash)
<1>1. d \in [Keys -> Nat] /\ FiledIn(bs, hash) = {k \in Keys : d[k] # 0}
  BY FiledIs
<1>2. FiledIn(nbs, hash) = {k \in Keys : e[k] # 0}
  BY FiledIs
<1>3. e = Swapped(d, key, c)
  OBVIOUS
<1> HIDE DEF d, e
<1>4. \A k \in Keys : e[k] = IF k = key THEN c ELSE d[k]
  BY <1>1, <1>3 DEF Swapped
<1> QED BY <1>1, <1>2, <1>4

Added(nbs, bs, hash, key) ==
  \A k \in Keys : Count(nbs[hash[k]], k) =
                    Count(bs[hash[k]], k) + (IF k = key THEN 1 ELSE 0)
Same(nbs, bs, hash) == /\ FiledIn(nbs, hash) = FiledIn(bs, hash)
                       /\ ValueIn(nbs, hash) = ValueIn(bs, hash)
Gone(nbs, bs, hash, key) ==
  /\ FiledIn(nbs, hash) = FiledIn(bs, hash) \ {key}
  /\ ValueIn(nbs, hash) = Swapped(ValueIn(bs, hash), key, NoElm)
NoMore(nbs, bs, hash) == \A k \in Keys : Count(nbs[hash[k]], k) <= Count(bs[hash[k]], k)

(* Putting a value, in either map.                                         *)
LEMMA StorePuts ==
  ASSUME NEW V, NEW n \in Nat, NEW hash \in [Keys -> 0 .. n - 1], NEW bs,
         Filed(bs, n, hash, V), NEW key \in Keys, NEW elm \in V, NEW nb \in Bucketed(V),
         PutInto(nb, bs[hash[key]], key, elm),
         NEW nbs, nbs = Swapped(bs, hash[key], nb)
  PROVE  /\ Filed(nbs, n, hash, V)
         /\ ValueIn(nbs, hash) = Swapped(ValueIn(bs, hash), key, elm)
         /\ FiledIn(nbs, hash) = FiledIn(bs, hash) \cup {key}
         /\ Added(nbs, bs, hash, key)
<1> DEFINE b == bs[hash[key]]
<1>1. b \in Bucketed(V) /\ Uniform(b)
  BY DEF Filed
<1>2. /\ Replaces(nb, b, key) /\ Elm(nb, key) = elm /\ Count(nb, key) = Count(b, key) + 1
  <2> HIDE DEF b
  <2>1. PutInto(nb, b, key, elm)
    BY DEF b
  <2> QED BY <1>1, <2>1, PutOne DEF Replaces
<1>3. /\ Filed(nbs, n, hash, V)
      /\ ValueIn(nbs, hash) = Swapped(ValueIn(bs, hash), key, Elm(nb, key))
      /\ TimesIn(nbs, hash) = Swapped(TimesIn(bs, hash), key, Count(nb, key))
  <2>1. Replaces(nb, bs[hash[key]], key)
    BY <1>2
  <2> QED BY <2>1, OneBucketChanges
<1>4. Count(nb, key) # 0
  BY <1>1, <1>2, PlacesFinite
<1>5. FiledIn(nbs, hash) = FiledIn(bs, hash) \cup {key}
  BY <1>3, <1>4, FiledChanges
<1>6. ASSUME NEW k \in Keys
      PROVE  Count(nbs[hash[k]], k) = Count(bs[hash[k]], k) + (IF k = key THEN 1 ELSE 0)
  <2>1. Count(nbs[hash[k]], k) = IF k = key THEN Count(nb, key) ELSE Count(bs[hash[k]], k)
    BY <1>3, SwappedTimes
  <2>2. Count(bs[hash[k]], k) \in Nat
    BY CountIs
  <2> QED BY <1>2, <2>1, <2>2
<1>7. Added(nbs, bs, hash, key)
  BY <1>6 DEF Added
<1> QED BY <1>2, <1>3, <1>5, <1>7

(* Taking a key out, in either map: it is gone unless it was there twice.  *)
LEMMA StoreRemoves ==
  ASSUME NEW V, NEW n \in Nat, NEW hash \in [Keys -> 0 .. n - 1], NEW bs,
         Filed(bs, n, hash, V), NEW key \in Keys,
         NEW nbs, nbs = Swapped(bs, hash[key], Without(bs[hash[key]], key))
  PROVE  /\ Filed(nbs, n, hash, V)
         /\ Count(bs[hash[key]], key) > 1 => Same(nbs, bs, hash)
         /\ Count(bs[hash[key]], key) <= 1 => Gone(nbs, bs, hash, key)
         /\ NoMore(nbs, bs, hash)
<1> DEFINE b == bs[hash[key]]
           nb == Without(b, key)
<1>1. b \in Bucketed(V) /\ Uniform(b)
  BY DEF Filed
<1>2. /\ nb \in Bucketed(V) /\ Replaces(nb, b, key)
      /\ Count(nb, key) = IF Count(b, key) = 0 THEN 0 ELSE Count(b, key) - 1
      /\ Elm(nb, key) = IF Count(b, key) = 1 THEN NoElm ELSE Elm(b, key)
  <2> HIDE DEF b
  <2> QED BY <1>1, WithoutOne DEF Replaces
<1>3. nbs = Swapped(bs, hash[key], nb)
  OBVIOUS
<1> HIDE DEF nb
<1>4. /\ Filed(nbs, n, hash, V)
      /\ ValueIn(nbs, hash) = Swapped(ValueIn(bs, hash), key, Elm(nb, key))
      /\ TimesIn(nbs, hash) = Swapped(TimesIn(bs, hash), key, Count(nb, key))
  <2>1. nb \in Bucketed(V) /\ Replaces(nb, bs[hash[key]], key)
    BY <1>2
  <2> QED BY <1>3, <2>1, OneBucketChanges
<1>5. Count(b, key) \in Nat /\ (Count(b, key) = 0 => Elm(b, key) = NoElm)
  <2> HIDE DEF b
  <2> QED BY <1>1, PlacesFinite, ElmNone
<1> HIDE DEF b
<1>6. bs[hash[key]] = b
  BY DEF b
<1>7. ASSUME NEW c, Count(nb, key) = c
      PROVE  FiledIn(nbs, hash) = IF c = 0 THEN FiledIn(bs, hash) \ {key}
                                           ELSE FiledIn(bs, hash) \cup {key}
  BY <1>4, <1>7, FiledChanges
<1>8. ASSUME Count(b, key) <= 1 PROVE Gone(nbs, bs, hash, key)
  <2>1. Count(nb, key) = 0 /\ Elm(nb, key) = NoElm
    BY <1>2, <1>5, <1>8
  <2>2. FiledIn(nbs, hash) = FiledIn(bs, hash) \ {key}
    BY <1>7, <2>1
  <2> QED BY <1>4, <2>1, <2>2 DEF Gone
<1>9. ASSUME Count(b, key) > 1 PROVE Same(nbs, bs, hash)
  <2>1. Count(nb, key) # 0 /\ Elm(nb, key) = Elm(b, key)
    BY <1>2, <1>5, <1>9
  <2>2. FiledIn(nbs, hash) = FiledIn(bs, hash) \cup {key}
    BY <1>7, <2>1
  <2>3. key \in FiledIn(bs, hash)
    <3>1. key \in FiledIn(bs, hash) <=> Count(bs[hash[key]], key) # 0
      BY CountIs
    <3> QED BY <1>5, <1>6, <1>9, <3>1
  <2>4. ValueIn(bs, hash)[key] = Elm(b, key)
    BY <1>6, StoreIs
  <2>5. Swapped(ValueIn(bs, hash), key, Elm(b, key)) = ValueIn(bs, hash)
    BY <2>4 DEF Swapped, ValueIn
  <2> QED BY <1>4, <2>1, <2>2, <2>3, <2>5 DEF Same
<1>10. ASSUME NEW k \in Keys PROVE Count(nbs[hash[k]], k) <= Count(bs[hash[k]], k)
  <2>1. Count(nbs[hash[k]], k) = IF k = key THEN Count(nb, key) ELSE Count(bs[hash[k]], k)
    BY <1>4, SwappedTimes
  <2>2. Count(bs[hash[k]], k) \in Nat
    BY CountIs
  <2>3. Count(nb, key) <= Count(b, key)
    BY <1>2, <1>5
  <2>4. CASE k = key
    BY <1>6, <2>1, <2>3, <2>4
  <2>5. CASE k # key
    BY <2>1, <2>2, <2>5
  <2> QED BY <2>4, <2>5
<1> QED BY <1>4, <1>6, <1>8, <1>9, <1>10 DEF NoMore

(* A new map.                                                              *)
NoEntries(n) == [b \in 0 .. n - 1 |-> <<>>]
Unset == [k \in Keys |-> NoElm]

LEMMA StoreEmpty ==
  ASSUME NEW V, NEW n \in Nat, NEW hash \in [Keys -> 0 .. n - 1], NEW bs, bs = NoEntries(n)
  PROVE  /\ Filed(bs, n, hash, V) /\ ValueIn(bs, hash) = Unset /\ FiledIn(bs, hash) = {}
         /\ \A k \in Keys : Count(bs[hash[k]], k) = 0
<1>1. /\ DOMAIN bs = 0 .. n - 1 /\ bs \in [0 .. n - 1 -> {<<>>}]
      /\ \A b \in 0 .. n - 1 : bs[b] = <<>>
  BY DEF NoEntries
<1>2. <<>> \in Bucketed(V) /\ DOMAIN <<>> = {}
  BY DEF Bucketed
<1>3. bs \in [0 .. n - 1 -> Bucketed(V)]
  <2> HIDE DEF Bucketed
  <2>1. bs = [b \in 0 .. n - 1 |-> bs[b]]
    BY <1>1
  <2>2. \A b \in 0 .. n - 1 : bs[b] \in Bucketed(V)
    BY <1>1, <1>2
  <2> QED BY <2>1, <2>2
<1>4. Filed(bs, n, hash, V)
  BY <1>1, <1>2, <1>3 DEF Filed, Uniform
<1>5. ASSUME NEW k \in Keys PROVE bs[hash[k]] = <<>>
  BY <1>1
<1>6. ASSUME NEW k \in Keys PROVE Places(bs[hash[k]], k) = {}
  BY <1>2, <1>5 DEF Places
<1>7. \A k \in Keys : Elm(bs[hash[k]], k) = NoElm
  BY <1>6, ElmNone
<1>8. ValueIn(bs, hash) = Unset
  BY <1>7 DEF ValueIn, Unset
<1>9. FiledIn(bs, hash) = {}
  BY <1>6 DEF FiledIn
<1>10. ASSUME NEW k \in Keys PROVE Count(bs[hash[k]], k) = 0
  BY <1>6, FS_EmptySet DEF Count
<1> QED BY <1>4, <1>8, <1>9, <1>10

(* What both maps tell of all their entries.                               *)
Tells(es, keys) == /\ Len(es) \in Nat /\ Len(KeysOf(es)) = Len(es)
                   /\ Cardinality(keys) \in Nat /\ Cardinality(keys) <= Len(es)
                   /\ {KeysOf(es)[i] : i \in DOMAIN KeysOf(es)} = keys

LEMMA StoreTells ==
  ASSUME NEW V, NEW n \in Nat, NEW hash \in [Keys -> 0 .. n - 1], NEW bs,
         Filed(bs, n, hash, V)
  PROVE  /\ Tells(EntriesOf(bs, n), FiledIn(bs, hash))
         /\ Len(EntriesOf(bs, n)) = Cardinality(FiledIn(bs, hash))
              <=> \A k \in Keys : Count(bs[hash[k]], k) <= 1
<1> DEFINE es == EntriesOf(bs, n)
<1>1. es \in Bucketed(V) /\ \A k \in Keys : Count(es, k) = Count(bs[hash[k]], k)
  <2>1. EntriesOf(bs, n) \in Bucketed(V)
    BY EntriesCounted
  <2>2. \A k \in Keys : Count(EntriesOf(bs, n), k) = Count(bs[hash[k]], k)
    BY EntriesCounted
  <2> QED BY <2>1, <2>2
<1> HIDE DEF es
<1>2. \A k \in Keys : Places(es, k) # {} <=> k \in FiledIn(bs, hash)
  <2>1. \A k \in Keys : Count(es, k) = 0 <=> Places(es, k) = {}
    BY <1>1, PlacesFinite
  <2>2. \A k \in Keys : k \in FiledIn(bs, hash) <=> Count(bs[hash[k]], k) # 0
    BY CountIs
  <2> QED BY <1>1, <2>1, <2>2
<1>3. FiledIn(bs, hash) = {k \in Keys : Places(es, k) # {}}
  BY <1>2 DEF FiledIn
<1>4. /\ Cardinality(FiledIn(bs, hash)) \in Nat
      /\ Cardinality(FiledIn(bs, hash)) <= Len(es)
      /\ Cardinality(FiledIn(bs, hash)) = Len(es) <=> \A k \in Keys : Count(es, k) <= 1
  BY <1>1, <1>3, KeysCount
<1>5. (\A k \in Keys : Count(es, k) <= 1) <=> \A k \in Keys : Count(bs[hash[k]], k) <= 1
  BY <1>1
<1>6. DOMAIN es = 1 .. Len(es) /\ Len(es) \in Nat
  BY <1>1, PlacesFinite
<1>7. /\ DOMAIN KeysOf(es) = 1 .. Len(es) /\ Len(KeysOf(es)) = Len(es)
      /\ \A i \in 1 .. Len(es) : KeysOf(es)[i] = es[i].key
  BY <1>6 DEF KeysOf
<1>8. \A i \in 1 .. Len(es) : es[i].key \in Keys
  <2>1. ASSUME NEW i \in 1 .. Len(es) PROVE es[i].key \in Keys
    <3>1. es[i] \in [key : Keys, elm : V]
      BY <1>1, <1>6, ElementOfSeq DEF Bucketed
    <3> QED BY <3>1
  <2> QED BY <2>1
<1>9. {KeysOf(es)[i] : i \in DOMAIN KeysOf(es)} = FiledIn(bs, hash)
  BY <1>3, <1>6, <1>7, <1>8 DEF Places
<1> QED BY <1>4, <1>5, <1>6, <1>7, <1>9 DEF Tells, es
-----------------------------------------------------------------------------
(* The hash map.                                                           *)
MapFiled == Filed(buckets, lbuckets, MapHash, Values)

LEMMA MapHashIs ==
  /\ lbuckets \in Nat /\ MapHash \in [Keys -> 0 .. lbuckets - 1]
  /\ \A k \in Keys : MapHash[k] = Bucket(k)
<1>1. ASSUME NEW k \in Keys PROVE hfn[k] % lbuckets \in 0 .. lbuckets - 1
  BY MapAssumption
<1> QED BY <1>1, MapAssumption DEF MapHash, Bucket

LEMMA SameCardinality ==
  /\ \A S : Latest!Cardinality(S) = Cardinality(S)
  /\ \A S : First!Cardinality(S) = Cardinality(S)
BY DEF Latest!Cardinality, First!Cardinality, Cardinality

LEMMA MapPutStep ==
  ASSUME MapFiled, NEW key \in Keys, NEW elm \in Values \cup {NoElm}, Map_put(key, elm)
  PROVE  MapFiled' /\ Latest!NextLatest
<1> DEFINE h == MapHash[key]
           b == buckets[h]
           E == [key : Keys, elm : Values]
           mapped == [i \in DOMAIN b |-> IF b[i].key = key THEN Entry(key, elm) ELSE b[i]]
           nb == Append(mapped, Entry(key, elm))
<1>1. elm \in Values /\ h = Bucket(key) /\ h \in 0 .. lbuckets - 1
  BY MapHashIs DEF Map_put
<1>2. buckets \in [0 .. lbuckets - 1 -> Bucketed(Values)] /\ b \in Bucketed(Values)
  BY <1>1 DEF MapFiled, Filed
<1>3. buckets' = [buckets EXCEPT ![h] = nb] /\ map_answer' = map_answer
  BY <1>1, <1>2 DEF Map_put
<1> HIDE DEF h, b
<1>4. DOMAIN b = 1 .. Len(b) /\ Len(b) \in Nat /\ Entry(key, elm) \in E
  BY <1>1, <1>2, PlacesFinite DEF Entry
<1>5. \A i \in 1 .. Len(b) : b[i] \in E
  BY <1>2, <1>4, ElementOfSeq DEF Bucketed
<1>6. mapped \in Seq(E) /\ Len(mapped) = Len(b)
  <2>1. mapped \in [1 .. Len(b) -> E]
    BY <1>4, <1>5
  <2> HIDE DEF mapped, E
  <2> QED BY <1>4, <2>1
<1>7. \A i \in 1 .. Len(b) : mapped[i] = IF b[i].key = key THEN Entry(key, elm) ELSE b[i]
  BY <1>4
<1> HIDE DEF mapped, E
<1>8. /\ nb \in Seq(E) /\ Len(nb) = Len(b) + 1 /\ nb[Len(b) + 1] = Entry(key, elm)
      /\ \A i \in 1 .. Len(b) : nb[i] = mapped[i]
  <2>1. /\ nb \in Seq(E) /\ Len(nb) = Len(mapped) + 1 /\ nb[Len(mapped) + 1] = Entry(key, elm)
        /\ \A i \in 1 .. Len(mapped) : nb[i] = mapped[i]
    BY <1>4, <1>6, AppendProperties
  <2> QED BY <1>6, <2>1
<1> HIDE DEF nb
<1>9. nb \in Bucketed(Values) /\ PutInto(nb, buckets[MapHash[key]], key, elm)
  BY <1>7, <1>8 DEF PutInto, Bucketed, E, b, h
<1>10. buckets' = Swapped(buckets, MapHash[key], nb)
  BY <1>3 DEF Swapped, h
<1>11. /\ Filed(buckets', lbuckets, MapHash, Values)
       /\ ValueIn(buckets', MapHash) = Swapped(ValueIn(buckets, MapHash), key, elm)
       /\ FiledIn(buckets', MapHash) = FiledIn(buckets, MapHash) \cup {key}
  <2>1. /\ Filed(buckets, lbuckets, MapHash, Values)
        /\ lbuckets \in Nat /\ MapHash \in [Keys -> 0 .. lbuckets - 1]
    BY MapHashIs DEF MapFiled
  <2>2. /\ Filed(buckets', lbuckets, MapHash, Values)
        /\ ValueIn(buckets', MapHash) = Swapped(ValueIn(buckets, MapHash), key, elm)
        /\ FiledIn(buckets', MapHash) = FiledIn(buckets, MapHash) \cup {key}
        /\ Added(buckets', buckets, MapHash, key)
    BY <1>1, <1>9, <1>10, <2>1, StorePuts
  <2> QED BY <2>2
<1>12. Latest!Put(key, elm)
  BY <1>3, <1>11 DEF Latest!Put, Swapped
<1> QED BY <1>1, <1>11, <1>12 DEF Latest!NextLatest, MapFiled

LEMMA TwiceIs == \A key \in Keys : Twice(key) <=> Count(buckets[MapHash[key]], key) > 1
BY MapHashIs DEF Twice, Count

LEMMA MapRemStep ==
  ASSUME MapFiled, NEW key \in Keys, Map_rem(key)
  PROVE  MapFiled' /\ (RemainsAfter(key) \/ Latest!Remove(key))
<1>1. /\ lbuckets \in Nat /\ MapHash \in [Keys -> 0 .. lbuckets - 1]
      /\ MapHash[key] = Bucket(key)
  BY MapHashIs
<1>2. Filed(buckets, lbuckets, MapHash, Values)
  BY DEF MapFiled
<1>3. /\ buckets' = Swapped(buckets, MapHash[key], Without(buckets[MapHash[key]], key))
      /\ map_answer' = <<"rem", Elm(buckets[MapHash[key]], key)>>
  BY <1>1, <1>2 DEF Map_rem, Swapped, Filed
<1>4. /\ Filed(buckets', lbuckets, MapHash, Values)
      /\ \/ Twice(key) /\ Same(buckets', buckets, MapHash)
         \/ Gone(buckets', buckets, MapHash, key)
  <2>1. /\ Filed(buckets', lbuckets, MapHash, Values)
        /\ Count(buckets[MapHash[key]], key) > 1 => Same(buckets', buckets, MapHash)
        /\ Count(buckets[MapHash[key]], key) <= 1 => Gone(buckets', buckets, MapHash, key)
    BY <1>1, <1>2, <1>3, StoreRemoves
  <2>2. Count(buckets[MapHash[key]], key) \in Nat
    BY <1>1, <1>2, CountIs
  <2>3. Twice(key) <=> Count(buckets[MapHash[key]], key) > 1
    BY TwiceIs
  <2> QED BY <2>1, <2>2, <2>3
<1>5. ValueIn(buckets, MapHash)[key] = Elm(buckets[MapHash[key]], key)
  BY StoreIs
<1>6. MapHash' = MapHash
  BY DEF MapHash, Bucket
<1>7. ASSUME Twice(key), Same(buckets', buckets, MapHash) PROVE RemainsAfter(key)
  BY <1>3, <1>5, <1>6, <1>7 DEF RemainsAfter, SameStore, Same
<1>8. ASSUME Gone(buckets', buckets, MapHash, key) PROVE Latest!Remove(key)
  BY <1>3, <1>5, <1>6, <1>8 DEF Latest!Remove, Gone, Swapped
<1> QED BY <1>4, <1>6, <1>7, <1>8 DEF MapFiled

LEMMA MapLookStep ==
  ASSUME MapFiled, UNCHANGED buckets,
         \/ \E key \in Keys : Map_get(key) \/ Map_contains(key)
         \/ Map_size \/ Map_get_keys
  PROVE  Latest!Other \/ CountsTwice
<1> DEFINE filed == FiledIn(buckets, MapHash)
           es == EntriesOf(buckets, lbuckets)
<1>1. /\ lbuckets \in Nat /\ MapHash \in [Keys -> 0 .. lbuckets - 1]
      /\ \A k \in Keys : MapHash[k] = Bucket(k)
  BY MapHashIs
<1>2. Filed(buckets, lbuckets, MapHash, Values)
  BY DEF MapFiled
<1>3. SameStore(buckets, MapHash)
  BY DEF SameStore, ValueIn, FiledIn
<1>4. ASSUME NEW key \in Keys, Map_get(key) PROVE Latest!Get(key)
  <2>1. map_answer' = <<"get", ValueIn(buckets, MapHash)[key]>>
    BY <1>1, <1>4, StoreIs DEF Map_get
  <2> QED BY <1>3, <2>1 DEF Latest!Get, SameStore
<1>5. ASSUME NEW key \in Keys, Map_contains(key) PROVE Latest!Contains(key)
  <2>1. map_answer' = <<"contains", key \in FiledIn(buckets, MapHash)>>
    BY <1>1, <1>5 DEF Map_contains, FiledIn
  <2> QED BY <1>3, <2>1 DEF Latest!Contains, SameStore
<1>6. /\ Tells(es, filed)
      /\ \/ Len(es) = Cardinality(filed)
         \/ Len(es) > Cardinality(filed) /\ \E k \in Keys : Twice(k)
  <2>1. /\ Tells(es, filed)
        /\ Len(es) = Cardinality(filed) <=> \A k \in Keys : Count(buckets[MapHash[k]], k) <= 1
    BY <1>1, <1>2, StoreTells
  <2>2. ASSUME NEW k \in Keys PROVE Count(buckets[MapHash[k]], k) <= 1 \/ Twice(k)
    <3>1. Count(buckets[MapHash[k]], k) \in Nat
      BY <1>1, <1>2, CountIs
    <3> QED BY <3>1, TwiceIs
  <2> HIDE DEF es, filed
  <2>3. Len(es) \in Nat /\ Cardinality(filed) \in Nat /\ Cardinality(filed) <= Len(es)
    BY <2>1 DEF Tells
  <2> QED BY <2>1, <2>2, <2>3
<1>7. CASE Map_size
  <2>1. map_answer' = <<"size", Len(es)>>
    BY <1>7 DEF Map_size
  <2>2. CASE Len(es) = Cardinality(filed)
    BY <1>3, <2>1, <2>2, SameCardinality DEF SameStore, Latest!Size, Latest!Other
  <2>3. CASE Len(es) > Cardinality(filed) /\ \E k \in Keys : Twice(k)
    BY <1>3, <2>1, <2>3 DEF CountsTwice
  <2> QED BY <1>6, <2>2, <2>3
<1>8. CASE Map_get_keys
  <2>1. map_answer' = <<"keys", KeysOf(es)>>
    BY <1>8 DEF Map_get_keys
  <2>2. /\ map_answer'[1] = "keys" /\ map_answer'[2] = KeysOf(es)
        /\ {KeysOf(es)[i] : i \in DOMAIN KeysOf(es)} = filed /\ Len(KeysOf(es)) = Len(es)
    BY <1>6, <2>1 DEF Tells
  <2> HIDE DEF es
  <2>3. CASE Len(es) = Cardinality(filed)
    <3>1. Latest!ListsKeys(KeysOf(es))
      BY <2>2, <2>3, SameCardinality DEF Latest!ListsKeys
    <3> QED BY <1>3, <2>2, <3>1 DEF SameStore, Latest!GetKeys, Latest!Other
  <2>4. CASE Len(es) > Cardinality(filed) /\ \E k \in Keys : Twice(k)
    BY <1>3, <2>2, <2>4 DEF CountsTwice
  <2> QED BY <1>6, <2>3, <2>4
<1> QED BY <1>4, <1>5, <1>7, <1>8 DEF Latest!Other

LEMMA MapNew ==
  ASSUME HashMap_new
  PROVE  MapFiled /\ Latest!Init
<1>1. buckets = NoEntries(lbuckets)
  BY DEF HashMap_new, NoEntries
<1>2. lbuckets \in Nat /\ MapHash \in [Keys -> 0 .. lbuckets - 1]
  BY MapHashIs
<1>3. /\ Filed(buckets, lbuckets, MapHash, Values)
      /\ ValueIn(buckets, MapHash) = Unset /\ FiledIn(buckets, MapHash) = {}
  BY <1>1, <1>2, StoreEmpty
<1> QED BY <1>3 DEF HashMap_new, Latest!Init, Unset, MapFiled

LEMMA MapRenewed ==
  ASSUME HashMap_destroy
  PROVE  MapFiled' /\ Latest!Renew
<1>1. buckets' = NoEntries(lbuckets) /\ map_answer' = map_answer
  BY DEF HashMap_destroy, NoEntries
<1>2. lbuckets \in Nat /\ MapHash \in [Keys -> 0 .. lbuckets - 1]
  BY MapHashIs
<1>3. /\ Filed(buckets', lbuckets, MapHash, Values)
      /\ ValueIn(buckets', MapHash) = Unset /\ FiledIn(buckets', MapHash) = {}
  BY <1>1, <1>2, StoreEmpty
<1> QED BY <1>1, <1>3 DEF Latest!Renew, Unset, MapFiled

MapDoes == \/ Latest!NextLatest
           \/ CountsTwice \/ \E key \in Keys : RemainsAfter(key)

LEMMA MapStep ==
  MapFiled /\ [MapNext]_mapVars => MapFiled' /\ [MapDoes]_(Latest!storeVars)
<1> SUFFICES ASSUME MapFiled, [MapNext]_mapVars
             PROVE  MapFiled' /\ [MapDoes]_(Latest!storeVars)
  OBVIOUS
<1>1. ASSUME NEW key \in Keys, NEW elm \in Values \cup {NoElm}, Map_put(key, elm)
      PROVE  MapFiled' /\ MapDoes
  BY <1>1, MapPutStep DEF MapDoes
<1>2. ASSUME NEW key \in Keys, Map_rem(key) PROVE MapFiled' /\ MapDoes
  <2>1. MapFiled' /\ (RemainsAfter(key) \/ Latest!Remove(key))
    BY <1>2, MapRemStep
  <2> QED BY <2>1 DEF MapDoes, Latest!NextLatest, Latest!Other
<1>3. ASSUME UNCHANGED buckets PROVE MapFiled'
  BY <1>3 DEF MapFiled
<1>4. ASSUME NEW key \in Keys, Map_get(key) \/ Map_contains(key)
      PROVE  MapFiled' /\ MapDoes
  <2>1. UNCHANGED buckets
    BY <1>4 DEF Map_get, Map_contains
  <2>2. Latest!Other \/ CountsTwice
    BY <1>4, <2>1, MapLookStep
  <2> QED BY <1>3, <2>1, <2>2 DEF MapDoes, Latest!NextLatest
<1>5. ASSUME Map_size \/ Map_get_keys PROVE MapFiled' /\ MapDoes
  <2>1. UNCHANGED buckets
    BY <1>5 DEF Map_size, Map_get_keys
  <2>2. Latest!Other \/ CountsTwice
    BY <1>5, <2>1, MapLookStep
  <2> QED BY <1>3, <2>1, <2>2 DEF MapDoes, Latest!NextLatest
<1>6. ASSUME HashMap_destroy PROVE MapFiled' /\ MapDoes
  BY <1>6, MapRenewed DEF MapDoes, Latest!NextLatest, Latest!Other
<1>7. CASE UNCHANGED mapVars
  <2>1. buckets' = buckets /\ map_answer' = map_answer
    BY <1>7 DEF mapVars
  <2>2. UNCHANGED Latest!storeVars
    BY <2>1 DEF Latest!storeVars, ValueIn, FiledIn
  <2> QED BY <1>3, <2>1, <2>2
<1>8. CASE MapNext
  BY <1>1, <1>2, <1>4, <1>5, <1>6, <1>8 DEF MapNext
<1> QED BY <1>7, <1>8
-----------------------------------------------------------------------------
(* The int key map.                                                        *)
IkmFiled == Filed(ikm_buckets, INT_KEY_MAP_BUCKETS, IkmHash, Values \cup {NoElm})

IkmOnce == \A k \in Keys : Count(ikm_buckets[IkmHash[k]], k) <= 1

LEMMA IkmHashIs ==
  /\ INT_KEY_MAP_BUCKETS \in Nat /\ IkmHash \in [Keys -> 0 .. INT_KEY_MAP_BUCKETS - 1]
  /\ \A k \in Keys : IkmHash[k] = int_hash_fn(k)
<1>1. ASSUME NEW k \in Keys PROVE (101 * k + 65537) % 17 \in 0 .. 17 - 1
  BY MapAssumption
<1> QED BY <1>1 DEF IkmHash, int_hash_fn, INT_KEY_MAP_BUCKETS

LEMMA IkmPutStep ==
  ASSUME IkmFiled, IkmOnce, NEW key \in Keys, NEW elm \in Values \cup {NoElm},
         IntKeyMap_put(key, elm)
  PROVE  IkmFiled' /\ IkmOnce' /\ First!NextFirst
<1> DEFINE V == Values \cup {NoElm}
           h == IkmHash[key]
           b == ikm_buckets[h]
           nb == Append(b, Entry(key, elm))
<1>1. /\ INT_KEY_MAP_BUCKETS \in Nat /\ IkmHash \in [Keys -> 0 .. INT_KEY_MAP_BUCKETS - 1]
      /\ h = int_hash_fn(key) /\ h \in 0 .. INT_KEY_MAP_BUCKETS - 1
  BY IkmHashIs
<1>2. /\ ikm_buckets \in [0 .. INT_KEY_MAP_BUCKETS - 1 -> Bucketed(V)]
      /\ b \in Bucketed(V)
  BY <1>1 DEF IkmFiled, Filed
<1>3. /\ ikm_buckets' = [ikm_buckets EXCEPT ![h] = nb] /\ ikm_answer' = ikm_answer
      /\ Places(b, key) = {}
  BY <1>1, <1>2 DEF IntKeyMap_put
<1> HIDE DEF h, b
<1>4. DOMAIN b = 1 .. Len(b) /\ Len(b) \in Nat /\ Count(b, key) = 0
  BY <1>2, <1>3, PlacesFinite
<1>5. b \in Seq([key : Keys, elm : V]) /\ Entry(key, elm) \in [key : Keys, elm : V]
  BY <1>2 DEF Bucketed, Entry
<1>6. /\ nb \in Seq([key : Keys, elm : V]) /\ Len(nb) = Len(b) + 1
      /\ nb[Len(b) + 1] = Entry(key, elm)
      /\ \A i \in 1 .. Len(b) : nb[i] = b[i]
  BY <1>5, AppendProperties
<1>7. \A i \in 1 .. Len(b) : b[i].key # key
  BY <1>3, <1>4 DEF Places
<1> HIDE DEF nb
<1>8. nb \in Bucketed(V) /\ PutInto(nb, ikm_buckets[IkmHash[key]], key, elm)
  BY <1>6, <1>7 DEF PutInto, Bucketed, b, h
<1>9. ikm_buckets' = Swapped(ikm_buckets, IkmHash[key], nb)
  BY <1>3 DEF Swapped, h
<1> HIDE DEF V
<1>10. elm \in V /\ Filed(ikm_buckets, INT_KEY_MAP_BUCKETS, IkmHash, V)
  BY DEF IkmFiled, V
<1>11. /\ Filed(ikm_buckets', INT_KEY_MAP_BUCKETS, IkmHash, V)
       /\ ValueIn(ikm_buckets', IkmHash) = Swapped(ValueIn(ikm_buckets, IkmHash), key, elm)
       /\ FiledIn(ikm_buckets', IkmHash) = FiledIn(ikm_buckets, IkmHash) \cup {key}
       /\ Added(ikm_buckets', ikm_buckets, IkmHash, key)
  BY <1>1, <1>8, <1>9, <1>10, StorePuts
<1>12. key \notin FiledIn(ikm_buckets, IkmHash)
  BY <1>3 DEF FiledIn, b, h
<1>13. First!Put(key, elm)
  BY <1>3, <1>11 DEF First!Put, Swapped
<1>14. IkmOnce'
  <2>1. ASSUME NEW k \in Keys PROVE Count(ikm_buckets'[IkmHash[k]], k) <= 1
    <3>1. /\ Count(ikm_buckets[IkmHash[k]], k) <= 1
          /\ Count(ikm_buckets[IkmHash[k]], k) \in Nat
      BY <1>1, <1>10, CountIs DEF IkmOnce
    <3>2. k = key => Count(ikm_buckets[IkmHash[k]], k) = 0
      BY <1>4 DEF b, h
    <3>3. Count(ikm_buckets'[IkmHash[k]], k) =
            Count(ikm_buckets[IkmHash[k]], k) + (IF k = key THEN 1 ELSE 0)
      BY <1>11 DEF Added
    <3> QED BY <3>1, <3>2, <3>3
  <2>2. IkmHash' = IkmHash
    BY DEF IkmHash, int_hash_fn
  <2> QED BY <2>1, <2>2 DEF IkmOnce
<1> QED BY <1>10, <1>11, <1>12, <1>13, <1>14 DEF First!NextFirst, IkmFiled, V

LEMMA IkmRemStep ==
  ASSUME IkmFiled, IkmOnce, NEW key \in Keys, IntKeyMap_rem(key)
  PROVE  IkmFiled' /\ IkmOnce' /\ First!Remove(key)
<1> DEFINE V == Values \cup {NoElm}
<1>1. /\ INT_KEY_MAP_BUCKETS \in Nat /\ IkmHash \in [Keys -> 0 .. INT_KEY_MAP_BUCKETS - 1]
      /\ IkmHash[key] = int_hash_fn(key)
  BY IkmHashIs
<1> HIDE DEF V
<1>2. Filed(ikm_buckets, INT_KEY_MAP_BUCKETS, IkmHash, V)
  BY DEF IkmFiled, V
<1>3. /\ ikm_buckets' = Swapped(ikm_buckets, IkmHash[key],
                                Without(ikm_buckets[IkmHash[key]], key))
      /\ ikm_answer' = <<"rem", Elm(ikm_buckets[IkmHash[key]], key)>>
  BY <1>1, <1>2 DEF IntKeyMap_rem, Swapped, Filed
<1>4. /\ Filed(ikm_buckets', INT_KEY_MAP_BUCKETS, IkmHash, V)
      /\ Gone(ikm_buckets', ikm_buckets, IkmHash, key)
      /\ NoMore(ikm_buckets', ikm_buckets, IkmHash)
  <2>1. Count(ikm_buckets[IkmHash[key]], key) <= 1
    BY DEF IkmOnce
  <2> QED BY <1>1, <1>2, <1>3, <2>1, StoreRemoves
<1>5. ValueIn(ikm_buckets, IkmHash)[key] = Elm(ikm_buckets[IkmHash[key]], key)
  BY StoreIs
<1>6. ASSUME NEW k \in Keys PROVE Count(ikm_buckets'[IkmHash[k]], k) <= 1
  <2>1. /\ Count(ikm_buckets[IkmHash[k]], k) <= 1
        /\ Count(ikm_buckets'[IkmHash[k]], k) <= Count(ikm_buckets[IkmHash[k]], k)
    BY <1>4 DEF IkmOnce, NoMore
  <2>2. Count(ikm_buckets[IkmHash[k]], k) \in Nat
    BY <1>1, <1>2, CountIs
  <2>3. Count(ikm_buckets'[IkmHash[k]], k) \in Nat
    BY <1>1, <1>4, CountIs
  <2> QED BY <2>1, <2>2, <2>3
<1>7. IkmHash' = IkmHash
  BY DEF IkmHash, int_hash_fn
<1>8. IkmOnce'
  BY <1>6, <1>7 DEF IkmOnce
<1> QED BY <1>3, <1>4, <1>5, <1>7, <1>8 DEF First!Remove, Gone, IkmFiled, Swapped, V

LEMMA IkmLookStep ==
  ASSUME IkmFiled, IkmOnce, UNCHANGED ikm_buckets,
         \/ \E key \in Keys : IntKeyMap_get(key) \/ IntKeyMap_contains(key)
         \/ IntKeyMap_size \/ IntKeyMap_keys
  PROVE  First!Other \/ \E key \in Keys : DeniesNull(key)
<1> DEFINE filed == FiledIn(ikm_buckets, IkmHash)
           es == EntriesOf(ikm_buckets, INT_KEY_MAP_BUCKETS)
<1>1. /\ INT_KEY_MAP_BUCKETS \in Nat /\ IkmHash \in [Keys -> 0 .. INT_KEY_MAP_BUCKETS - 1]
      /\ \A k \in Keys : IkmHash[k] = int_hash_fn(k)
  BY IkmHashIs
<1>2. Filed(ikm_buckets, INT_KEY_MAP_BUCKETS, IkmHash, Values \cup {NoElm})
  BY DEF IkmFiled
<1>3. SameStore(ikm_buckets, IkmHash)
  BY DEF SameStore, ValueIn, FiledIn
<1>4. ASSUME NEW key \in Keys, IntKeyMap_get(key) PROVE First!Get(key)
  <2>1. ikm_answer' = <<"get", ValueIn(ikm_buckets, IkmHash)[key]>>
    BY <1>1, <1>4, StoreIs DEF IntKeyMap_get
  <2> QED BY <1>3, <2>1 DEF First!Get, SameStore
<1>5. ASSUME NEW key \in Keys, IntKeyMap_contains(key)
      PROVE  First!Contains(key) \/ DeniesNull(key)
  <2> DEFINE e == Elm(ikm_buckets[IkmHash[key]], key)
  <2>1. ikm_answer' = <<"contains", e # NoElm>> /\ ValueIn(ikm_buckets, IkmHash)[key] = e
    BY <1>1, <1>5, StoreIs DEF IntKeyMap_contains
  <2>2. e # NoElm => key \in filed
    BY ElmNone DEF FiledIn
  <2> HIDE DEF e
  <2>3. CASE key \in filed /\ e = NoElm
    <3>1. (e # NoElm) = FALSE
      BY <2>3
    <3> QED BY <1>3, <2>1, <2>3, <3>1 DEF DeniesNull
  <2>4. CASE ~(key \in filed /\ e = NoElm)
    <3>1. (e # NoElm) = (key \in filed)
      BY <2>2, <2>4
    <3> QED BY <1>3, <2>1, <3>1 DEF First!Contains, SameStore
  <2> QED BY <2>3, <2>4
<1>6. Tells(es, filed) /\ Len(es) = Cardinality(filed)
  BY <1>1, <1>2, StoreTells DEF IkmOnce
<1>7. CASE IntKeyMap_size
  BY <1>3, <1>6, <1>7, SameCardinality
     DEF IntKeyMap_size, SameStore, First!Size, First!Other
<1>8. CASE IntKeyMap_keys
  <2>1. ikm_answer'[1] = "keys" /\ ikm_answer'[2] = KeysOf(es)
    BY <1>8 DEF IntKeyMap_keys
  <2>2. First!ListsKeys(KeysOf(es))
    BY <1>6, SameCardinality DEF Tells, First!ListsKeys
  <2> QED BY <1>3, <2>1, <2>2 DEF SameStore, First!GetKeys, First!Other
<1> QED BY <1>4, <1>5, <1>7, <1>8 DEF First!Other

LEMMA IkmNew ==
  ASSUME IntKeyMap_New
  PROVE  IkmFiled /\ IkmOnce /\ First!Init
<1>1. ikm_buckets = NoEntries(INT_KEY_MAP_BUCKETS)
  BY DEF IntKeyMap_New, NoEntries
<1>2. INT_KEY_MAP_BUCKETS \in Nat /\ IkmHash \in [Keys -> 0 .. INT_KEY_MAP_BUCKETS - 1]
  BY IkmHashIs
<1>3. /\ Filed(ikm_buckets, INT_KEY_MAP_BUCKETS, IkmHash, Values \cup {NoElm})
      /\ ValueIn(ikm_buckets, IkmHash) = Unset /\ FiledIn(ikm_buckets, IkmHash) = {}
      /\ \A k \in Keys : Count(ikm_buckets[IkmHash[k]], k) = 0
  BY <1>1, <1>2, StoreEmpty
<1>4. IkmOnce
  BY <1>3 DEF IkmOnce
<1> QED BY <1>3, <1>4 DEF IntKeyMap_New, First!Init, Unset, IkmFiled

LEMMA IkmRenewed ==
  ASSUME IntKeyMap_Destroy
  PROVE  IkmFiled' /\ IkmOnce' /\ First!Renew
<1>1. ikm_buckets' = NoEntries(INT_KEY_MAP_BUCKETS) /\ ikm_answer' = ikm_answer
  BY DEF IntKeyMap_Destroy, NoEntries
<1>2. INT_KEY_MAP_BUCKETS \in Nat /\ IkmHash \in [Keys -> 0 .. INT_KEY_MAP_BUCKETS - 1]
  BY IkmHashIs
<1>3. /\ Filed(ikm_buckets', INT_KEY_MAP_BUCKETS, IkmHash, Values \cup {NoElm})
      /\ ValueIn(ikm_buckets', IkmHash) = Unset /\ FiledIn(ikm_buckets', IkmHash) = {}
      /\ \A k \in Keys : Count(ikm_buckets'[IkmHash[k]], k) = 0
  BY <1>1, <1>2, StoreEmpty
<1> QED BY <1>1, <1>3 DEF First!Renew, Unset, IkmFiled, IkmOnce

IkmDoes == First!NextFirst \/ \E key \in Keys : DeniesNull(key)

LEMMA IkmStep ==
  IkmFiled /\ IkmOnce /\ [IkmNext]_ikmVars
    => IkmFiled' /\ IkmOnce' /\ [IkmDoes]_(First!storeVars)
<1> SUFFICES ASSUME IkmFiled, IkmOnce, [IkmNext]_ikmVars
             PROVE  IkmFiled' /\ IkmOnce' /\ [IkmDoes]_(First!storeVars)
  OBVIOUS
<1> DEFINE Goal == IkmFiled' /\ IkmOnce' /\ IkmDoes
<1>1. ASSUME NEW key \in Keys, NEW elm \in Values \cup {NoElm}, IntKeyMap_put(key, elm)
      PROVE  Goal
  BY <1>1, IkmPutStep DEF IkmDoes
<1>2. ASSUME NEW key \in Keys, IntKeyMap_rem(key) PROVE Goal
  <2>1. IkmFiled' /\ IkmOnce' /\ First!Remove(key)
    BY <1>2, IkmRemStep
  <2> QED BY <2>1 DEF IkmDoes, First!NextFirst, First!Other
<1>3. ASSUME UNCHANGED ikm_buckets PROVE IkmFiled' /\ IkmOnce'
  BY <1>3 DEF IkmFiled, IkmOnce
<1>4. ASSUME NEW key \in Keys, IntKeyMap_get(key) \/ IntKeyMap_contains(key)
      PROVE  Goal
  <2>1. UNCHANGED ikm_buckets
    BY <1>4 DEF IntKeyMap_get, IntKeyMap_contains
  <2>2. First!Other \/ \E k \in Keys : DeniesNull(k)
    BY <1>4, <2>1, IkmLookStep
  <2> QED BY <1>3, <2>1, <2>2 DEF IkmDoes, First!NextFirst
<1>5. ASSUME IntKeyMap_size \/ IntKeyMap_keys PROVE Goal
  <2>1. UNCHANGED ikm_buckets
    BY <1>5 DEF IntKeyMap_size, IntKeyMap_keys
  <2>2. First!Other \/ \E k \in Keys : DeniesNull(k)
    BY <1>5, <2>1, IkmLookStep
  <2> QED BY <1>3, <2>1, <2>2 DEF IkmDoes, First!NextFirst
<1>6. ASSUME IntKeyMap_Destroy PROVE Goal
  BY <1>6, IkmRenewed DEF IkmDoes, First!NextFirst, First!Other
<1>7. CASE UNCHANGED ikmVars
  <2>1. ikm_buckets' = ikm_buckets /\ ikm_answer' = ikm_answer
    BY <1>7 DEF ikmVars
  <2>2. UNCHANGED First!storeVars
    BY <2>1 DEF First!storeVars, ValueIn, FiledIn
  <2> QED BY <1>3, <2>1, <2>2
<1>8. CASE IkmNext
  BY <1>1, <1>2, <1>4, <1>5, <1>6, <1>8 DEF IkmNext
<1> QED BY <1>7, <1>8

(* Whatever keys share a bucket, a hash map does what map.h says, with the *)
(* value put last, except for what it says of keys put twice, which are    *)
(* counted twice and remain after one rem; an int key map does what        *)
(* intkeymap.h says, with the value put first, except that it denies to    *)
(* contain a key with the null pointer (hashmap.c, intkeymap.c).           *)
THEOREM MapsAreStores == MapSpec /\ IkmSpec => MapsImplementStores
<1>1. HashMap_new => MapFiled /\ Latest!Init
  BY MapNew
<1>2. IntKeyMap_New => IkmFiled /\ IkmOnce /\ First!Init
  BY IkmNew
<1>3. MapSpec => Latest!Init /\ [][MapDoes]_(Latest!storeVars)
  BY <1>1, MapStep, PTL DEF MapSpec
<1>4. IkmSpec => First!Init /\ [][IkmDoes]_(First!storeVars)
  BY <1>2, IkmStep, PTL DEF IkmSpec
<1> QED BY <1>3, <1>4 DEF MapsImplementStores, MapDoes, IkmDoes
-----------------------------------------------------------------------------
(* The whole blocks of a message, what is left of it, and whether there is *)
(* room for the length behind that.                                        *)
Whole(m) == Len(m) \div BlockSize
Rest(m) == Len(m) % BlockSize
Room(m) == BlockSize - (Rest(m) + 1) >= LengthField

(* Blocks that spell a message.                                            *)
IsZero(block, from, to) == \A j \in from .. to : block[j] = 0
Spells(h, m) ==
  /\ DOMAIN h = 1 .. Len(h) /\ Len(h) = Whole(m) + (IF Room(m) THEN 1 ELSE 2)
  /\ \A b \in 1 .. Len(h) : Len(h[b]) = BlockSize
  /\ \A b \in 1 .. Whole(m), j \in 1 .. BlockSize : h[b][j] = m[(b - 1) * BlockSize + j]
  /\ \A j \in 1 .. Rest(m) : h[Whole(m) + 1][j] = m[Whole(m) * BlockSize + j]
  /\ h[Whole(m) + 1][Rest(m) + 1] = Marker
  /\ IsZero(h[Whole(m) + 1], Rest(m) + 2,
            IF Room(m) THEN BlockSize - LengthBytes ELSE BlockSize)
  /\ ~Room(m) => IsZero(h[Whole(m) + 2], 1, BlockSize - LengthBytes)
-----------------------------------------------------------------------------
LEMMA Sizes == /\ BlockSize \in Nat \ {0} /\ LengthBytes \in Nat \ {0}
               /\ LengthField \in Nat /\ LengthBytes <= LengthField
               /\ LengthField < BlockSize
BY BlockAssumption

(* Division with remainder.                                                *)
LEMMA Divided ==
  ASSUME NEW n \in Nat
  PROVE  /\ n \div BlockSize \in Nat /\ n % BlockSize \in 0 .. BlockSize - 1
         /\ n = (n \div BlockSize) * BlockSize + (n % BlockSize)
<1>1. BlockSize \in Nat /\ BlockSize > 0
  BY Sizes
<1> QED BY <1>1

LEMMA Lengths ==
  ASSUME NEW m \in Seq(Octets)
  PROVE  /\ Len(m) \in Nat /\ Whole(m) \in Nat /\ Rest(m) \in 0 .. BlockSize - 1
         /\ Whole(m) * BlockSize \in Nat
         /\ Len(m) = Whole(m) * BlockSize + Rest(m)
<1>1. Len(m) \in Nat
  OBVIOUS
<1>2. Whole(m) = Len(m) \div BlockSize /\ Rest(m) = Len(m) % BlockSize
  BY DEF Whole, Rest
<1>3. /\ Whole(m) \in Nat /\ Rest(m) \in 0 .. BlockSize - 1
      /\ Len(m) = Whole(m) * BlockSize + Rest(m)
  BY <1>1, <1>2, Divided
<1>4. Whole(m) * BlockSize \in Nat
  BY <1>3, Sizes
<1> QED BY <1>1, <1>3, <1>4

(* The place of an element in its block.                                   *)
LEMMA InsideWhole ==
  ASSUME NEW b \in Nat, NEW n \in Nat, b \in 1 .. n
  PROVE  /\ (b - 1) * BlockSize \in Nat
         /\ (b - 1) * BlockSize + BlockSize = b * BlockSize
         /\ b * BlockSize <= n * BlockSize
<1>1. BlockSize \in Nat
  BY Sizes
<1>2. n - b \in Nat
  OBVIOUS
<1>3. (n - b) * BlockSize \in Nat
  BY <1>1, <1>2
<1>4. n * BlockSize = (n - b) * BlockSize + b * BlockSize
  BY <1>1
<1>5. b * BlockSize \in Nat /\ (b - 1) * BlockSize \in Nat /\ n * BlockSize \in Nat
  BY <1>1
<1> QED BY <1>1, <1>3, <1>4, <1>5

(* A sequence behind another.                                              *)
LEMMA Behind ==
  ASSUME NEW T, NEW a \in Seq(T), NEW b \in Seq(T)
  PROVE  /\ a \o b \in Seq(T) /\ Len(a \o b) = Len(a) + Len(b)
         /\ \A i \in 1 .. Len(a) : (a \o b)[i] = a[i]
         /\ \A i \in 1 .. Len(b) : (a \o b)[Len(a) + i] = b[i]
OBVIOUS

LEMMA ZeroBytes ==
  ASSUME NEW T, 0 \in T, NEW n \in Nat
  PROVE  /\ Zeros(n) \in Seq(T) /\ Len(Zeros(n)) = n
         /\ \A i \in 1 .. n : Zeros(n)[i] = 0
BY DEF Zeros

LEMMA LengthByte ==
  ASSUME NEW n
  PROVE  \E T : /\ Octets \subseteq T /\ LengthOf(n) \in Seq(T)
                /\ Len(LengthOf(n)) = LengthBytes
<1> DEFINE T == Octets \cup {LengthOf(n)[i] : i \in 1 .. LengthBytes}
<1>1. LengthOf(n) = [i \in 1 .. LengthBytes |-> LengthOf(n)[i]]
  BY DEF LengthOf
<1>2. LengthBytes \in Nat
  BY Sizes
<1>3. LengthOf(n) \in [1 .. LengthBytes -> T]
  BY <1>1
<1> HIDE DEF T
<1>4. LengthOf(n) \in Seq(T) /\ Len(LengthOf(n)) = LengthBytes
  BY <1>2, <1>3
<1> QED BY <1>4 DEF T

(* The last block, or the one before, up to the marker.                    *)
LEMMA MarkedRest ==
  ASSUME NEW m \in Seq(Octets), NEW r,
         r = SubSeq(m, Whole(m) * BlockSize + 1, Len(m)) \o <<Marker>>
  PROVE  /\ r \in Seq(Octets) /\ Len(r) = Rest(m) + 1
         /\ \A j \in 1 .. Rest(m) : r[j] = m[Whole(m) * BlockSize + j]
         /\ r[Rest(m) + 1] = Marker
<1> DEFINE k == Whole(m) * BlockSize
           n == Rest(m)
           s == SubSeq(m, k + 1, Len(m))
<1>1. k \in Nat /\ n \in Nat /\ Len(m) = k + n
  BY Lengths, Sizes
<1>2. s = SubSeq(m, k + 1, k + n)
  BY <1>1
<1> HIDE DEF k, n
<1>3. s \in Seq(Octets) /\ Len(s) = n /\ \A j \in 1 .. n : s[j] = m[k + j]
  <2>1. k + n <= Len(m)
    BY <1>1
  <2>2. /\ SubSeq(m, k + 1, k + n) \in Seq(Octets)
        /\ Len(SubSeq(m, k + 1, k + n)) = n
        /\ \A j \in 1 .. n : SubSeq(m, k + 1, k + n)[j] = m[k + j]
    BY <1>1, <2>1, Window
  <2> QED BY <1>2, <2>2
<1>4. <<Marker>> \in Seq(Octets) /\ Len(<<Marker>>) = 1 /\ <<Marker>>[1] = Marker
  BY DEF Marker, Octets
<1>5. r = s \o <<Marker>>
  BY DEF k
<1> HIDE DEF s
<1>6. /\ r \in Seq(Octets) /\ Len(r) = n + 1
      /\ \A i \in 1 .. n : r[i] = s[i]
      /\ \A i \in 1 .. 1 : r[n + i] = <<Marker>>[i]
  <2> DEFINE t == <<Marker>>
  <2>1. t \in Seq(Octets) /\ Len(t) = 1 /\ r = s \o t
    BY <1>4, <1>5
  <2> HIDE DEF t
  <2>2. /\ r \in Seq(Octets) /\ Len(r) = n + 1
        /\ \A i \in 1 .. n : r[i] = s[i]
        /\ \A i \in 1 .. 1 : r[n + i] = t[i]
    <3>1. /\ s \o t \in Seq(Octets) /\ Len(s \o t) = Len(s) + Len(t)
          /\ \A i \in 1 .. Len(s) : (s \o t)[i] = s[i]
          /\ \A i \in 1 .. Len(t) : (s \o t)[Len(s) + i] = t[i]
      <4>1. s \in Seq(Octets) /\ t \in Seq(Octets)
        BY <1>3, <2>1
      <4> QED BY <4>1, Behind
    <3> QED BY <1>3, <2>1, <3>1
  <2> QED BY <2>2 DEF t
<1>7. r[n + 1] = Marker
  BY <1>1, <1>4, <1>6
<1> QED BY <1>3, <1>6, <1>7 DEF k, n

-----------------------------------------------------------------------------
(* A block that ends in zeros and the length.                              *)
LEMMA LastBlock ==
  ASSUME NEW a \in Seq(Octets), NEW n, NEW block, Len(a) <= BlockSize - LengthBytes,
         block = a \o Zeros(BlockSize - LengthBytes - Len(a)) \o LengthOf(n)
  PROVE  /\ Len(block) = BlockSize
         /\ \A i \in 1 .. Len(a) : block[i] = a[i]
         /\ IsZero(block, Len(a) + 1, BlockSize - LengthBytes)
<1> DEFINE k == BlockSize - LengthBytes - Len(a)
           z == Zeros(k)
           e == LengthOf(n)
<1>1. PICK T : Octets \subseteq T /\ e \in Seq(T) /\ Len(e) = LengthBytes
  BY LengthByte
<1>2. /\ k \in Nat /\ Len(a) \in Nat /\ BlockSize \in Nat /\ LengthBytes \in Nat
      /\ Len(a) + k = BlockSize - LengthBytes
  BY Sizes
<1>3. 0 \in T /\ a \in Seq(T)
  <2>1. a \in [1 .. Len(a) -> Octets] /\ Len(a) \in Nat
    OBVIOUS
  <2>2. a \in [1 .. Len(a) -> T]
    BY <1>1, <2>1
  <2>3. 0 \in Octets
    BY DEF Octets
  <2> QED BY <1>1, <2>1, <2>2, <2>3
<1>4. z \in Seq(T) /\ Len(z) = k /\ \A i \in 1 .. k : z[i] = 0
  BY <1>2, <1>3, ZeroBytes
<1>5. block = (a \o z) \o e
  OBVIOUS
<1> HIDE DEF z, e, k
<1>6. /\ a \o z \in Seq(T) /\ Len(a \o z) = Len(a) + Len(z)
      /\ \A i \in 1 .. Len(a) : (a \o z)[i] = a[i]
      /\ \A i \in 1 .. Len(z) : (a \o z)[Len(a) + i] = z[i]
  <2>1. a \in Seq(T) /\ z \in Seq(T)
    BY <1>3, <1>4
  <2> QED BY <2>1, Behind
<1> DEFINE y == a \o z
<1>7. y \in Seq(T) /\ Len(y) = BlockSize - LengthBytes
  BY <1>2, <1>4, <1>6
<1> HIDE DEF y
<1>8. /\ Len(y \o e) = Len(y) + Len(e)
      /\ \A i \in 1 .. Len(y) : (y \o e)[i] = y[i]
  BY <1>1, <1>7, Behind
<1>9. Len(block) = BlockSize /\ \A i \in 1 .. BlockSize - LengthBytes : block[i] = y[i]
  <2>1. block = y \o e
    BY <1>5 DEF y
  <2>2. Len(y) = BlockSize - LengthBytes /\ Len(e) = LengthBytes
    BY <1>1, <1>7
  <2>3. Len(block) = BlockSize
    <3>1. Len(block) = Len(y) + Len(e)
      BY <1>8, <2>1
    <3>2. Len(block) = (BlockSize - LengthBytes) + LengthBytes
      BY <2>2, <3>1
    <3>3. BlockSize \in Int /\ LengthBytes \in Int
      BY <1>2
    <3> QED BY <3>2, <3>3
  <2>4. \A i \in 1 .. Len(y) : block[i] = y[i]
    BY <1>8, <2>1
  <2> QED BY <2>2, <2>3, <2>4
<1>10. \A i \in 1 .. Len(a) : block[i] = a[i]
  BY <1>2, <1>6, <1>9 DEF y
<1>11. ASSUME NEW j \in Len(a) + 1 .. BlockSize - LengthBytes PROVE block[j] = 0
  <2>1. j - Len(a) \in 1 .. k /\ j \in 1 .. BlockSize - LengthBytes
    BY <1>2
  <2>2. y[Len(a) + (j - Len(a))] = z[j - Len(a)]
    BY <1>4, <1>6, <2>1 DEF y
  <2> QED BY <1>2, <1>4, <1>9, <2>1, <2>2
<1> QED BY <1>9, <1>10, <1>11 DEF IsZero

(* A block that ends in zeros.                                             *)
LEMMA ZeroedBlock ==
  ASSUME NEW a \in Seq(Octets), NEW block, Len(a) <= BlockSize,
         block = a \o Zeros(BlockSize - Len(a))
  PROVE  /\ Len(block) = BlockSize
         /\ \A i \in 1 .. Len(a) : block[i] = a[i]
         /\ IsZero(block, Len(a) + 1, BlockSize)
<1> DEFINE k == BlockSize - Len(a)
           z == Zeros(k)
<1>1. k \in Nat /\ Len(a) \in Nat /\ Len(a) + k = BlockSize /\ 0 \in Octets
  BY Sizes DEF Octets
<1>2. z \in Seq(Octets) /\ Len(z) = k /\ \A i \in 1 .. k : z[i] = 0
  BY <1>1, ZeroBytes
<1> HIDE DEF z, k
<1>3. /\ Len(a \o z) = Len(a) + Len(z)
      /\ \A i \in 1 .. Len(a) : (a \o z)[i] = a[i]
      /\ \A i \in 1 .. Len(z) : (a \o z)[Len(a) + i] = z[i]
  <2>1. z \in Seq(Octets)
    BY <1>2
  <2> QED BY <2>1, Behind
<1>4. block = a \o z
  BY DEF z, k
<1>5. ASSUME NEW j \in Len(a) + 1 .. BlockSize PROVE block[j] = 0
  <2>1. j - Len(a) \in 1 .. k /\ Len(a) + (j - Len(a)) = j
    BY <1>1
  <2> QED BY <1>2, <1>3, <1>4, <2>1
<1> QED BY <1>1, <1>2, <1>3, <1>4, <1>5 DEF IsZero

(* What sha512_hash compresses spells the message.                         *)
LEMMA HashSpells ==
  ASSUME NEW m \in Seq(Octets)
  PROVE  Spells(Sha512Hash(m), m)
<1> DEFINE full == Whole(m)
           r == SubSeq(m, full * BlockSize + 1, Len(m)) \o <<Marker>>
           ending == LengthOf(Len(m))
           whole == [b \in 1 .. full |-> SubSeq(m, (b - 1) * BlockSize + 1, b * BlockSize)]
           closing == r \o Zeros(BlockSize - LengthBytes - Len(r)) \o ending
           padded == r \o Zeros(BlockSize - Len(r))
           length == Zeros(BlockSize - LengthBytes) \o ending
           h == Sha512Hash(m)
<1>1. /\ BlockSize \in Nat \ {0} /\ full \in Nat /\ Len(m) \in Nat
      /\ Rest(m) \in 0 .. BlockSize - 1 /\ full * BlockSize \in Nat
      /\ Len(m) = full * BlockSize + Rest(m)
      /\ LengthBytes \in Nat /\ LengthField \in Nat /\ LengthBytes <= LengthField
      /\ LengthField < BlockSize
  BY Lengths, Sizes
<1>2. /\ r \in Seq(Octets) /\ Len(r) = Rest(m) + 1
      /\ \A j \in 1 .. Rest(m) : r[j] = m[full * BlockSize + j]
      /\ r[Rest(m) + 1] = Marker
  BY MarkedRest
<1>3. Room(m) <=> BlockSize - Len(r) >= LengthField
  BY <1>2 DEF Room
<1>4. h = IF Room(m) THEN Append(whole, closing) ELSE whole \o <<padded, length>>
  BY <1>3 DEF Sha512Hash, Whole
<1>5. ASSUME NEW b \in 1 .. full
      PROVE  /\ Len(whole[b]) = BlockSize
             /\ \A j \in 1 .. BlockSize : whole[b][j] = m[(b - 1) * BlockSize + j]
  <2> DEFINE k == (b - 1) * BlockSize
  <2>1. /\ k \in Nat /\ k + BlockSize = b * BlockSize
        /\ b * BlockSize <= full * BlockSize
    BY <1>1, InsideWhole
  <2> HIDE DEF k
  <2>2. k + BlockSize <= Len(m)
    BY <1>1, <2>1
  <2>3. /\ SubSeq(m, k + 1, k + BlockSize) \in Seq(Octets)
        /\ Len(SubSeq(m, k + 1, k + BlockSize)) = BlockSize
        /\ \A j \in 1 .. BlockSize : SubSeq(m, k + 1, k + BlockSize)[j] = m[k + j]
    <3>1. BlockSize \in Nat /\ k \in Nat
      BY <1>1, <2>1
    <3> QED BY <2>2, <3>1, Window
  <2>4. whole[b] = SubSeq(m, k + 1, k + BlockSize)
    BY <2>1 DEF k
  <2> HIDE DEF whole
  <2> QED BY <2>3, <2>4 DEF k
<1> DEFINE W == {whole[b] : b \in 1 .. full} \cup {closing, padded, length}
<1>6. Len(whole) = full /\ whole \in Seq(W)
  <2>1. DOMAIN whole = 1 .. full
    OBVIOUS
  <2>2. whole = [b \in 1 .. full |-> whole[b]]
    OBVIOUS
  <2>3. \A b \in 1 .. full : whole[b] \in W
    OBVIOUS
  <2> HIDE DEF whole, W
  <2>4. whole \in [1 .. full -> W]
    BY <2>2, <2>3
  <2>5. full \in Nat
    BY <1>1
  <2> HIDE DEF full
  <2>6. whole \in Seq(W)
    BY <2>4, <2>5
  <2> QED BY <2>1, <2>5, <2>6
<1>7. closing \in W /\ padded \in W /\ length \in W
  OBVIOUS
<1> HIDE DEF W
<1> HIDE DEF whole, full, r, h, ending
<1>8. CASE Room(m)
  <2>1. Len(r) <= BlockSize - LengthBytes
    BY <1>1, <1>2, <1>3, <1>8
  <2>2. /\ Len(closing) = BlockSize
        /\ \A i \in 1 .. Len(r) : closing[i] = r[i]
        /\ IsZero(closing, Len(r) + 1, BlockSize - LengthBytes)
    BY <1>2, <2>1, LastBlock DEF ending
  <2>3. Append(whole, closing) = h
    BY <1>4, <1>8
  <2> HIDE DEF closing
  <2>5. /\ h \in Seq(W) /\ Len(h) = full + 1 /\ h[full + 1] = closing
        /\ \A b \in 1 .. full : h[b] = whole[b]
    <3>1. whole \in Seq(W) /\ closing \in W /\ Len(whole) = full
      BY <1>6, <1>7
    <3>2. /\ Append(whole, closing) \in Seq(W)
          /\ Len(Append(whole, closing)) = Len(whole) + 1
          /\ \A i \in 1 .. Len(whole) : Append(whole, closing)[i] = whole[i]
          /\ Append(whole, closing)[Len(whole) + 1] = closing
      BY <3>1, AppendProperties
    <3> QED BY <2>3, <3>1, <3>2
  <2>6. \A b \in 1 .. Len(h) : Len(h[b]) = BlockSize
    <3> SUFFICES ASSUME NEW b \in 1 .. full + 1 PROVE Len(h[b]) = BlockSize
      BY <2>5
    <3>1. b \in 1 .. full \/ b = full + 1
      BY <1>1
    <3> QED BY <1>5, <2>2, <2>5, <3>1
  <2>7. \A b \in 1 .. full, j \in 1 .. BlockSize : h[b][j] = m[(b - 1) * BlockSize + j]
    BY <1>5, <2>5
  <2>8. /\ \A j \in 1 .. Rest(m) : closing[j] = m[full * BlockSize + j]
        /\ closing[Rest(m) + 1] = Marker
    BY <1>1, <1>2, <2>2
  <2>9. IsZero(closing, Rest(m) + 2, BlockSize - LengthBytes)
    BY <1>1, <1>2, <2>2
  <2>10. DOMAIN h = 1 .. Len(h)
    BY <2>5, LenProperties
  <2> QED BY <1>8, <2>5, <2>6, <2>7, <2>8, <2>9, <2>10 DEF Spells, full, h
<1>9. CASE ~Room(m)
  <2>1. Len(r) <= BlockSize
    BY <1>1, <1>2
  <2>2. /\ Len(padded) = BlockSize
        /\ \A i \in 1 .. Len(r) : padded[i] = r[i]
        /\ IsZero(padded, Len(r) + 1, BlockSize)
    BY <1>2, <2>1, ZeroedBlock
  <2>3. /\ Len(length) = BlockSize
        /\ IsZero(length, 1, BlockSize - LengthBytes)
    <3>2. 0 \in Octets /\ BlockSize - LengthBytes \in Nat
      BY <1>1 DEF Octets
    <3>3. /\ Zeros(BlockSize - LengthBytes) \in Seq(Octets)
          /\ Len(Zeros(BlockSize - LengthBytes)) = BlockSize - LengthBytes
          /\ \A i \in 1 .. BlockSize - LengthBytes : Zeros(BlockSize - LengthBytes)[i] = 0
      BY <3>2, ZeroBytes
    <3>4. PICK T : Octets \subseteq T /\ ending \in Seq(T) /\ Len(ending) = LengthBytes
      BY LengthByte DEF ending
    <3> DEFINE z == Zeros(BlockSize - LengthBytes)
    <3>5. z \in Seq(T)
      <4> HIDE DEF z
      <4>1. z \in Seq(Octets)
        BY <3>3 DEF z
      <4>2. z \in [1 .. Len(z) -> Octets] /\ Len(z) \in Nat
        BY <4>1
      <4>3. z \in [1 .. Len(z) -> T]
        BY <3>4, <4>2
      <4> QED BY <4>2, <4>3
    <3>6. Len(z) = BlockSize - LengthBytes /\ \A i \in 1 .. Len(z) : z[i] = 0
      BY <3>3
    <3> HIDE DEF z
    <3>7. /\ Len(z \o ending) = Len(z) + Len(ending)
          /\ \A i \in 1 .. Len(z) : (z \o ending)[i] = z[i]
      BY <3>4, <3>5, Behind
    <3>8. length = z \o ending
      BY DEF z
    <3> QED BY <1>1, <3>4, <3>6, <3>7, <3>8 DEF IsZero
  <2>4. h = whole \o <<padded, length>>
    BY <1>4, <1>9
  <2> HIDE DEF padded, length
  <2> DEFINE t == <<padded, length>>
  <2>7. t \in Seq(W) /\ Len(t) = 2 /\ t[1] = padded /\ t[2] = length
    BY <1>7
  <2>8. h = whole \o t
    BY <2>4
  <2> HIDE DEF t
  <2>9. /\ whole \o t \in Seq(W)
        /\ Len(whole \o t) = Len(whole) + Len(t)
        /\ \A i \in 1 .. Len(whole) : (whole \o t)[i] = whole[i]
        /\ \A i \in 1 .. Len(t) : (whole \o t)[Len(whole) + i] = t[i]
    <3>1. whole \in Seq(W) /\ t \in Seq(W)
      BY <1>6, <2>7
    <3> QED BY <3>1, Behind
  <2>10. /\ h \in Seq(W) /\ Len(h) = full + 2 /\ h[full + 1] = padded /\ h[full + 2] = length
         /\ \A b \in 1 .. full : h[b] = whole[b]
    BY <1>1, <1>6, <2>7, <2>8, <2>9
  <2>11. \A b \in 1 .. Len(h) : Len(h[b]) = BlockSize
    <3> SUFFICES ASSUME NEW b \in 1 .. full + 2 PROVE Len(h[b]) = BlockSize
      BY <2>10
    <3>1. b \in 1 .. full \/ b = full + 1 \/ b = full + 2
      BY <1>1
    <3> QED BY <1>5, <2>2, <2>3, <2>10, <3>1
  <2>12. \A b \in 1 .. full, j \in 1 .. BlockSize : h[b][j] = m[(b - 1) * BlockSize + j]
    BY <1>5, <2>10
  <2>13. /\ \A j \in 1 .. Rest(m) : padded[j] = m[full * BlockSize + j]
         /\ padded[Rest(m) + 1] = Marker
    BY <1>1, <1>2, <2>2
  <2>14. IsZero(padded, Rest(m) + 2, BlockSize)
    BY <1>1, <1>2, <2>2
  <2>15. DOMAIN h = 1 .. Len(h)
    BY <2>10, LenProperties
  <2> QED BY <1>9, <2>3, <2>10, <2>11, <2>12, <2>13, <2>14, <2>15 DEF Spells, full, h
<1> QED BY <1>8, <1>9 DEF h
-----------------------------------------------------------------------------
(* The blocks tell how many bytes the message has.                         *)
LEMMA MarkerTells ==
  ASSUME NEW m \in Seq(Octets), NEW n \in Seq(Octets), NEW h, Spells(h, m), Spells(h, n)
  PROVE  /\ ~(Room(m) /\ ~Room(n))
         /\ Whole(m) = Whole(n) => ~(Rest(m) < Rest(n) /\ (Room(m) <=> Room(n)))
<1>1. /\ Whole(m) \in Nat /\ Rest(m) \in 0 .. BlockSize - 1
      /\ Whole(n) \in Nat /\ Rest(n) \in 0 .. BlockSize - 1
  BY Lengths
<1>2. /\ BlockSize \in Nat /\ LengthBytes \in Nat /\ LengthField \in Nat
      /\ LengthBytes <= LengthField
  BY Sizes
<1>3. Marker # 0
  BY DEF Marker
<1>4. ASSUME Room(m), ~Room(n) PROVE FALSE
  <2>1. Len(h) = Whole(m) + 1 /\ Len(h) = Whole(n) + 2
    BY <1>4 DEF Spells
  <2>2. Whole(m) + 1 = Whole(n) + 2
    BY <2>1
  <2>3. h[Whole(m) + 1][Rest(m) + 1] = Marker
    BY DEF Spells
  <2>4. \A j \in 1 .. BlockSize - LengthBytes : h[Whole(n) + 2][j] = 0
    BY <1>4 DEF Spells, IsZero
  <2>5. BlockSize - (Rest(m) + 1) >= LengthField
    BY <1>4 DEF Room
  <2>6. Rest(m) + 1 \in 1 .. BlockSize - LengthBytes
    BY <1>1, <1>2, <2>5
  <2> QED BY <1>3, <2>2, <2>3, <2>4, <2>6
<1>5. ASSUME Whole(m) = Whole(n), Rest(m) < Rest(n), Room(m) <=> Room(n) PROVE FALSE
  <2>1. h[Whole(n) + 1][Rest(n) + 1] = Marker
    BY DEF Spells
  <2>2. \A j \in Rest(m) + 2 .. (IF Room(m) THEN BlockSize - LengthBytes ELSE BlockSize) :
          h[Whole(m) + 1][j] = 0
    BY DEF Spells, IsZero
  <2>3. Room(m) => BlockSize - (Rest(n) + 1) >= LengthField
    BY <1>5 DEF Room
  <2>4. Rest(n) + 1 \in Rest(m) + 2 .. (IF Room(m) THEN BlockSize - LengthBytes ELSE BlockSize)
    BY <1>1, <1>2, <1>5, <2>3
  <2> QED BY <1>3, <1>5, <2>1, <2>2, <2>4
<1> QED BY <1>4, <1>5

LEMMA SameSizes ==
  ASSUME NEW m \in Seq(Octets), NEW n \in Seq(Octets), NEW h, Spells(h, m), Spells(h, n)
  PROVE  Whole(m) = Whole(n) /\ Rest(m) = Rest(n) /\ Len(m) = Len(n)
<1>1. /\ Whole(m) \in Nat /\ Rest(m) \in Nat /\ Len(m) = Whole(m) * BlockSize + Rest(m)
      /\ Whole(n) \in Nat /\ Rest(n) \in Nat /\ Len(n) = Whole(n) * BlockSize + Rest(n)
  BY Lengths
<1>2. Room(m) <=> Room(n)
  BY MarkerTells
<1>3. /\ Len(h) = Whole(m) + (IF Room(m) THEN 1 ELSE 2)
      /\ Len(h) = Whole(n) + (IF Room(n) THEN 1 ELSE 2)
  BY DEF Spells
<1>4. Whole(m) = Whole(n)
  BY <1>1, <1>2, <1>3
<1>5. ~(Rest(m) < Rest(n)) /\ ~(Rest(n) < Rest(m))
  BY <1>2, <1>4, MarkerTells
<1>6. Rest(m) = Rest(n)
  BY <1>1, <1>5
<1> QED BY <1>1, <1>4, <1>6

(* Different messages are hashed from different blocks.                    *)
LEMMA HashInjective ==
  ASSUME NEW m \in Seq(Octets), NEW n \in Seq(Octets), Sha512Hash(m) = Sha512Hash(n)
  PROVE  m = n
<1> DEFINE h == Sha512Hash(m)
<1>1. Spells(h, m) /\ Spells(h, n)
  BY HashSpells
<1> HIDE DEF h
<1>2. Whole(m) = Whole(n) /\ Rest(m) = Rest(n) /\ Len(m) = Len(n)
  BY <1>1, SameSizes
<1> DEFINE full == Whole(m)
<1>3. /\ full \in Nat /\ full * BlockSize \in Nat /\ Len(m) = full * BlockSize + Rest(m)
      /\ Rest(m) \in Nat /\ BlockSize \in Nat
  BY Lengths, Sizes
<1>4. \A b \in 1 .. full, j \in 1 .. BlockSize :
        m[(b - 1) * BlockSize + j] = n[(b - 1) * BlockSize + j]
  BY <1>1, <1>2 DEF Spells
<1>5. \A j \in 1 .. Rest(m) : m[full * BlockSize + j] = n[full * BlockSize + j]
  <2>1. \A j \in 1 .. Rest(m) : h[Whole(m) + 1][j] = m[Whole(m) * BlockSize + j]
    BY <1>1 DEF Spells
  <2>2. \A j \in 1 .. Rest(n) : h[Whole(n) + 1][j] = n[Whole(n) * BlockSize + j]
    BY <1>1 DEF Spells
  <2> QED BY <1>2, <2>1, <2>2
<1> HIDE DEF full
<1>6. ASSUME NEW i \in 1 .. Len(m) PROVE m[i] = n[i]
  <2>1. CASE i > full * BlockSize
    <3>1. i - full * BlockSize \in 1 .. Rest(m)
      BY <1>3, <2>1
    <3>2. i = full * BlockSize + (i - full * BlockSize)
      BY <1>3
    <3> QED BY <1>5, <3>1, <3>2
  <2>2. CASE i <= full * BlockSize
    <3> DEFINE b == (i - 1) \div BlockSize
               k == (i - 1) % BlockSize
    <3>1. i - 1 \in Nat
      OBVIOUS
    <3>2. b \in Nat /\ k \in 0 .. BlockSize - 1 /\ i - 1 = b * BlockSize + k
      BY <3>1, Divided
    <3> HIDE DEF b, k
    <3>3. b < full
      <4>1. SUFFICES ASSUME full <= b PROVE FALSE
        BY <1>3, <3>2
      <4>2. (b - full) \in Nat
        BY <1>3, <3>2, <4>1
      <4>3. (b - full) * BlockSize \in Nat
        BY <1>3, <4>2
      <4>4. b * BlockSize = (b - full) * BlockSize + full * BlockSize
        BY <1>3, <3>2
      <4>5. b * BlockSize \in Nat
        BY <1>3, <3>2
      <4> QED BY <1>3, <2>2, <3>2, <4>3, <4>4, <4>5
    <3>4. b + 1 \in 1 .. full /\ k + 1 \in 1 .. BlockSize /\ (b + 1) - 1 = b
      BY <1>3, <3>2, <3>3
    <3>5. i = ((b + 1) - 1) * BlockSize + (k + 1)
      <4>1. b * BlockSize \in Nat
        BY <1>3, <3>2
      <4> QED BY <3>2, <3>4, <4>1
    <3> QED BY <1>4, <3>4, <3>5
  <2>3. i \in Int /\ full * BlockSize \in Int
    BY <1>3
  <2> QED BY <2>1, <2>2, <2>3
<1> QED BY <1>2, <1>6, SeqEqual

LEMMA Cancels ==
  ASSUME NEW T, NEW a \in Seq(T), NEW b \in Seq(T), NEW r \in Seq(T), a \o r = b \o r
  PROVE  a = b
<1>1. /\ Len(a \o r) = Len(a) + Len(r)
      /\ \A i \in 1 .. Len(a) : (a \o r)[i] = a[i]
  BY Behind
<1>2. /\ Len(b \o r) = Len(b) + Len(r)
      /\ \A i \in 1 .. Len(b) : (b \o r)[i] = b[i]
  BY Behind
<1>3. Len(a) = Len(b) /\ \A i \in 1 .. Len(a) : a[i] = b[i]
  BY <1>1, <1>2
<1> QED BY <1>3, SeqEqual
-----------------------------------------------------------------------------
CommitInv ==
  /\ committed \in Messages \cup {NoMessage} /\ offered \in Messages \cup {NoMessage}
  /\ committed = NoMessage => offered = NoMessage /\ commitment.hash = <<>>
  /\ committed # NoMessage => /\ commitment.rand \in Randoms
                              /\ commitment.hash = Sha512Hash(committed \o commitment.rand)
  /\ offered # NoMessage => (opens <=> offered = committed)

LEMMA HashOfBoth ==
  ASSUME NEW m \in Messages, NEW n \in Messages, NEW r \in Randoms
  PROVE  /\ Sha512Hash(m \o r) = Sha512Hash(n \o r) <=> m = n
         /\ \A b \in DOMAIN Sha512Hash(m \o r) : Len(Sha512Hash(m \o r)[b]) = BlockSize
<1>1. m \in Seq(Octets) /\ n \in Seq(Octets) /\ r \in Seq(Octets)
  BY OctetsAssumption
<1>2. m \o r \in Seq(Octets) /\ n \o r \in Seq(Octets)
  BY <1>1
<1>3. Sha512Hash(m \o r) = Sha512Hash(n \o r) => m = n
  <2> SUFFICES ASSUME Sha512Hash(m \o r) = Sha512Hash(n \o r) PROVE m = n
    OBVIOUS
  <2>1. m \o r = n \o r
    BY <1>2, HashInjective
  <2> QED BY <1>1, <2>1, Cancels
<1>4. Spells(Sha512Hash(m \o r), m \o r)
  BY <1>2, HashSpells
<1> QED BY <1>3, <1>4 DEF Spells

LEMMA NoMessageIsNone == NoMessage \notin Messages
<1>1. NoMessage[1] = -1 /\ NoMessage \in Seq(Int) /\ Len(NoMessage) = 1
  BY DEF NoMessage
<1>2. ASSUME NoMessage \in Seq(Octets) PROVE FALSE
  <2>1. 1 \in 1 .. Len(NoMessage)
    BY <1>1
  <2>2. NoMessage[1] \in Octets
    BY <1>2, <2>1
  <2> QED BY <1>1, <2>2 DEF Octets
<1> QED BY <1>2, OctetsAssumption

LEMMA CommitStep == CommitInv /\ [CommitNext]_commitVars => CommitInv'
<1> SUFFICES ASSUME CommitInv, [CommitNext]_commitVars PROVE CommitInv'
  OBVIOUS
<1>1. ASSUME NEW m \in Messages, NEW r \in Randoms, Commit(m, r) PROVE CommitInv'
  <2>1. /\ committed = NoMessage /\ committed' = m /\ offered' = offered /\ m # NoMessage
        /\ commitment' = [hash |-> Sha512Hash(m \o r), rand |-> r]
    BY <1>1, NoMessageIsNone DEF Commit
  <2>2. commitment'.hash = Sha512Hash(m \o commitment'.rand) /\ commitment'.rand = r
    BY <2>1
  <2>3. offered' = NoMessage
    BY <2>1 DEF CommitInv
  <2> QED BY <2>1, <2>2, <2>3 DEF CommitInv
<1>2. ASSUME NEW m \in Messages, Open(m) PROVE CommitInv'
  <2>1. /\ committed # NoMessage /\ committed \in Messages /\ commitment.rand \in Randoms
        /\ commitment.hash = Sha512Hash(committed \o commitment.rand)
        /\ UNCHANGED <<committed, commitment>> /\ offered' = m
        /\ opens' = (commitment.hash = Sha512Hash(m \o commitment.rand))
    BY <1>2 DEF CommitInv, Open
  <2>2. Sha512Hash(committed \o commitment.rand) = Sha512Hash(m \o commitment.rand)
          <=> committed = m
    BY <2>1, HashOfBoth
  <2>3. opens' <=> offered' = committed'
    BY <2>1, <2>2
  <2> QED BY <2>1, <2>3 DEF CommitInv
<1>3. CASE UNCHANGED commitVars
  BY <1>3 DEF commitVars, CommitInv
<1> QED BY <1>1, <1>2, <1>3 DEF CommitNext

(* Whatever is committed to and offered, of any length: a commitment is    *)
(* made of whole blocks, and sha512_open accepts the message it was made   *)
(* of and no other.                                                        *)
THEOREM CommitmentBinds == CommitSpec => []OpensItsMessage
<1>1. CommitInit => CommitInv
  BY DEF CommitInit, CommitInv
<1>2. CommitInv => OpensItsMessage
  <2> SUFFICES ASSUME CommitInv PROVE OpensItsMessage
    OBVIOUS
  <2>1. \A b \in DOMAIN commitment.hash : Len(commitment.hash[b]) = BlockSize
    <3>1. CASE committed = NoMessage
      BY <3>1 DEF CommitInv
    <3>2. CASE committed # NoMessage
      <4>1. /\ committed \in Messages /\ commitment.rand \in Randoms
            /\ commitment.hash = Sha512Hash(committed \o commitment.rand)
        BY <3>2 DEF CommitInv
      <4> DEFINE h == Sha512Hash(committed \o commitment.rand)
      <4>2. \A b \in DOMAIN h : Len(h[b]) = BlockSize
        BY <4>1, HashOfBoth
      <4> QED BY <4>1, <4>2
    <3> QED BY <3>1, <3>2
  <2> QED BY <2>1 DEF OpensItsMessage, CommitInv
<1> QED BY <1>1, <1>2, CommitStep, PTL DEF CommitSpec

(* The tokenizer.                                                          *)
Digits == Range(Numerals)

LEMMA DigitsAre == Digits = {"0", "1", "2", "3", "4", "5", "6", "7", "8", "9"}
<1>1. DOMAIN Numerals = 1 .. 10
  BY DEF Numerals
<1>2. ASSUME NEW p \in Digits
      PROVE  p \in {"0", "1", "2", "3", "4", "5", "6", "7", "8", "9"}
  <2>1. PICK i \in 1 .. 10 : p = Numerals[i]
    BY <1>1 DEF Digits, Range
  <2>2. CASE i \in 1 .. 5
    BY <2>1, <2>2 DEF Numerals
  <2>3. CASE i \in 6 .. 10
    BY <2>1, <2>3 DEF Numerals
  <2> QED BY <2>2, <2>3
<1>3. /\ "0" = Numerals[1] /\ "1" = Numerals[2] /\ "2" = Numerals[3] /\ "3" = Numerals[4]
      /\ "4" = Numerals[5] /\ "5" = Numerals[6] /\ "6" = Numerals[7] /\ "7" = Numerals[8]
      /\ "8" = Numerals[9] /\ "9" = Numerals[10]
  BY DEF Numerals
<1>4. \A i \in 1 .. 10 : Numerals[i] \in Digits
  BY <1>1 DEF Digits, Range
<1> HIDE DEF Digits
<1>5. /\ "0" \in Digits /\ "1" \in Digits /\ "2" \in Digits /\ "3" \in Digits /\ "4" \in Digits
      /\ "5" \in Digits /\ "6" \in Digits /\ "7" \in Digits /\ "8" \in Digits /\ "9" \in Digits
  BY <1>3, <1>4
<1> QED BY <1>2, <1>5

(* What the sets of pieces have in common.                                 *)
LEMMA PiecesApart ==
  /\ "-" \notin NamePieces /\ "-" \notin Keywords /\ "-" \notin Digits
  /\ Digits \subseteq NamePieces /\ Keywords \subseteq NamePieces
  /\ NamePieces \subseteq Pieces /\ "-" \in Pieces
  /\ \A p \in Keywords : p \notin Digits
  /\ GateKeywords \subseteq Keywords /\ "7" \in Digits
  /\ \A p \in Keywords : p \in GateKeywords \/ p = "MUL"
  /\ "DONE" \notin Keywords /\ "NUM" \notin Keywords /\ "MUL" \notin GateKeywords
  /\ \A p : IsDigit(p) <=> p \in Digits
<1>1. NamePieces = Keywords \cup Digits \cup {"x"}
  BY DEF NamePieces, Digits
<1>2. Keywords = {"MUL", "XOR", "AND", "INV"} /\ GateKeywords = {"XOR", "AND", "INV"}
  BY DEF Keywords, GateKeywords
<1>3. \A p : IsDigit(p) <=> p \in Digits
  BY DEF IsDigit, Digits
<1>4. "-" \notin NamePieces /\ "-" \notin Keywords /\ "-" \notin Digits
  BY <1>1, <1>2, DigitsAre
<1>5. \A p \in Keywords : p \notin Digits
  BY <1>2, DigitsAre
<1>6. "7" \in Digits
  BY DigitsAre
<1>7. "DONE" \notin Keywords /\ "NUM" \notin Keywords /\ "MUL" \notin GateKeywords
  BY <1>2
<1>8. \A p \in Keywords : p \in GateKeywords \/ p = "MUL"
  BY <1>2
<1>9. /\ Digits \subseteq NamePieces /\ Keywords \subseteq NamePieces
      /\ NamePieces \subseteq Pieces /\ "-" \in Pieces /\ GateKeywords \subseteq Keywords
  BY <1>1 DEF Pieces, Keywords
<1> QED BY <1>3, <1>4, <1>5, <1>6, <1>7, <1>8, <1>9

LEMMA EndOfIs ==
  ASSUME source \in Seq(Pieces), NEW S, NEW i \in 1 .. Len(source) + 1
  PROVE  /\ EndOf(i, S) \in i .. Len(source) + 1
         /\ \A j \in i .. EndOf(i, S) - 1 : source[j] \in S
         /\ EndOf(i, S) <= Len(source) => source[EndOf(i, S)] \notin S
<1> DEFINE n == Len(source)
           E == {j \in i .. n : source[j] \notin S} \cup {n + 1}
<1>1. n \in Nat /\ i \in Nat
  OBVIOUS
<1>2. E \in SUBSET Nat /\ E # {}
  BY <1>1
<1>3. EndOf(i, S) = Min(E)
  BY DEF EndOf
<1>4. Min(E) \in E /\ \A j \in E : Min(E) <= j
  <2> HIDE DEF E
  <2>1. \E m \in E : \A k \in E : m <= k
    BY <1>2, LeastElement
  <2> QED BY <2>1 DEF Min
<1>5. PICK e \in E : e = EndOf(i, S) /\ \A j \in E : e <= j
  BY <1>3, <1>4
<1>6. e \in i .. n + 1 /\ (e <= n => source[e] \notin S)
  BY <1>1
<1>7. ASSUME NEW j \in i .. e - 1 PROVE source[j] \in S
  <2>1. j \in i .. n /\ j < e /\ j \in Nat
    BY <1>1, <1>6
  <2>2. j \notin E
    <3> HIDE DEF E
    <3> QED BY <1>5, <1>6, <2>1
  <2> QED BY <2>1, <2>2
<1> QED BY <1>5, <1>6, <1>7

(* Where a run ends that is known.                                         *)
LEMMA EndOfRun ==
  ASSUME source \in Seq(Pieces), NEW S, NEW i \in 1 .. Len(source) + 1,
         NEW e \in i .. Len(source) + 1,
         \A j \in i .. e - 1 : source[j] \in S,
         e <= Len(source) => source[e] \notin S
  PROVE  EndOf(i, S) = e
<1>1. PICK d \in i .. Len(source) + 1 :
        /\ d = EndOf(i, S) /\ \A j \in i .. d - 1 : source[j] \in S
        /\ d <= Len(source) => source[d] \notin S
  BY EndOfIs
<1>2. CASE d < e
  <2>1. d \in i .. e - 1 /\ d <= Len(source)
    BY <1>2
  <2> QED BY <1>1, <2>1
<1>3. CASE e < d
  <2>1. e \in i .. d - 1 /\ e <= Len(source)
    BY <1>3
  <2> QED BY <1>1, <2>1
<1> QED BY <1>1, <1>2, <1>3

LEMMA WidthIs ==
  ASSUME NEW i \in Nat, NEW end \in Nat, i <= end
  PROVE  /\ Width(i, end) \in Nat
         /\ i = end => Width(i, end) = 0
         /\ end = i + 1 /\ source[i] \in Keywords => Width(i, end) = 3
         /\ end >= i + 2 /\ (\E j \in i .. end - 1 : source[j] \in Keywords) => Width(i, end) > 3
<1> DEFINE S == {j \in i .. end - 1 : source[j] \in Keywords}
<1>1. IsFiniteSet(S)
  <2>1. IsFiniteSet(i .. end - 1)
    BY FS_Interval
  <2> QED BY <2>1, FS_Subset
<1>2. Cardinality(S) \in Nat
  BY <1>1, FS_CardinalityType
<1>3. Width(i, end) = (end - i) + 2 * Cardinality(S)
  BY DEF Width
<1>4. ASSUME i = end PROVE Cardinality(S) = 0
  <2>1. S = {}
    BY <1>4
  <2> QED BY <2>1, FS_EmptySet
<1>5. ASSUME end = i + 1, source[i] \in Keywords PROVE Cardinality(S) = 1
  <2>1. S = {i}
    BY <1>5
  <2> QED BY <2>1, FS_Singleton
<1>6. ASSUME \E j \in i .. end - 1 : source[j] \in Keywords PROVE Cardinality(S) # 0
  <2>1. S # {}
    BY <1>6
  <2> HIDE DEF S
  <2> QED BY <1>1, <2>1, FS_EmptySet
<1> HIDE DEF S
<1> QED BY <1>2, <1>3, <1>4, <1>5, <1>6

(* A function that stops at some places and goes on from a later one at    *)
(* the others exists.                                                      *)
Chases(f, n, jump, value) ==
  \A k \in 1 .. n : f[k] = IF jump[k] = 0 THEN value[k] ELSE f[jump[k]]

LEMMA ChaseExists ==
  ASSUME NEW n \in Nat, NEW jump, NEW value,
         \A k \in 1 .. n : jump[k] = 0 \/ jump[k] \in k + 1 .. n
  PROVE  \E f : f = [k \in 1 .. n |-> f[k]] /\ Chases(f, n, jump, value)
<1> DEFINE Upto(f, m) ==
             \A k \in n + 1 - m .. n : f[k] = IF jump[k] = 0 THEN value[k] ELSE f[jump[k]]
           P == {m \in Nat : m <= n => \E f : f = [k \in 1 .. n |-> f[k]] /\ Upto(f, m)}
<1>1. 0 \in P
  <2> DEFINE f == [k \in 1 .. n |-> 0]
  <2>1. f = [k \in 1 .. n |-> f[k]]
    OBVIOUS
  <2>2. Upto(f, 0)
    OBVIOUS
  <2> HIDE DEF f, Upto
  <2> QED BY <2>1, <2>2
<1>2. ASSUME NEW m \in Nat, m \in P PROVE m + 1 \in P
  <2> SUFFICES ASSUME m + 1 <= n
               PROVE  \E g : g = [k \in 1 .. n |-> g[k]] /\ Upto(g, m + 1)
    OBVIOUS
  <2>1. PICK f : f = [k \in 1 .. n |-> f[k]] /\ Upto(f, m)
    BY <1>2
  <2> DEFINE at == n - m
             v == IF jump[at] = 0 THEN value[at] ELSE f[jump[at]]
             g == [k \in 1 .. n |-> IF k = at THEN v ELSE f[k]]
  <2>2. at \in 1 .. n
    OBVIOUS
  <2>3. g = [k \in 1 .. n |-> g[k]]
    OBVIOUS
  <2>4. ASSUME NEW k \in n + 1 - (m + 1) .. n
        PROVE  g[k] = IF jump[k] = 0 THEN value[k] ELSE g[jump[k]]
    <3>1. k \in 1 .. n /\ (k = at \/ k \in n + 1 - m .. n)
      OBVIOUS
    <3>2. jump[k] = 0 \/ jump[k] \in k + 1 .. n
      BY <3>1
    <3>3. jump[k] # 0 => g[jump[k]] = f[jump[k]]
      <4>1. jump[k] # 0 => jump[k] \in 1 .. n /\ jump[k] # at
        BY <3>1, <3>2
      <4> HIDE DEF at, v
      <4> QED BY <4>1
    <3>4. CASE k = at
      <4>1. g[k] = v
        BY <3>1, <3>4
      <4> QED BY <3>3, <3>4, <4>1
    <3>5. CASE k # at
      <4>1. g[k] = f[k]
        BY <3>1, <3>5
      <4>2. f[k] = IF jump[k] = 0 THEN value[k] ELSE f[jump[k]]
        BY <2>1, <3>1, <3>5
      <4> HIDE DEF g
      <4> QED BY <3>3, <4>1, <4>2
    <3> QED BY <3>4, <3>5
  <2>5. Upto(g, m + 1)
    BY <2>4
  <2> HIDE DEF g, Upto
  <2> QED BY <2>3, <2>5
<1>3. \A m \in Nat : m \in P
  <2> HIDE DEF P
  <2> QED BY <1>1, <1>2, SetInduction
<1>4. PICK f : f = [k \in 1 .. n |-> f[k]] /\ Upto(f, n)
  BY <1>3
<1>5. Chases(f, n, jump, value)
  <2>1. ASSUME NEW k \in 1 .. n
        PROVE  f[k] = IF jump[k] = 0 THEN value[k] ELSE f[jump[k]]
    <3>1. k \in n + 1 - n .. n
      OBVIOUS
    <3> QED BY <1>4, <3>1
  <2> QED BY <2>1 DEF Chases
<1> QED BY <1>4, <1>5

NumberToken(k) ==
  Token("NUM", Atoui(SubSeq(source, k, EndOf(k, Digits) - 1)), EndOf(k, Digits))

(* The tokenizer step by step.                                             *)
LEMMA NextTokenIs ==
  ASSUME source \in Seq(Pieces), NEW i \in 1 .. Len(source) + 1
  PROVE  NextToken(i) =
           IF i > Len(source) THEN Token("DONE", 0, i)
           ELSE IF ReadName(i) > 3 THEN NextToken(EndOf(i, NamePieces))
           ELSE IF source[i] \in Keywords THEN Token(source[i], 0, i + 1)
           ELSE IF IsDigit(source[i]) THEN NumberToken(i)
           ELSE NextToken(i + 1)
<1> DEFINE n == Len(source) + 1
           Step(f, k) == IF k > Len(source) THEN Token("DONE", 0, k)
                         ELSE IF ReadName(k) > 3 THEN f[EndOf(k, NamePieces)]
                         ELSE IF source[k] \in Keywords THEN Token(source[k], 0, k + 1)
                         ELSE IF IsDigit(source[k]) THEN NumberToken(k)
                         ELSE f[k + 1]
           Walked(f) == f = [k \in 1 .. n |-> Step(f, k)]
           h == CHOOSE f : Walked(f)
           jump == [k \in 1 .. n |->
                      IF k > Len(source) THEN 0
                      ELSE IF ReadName(k) > 3 THEN EndOf(k, NamePieces)
                      ELSE IF source[k] \in Keywords THEN 0
                      ELSE IF IsDigit(source[k]) THEN 0 ELSE k + 1]
           value == [k \in 1 .. n |->
                       IF k > Len(source) THEN Token("DONE", 0, k)
                       ELSE IF source[k] \in Keywords THEN Token(source[k], 0, k + 1)
                       ELSE NumberToken(k)]
<1>1. n \in Nat /\ Len(source) \in Nat
  OBVIOUS
<1>2. ASSUME NEW k \in 1 .. Len(source), ReadName(k) > 3
      PROVE  EndOf(k, NamePieces) \in k + 1 .. n
  <2>1. k \in 1 .. Len(source) + 1
    BY <1>1
  <2>2. EndOf(k, NamePieces) \in k .. n
    BY <2>1, EndOfIs
  <2>3. ReadName(k) = 0 \/ ReadName(k) = Width(k, EndOf(k, NamePieces))
    BY DEF ReadName
  <2>4. k = EndOf(k, NamePieces) => Width(k, EndOf(k, NamePieces)) = 0
    BY <2>2, WidthIs
  <2> QED BY <1>2, <2>2, <2>3, <2>4
<1>3. ASSUME NEW k \in 1 .. n PROVE jump[k] = 0 \/ jump[k] \in k + 1 .. n
  <2>1. CASE k > Len(source)
    BY <2>1
  <2>2. CASE ~(k > Len(source))
    <3>1. k \in 1 .. Len(source) /\ k + 1 \in k + 1 .. n
      BY <1>1, <2>2
    <3>2. ReadName(k) > 3 => EndOf(k, NamePieces) \in k + 1 .. n
      BY <1>2, <3>1
    <3> HIDE DEF n
    <3> QED BY <3>1, <3>2
  <2> QED BY <2>1, <2>2
<1>4. PICK f : f = [k \in 1 .. n |-> f[k]] /\ Chases(f, n, jump, value)
  <2> HIDE DEF n, jump, value
  <2> QED BY <1>1, <1>3, ChaseExists
<1>5. ASSUME NEW k \in 1 .. n PROVE f[k] = Step(f, k)
  <2>1. f[k] = IF jump[k] = 0 THEN value[k] ELSE f[jump[k]]
    BY <1>4 DEF Chases
  <2>2. CASE k > Len(source)
    <3>1. jump[k] = 0 /\ value[k] = Token("DONE", 0, k)
      BY <2>2
    <3> QED BY <2>1, <2>2, <3>1
  <2>3. CASE ~(k > Len(source)) /\ ReadName(k) > 3
    <3>1. k \in 1 .. Len(source)
      BY <1>1, <2>3
    <3>2. EndOf(k, NamePieces) # 0
      BY <1>2, <2>3, <3>1
    <3>3. jump[k] = EndOf(k, NamePieces)
      BY <2>3
    <3> QED BY <2>1, <2>3, <3>2, <3>3
  <2>4. CASE ~(k > Len(source)) /\ ~(ReadName(k) > 3) /\ source[k] \in Keywords
    <3>1. jump[k] = 0 /\ value[k] = Token(source[k], 0, k + 1)
      BY <2>4
    <3> QED BY <2>1, <2>4, <3>1
  <2>5. CASE ~(k > Len(source)) /\ ~(ReadName(k) > 3) /\ source[k] \notin Keywords /\ IsDigit(source[k])
    <3>1. jump[k] = 0 /\ value[k] = NumberToken(k)
      BY <2>5
    <3> QED BY <2>1, <2>5, <3>1
  <2>6. CASE ~(k > Len(source)) /\ ~(ReadName(k) > 3) /\ source[k] \notin Keywords /\ ~IsDigit(source[k])
    <3>1. jump[k] = k + 1 /\ k + 1 # 0
      BY <2>6
    <3> QED BY <2>1, <2>6, <3>1
  <2> QED BY <2>2, <2>3, <2>4, <2>5, <2>6
<1> HIDE DEF jump, value
<1>6. Walked(f)
  <2>1. [k \in 1 .. n |-> f[k]] = [k \in 1 .. n |-> Step(f, k)]
    <3> HIDE DEF Step
    <3> QED BY <1>5
  <2> HIDE DEF Step, n
  <2> QED BY <1>4, <2>1
<1>7. Walked(h)
  <2> HIDE DEF Walked
  <2> QED BY <1>6
<1>8. \A k \in 1 .. n : NextToken(k) = h[k]
  BY DEF NextToken, NumberToken, Digits
<1> HIDE DEF h
<1>9. ASSUME NEW k \in 1 .. n PROVE h[k] = Step(h, k)
  <2> HIDE DEF Step
  <2> QED BY <1>7
<1>10. i \in 1 .. n
  OBVIOUS
<1>11. i <= Len(source) => i + 1 \in 1 .. n /\ i \in 1 .. Len(source)
  BY <1>1
<1>12. i <= Len(source) /\ ReadName(i) > 3 => EndOf(i, NamePieces) \in 1 .. n
  BY <1>1, <1>2, <1>11
<1>13. NextToken(i) = Step(h, i)
  BY <1>8, <1>9, <1>10
<1>14. i <= Len(source) \/ i > Len(source)
  BY <1>1
<1> HIDE DEF n
<1> QED BY <1>8, <1>11, <1>12, <1>13, <1>14

-----------------------------------------------------------------------------
(* What the tokenizer makes of a listing.                                  *)

(* Seen from i, no keyword of a gate is the end of a name begun before.    *)
Safe(src, i) ==
  \A p \in i .. Len(src), j \in 1 .. i - 1 :
    /\ src[p] \in GateKeywords
    /\ \A q \in j .. p : src[q] \in NamePieces
    => src[j] \in Digits

(* Digits from i to j.                                                     *)
NumberAt(src, i, j) == i <= j /\ \A q \in i .. j : src[q] \in Digits

LEMMA NoName ==
  ASSUME source \in Seq(Pieces), NEW i \in 1 .. Len(source),
         source[i] = "-" \/ source[i] \in Digits
  PROVE  ReadName(i) = 0
BY PiecesApart DEF ReadName

(* Behind what is no part of a name a number is read whole.                *)
LEMMA NumberRead ==
  ASSUME source \in Seq(Pieces), NEW i \in 1 .. Len(source), source[i] = "-",
         NEW j \in Nat, j <= Len(source), NumberAt(source, i + 1, j),
         j < Len(source) => source[j + 1] \notin Digits
  PROVE  NextToken(i) = Token("NUM", Atoui(SubSeq(source, i + 1, j)), j + 1)
<1>1. /\ i + 1 \in 1 .. Len(source) /\ i + 1 \in 1 .. Len(source) + 1 /\ i \in 1 .. Len(source) + 1
      /\ source[i + 1] \in Digits /\ j + 1 \in i + 1 .. Len(source) + 1 /\ (j + 1) - 1 = j
  BY DEF NumberAt
<1>2. ~(i > Len(source)) /\ ~(i + 1 > Len(source))
  BY <1>1
<1>3. NextToken(i) = NextToken(i + 1)
  <2>1. ReadName(i) = 0
    BY NoName
  <2>2. source[i] \notin Keywords /\ ~IsDigit(source[i])
    BY PiecesApart
  <2> QED BY <1>1, <1>2, <2>1, <2>2, NextTokenIs
<1>4. NextToken(i + 1) = NumberToken(i + 1)
  <2>1. ReadName(i + 1) = 0
    BY <1>1, NoName
  <2>2. source[i + 1] \notin Keywords /\ IsDigit(source[i + 1])
    BY <1>1, PiecesApart
  <2> QED BY <1>1, <1>2, <2>1, <2>2, NextTokenIs
<1>5. EndOf(i + 1, Digits) = j + 1
  <2>1. \A q \in i + 1 .. (j + 1) - 1 : source[q] \in Digits
    BY <1>1 DEF NumberAt
  <2>2. j + 1 <= Len(source) => source[j + 1] \notin Digits
    OBVIOUS
  <2> QED BY <1>1, <2>1, <2>2, EndOfRun
<1> QED BY <1>1, <1>3, <1>4, <1>5 DEF NumberToken

LEMMA NothingRead ==
  ASSUME source \in Seq(Pieces), NEW i \in Nat, i = Len(source) + 1
  PROVE  NextToken(i) = Token("DONE", 0, i)
<1>1. i \in 1 .. Len(source) + 1 /\ i > Len(source)
  OBVIOUS
<1> QED BY <1>1, NextTokenIs

(* s is where the next call of a gate begins, or behind the listing; up to *)
(* it the keywords of gates are in longer names, but for one that the end  *)
(* of the listing may have cut out of a name.                              *)
Quiet(i, s) ==
  /\ s \in Nat \ {0}
  /\ s <= Len(source) => /\ source[s] \in GateKeywords
                         /\ s > 1 => source[s - 1] = "-"
                         /\ s < Len(source) => source[s + 1] = "-"
  /\ \A p \in i .. Len(source) :
       p < s /\ source[p] \in GateKeywords => InName(source, p) \/ p = Len(source)

(* The token found from i on: none, no gate's, the next gate's keyword, or *)
(* one that nothing follows.                                               *)
Found(i, s, token) ==
  \/ token = Token("DONE", 0, Len(source) + 1) /\ s > Len(source)
  \/ /\ token.type \in {"MUL", "NUM"} /\ token.end \in i + 1 .. Len(source) + 1
     /\ token.end <= s /\ Safe(source, token.end)
  \/ s <= Len(source) /\ token = Token(source[s], 0, s + 1)
  \/ token.type \in GateKeywords /\ token.end = Len(source) + 1 /\ s > Len(source)

LEMMA FoundLater ==
  ASSUME source \in Seq(Pieces), NEW i \in Nat, NEW k \in Nat, i <= k, NEW s, NEW token,
         Found(k, s, token)
  PROVE  Found(i, s, token)
<1>1. token.end \in k + 1 .. Len(source) + 1 => token.end \in i + 1 .. Len(source) + 1
  OBVIOUS
<1> QED BY <1>1 DEF Found

LEMMA SafeOutside ==
  ASSUME source \in Seq(Pieces), NEW i \in 1 .. Len(source) + 1,
         i <= Len(source) => source[i] \notin NamePieces
  PROVE  Safe(source, i)
<1> SUFFICES ASSUME NEW p \in i .. Len(source), NEW j \in 1 .. i - 1,
                    \A q \in j .. p : source[q] \in NamePieces
             PROVE  FALSE
  BY DEF Safe
<1>1. i \in j .. p /\ i <= Len(source)
  OBVIOUS
<1> QED BY <1>1

LEMMA SafeBehind ==
  ASSUME source \in Seq(Pieces), NEW i \in 1 .. Len(source), source[i] \notin NamePieces
  PROVE  Safe(source, i + 1)
<1> SUFFICES ASSUME NEW p \in i + 1 .. Len(source), NEW j \in 1 .. (i + 1) - 1,
                    \A q \in j .. p : source[q] \in NamePieces
             PROVE  FALSE
  BY DEF Safe
<1>1. i \in j .. p
  OBVIOUS
<1> QED BY <1>1

(* A long name is skipped, whatever it is made of.                         *)
LEMMA SkipsName ==
  ASSUME source \in Seq(Pieces), NEW i \in 1 .. Len(source), NEW s, i <= s, Quiet(i, s),
         ReadName(i) > 3
  PROVE  LET e == EndOf(i, NamePieces)
         IN  /\ e \in i + 1 .. Len(source) + 1 /\ e <= s /\ Safe(source, e)
             /\ Quiet(e, s)
<1> DEFINE e == EndOf(i, NamePieces)
<1>1. /\ e \in i .. Len(source) + 1 /\ \A j \in i .. e - 1 : source[j] \in NamePieces
      /\ e <= Len(source) => source[e] \notin NamePieces
  <2>1. i \in 1 .. Len(source) + 1
    OBVIOUS
  <2> QED BY <2>1, EndOfIs
<1>2. ReadName(i) = 0 \/ ReadName(i) = Width(i, e)
  BY DEF ReadName
<1>3. s \in Nat
  BY DEF Quiet
<1> HIDE DEF e
<1>4. Width(i, e) > 3
  BY <1>2
<1>5. i # e
  <2>1. i = e => Width(i, e) = 0
    BY <1>1, WidthIs
  <2> QED BY <1>4, <2>1
<1>6. Safe(source, e)
  BY <1>1, SafeOutside
<1>7. e <= s
  <2> SUFFICES ASSUME s < e PROVE FALSE
    BY <1>1, <1>3
  <2>1. s \in i .. e - 1 /\ s <= Len(source)
    BY <1>1, <1>3
  <2>2. /\ source[s] \in GateKeywords /\ (s > 1 => source[s - 1] = "-")
        /\ (s < Len(source) => source[s + 1] = "-")
    BY <2>1 DEF Quiet
  <2>3. s = i
    <3> SUFFICES ASSUME s # i PROVE FALSE
      OBVIOUS
    <3>1. s - 1 \in i .. e - 1 /\ s > 1
      BY <1>1, <1>3, <2>1
    <3> QED BY <1>1, <2>2, <3>1, PiecesApart
  <2>4. e = i + 1
    <3> SUFFICES ASSUME e # i + 1 PROVE FALSE
      OBVIOUS
    <3>1. s + 1 \in i .. e - 1 /\ s < Len(source)
      BY <1>1, <1>5, <2>3
    <3> QED BY <1>1, <2>2, <3>1, PiecesApart
  <2>5. Width(i, e) = 3
    <3>1. source[i] \in Keywords
      BY <2>2, <2>3, PiecesApart
    <3>2. i \in Nat /\ e \in Nat /\ i <= e
      BY <2>4
    <3> QED BY <2>4, <3>1, <3>2, WidthIs
  <2> QED BY <1>4, <2>5
<1>8. Quiet(e, s)
  <2>1. \A p \in e .. Len(source) : p \in i .. Len(source)
    BY <1>1
  <2> QED BY <2>1 DEF Quiet
<1>9. e \in i + 1 .. Len(source) + 1
  BY <1>1, <1>5
<1> QED BY <1>6, <1>7, <1>8, <1>9 DEF e

LEMMA NameOf ==
  ASSUME source \in Seq(Pieces), NEW i \in 1 .. Len(source), source[i] \in NamePieces \ Digits
  PROVE  /\ EndOf(i, NamePieces) \in i + 1 .. Len(source) + 1
         /\ \A j \in i .. EndOf(i, NamePieces) - 1 : source[j] \in NamePieces
         /\ EndOf(i, NamePieces) <= Len(source) => source[EndOf(i, NamePieces)] \notin NamePieces
         /\ ReadName(i) = Width(i, EndOf(i, NamePieces))
<1> DEFINE e == EndOf(i, NamePieces)
<1>1. /\ e \in i .. Len(source) + 1 /\ \A j \in i .. e - 1 : source[j] \in NamePieces
      /\ e <= Len(source) => source[e] \notin NamePieces
  <2>1. i \in 1 .. Len(source) + 1
    OBVIOUS
  <2> QED BY <2>1, EndOfIs
<1>2. ReadName(i) = Width(i, e)
  BY PiecesApart DEF ReadName
<1> HIDE DEF e
<1>3. e # i
  BY <1>1
<1>4. e \in i + 1 .. Len(source) + 1
  BY <1>1, <1>3
<1> QED BY <1>1, <1>2, <1>4 DEF e

(* A keyword that is read as one has no name behind it.                    *)
LEMMA ShortKeyword ==
  ASSUME source \in Seq(Pieces), NEW i \in 1 .. Len(source), source[i] \in Keywords,
         ~(ReadName(i) > 3), i < Len(source)
  PROVE  source[i + 1] \notin NamePieces
<1>1. source[i] \in NamePieces \ Digits
  BY PiecesApart
<1>2. PICK e \in i + 1 .. Len(source) + 1 :
        /\ \A j \in i .. e - 1 : source[j] \in NamePieces
        /\ e <= Len(source) => source[e] \notin NamePieces
        /\ ReadName(i) = Width(i, e)
  BY <1>1, NameOf
<1>3. i \in i .. e - 1 /\ i \in Nat /\ e \in Nat /\ i <= e
  OBVIOUS
<1>4. ~(e >= i + 2)
  <2>1. e >= i + 2 => Width(i, e) > 3
    BY <1>3, WidthIs
  <2> QED BY <1>2, <2>1
<1>5. e = i + 1 /\ e <= Len(source)
  BY <1>4
<1> QED BY <1>2, <1>5

(* Nor can a name that is read piece by piece have a keyword behind it.    *)
LEMMA SafeInName ==
  ASSUME source \in Seq(Pieces), NEW i \in 1 .. Len(source),
         source[i] \notin Digits, source[i] \notin Keywords, ~(ReadName(i) > 3)
  PROVE  Safe(source, i + 1)
<1>1. CASE source[i] \notin NamePieces
  BY <1>1, SafeBehind
<1>2. CASE source[i] \in NamePieces
  <2>1. PICK e \in i + 1 .. Len(source) + 1 :
          /\ \A j \in i .. e - 1 : source[j] \in NamePieces
          /\ e <= Len(source) => source[e] \notin NamePieces
          /\ ReadName(i) = Width(i, e)
    BY <1>2, NameOf
  <2> SUFFICES ASSUME NEW p \in i + 1 .. Len(source), NEW j \in 1 .. (i + 1) - 1,
                      source[p] \in GateKeywords,
                      \A q \in j .. p : source[q] \in NamePieces
               PROVE  FALSE
    BY DEF Safe
  <2>2. p < e
    <3> SUFFICES ASSUME e <= p PROVE FALSE
      OBVIOUS
    <3>1. e \in j .. p /\ e <= Len(source)
      OBVIOUS
    <3> QED BY <2>1, <3>1
  <2>3. p \in i .. e - 1 /\ e >= i + 2 /\ source[p] \in Keywords
    BY <2>2, PiecesApart
  <2>4. Width(i, e) > 3
    <3>1. i \in Nat /\ e \in Nat /\ i <= e
      OBVIOUS
    <3> QED BY <2>3, <3>1, WidthIs
  <2> QED BY <2>1, <2>4
<1> QED BY <1>1, <1>2

LEMMA SafeAfterDigits ==
  ASSUME source \in Seq(Pieces), NEW i \in 1 .. Len(source), NEW e \in i .. Len(source) + 1,
         \A q \in i .. e - 1 : source[q] \in Digits, Safe(source, i)
  PROVE  Safe(source, e)
<1> SUFFICES ASSUME NEW p \in e .. Len(source), NEW j \in 1 .. e - 1,
                    source[p] \in GateKeywords, \A q \in j .. p : source[q] \in NamePieces
             PROVE  source[j] \in Digits
  BY DEF Safe
<1>1. CASE j >= i
  BY <1>1
<1>2. CASE j < i
  <2>1. j \in 1 .. i - 1 /\ p \in i .. Len(source)
    BY <1>2
  <2> QED BY <2>1 DEF Safe
<1> QED BY <1>1, <1>2

(* One step of the tokenizer: it finds a token or goes on from a later     *)
(* place that is as good as this one.                                      *)
Passes(i, e, s) ==
  /\ e \in i + 1 .. Len(source) + 1 /\ e <= s /\ Safe(source, e) /\ Quiet(e, s)
  /\ NextToken(i) = NextToken(e)

LEMMA TokenStep ==
  ASSUME source \in Seq(Pieces), NEW i \in 1 .. Len(source), NEW s, i <= s, Quiet(i, s),
         Safe(source, i)
  PROVE  \/ Found(i, s, NextToken(i))
         \/ \E e : Passes(i, e, s)
<1>1. s \in Nat /\ i \in 1 .. Len(source) + 1 /\ ~(i > Len(source)) /\ i + 1 \in i + 1 .. Len(source) + 1
  BY DEF Quiet
<1>2. s = i => source[i] \in GateKeywords
  BY DEF Quiet
<1>3. CASE ReadName(i) > 3
  <2>1. NextToken(i) = NextToken(EndOf(i, NamePieces))
    BY <1>1, <1>3, NextTokenIs
  <2> QED BY <1>3, <2>1, SkipsName DEF Passes
<1>4. CASE ~(ReadName(i) > 3) /\ source[i] \in Keywords
  <2>1. NextToken(i) = Token(source[i], 0, i + 1)
    BY <1>1, <1>4, NextTokenIs
  <2>2. i < Len(source) => source[i + 1] \notin NamePieces
    BY <1>4, ShortKeyword
  <2>3. CASE s = i
    BY <2>1, <2>3 DEF Found
  <2>4. CASE s # i /\ source[i] = "MUL"
    <3>1. Safe(source, i + 1)
      <4>1. i + 1 \in 1 .. Len(source) + 1 /\ (i + 1 <= Len(source) => i < Len(source))
        OBVIOUS
      <4> QED BY <2>2, <4>1, SafeOutside
    <3>2. i + 1 <= s
      BY <1>1, <2>4
    <3> QED BY <1>1, <2>1, <2>4, <3>1, <3>2 DEF Found, Token
  <2>5. CASE s # i /\ source[i] # "MUL"
    <3>1. source[i] \in GateKeywords
      BY <1>4, <2>5, PiecesApart
    <3>2. i < s /\ i \in i .. Len(source)
      BY <1>1, <2>5
    <3>3. InName(source, i) \/ i = Len(source)
      BY <3>1, <3>2 DEF Quiet
    <3>4. ~InName(source, i)
      <4> SUFFICES ASSUME NEW j \in 1 .. i - 1, source[j] \in NamePieces \ Digits,
                          \A k \in j .. i - 1 : source[k] \in NamePieces
                   PROVE  FALSE
        BY <2>2 DEF InName, Digits
      <4>1. \A q \in j .. i : source[q] \in NamePieces
        BY <3>1, PiecesApart
      <4>2. source[j] \in Digits
        BY <3>1, <3>2, <4>1 DEF Safe
      <4> QED BY <4>2
    <3>5. i = Len(source) /\ s > Len(source)
      BY <3>2, <3>3, <3>4
    <3> QED BY <2>1, <3>1, <3>5 DEF Found, Token
  <2> QED BY <2>3, <2>4, <2>5
<1>5. CASE ~(ReadName(i) > 3) /\ source[i] \in Digits
  <2>1. source[i] \notin Keywords /\ IsDigit(source[i])
    BY <1>5, PiecesApart
  <2>2. NextToken(i) = NumberToken(i)
    BY <1>1, <1>5, <2>1, NextTokenIs
  <2>3. PICK e \in i .. Len(source) + 1 :
          /\ e = EndOf(i, Digits) /\ \A j \in i .. e - 1 : source[j] \in Digits
          /\ e <= Len(source) => source[e] \notin Digits
    BY <1>1, EndOfIs
  <2>4. e # i
    BY <1>5, <2>3
  <2>5. e <= s
    <3> SUFFICES ASSUME s < e PROVE FALSE
      BY <1>1
    <3>1. s \in i .. e - 1 /\ s <= Len(source)
      BY <1>1
    <3>2. source[s] \in GateKeywords
      BY <3>1 DEF Quiet
    <3> QED BY <2>3, <3>1, <3>2, PiecesApart
  <2>6. Safe(source, e)
    BY <2>3, SafeAfterDigits
  <2>7. NextToken(i).type = "NUM" /\ NextToken(i).end = e
    BY <2>2, <2>3 DEF NumberToken, Token
  <2>8. e \in i + 1 .. Len(source) + 1
    BY <2>4
  <2> QED BY <2>5, <2>6, <2>7, <2>8 DEF Found
<1>6. CASE ~(ReadName(i) > 3) /\ source[i] \notin Keywords /\ source[i] \notin Digits
  <2>1. ~IsDigit(source[i]) /\ source[i] \notin GateKeywords
    BY <1>6, PiecesApart
  <2>2. NextToken(i) = NextToken(i + 1)
    BY <1>1, <1>6, <2>1, NextTokenIs
  <2>3. i + 1 <= s
    BY <1>1, <1>2, <2>1
  <2>4. Safe(source, i + 1)
    BY <1>6, SafeInName
  <2>5. Quiet(i + 1, s)
    <3>1. \A p \in i + 1 .. Len(source) : p \in i .. Len(source)
      OBVIOUS
    <3> QED BY <3>1 DEF Quiet
  <2> QED BY <1>1, <2>2, <2>3, <2>4, <2>5 DEF Passes
<1> QED BY <1>3, <1>4, <1>5, <1>6

LEMMA TokenFound ==
  ASSUME source \in Seq(Pieces), NEW k \in 1 .. Len(source) + 1, NEW s, k <= s, Quiet(k, s),
         Safe(source, k)
  PROVE  Found(k, s, NextToken(k))
<1> DEFINE n == Len(source)
           P == {m \in Nat : \A i \in 1 .. n + 1 :
                   n + 1 - i <= m /\ i <= s /\ Quiet(i, s) /\ Safe(source, i)
                     => Found(i, s, NextToken(i))}
<1>1. n \in Nat
  OBVIOUS
<1>2. 0 \in P
  <2> SUFFICES ASSUME NEW i \in 1 .. n + 1, n + 1 - i <= 0, i <= s, Quiet(i, s)
               PROVE  Found(i, s, NextToken(i))
    OBVIOUS
  <2>1. i = n + 1 /\ i \in Nat /\ s \in Nat
    BY <1>1 DEF Quiet
  <2>2. NextToken(i) = Token("DONE", 0, n + 1)
    BY <2>1, NothingRead
  <2>3. s > Len(source)
    BY <2>1
  <2> QED BY <2>2, <2>3 DEF Found
<1>3. ASSUME NEW m \in Nat, m \in P PROVE m + 1 \in P
  <2> SUFFICES ASSUME NEW i \in 1 .. n + 1, n + 1 - i <= m + 1, i <= s, Quiet(i, s), Safe(source, i)
               PROVE  Found(i, s, NextToken(i))
    OBVIOUS
  <2>1. CASE i = n + 1
    <3>1. n + 1 - i <= m
      BY <1>1, <2>1
    <3> QED BY <1>3, <3>1
  <2>2. CASE i # n + 1
    <3>1. i \in 1 .. Len(source)
      BY <1>1, <2>2
    <3> SUFFICES ASSUME NEW e, Passes(i, e, s) PROVE Found(i, s, NextToken(i))
      BY <3>1, TokenStep
    <3>2. /\ e \in i + 1 .. n + 1 /\ e <= s /\ Safe(source, e) /\ Quiet(e, s)
          /\ NextToken(i) = NextToken(e)
      BY DEF Passes
    <3>3. e \in 1 .. n + 1 /\ n + 1 - e <= m /\ e \in Nat /\ i \in Nat /\ i <= e
      BY <1>1, <3>2
    <3>4. Found(e, s, NextToken(e))
      BY <1>3, <3>2, <3>3
    <3> QED BY <3>2, <3>3, <3>4, FoundLater
  <2> QED BY <2>1, <2>2
<1>4. \A m \in Nat : m \in P
  <2> HIDE DEF P
  <2> QED BY <1>2, <1>3, SetInduction
<1>5. n + 1 - k \in Nat /\ n + 1 - k <= n + 1 - k
  BY <1>1
<1>6. n + 1 - k \in P
  <2> HIDE DEF P
  <2> QED BY <1>4, <1>5
<1> QED BY <1>5, <1>6

-----------------------------------------------------------------------------
(* The call of a gate.                                                     *)
NumberOf(src, i, j) == Atoui(SubSeq(src, i, j))

(* In src the call of a gate begins at p, its addresses end at b, c and,   *)
(* but for an inversion, at the place where it is complete.                *)
CallAt(src, p, b, c, w) ==
  /\ src[p] \in GateKeywords /\ (p > 1 => src[p - 1] = "-")
  /\ src[p + 1] = "-" /\ NumberAt(src, p + 2, b)
  /\ src[b + 1] = "-" /\ NumberAt(src, b + 2, c)
  /\ src[p] = "INV" =>
       /\ w.complete = c
       /\ w.gate = Gate("xor", NumberOf(src, p + 2, b), -1, NumberOf(src, b + 2, c))
  /\ src[p] # "INV" =>
       /\ src[c + 1] = "-" /\ NumberAt(src, c + 2, w.complete)
       /\ w.gate = Gate(IF src[p] = "AND" THEN "and" ELSE "xor", NumberOf(src, p + 2, b),
                        NumberOf(src, b + 2, c), NumberOf(src, c + 2, w.complete))
  /\ src[w.complete + 1] = "-" /\ src[w.complete + 2] = "7" /\ src[w.complete + 3] = "-"
  /\ w.complete + 3 <= Len(src)

Begins(src, full) == /\ Len(src) <= Len(full)
                     /\ \A i \in 1 .. Len(src) : src[i] = full[i]

(* What the parser gets of a text.                                         *)
Cut(src, full) ==
  /\ Begins(src, full)
  /\ Len(src) < Len(full) => full[Len(src) + 1] \notin Digits

LEMMA SameNumber ==
  ASSUME NEW T, NEW src \in Seq(T), NEW full \in Seq(T), Begins(src, full),
         NEW i \in Nat \ {0}, NEW j \in Nat, j <= Len(src)
  PROVE  NumberOf(src, i, j) = NumberOf(full, i, j)
<1>1. SubSeq(src, i, j) = SubSeq(full, i, j)
  <2>1. SubSeq(src, i, j) = [k \in 1 .. (1 + j - i) |-> src[i + k - 1]]
    BY DEF SubSeq
  <2>2. SubSeq(full, i, j) = [k \in 1 .. (1 + j - i) |-> full[i + k - 1]]
    BY DEF SubSeq
  <2>3. \A k \in 1 .. (1 + j - i) : src[i + k - 1] = full[i + k - 1]
    BY DEF Begins
  <2> QED BY <2>1, <2>2, <2>3
<1> QED BY <1>1 DEF NumberOf

LEMMA SameDigits ==
  ASSUME NEW src, NEW full, Len(src) \in Nat, Begins(src, full),
         NEW i \in Nat \ {0}, NEW j \in Nat, j <= Len(src), NumberAt(full, i, j)
  PROVE  NumberAt(src, i, j)
BY DEF Begins, NumberAt

(* How far the positions of a call are apart.                              *)
LEMMA CallOrder ==
  ASSUME NEW src, NEW p \in Nat \ {0}, NEW b \in Nat, NEW c \in Nat, NEW w, w.complete \in Nat,
         CallAt(src, p, b, c, w)
  PROVE  /\ p + 2 <= b /\ b + 2 <= c /\ c <= w.complete
         /\ src[p] = "INV" => w.complete = c
         /\ src[p] # "INV" => c + 2 <= w.complete
         /\ src[c + 1] = "-"
<1>1. p + 2 <= b /\ b + 2 <= c
  BY DEF CallAt, NumberAt
<1>2. CASE src[p] = "INV"
  <2>1. w.complete = c /\ src[w.complete + 1] = "-"
    BY <1>2 DEF CallAt
  <2> QED BY <1>1, <1>2, <2>1
<1>3. CASE src[p] # "INV"
  <2>1. src[c + 1] = "-" /\ NumberAt(src, c + 2, w.complete)
    BY <1>3 DEF CallAt
  <2>2. c + 2 <= w.complete
    BY <2>1 DEF NumberAt
  <2> QED BY <1>1, <1>3, <2>1, <2>2
<1> QED BY <1>2, <1>3

(* An address of a call that is there is read.                             *)
LEMMA AddressRead ==
  ASSUME source \in Seq(Pieces), NEW full \in Seq(Pieces), Cut(source, full),
         NEW i \in Nat \ {0}, NEW j \in Nat, j <= Len(source), full[i] = "-",
         NumberAt(full, i + 1, j), full[j + 1] = "-"
  PROVE  NextToken(i) = Token("NUM", NumberOf(full, i + 1, j), j + 1)
<1>1. i + 1 <= j
  BY DEF NumberAt
<1>2. i \in 1 .. Len(source) /\ source[i] = "-"
  BY <1>1 DEF Cut, Begins
<1>3. NumberAt(source, i + 1, j)
  BY SameDigits DEF Cut
<1>4. j < Len(source) => source[j + 1] \notin Digits
  <2>1. j < Len(source) => source[j + 1] = full[j + 1]
    BY DEF Cut, Begins
  <2> QED BY <2>1, PiecesApart
<1>5. NextToken(i) = Token("NUM", Atoui(SubSeq(source, i + 1, j)), j + 1)
  BY <1>2, <1>3, <1>4, NumberRead
<1>6. NumberOf(source, i + 1, j) = NumberOf(full, i + 1, j)
  BY SameNumber DEF Cut
<1> QED BY <1>5, <1>6 DEF NumberOf

(* The index of a call is read, or there is none.                          *)
LEMMA IndexRead ==
  ASSUME source \in Seq(Pieces), NEW full \in Seq(Pieces), Cut(source, full),
         NEW e \in Nat, e <= Len(source), e + 3 <= Len(full),
         full[e + 1] = "-", full[e + 2] = "7", full[e + 3] = "-"
  PROVE  /\ NextToken(e + 1).end \in e + 1 .. e + 3
         /\ NextToken(e + 1).end <= Len(source) + 1
         /\ Safe(source, NextToken(e + 1).end)
<1>1. CASE e = Len(source)
  <2>1. NextToken(e + 1).end = Len(source) + 1
    <3>1. NextToken(e + 1) = Token("DONE", 0, e + 1)
      BY <1>1, NothingRead
    <3> QED BY <1>1, <3>1 DEF Token
  <2>2. Safe(source, Len(source) + 1)
    <3>1. Len(source) + 1 \in 1 .. Len(source) + 1 /\ ~(Len(source) + 1 <= Len(source))
      OBVIOUS
    <3> QED BY <3>1, SafeOutside
  <2> QED BY <1>1, <2>1, <2>2
<1>2. CASE e < Len(source)
  <2>1. Len(source) # e + 1
    <3> SUFFICES ASSUME Len(source) = e + 1 PROVE FALSE
      OBVIOUS
    <3>1. full[Len(source) + 1] = full[e + 2] /\ Len(source) < Len(full)
      OBVIOUS
    <3> QED BY <3>1, PiecesApart DEF Cut, Begins
  <2>2. e + 2 <= Len(source) /\ e + 1 \in Nat \ {0} /\ e + 2 \in Nat
    BY <1>2, <2>1
  <2>3. NumberAt(full, (e + 1) + 1, e + 2)
    BY PiecesApart DEF NumberAt
  <2>4. NextToken(e + 1) = Token("NUM", NumberOf(full, (e + 1) + 1, e + 2), (e + 2) + 1)
    <3>1. full[(e + 2) + 1] = "-"
      OBVIOUS
    <3> QED BY <2>2, <2>3, <3>1, AddressRead
  <2>5. NextToken(e + 1).end = e + 3
    BY <2>4 DEF Token
  <2>6. Safe(source, e + 3)
    <3>1. e + 3 \in 1 .. Len(source) + 1
      BY <2>2
    <3>2. e + 3 <= Len(source) => source[e + 3] \notin NamePieces
      BY PiecesApart DEF Cut, Begins
    <3> QED BY <3>1, <3>2, SafeOutside
  <2> QED BY <2>2, <2>5, <2>6
<1> QED BY <1>1, <1>2

LEMMA LastOfTwo == ASSUME NEW x, NEW y PROVE Last(<<x, y>>) = y
BY DEF Last

LEMMA LastOfFour == ASSUME NEW u, NEW v, NEW x, NEW y PROVE Last(<<u, v, x, y>>) = y
BY DEF Last

(* A call that is complete becomes the gate it stands for.                 *)
LEMMA CallRead ==
  ASSUME source \in Seq(Pieces), NEW full \in Seq(Pieces), Cut(source, full),
         NEW p \in Nat \ {0}, NEW b \in Nat, NEW c \in Nat, NEW w, w.complete \in Nat,
         CallAt(full, p, b, c, w), w.complete <= Len(source),
         NEW args, args = Arguments(full[p], p + 1)
  PROVE  /\ Numeric(full[p], args)
         /\ ParsedGate(full[p], args) = w.gate
         /\ Last(args).end \in w.complete + 1 .. w.complete + 3
         /\ Last(args).end <= Len(source) + 1
         /\ Safe(source, Last(args).end)
<1> DEFINE e == w.complete
           dst == NextToken(p + 1)
           op1 == NextToken(dst.end)
           op2 == NextToken(op1.end)
           index == NextToken(op2.end)
<1>1. /\ p + 2 <= b /\ b + 2 <= c /\ c <= e
      /\ full[p] = "INV" => e = c
      /\ full[p] # "INV" => c + 2 <= e
      /\ full[c + 1] = "-"
  BY CallOrder
<1>2. dst = Token("NUM", NumberOf(full, p + 2, b), b + 1)
  <2>1. p + 1 \in Nat \ {0} /\ b <= Len(source) /\ (p + 1) + 1 = p + 2
    BY <1>1
  <2>2. full[p + 1] = "-" /\ NumberAt(full, p + 2, b) /\ full[b + 1] = "-"
    BY DEF CallAt
  <2> QED BY <2>1, <2>2, AddressRead
<1>3. dst.type = "NUM" /\ dst.num = NumberOf(full, p + 2, b) /\ dst.end = b + 1
  BY <1>2 DEF Token
<1> HIDE DEF dst
<1>4. op1 = Token("NUM", NumberOf(full, b + 2, c), c + 1)
  <2>1. b + 1 \in Nat \ {0} /\ c <= Len(source) /\ (b + 1) + 1 = b + 2
    BY <1>1
  <2>2. full[b + 1] = "-" /\ NumberAt(full, b + 2, c)
    BY DEF CallAt
  <2>3. NextToken(b + 1) = Token("NUM", NumberOf(full, b + 2, c), c + 1)
    BY <1>1, <2>1, <2>2, AddressRead
  <2> QED BY <1>3, <2>3
<1>5. op1.type = "NUM" /\ op1.num = NumberOf(full, b + 2, c) /\ op1.end = c + 1
  BY <1>4 DEF Token
<1> HIDE DEF op1
<1>6. CASE full[p] = "INV"
  <2>1. args = <<dst, op1>>
    BY <1>6 DEF Arguments, dst, op1
  <2>2. Numeric(full[p], args)
    BY <1>3, <1>5, <1>6, <2>1 DEF Numeric
  <2>3. w.gate = Gate("xor", NumberOf(full, p + 2, b), -1, NumberOf(full, b + 2, c)) /\ e = c
    BY <1>6 DEF CallAt
  <2>4. ParsedGate(full[p], args) = w.gate
    BY <1>3, <1>5, <1>6, <2>1, <2>3 DEF ParsedGate
  <2>5. Last(args).end = c + 1
    <3>1. Last(args) = op1
      BY <2>1, LastOfTwo
    <3> QED BY <1>5, <3>1
  <2>6. Safe(source, c + 1)
    <3>1. c + 1 \in 1 .. Len(source) + 1
      BY <2>3
    <3>2. c + 1 <= Len(source) => source[c + 1] \notin NamePieces
      BY <1>1, PiecesApart DEF Cut, Begins
    <3> QED BY <3>1, <3>2, SafeOutside
  <2>7. c + 1 \in e + 1 .. e + 3 /\ c + 1 <= Len(source) + 1
    BY <2>3
  <2> QED BY <2>2, <2>4, <2>5, <2>6, <2>7
<1>7. CASE full[p] # "INV"
  <2>1. op2 = Token("NUM", NumberOf(full, c + 2, e), e + 1)
    <3>1. c + 1 \in Nat \ {0} /\ (c + 1) + 1 = c + 2
      OBVIOUS
    <3>2. full[c + 1] = "-" /\ NumberAt(full, c + 2, e) /\ full[e + 1] = "-"
      BY <1>7 DEF CallAt
    <3>3. NextToken(c + 1) = Token("NUM", NumberOf(full, c + 2, e), e + 1)
      BY <3>1, <3>2, AddressRead
    <3> QED BY <1>5, <3>3
  <2>2. op2.type = "NUM" /\ op2.num = NumberOf(full, c + 2, e) /\ op2.end = e + 1
    BY <2>1 DEF Token
  <2> HIDE DEF op2
  <2>3. args = <<dst, op1, op2, index>>
    BY <1>7 DEF Arguments, dst, op1, op2
  <2>4. index = NextToken(e + 1)
    BY <2>2
  <2> HIDE DEF index
  <2>5. Numeric(full[p], args)
    <3>1. args[1].type = "NUM" /\ args[2].type = "NUM" /\ args[3].type = "NUM"
      <4>1. args[1] = dst /\ args[2] = op1 /\ args[3] = op2
        BY ONLY <2>3
      <4> QED BY <1>3, <1>5, <2>2, <4>1
    <3>2. \A k \in 1 .. 3 : k = 1 \/ k = 2 \/ k = 3
      OBVIOUS
    <3> QED BY <1>7, <3>1, <3>2 DEF Numeric
  <2>6. w.gate = Gate(IF full[p] = "AND" THEN "and" ELSE "xor", NumberOf(full, p + 2, b),
                      NumberOf(full, b + 2, c), NumberOf(full, c + 2, e))
    BY <1>7 DEF CallAt
  <2>7. ParsedGate(full[p], args) = w.gate
    BY <1>3, <1>5, <1>7, <2>2, <2>3, <2>6 DEF ParsedGate
  <2>8. Last(args) = index
    BY <2>3, LastOfFour
  <2>9. /\ index.end \in e + 1 .. e + 3 /\ index.end <= Len(source) + 1
        /\ Safe(source, index.end)
    <3>1. /\ full[e + 1] = "-" /\ full[e + 2] = "7" /\ full[e + 3] = "-" /\ e + 3 <= Len(full)
      BY DEF CallAt
    <3> QED BY <2>4, <3>1, IndexRead
  <2> QED BY <2>5, <2>7, <2>8, <2>9
<1> QED BY <1>6, <1>7

(* A call that breaks off does not.                                        *)
LEMMA BrokenCall ==
  ASSUME source \in Seq(Pieces), NEW full \in Seq(Pieces), Cut(source, full),
         NEW p \in Nat \ {0}, NEW b \in Nat, NEW c \in Nat, NEW w, w.complete \in Nat,
         CallAt(full, p, b, c, w), p <= Len(source), Len(source) < w.complete,
         NEW args, args = Arguments(full[p], p + 1)
  PROVE  ~Numeric(full[p], args)
<1> DEFINE e == w.complete
           n == Len(source)
           dst == NextToken(p + 1)
           op1 == NextToken(dst.end)
           op2 == NextToken(op1.end)
           index == NextToken(op2.end)
<1>1. /\ p + 2 <= b /\ b + 2 <= c /\ c <= e
      /\ full[p] = "INV" => e = c
      /\ full[p] # "INV" => c + 2 <= e
      /\ full[c + 1] = "-"
  BY CallOrder
<1>2. full[n + 1] \notin Digits /\ n \in Nat
  <2>1. w.complete + 3 <= Len(full)
    BY DEF CallAt
  <2>2. n < Len(full) /\ n \in Nat
    BY <2>1
  <2> QED BY <2>2 DEF Cut
<1>3. NumberAt(full, p + 2, b) /\ NumberAt(full, b + 2, c) /\ (full[p] # "INV" => NumberAt(full, c + 2, e))
  BY DEF CallAt
<1>4. n = p \/ n = b \/ (n = c /\ full[p] # "INV")
  <2>1. ~(n + 1 \in p + 2 .. b)
    BY <1>2, <1>3 DEF NumberAt
  <2>2. ~(n + 1 \in b + 2 .. c)
    BY <1>2, <1>3 DEF NumberAt
  <2>3. full[p] # "INV" => ~(n + 1 \in c + 2 .. e)
    BY <1>2, <1>3 DEF NumberAt
  <2> QED BY <1>1, <1>2, <2>1, <2>2, <2>3
<1>5. \E k \in 1 .. (IF full[p] = "INV" THEN 2 ELSE 3) : args[k].type = "DONE"
  <2>1. /\ full[p] = "INV" => args = <<dst, op1>>
        /\ full[p] # "INV" => args = <<dst, op1, op2, index>>
    BY DEF Arguments
  <2>2. NextToken(n + 1).type = "DONE"
    <3>1. NextToken(n + 1) = Token("DONE", 0, n + 1)
      BY <1>2, NothingRead
    <3> QED BY <3>1 DEF Token
  <2>3. n # p => dst.end = b + 1
    <3>1. n # p => b <= Len(source)
      BY <1>1, <1>4
    <3>2. p + 1 \in Nat \ {0} /\ (p + 1) + 1 = p + 2
      OBVIOUS
    <3>3. full[p + 1] = "-" /\ full[b + 1] = "-"
      BY DEF CallAt
    <3>4. n # p => dst = Token("NUM", NumberOf(full, p + 2, b), b + 1)
      BY <1>3, <3>1, <3>2, <3>3, AddressRead
    <3> QED BY <3>4 DEF Token
  <2>4. n = c => op1.end = c + 1
    <3>1. n = c => dst.end = b + 1
      BY <1>1, <2>3
    <3>2. b + 1 \in Nat \ {0} /\ (b + 1) + 1 = b + 2
      OBVIOUS
    <3>3. full[b + 1] = "-"
      BY DEF CallAt
    <3>4. n = c => NextToken(b + 1) = Token("NUM", NumberOf(full, b + 2, c), c + 1)
      BY <1>1, <1>3, <3>2, <3>3, AddressRead
    <3> QED BY <3>1, <3>4 DEF Token
  <2> HIDE DEF dst
  <2>5. CASE n = p
    <3>1. dst.type = "DONE"
      BY <2>2, <2>5 DEF dst
    <3> HIDE DEF op1, op2, index
    <3> QED BY <2>1, <3>1
  <2>6. CASE n = b
    <3>1. op1.type = "DONE"
      BY <1>1, <2>2, <2>3, <2>6
    <3> HIDE DEF op1, op2, index
    <3> QED BY <2>1, <3>1
  <2>7. CASE n = c /\ full[p] # "INV"
    <3>1. op2.type = "DONE"
      BY <2>2, <2>4, <2>7
    <3> HIDE DEF op1, op2, index
    <3> QED BY <2>1, <2>7, <3>1
  <2> QED BY <1>4, <2>5, <2>6, <2>7
<1> QED BY <1>5 DEF Numeric

-----------------------------------------------------------------------------
(* The listing that is written.                                            *)

(* Behind a, src goes on with text.                                        *)
Has(src, a, text) == /\ a \in Nat /\ a + Len(text) <= Len(src)
                     /\ \A k \in 1 .. Len(text) : src[a + k] = text[k]

LEMMA HasParts ==
  ASSUME NEW T, NEW s \in Seq(T), NEW t \in Seq(T)
  PROVE  Has(s \o t, 0, s) /\ Has(s \o t, Len(s), t) /\ Len(s \o t) = Len(s) + Len(t)
BY DEF Has

LEMMA HasWithin ==
  ASSUME NEW src, NEW a, NEW s, NEW b, NEW t, Has(src, a, s), Has(s, b, t),
         Len(src) \in Nat, Len(s) \in Nat, Len(t) \in Nat
  PROVE  Has(src, a + b, t)
<1>1. a \in Nat /\ b \in Nat /\ a + b \in Nat /\ (a + b) + Len(t) <= Len(src)
  BY DEF Has
<1>2. ASSUME NEW k \in 1 .. Len(t) PROVE src[(a + b) + k] = t[k]
  <2>1. b + k \in 1 .. Len(s) /\ a + (b + k) = (a + b) + k
    BY <1>1 DEF Has
  <2>2. src[a + (b + k)] = s[b + k] /\ s[b + k] = t[k]
    BY <2>1 DEF Has
  <2> QED BY <2>1, <2>2
<1> QED BY <1>1, <1>2 DEF Has

LEMMA HasAhead ==
  ASSUME NEW src, NEW s, NEW b, NEW t, Has(src, 0, s), Has(s, b, t),
         Len(src) \in Nat, Len(s) \in Nat, Len(t) \in Nat
  PROVE  Has(src, b, t)
<1>1. Has(src, 0 + b, t)
  BY HasWithin
<1>2. 0 + b = b
  BY DEF Has
<1> QED BY <1>1, <1>2

LEMMA SubSeqIs ==
  ASSUME NEW T, NEW s \in Seq(T), NEW i \in Nat \ {0}, NEW j \in Nat
  PROVE  SubSeq(s, i, j) = [k \in 1 .. (1 + j - i) |-> s[i + k - 1]]
BY DEF SubSeq

LEMMA HasNumber ==
  ASSUME NEW src \in Seq(Pieces), NEW a, NEW d \in Seq(Digits), d # <<>>, Has(src, a, d)
  PROVE  NumberAt(src, a + 1, a + Len(d)) /\ NumberOf(src, a + 1, a + Len(d)) = Atoui(d)
<1>1. a \in Nat /\ Len(d) \in Nat \ {0}
  BY DEF Has
<1>2. NumberAt(src, a + 1, a + Len(d))
  <2>1. ASSUME NEW q \in a + 1 .. a + Len(d) PROVE src[q] \in Digits
    <3>1. q - a \in 1 .. Len(d) /\ a + (q - a) = q
      BY <1>1
    <3>2. src[a + (q - a)] = d[q - a] /\ d[q - a] \in Digits
      BY <3>1 DEF Has
    <3> QED BY <3>1, <3>2
  <2> QED BY <1>1, <2>1 DEF NumberAt
<1>3. SubSeq(src, a + 1, a + Len(d)) = d
  <2>1. SubSeq(src, a + 1, a + Len(d)) = [k \in 1 .. Len(d) |-> src[(a + 1) + k - 1]]
    <3>1. (1 + (a + Len(d)) - (a + 1)) = Len(d)
      BY <1>1
    <3>2. a + 1 \in Nat \ {0} /\ a + Len(d) \in Nat
      BY <1>1
    <3> QED BY <3>1, <3>2, SubSeqIs
  <2>2. \A k \in 1 .. Len(d) : src[(a + 1) + k - 1] = d[k]
    <3> SUFFICES ASSUME NEW k \in 1 .. Len(d) PROVE src[(a + 1) + k - 1] = d[k]
      OBVIOUS
    <3>1. (a + 1) + k - 1 = a + k
      BY <1>1
    <3> QED BY <3>1 DEF Has
  <2>3. d = [k \in 1 .. Len(d) |-> d[k]]
    OBVIOUS
  <2> QED BY <2>1, <2>2, <2>3
<1> QED BY <1>2, <1>3 DEF NumberOf

(* The text WriteGate writes, and what it is to be read as.                *)
CallText(keyword, dst, op1, op2) ==
  <<keyword, "-">> \o dst \o <<"-">> \o op1
    \o (IF keyword = "INV" THEN <<>> ELSE <<"-">> \o op2)

WrittenGate(keyword, dst, op1, op2) ==
  IF keyword = "INV" THEN Gate("xor", Atoui(dst), -1, Atoui(op1))
  ELSE Gate(IF keyword = "AND" THEN "and" ELSE "xor", Atoui(dst), Atoui(op1), Atoui(op2))

LEMMA DigitsArePieces == Digits \subseteq Pieces /\ GateKeywords \subseteq Pieces /\ "-" \in Pieces
                         /\ "7" \in Digits
BY PiecesApart DEF Pieces, NamePieces, Keywords, Digits

(* The parts of a call, and what is not at its beginning.                  *)
IsCall(call, keyword, dst, op1, op2, b, c) ==
  /\ call \in Seq(Pieces)
  /\ Has(call, 0, <<keyword, "-">>) /\ Has(call, 2, dst)
  /\ Has(call, b, <<"-">>) /\ Has(call, b + 1, op1)
  /\ keyword = "INV" => Len(call) = c
  /\ keyword # "INV" => /\ Len(call) = c + 1 + Len(op2)
                        /\ Has(call, c, <<"-">>) /\ Has(call, c + 1, op2)
  /\ \A i \in 2 .. Len(call) : call[i] \in Digits \cup {"-"}

LEMMA CallParts ==
  ASSUME NEW keyword \in GateKeywords, NEW dst \in Seq(Digits), NEW op1 \in Seq(Digits),
         NEW op2 \in Seq(Digits), NEW call, call = CallText(keyword, dst, op1, op2),
         NEW b, b = 2 + Len(dst), NEW c, c = b + 1 + Len(op1)
  PROVE  IsCall(call, keyword, dst, op1, op2, b, c)
<1> DEFINE m == 2 + Len(dst)
           n == m + 1 + Len(op1)
           D == Digits \cup {"-"}
           t1 == <<keyword, "-">> \o dst
           t2 == t1 \o <<"-">>
           t3 == t2 \o op1
           t4 == IF keyword = "INV" THEN <<>> ELSE <<"-">> \o op2
           text == t3 \o t4
           Tail2(t) == t \in Seq(Pieces) /\ \A i \in 2 .. Len(t) : t[i] \in D
<1>1. text = CallText(keyword, dst, op1, op2)
  BY DEF CallText
<1>2. D \subseteq Pieces /\ Digits \subseteq D /\ "-" \in D /\ keyword \in Pieces
  BY DigitsArePieces
<1> HIDE DEF D
<1>3. ASSUME NEW t, Tail2(t), NEW u \in Seq(D)
      PROVE  Tail2(t \o u)
  <2>1. u \in Seq(Pieces)
    BY <1>2
  <2>2. t \o u \in Seq(Pieces)
    BY <1>3, <2>1
  <2>3. \A i \in 2 .. Len(t \o u) : (t \o u)[i] \in D
    <3> SUFFICES ASSUME NEW i \in 2 .. Len(t \o u) PROVE (t \o u)[i] \in D
      OBVIOUS
    <3>1. Len(t \o u) = Len(t) + Len(u) /\ Len(t) \in Nat /\ Len(u) \in Nat
      BY <1>3, <2>1
    <3>2. CASE i <= Len(t)
      <4>1. (t \o u)[i] = t[i] /\ i \in 2 .. Len(t)
        BY <1>3, <2>1, <3>1, <3>2
      <4> QED BY <1>3, <4>1
    <3>3. CASE i > Len(t)
      <4>1. i - Len(t) \in 1 .. Len(u) /\ (t \o u)[i] = u[i - Len(t)]
        BY <1>3, <2>1, <3>1, <3>3
      <4> QED BY <4>1
    <3> QED BY <3>1, <3>2, <3>3
  <2> QED BY <2>2, <2>3
<1>4. Tail2(<<keyword, "-">>) /\ Len(<<keyword, "-">>) = 2
  BY <1>2
<1>5. /\ dst \in Seq(D) /\ op1 \in Seq(D) /\ op2 \in Seq(D) /\ <<"-">> \in Seq(D) /\ Len(<<"-">>) = 1
      /\ dst \in Seq(Pieces) /\ op1 \in Seq(Pieces) /\ op2 \in Seq(Pieces) /\ <<"-">> \in Seq(Pieces)
      /\ Len(dst) \in Nat /\ Len(op1) \in Nat /\ Len(op2) \in Nat
  BY <1>2
<1>6. t4 \in Seq(D) /\ t4 \in Seq(Pieces)
  BY <1>2, <1>5
<1>7. Tail2(t1) /\ t1 \in Seq(Pieces) /\ Len(t1) = m /\ m \in Nat
  <2>1. Tail2(t1)
    <3> HIDE DEF Tail2
    <3> QED BY <1>3, <1>4, <1>5
  <2> QED BY <1>4, <1>5, <2>1
<1>8. Has(t1, 0, <<keyword, "-">>) /\ Has(t1, 2, dst)
  <2>1. <<keyword, "-">> \in Seq(Pieces)
    BY <1>4
  <2> QED BY <1>4, <1>5, <2>1, HasParts
<1> HIDE DEF t1, m
<1>9. Tail2(t2) /\ t2 \in Seq(Pieces) /\ Len(t2) = m + 1
  <2>1. Tail2(t2)
    <3> HIDE DEF Tail2
    <3> QED BY <1>3, <1>5, <1>7
  <2> QED BY <1>5, <1>7, <2>1
<1>10. Has(t2, 0, t1) /\ Has(t2, m, <<"-">>)
  BY <1>5, <1>7, HasParts
<1> HIDE DEF t2
<1>11. Tail2(t3) /\ t3 \in Seq(Pieces) /\ Len(t3) = n /\ n \in Nat
  <2>1. Tail2(t3)
    <3> HIDE DEF Tail2
    <3> QED BY <1>3, <1>5, <1>9
  <2>2. t3 \in Seq(Pieces)
    BY <2>1
  <2>3. Len(t3) = Len(t2) + Len(op1)
    BY <1>5, <1>9, HasParts
  <2> HIDE DEF t3, Tail2
  <2> QED BY <1>5, <1>7, <1>9, <2>1, <2>2, <2>3
<1> HIDE DEF n
<1>12. Has(t3, 0, t2) /\ Has(t3, m + 1, op1)
  BY <1>5, <1>9, HasParts
<1> HIDE DEF t3
<1>13. Tail2(text)
  <2> HIDE DEF Tail2, t4
  <2> QED BY <1>3, <1>6, <1>11
<1>14. Has(text, 0, t3) /\ Has(text, n, t4) /\ Len(text) = n + Len(t4)
  <2>1. Has(text, 0, t3) /\ Has(text, Len(t3), t4)
    <3> HIDE DEF t4
    <3> QED BY <1>6, <1>11, HasParts
  <2>2. Len(text) = Len(t3) + Len(t4)
    <3> HIDE DEF t4
    <3> QED BY <1>6, <1>11, HasParts
  <2> HIDE DEF text, t4
  <2> QED BY <1>11, <2>1, <2>2
<1>15. text \in Seq(Pieces) /\ Len(text) \in Nat
  BY <1>13
<1>16. keyword = "INV" => Len(text) = n
  <2>1. keyword = "INV" => Len(t4) = 0
    OBVIOUS
  <2> HIDE DEF t4
  <2> QED BY <1>11, <1>14, <2>1
<1>17. keyword # "INV" => /\ Len(text) = n + 1 + Len(op2)
                          /\ Has(text, n, <<"-">>) /\ Has(text, n + 1, op2)
  <2> SUFFICES ASSUME keyword # "INV" PROVE /\ Len(text) = n + 1 + Len(op2)
                                            /\ Has(text, n, <<"-">>) /\ Has(text, n + 1, op2)
    OBVIOUS
  <2>1. t4 = <<"-">> \o op2 /\ Len(t4) = 1 + Len(op2)
    BY <1>5
  <2>2. Has(t4, 0, <<"-">>) /\ Has(t4, 1, op2)
    BY <1>5, <2>1, HasParts
  <2>3. Len(t4) \in Nat
    BY <1>6
  <2> HIDE DEF t4, text
  <2>4. Has(text, n + 0, <<"-">>) /\ Has(text, n + 1, op2)
    BY <1>5, <1>14, <1>15, <2>2, <2>3, HasWithin
  <2>5. n + 0 = n
    BY <1>11
  <2> QED BY <1>5, <1>11, <1>14, <2>1, <2>4, <2>5
<1> HIDE DEF text
<1>18. Has(text, 0, t2) /\ Has(text, m + 1, op1)
  <2>1. Len(t2) \in Nat /\ Len(t3) \in Nat /\ Len(op1) \in Nat
    BY <1>5, <1>7, <1>9, <1>11
  <2>2. Has(t3, 0, t2) /\ Has(t3, m + 1, op1) /\ Has(text, 0, t3)
    BY <1>12, <1>14
  <2> QED BY ONLY <1>15, <2>1, <2>2, HasAhead
<1>19. Has(text, 0, t1) /\ Has(text, m, <<"-">>)
  <2>1. Len(t1) \in Nat /\ Len(t2) \in Nat /\ Len(<<"-">>) \in Nat
    BY <1>5, <1>7, <1>9
  <2> QED BY ONLY <1>10, <1>15, <1>18, <2>1, HasAhead
<1>20. Has(text, 0, <<keyword, "-">>) /\ Has(text, 2, dst)
  BY <1>4, <1>5, <1>7, <1>8, <1>15, <1>19, HasAhead
<1>22. /\ Has(text, 0, <<keyword, "-">>) /\ Has(text, 2, dst)
       /\ Has(text, m, <<"-">>) /\ Has(text, m + 1, op1)
  BY <1>18, <1>19, <1>20
<1>23. \A i \in 2 .. Len(text) : text[i] \in Digits \cup {"-"}
  BY <1>13 DEF D
<1>24. text = call /\ m = b /\ n = c
  BY <1>1 DEF m, n
<1> QED BY <1>15, <1>16, <1>17, <1>22, <1>23, <1>24 DEF IsCall

(* Whatever is written behind a call, it stays the same.                   *)
LEMMA CallExtended ==
  ASSUME NEW src \in Seq(Pieces), NEW text \in Seq(Pieces), Begins(src, text),
         NEW p \in Nat \ {0}, NEW b \in Nat, NEW c \in Nat, NEW w, w.complete \in Nat,
         CallAt(src, p, b, c, w)
  PROVE  CallAt(text, p, b, c, w)
<1> DEFINE e == w.complete
<1>1. /\ p + 2 <= b /\ b + 2 <= c /\ c <= e
      /\ src[p] = "INV" => e = c
      /\ src[p] # "INV" => c + 2 <= e
  BY CallOrder
<1>2. e + 3 <= Len(src) /\ Len(src) <= Len(text) /\ \A i \in 1 .. Len(src) : src[i] = text[i]
  BY DEF CallAt, Begins
<1>3. /\ text[p] = src[p] /\ (p > 1 => text[p - 1] = src[p - 1])
      /\ text[p + 1] = src[p + 1] /\ text[b + 1] = src[b + 1] /\ text[c + 1] = src[c + 1]
      /\ text[e + 1] = src[e + 1] /\ text[e + 2] = src[e + 2] /\ text[e + 3] = src[e + 3]
  <2>1. /\ p \in 1 .. Len(src) /\ p + 1 \in 1 .. Len(src) /\ b + 1 \in 1 .. Len(src)
        /\ c + 1 \in 1 .. Len(src) /\ e + 1 \in 1 .. Len(src) /\ e + 2 \in 1 .. Len(src)
        /\ e + 3 \in 1 .. Len(src) /\ (p > 1 => p - 1 \in 1 .. Len(src))
    <3>1. p + 2 <= e /\ b <= e /\ c <= e /\ e + 3 <= Len(src) /\ e \in Nat /\ Len(src) \in Nat
      BY <1>1, <1>2
    <3> HIDE DEF e
    <3> QED BY ONLY <3>1
  <2> HIDE DEF e
  <2> QED BY ONLY <1>2, <2>1
<1>4. ASSUME NEW i \in Nat \ {0}, NEW j \in Nat, j <= e
      PROVE  /\ NumberOf(text, i, j) = NumberOf(src, i, j)
             /\ NumberAt(src, i, j) => NumberAt(text, i, j)
  <2>1. j <= Len(src)
    BY <1>2, <1>4
  <2>2. NumberOf(src, i, j) = NumberOf(text, i, j)
    BY <2>1, SameNumber
  <2>3. ASSUME NumberAt(src, i, j), NEW q \in i .. j PROVE text[q] \in Digits
    <3>1. src[q] \in Digits /\ q \in 1 .. Len(src)
      BY <2>1, <2>3 DEF NumberAt
    <3> QED BY <1>2, <3>1
  <2> QED BY <2>2, <2>3 DEF NumberAt
<1>5. /\ NumberOf(text, p + 2, b) = NumberOf(src, p + 2, b)
      /\ NumberAt(src, p + 2, b) => NumberAt(text, p + 2, b)
      /\ NumberOf(text, b + 2, c) = NumberOf(src, b + 2, c)
      /\ NumberAt(src, b + 2, c) => NumberAt(text, b + 2, c)
      /\ NumberOf(text, c + 2, e) = NumberOf(src, c + 2, e)
      /\ NumberAt(src, c + 2, e) => NumberAt(text, c + 2, e)
  <2>1. /\ p + 2 \in Nat \ {0} /\ b + 2 \in Nat \ {0} /\ c + 2 \in Nat \ {0}
        /\ b <= e /\ c <= e /\ e <= e
    BY <1>1
  <2> QED BY <1>4, <2>1
<1>6. e + 3 <= Len(text)
  BY <1>2
<1> QED BY <1>3, <1>5, <1>6 DEF CallAt

LEMMA NameExtended ==
  ASSUME NEW src, NEW text, Begins(src, text), Len(src) \in Nat, Len(text) \in Nat,
         NEW i \in 1 .. Len(src), InName(src, i)
  PROVE  InName(text, i)
<1>1. CASE i < Len(src) /\ src[i + 1] \in NamePieces
  <2>1. i < Len(text) /\ text[i + 1] = src[i + 1]
    BY <1>1 DEF Begins
  <2> QED BY <1>1, <2>1 DEF InName
<1>2. CASE \E j \in 1 .. i - 1 : /\ src[j] \in NamePieces \ Range(Numerals)
                                 /\ \A k \in j .. i - 1 : src[k] \in NamePieces
  <2>1. PICK j \in 1 .. i - 1 : /\ src[j] \in NamePieces \ Range(Numerals)
                                /\ \A k \in j .. i - 1 : src[k] \in NamePieces
    BY <1>2
  <2>2. \A k \in j .. i - 1 : text[k] = src[k]
    BY DEF Begins
  <2>3. text[j] = src[j]
    BY <2>2
  <2> QED BY <2>1, <2>2, <2>3 DEF InName
<1> QED BY <1>1, <1>2 DEF InName

LEMMA NameBehind ==
  ASSUME NEW text, NEW a, NEW line, Has(text, a, line), Len(line) \in Nat, Len(text) \in Nat,
         NEW i \in 1 .. Len(line), InName(line, i)
  PROVE  InName(text, a + i)
<1>1. /\ a \in Nat /\ a + Len(line) <= Len(text)
      /\ \A k \in 1 .. Len(line) : text[a + k] = line[k]
  BY DEF Has
<1>2. CASE i < Len(line) /\ line[i + 1] \in NamePieces
  <2>1. a + i < Len(text) /\ text[a + (i + 1)] = line[i + 1] /\ a + (i + 1) = (a + i) + 1
    BY <1>1, <1>2
  <2> QED BY <1>2, <2>1 DEF InName
<1>3. CASE \E j \in 1 .. i - 1 : /\ line[j] \in NamePieces \ Range(Numerals)
                                 /\ \A k \in j .. i - 1 : line[k] \in NamePieces
  <2>1. PICK j \in 1 .. i - 1 : /\ line[j] \in NamePieces \ Range(Numerals)
                                /\ \A k \in j .. i - 1 : line[k] \in NamePieces
    BY <1>3
  <2>2. a + j \in 1 .. (a + i) - 1 /\ text[a + j] = line[j]
    BY <1>1
  <2>3. ASSUME NEW k \in a + j .. (a + i) - 1 PROVE text[k] \in NamePieces
    <3>1. k - a \in j .. i - 1 /\ k - a \in 1 .. Len(line) /\ a + (k - a) = k
      BY <1>1
    <3> QED BY <1>1, <2>1, <3>1
  <2> QED BY <2>1, <2>2, <2>3 DEF InName
<1> QED BY <1>2, <1>3 DEF InName

(* A listing of calls that begin at starts: the keyword of a gate anywhere *)
(* else is in a longer name.                                               *)
Gates == {Gate("xor", Atoui(d), -1, Atoui(e)) : d, e \in Seq(Digits)}
           \cup {Gate(t, Atoui(d), Atoui(e), Atoui(f)) :
                   t \in {"and", "xor"}, d, e, f \in Seq(Digits)}
Calls == [gate : Gates, complete : Nat]

CallsIn(full, starts, calls) ==
  /\ Len(starts) = Len(calls)
  /\ \A j \in 1 .. Len(calls) : \E b, c \in Nat : CallAt(full, starts[j], b, c, calls[j])
  /\ \A j, l \in 1 .. Len(calls) : j < l => calls[j].complete + 3 < starts[l]

KeywordsIn(full, starts) ==
  \A i \in 1 .. Len(full) :
    full[i] \in GateKeywords => InName(full, i) \/ \E j \in 1 .. Len(starts) : starts[j] = i

Listing(full, starts, calls) ==
  /\ CallsIn(full, starts, calls) /\ KeywordsIn(full, starts)
  /\ Len(full) > 0 => full[Len(full)] = "-"

LEMMA LineWritten ==
  ASSUME NEW full \in Seq(Pieces), NEW line \in Seq(Pieces),
         Len(full) > 0 => full[Len(full)] = "-", Len(line) > 0 => line[Len(line)] = "-"
  PROVE  /\ full \o line \in Seq(Pieces) /\ Begins(full, full \o line)
         /\ Has(full \o line, Len(full), line)
         /\ Len(full \o line) = Len(full) + Len(line)
         /\ Len(full \o line) > 0 => (full \o line)[Len(full \o line)] = "-"
<1> DEFINE text == full \o line
<1>1. Has(text, 0, full) /\ Has(text, Len(full), line) /\ Len(text) = Len(full) + Len(line)
  BY HasParts
<1>2. text \in Seq(Pieces) /\ Len(full) \in Nat /\ Len(line) \in Nat
  OBVIOUS
<1> HIDE DEF text
<1>3. Begins(full, text)
  BY <1>1, <1>2 DEF Has, Begins
<1>4. Len(text) > 0 => text[Len(text)] = "-"
  <2>1. CASE Len(line) > 0
    <3>1. text[Len(full) + Len(line)] = line[Len(line)]
      BY <1>1, <1>2, <2>1 DEF Has
    <3> QED BY <1>1, <2>1, <3>1
  <2>2. CASE Len(line) = 0
    <3>1. Len(text) = Len(full)
      BY <1>1, <1>2, <2>2
    <3>2. Len(full) > 0 => text[Len(full)] = full[Len(full)]
      BY <1>2, <1>3 DEF Begins
    <3> QED BY <3>1, <3>2
  <2> QED BY <1>2, <2>1, <2>2
<1> QED BY <1>1, <1>2, <1>3, <1>4 DEF text

LEMMA KeywordsWritten ==
  ASSUME NEW full \in Seq(Pieces), NEW line \in Seq(Pieces), NEW text \in Seq(Pieces),
         Begins(full, text), Has(text, Len(full), line), Len(text) = Len(full) + Len(line),
         NEW starts, NEW after, Len(starts) \in Nat, Len(after) \in Nat, Len(starts) <= Len(after),
         \A j \in 1 .. Len(starts) : after[j] = starts[j],
         KeywordsIn(full, starts),
         \A i \in 1 .. Len(line) :
           line[i] \in GateKeywords =>
             InName(line, i) \/ \E j \in 1 .. Len(after) : after[j] = Len(full) + i
  PROVE  KeywordsIn(text, after)
<1> SUFFICES ASSUME NEW i \in 1 .. Len(text), text[i] \in GateKeywords
             PROVE  InName(text, i) \/ \E j \in 1 .. Len(after) : after[j] = i
  BY DEF KeywordsIn
<1>1. Len(full) \in Nat /\ Len(line) \in Nat
  OBVIOUS
<1>2. CASE i <= Len(full)
  <2>1. i \in 1 .. Len(full) /\ text[i] = full[i]
    BY <1>1, <1>2 DEF Begins
  <2>2. InName(full, i) \/ \E j \in 1 .. Len(starts) : starts[j] = i
    BY <2>1 DEF KeywordsIn
  <2>3. CASE InName(full, i)
    <3>1. InName(text, i)
      BY <2>1, <2>3, NameExtended
    <3> QED BY <3>1
  <2>4. CASE \E j \in 1 .. Len(starts) : starts[j] = i
    <3>1. PICK j \in 1 .. Len(starts) : starts[j] = i
      BY <2>4
    <3>2. j \in 1 .. Len(after) /\ after[j] = i
      BY <3>1
    <3> QED BY <3>2
  <2> QED BY <2>2, <2>3, <2>4
<1>3. CASE i > Len(full)
  <2>1. PICK k \in 1 .. Len(line) : i = Len(full) + k
    <3>1. i - Len(full) \in 1 .. Len(line) /\ i = Len(full) + (i - Len(full))
      BY <1>1, <1>3
    <3> QED BY <3>1
  <2>2. text[i] = line[k]
    BY <2>1 DEF Has
  <2>3. InName(line, k) \/ \E j \in 1 .. Len(after) : after[j] = i
    BY <2>1, <2>2
  <2>4. InName(line, k) => InName(text, i)
    BY <1>1, <2>1, NameBehind
  <2> QED BY <2>3, <2>4
<1> QED BY <1>1, <1>2, <1>3

LEMMA NoiseWritten ==
  ASSUME NEW full \in Seq(Pieces), NEW starts \in Seq(Nat \ {0}), NEW calls \in Seq(Calls),
         Listing(full, starts, calls), NEW line \in Noise
  PROVE  full \o line \in Seq(Pieces) /\ Listing(full \o line, starts, calls)
<1> DEFINE text == full \o line
<1>1. /\ line \in Seq(Pieces) /\ (Len(line) > 0 => line[Len(line)] = "-")
      /\ \A i \in 1 .. Len(line) : line[i] \in GateKeywords => InName(line, i)
  <2>1. line \in Seq(Pieces) /\ (line # <<>> => Last(line) = "-")
        /\ \A i \in DOMAIN line : line[i] \in GateKeywords => InName(line, i)
    BY ParserAssumption
  <2>2. Len(line) > 0 => line # <<>>
    OBVIOUS
  <2>3. DOMAIN line = 1 .. Len(line)
    BY <2>1
  <2> QED BY <2>1, <2>2, <2>3 DEF Last
<1>2. /\ text \in Seq(Pieces) /\ Begins(full, text) /\ Has(text, Len(full), line)
      /\ Len(text) = Len(full) + Len(line) /\ (Len(text) > 0 => text[Len(text)] = "-")
  BY <1>1, LineWritten DEF Listing
<1> HIDE DEF text
<1>3. KeywordsIn(text, starts)
  <2>1. KeywordsIn(full, starts) /\ Len(starts) \in Nat /\ Len(starts) <= Len(starts)
    BY DEF Listing
  <2> QED BY <1>1, <1>2, <2>1, KeywordsWritten
<1>4. CallsIn(text, starts, calls)
  <2>1. CallsIn(full, starts, calls)
    BY DEF Listing
  <2>2. ASSUME NEW j \in 1 .. Len(calls)
        PROVE  \E b, c \in Nat : CallAt(text, starts[j], b, c, calls[j])
    <3>1. PICK b \in Nat, c \in Nat : CallAt(full, starts[j], b, c, calls[j])
      BY <2>1 DEF CallsIn
    <3>2. starts[j] \in Nat \ {0} /\ calls[j].complete \in Nat
      <4>1. j \in 1 .. Len(starts) /\ calls[j] \in Calls
        BY <2>1 DEF CallsIn
      <4> QED BY <4>1 DEF Calls
    <3>3. CallAt(text, starts[j], b, c, calls[j])
      BY <1>2, <3>1, <3>2, CallExtended
    <3> QED BY <3>3
  <2> QED BY <2>1, <2>2 DEF CallsIn
<1>5. Listing(text, starts, calls)
  BY <1>2, <1>3, <1>4 DEF Listing
<1> QED BY <1>2, <1>5 DEF text

LEMMA CallWritten ==
  ASSUME NEW keyword \in GateKeywords, NEW dst \in Seq(Digits), NEW op1 \in Seq(Digits),
         NEW op2 \in Seq(Digits), dst # <<>>, op1 # <<>>, op2 # <<>>,
         NEW src \in Seq(Pieces), NEW n \in Nat,
         Has(src, n, CallText(keyword, dst, op1, op2)),
         n > 0 => src[n] = "-",
         NEW w, w.gate = WrittenGate(keyword, dst, op1, op2),
         w.complete = n + Len(CallText(keyword, dst, op1, op2)),
         Has(src, w.complete, <<"-", "7", "-">>)
  PROVE  \E b, c \in Nat : CallAt(src, n + 1, b, c, w)
<1> DEFINE call == CallText(keyword, dst, op1, op2)
           b0 == 2 + Len(dst)
           c0 == b0 + 1 + Len(op1)
           b == n + b0
           c == n + c0
<1>1. /\ call \in Seq(Pieces)
      /\ Has(call, 0, <<keyword, "-">>) /\ Has(call, 2, dst)
      /\ Has(call, b0, <<"-">>) /\ Has(call, b0 + 1, op1)
      /\ keyword = "INV" => Len(call) = c0
      /\ keyword # "INV" => /\ Len(call) = c0 + 1 + Len(op2)
                            /\ Has(call, c0, <<"-">>) /\ Has(call, c0 + 1, op2)
  <2>1. call = CallText(keyword, dst, op1, op2) /\ b0 = 2 + Len(dst) /\ c0 = b0 + 1 + Len(op1)
    OBVIOUS
  <2> HIDE DEF call, b0, c0
  <2>2. IsCall(call, keyword, dst, op1, op2, b0, c0)
    BY <2>1, CallParts
  <2> QED BY <2>2 DEF IsCall
<1>2. Len(dst) \in Nat \ {0} /\ Len(op1) \in Nat \ {0} /\ Len(op2) \in Nat \ {0}
  OBVIOUS
<1>3. b0 \in Nat /\ c0 \in Nat /\ b \in Nat /\ c \in Nat
  BY <1>2
<1>4. b = (n + 2) + Len(dst) /\ c = (b + 1) + Len(op1) /\ n + (b0 + 1) = b + 1 /\ n + (c0 + 1) = c + 1
  BY <1>2
<1>5. /\ Len(<<keyword, "-">>) \in Nat /\ Len(<<"-">>) \in Nat /\ Len(src) \in Nat /\ Len(call) \in Nat
      /\ Len(dst) \in Nat /\ Len(op1) \in Nat /\ Len(op2) \in Nat
  BY <1>1, <1>2
<1>6. Has(src, n, call) /\ w.complete = n + Len(call) /\ w.gate = WrittenGate(keyword, dst, op1, op2)
  OBVIOUS
<1> HIDE DEF call, b0, c0, b, c
<1>7. src[n + 1] = keyword /\ src[n + 2] = "-"
  <2>1. Has(src, n + 0, <<keyword, "-">>)
    BY <1>1, <1>5, <1>6, HasWithin
  <2>2. n + 0 = n /\ Len(<<keyword, "-">>) = 2
    OBVIOUS
  <2> QED BY <2>1, <2>2 DEF Has
<1>8. Has(src, n + 2, dst)
  BY <1>1, <1>5, <1>6, HasWithin
<1>9. src[b + 1] = "-"
  <2>1. Has(src, b, <<"-">>)
    BY <1>1, <1>5, <1>6, HasWithin DEF b
  <2> QED BY <2>1 DEF Has
<1>10. Has(src, b + 1, op1)
  <2>1. Has(src, n + (b0 + 1), op1)
    BY <1>1, <1>5, <1>6, HasWithin
  <2> QED BY <1>4, <2>1
<1>11. keyword # "INV" => src[c + 1] = "-" /\ Has(src, c + 1, op2)
  <2> SUFFICES ASSUME keyword # "INV" PROVE src[c + 1] = "-" /\ Has(src, c + 1, op2)
    OBVIOUS
  <2>1. Has(src, c, <<"-">>)
    BY <1>1, <1>5, <1>6, HasWithin DEF c
  <2>2. Has(src, n + (c0 + 1), op2)
    BY <1>1, <1>5, <1>6, HasWithin
  <2>3. src[c + 1] = "-"
    BY <2>1 DEF Has
  <2> QED BY <1>4, <2>2, <2>3
<1>12. NumberAt(src, (n + 1) + 2, b) /\ NumberOf(src, (n + 1) + 2, b) = Atoui(dst)
  <2>1. (n + 1) + 2 = (n + 2) + 1
    OBVIOUS
  <2>2. NumberAt(src, (n + 2) + 1, (n + 2) + Len(dst))
        /\ NumberOf(src, (n + 2) + 1, (n + 2) + Len(dst)) = Atoui(dst)
    BY <1>8, HasNumber
  <2> QED BY <1>4, <2>1, <2>2
<1>13. NumberAt(src, b + 2, c) /\ NumberOf(src, b + 2, c) = Atoui(op1)
  <2>1. b + 2 = (b + 1) + 1
    BY <1>3
  <2>2. NumberAt(src, (b + 1) + 1, (b + 1) + Len(op1))
        /\ NumberOf(src, (b + 1) + 1, (b + 1) + Len(op1)) = Atoui(op1)
    BY <1>10, HasNumber
  <2> QED BY <1>4, <2>1, <2>2
<1>14. keyword = "INV" => w.complete = c
  BY <1>1, <1>6 DEF c
<1>15. keyword # "INV" => /\ NumberAt(src, c + 2, w.complete)
                          /\ NumberOf(src, c + 2, w.complete) = Atoui(op2)
  <2> SUFFICES ASSUME keyword # "INV"
               PROVE  /\ NumberAt(src, c + 2, w.complete)
                      /\ NumberOf(src, c + 2, w.complete) = Atoui(op2)
    OBVIOUS
  <2>1. c + 2 = (c + 1) + 1
    BY <1>3
  <2>2. w.complete = (c + 1) + Len(op2)
    <3>1. Len(call) = c0 + 1 + Len(op2) /\ c = n + c0
      BY <1>1 DEF c
    <3> QED BY <1>3, <1>5, <1>6, <3>1
  <2>3. NumberAt(src, (c + 1) + 1, (c + 1) + Len(op2))
        /\ NumberOf(src, (c + 1) + 1, (c + 1) + Len(op2)) = Atoui(op2)
    BY <1>11, HasNumber
  <2> QED BY <2>1, <2>2, <2>3
<1>16. /\ src[w.complete + 1] = "-" /\ src[w.complete + 2] = "7" /\ src[w.complete + 3] = "-"
       /\ w.complete + 3 <= Len(src)
  <2>1. Len(<<"-", "7", "-">>) = 3
    OBVIOUS
  <2> QED BY <2>1 DEF Has
<1>17. (n + 1) + 1 = n + 2 /\ (n + 1 > 1 => n > 0) /\ (n + 1) - 1 = n
  OBVIOUS
<1>18. (n + 1 > 1 => src[(n + 1) - 1] = "-") /\ src[(n + 1) + 1] = "-"
  BY <1>7, <1>17
<1>19. CallAt(src, n + 1, b, c, w)
  <2>1. CASE keyword = "INV"
    <3>1. w.gate = Gate("xor", Atoui(dst), -1, Atoui(op1))
      BY <1>6, <2>1 DEF WrittenGate
    <3> QED BY <1>7, <1>9, <1>12, <1>13, <1>14, <1>16, <1>18, <2>1, <3>1 DEF CallAt
  <2>2. CASE keyword # "INV"
    <3>1. w.gate = Gate(IF keyword = "AND" THEN "and" ELSE "xor", Atoui(dst), Atoui(op1), Atoui(op2))
      BY <1>6, <2>2 DEF WrittenGate
    <3> QED BY <1>7, <1>9, <1>11, <1>12, <1>13, <1>15, <1>16, <1>18, <2>2, <3>1 DEF CallAt
  <2> QED BY <2>1, <2>2
<1> QED BY <1>3, <1>19

LEMMA GateWritten ==
  ASSUME NEW full \in Seq(Pieces), NEW starts \in Seq(Nat \ {0}), NEW calls \in Seq(Calls),
         Listing(full, starts, calls), NEW keyword \in GateKeywords,
         NEW dst \in Numbers, NEW op1 \in Numbers, NEW op2 \in Numbers
  PROVE  LET call == CallText(keyword, dst, op1, op2)
             text == full \o (call \o <<"-", "7", "-">>)
             after == Append(starts, Len(full) + 1)
             longer == Append(calls, [gate |-> WrittenGate(keyword, dst, op1, op2),
                                      complete |-> Len(full) + Len(call)])
         IN  /\ text \in Seq(Pieces) /\ after \in Seq(Nat \ {0}) /\ longer \in Seq(Calls)
             /\ Listing(text, after, longer)
<1> DEFINE call == CallText(keyword, dst, op1, op2)
           line == call \o <<"-", "7", "-">>
           text == full \o line
           n == Len(full)
           after == Append(starts, n + 1)
           gate == WrittenGate(keyword, dst, op1, op2)
           w == [gate |-> gate, complete |-> n + Len(call)]
           longer == Append(calls, w)
           N == Len(calls)
<1>1. /\ dst \in Seq(Digits) /\ op1 \in Seq(Digits) /\ op2 \in Seq(Digits)
      /\ dst # <<>> /\ op1 # <<>> /\ op2 # <<>>
  BY ParserAssumption DEF Digits
<1>2. /\ call \in Seq(Pieces) /\ Has(call, 0, <<keyword, "-">>)
      /\ \A i \in 2 .. Len(call) : call[i] \in Digits \cup {"-"}
  <2>1. call = CallText(keyword, dst, op1, op2)
    OBVIOUS
  <2> DEFINE b == 2 + Len(dst)
             c == b + 1 + Len(op1)
  <2>2. b = 2 + Len(dst) /\ c = b + 1 + Len(op1)
    OBVIOUS
  <2> HIDE DEF call, b, c
  <2>3. IsCall(call, keyword, dst, op1, op2, b, c)
    BY <1>1, <2>1, <2>2, CallParts
  <2> QED BY <2>3 DEF IsCall
<1>3. gate \in Gates
  <2>1. keyword = "INV" => gate = Gate("xor", Atoui(dst), -1, Atoui(op1))
    BY DEF WrittenGate
  <2>2. keyword # "INV" => gate = Gate(IF keyword = "AND" THEN "and" ELSE "xor",
                                       Atoui(dst), Atoui(op1), Atoui(op2))
    BY DEF WrittenGate
  <2>3. (IF keyword = "AND" THEN "and" ELSE "xor") \in {"and", "xor"}
    OBVIOUS
  <2> HIDE DEF gate
  <2> QED BY <1>1, <2>1, <2>2, <2>3 DEF Gates
<1> HIDE DEF call, gate
<1>4. <<"-", "7", "-">> \in Seq(Pieces) /\ Len(<<"-", "7", "-">>) = 3
  BY DigitsArePieces
<1>5. /\ line \in Seq(Pieces) /\ Has(line, 0, call) /\ Has(line, Len(call), <<"-", "7", "-">>)
      /\ Len(line) = Len(call) + 3
  <2> HIDE DEF call
  <2>1. /\ Has(line, 0, call) /\ Has(line, Len(call), <<"-", "7", "-">>)
        /\ Len(line) = Len(call) + Len(<<"-", "7", "-">>)
    BY <1>2, <1>4, HasParts
  <2>2. line \in Seq(Pieces)
    BY <1>2, <1>4
  <2> HIDE DEF line
  <2> QED BY <1>4, <2>1, <2>2
<1>6. Len(call) \in Nat /\ Len(line) \in Nat /\ n \in Nat /\ N \in Nat
  BY <1>2, <1>5
<1> HIDE DEF line
<1>7. line[1] = keyword /\ line[Len(line)] = "-" /\ Len(call) >= 2
  <2>1. call[0 + 1] = keyword /\ Len(call) >= 2
    <3>1. Len(<<keyword, "-">>) = 2
      OBVIOUS
    <3> QED BY <1>2, <1>6, <3>1 DEF Has
  <2>2. line[0 + 1] = call[1]
    BY <1>5, <1>6, <2>1 DEF Has
  <2>3. line[Len(call) + 3] = "-"
    BY <1>4, <1>5 DEF Has
  <2> QED BY <1>5, <2>1, <2>2, <2>3
<1>8. \A i \in 2 .. Len(line) : line[i] \in Digits \cup {"-"}
  <2> SUFFICES ASSUME NEW i \in 2 .. Len(line) PROVE line[i] \in Digits \cup {"-"}
    OBVIOUS
  <2>1. CASE i <= Len(call)
    <3>1. line[0 + i] = call[i] /\ i \in 2 .. Len(call) /\ 0 + i = i
      BY <1>5, <1>6, <2>1 DEF Has
    <3> QED BY <1>2, <3>1
  <2>2. CASE i > Len(call)
    <3>1. i \in {Len(call) + 1, Len(call) + 2, Len(call) + 3}
      <4>1. i \in Nat /\ i <= Len(call) + 3
        BY <1>5, <1>6
      <4>2. i = Len(call) + 1 \/ i = Len(call) + 2 \/ i = Len(call) + 3
        BY <1>6, <2>2, <4>1
      <4> QED BY <4>2
    <3>2. line[Len(call) + 1] = "-" /\ line[Len(call) + 2] = "7" /\ line[Len(call) + 3] = "-"
      BY <1>4, <1>5 DEF Has
    <3> QED BY <3>1, <3>2, DigitsArePieces
  <2> QED BY <1>6, <2>1, <2>2
<1>9. /\ text \in Seq(Pieces) /\ Begins(full, text) /\ Has(text, n, line)
      /\ Len(text) = n + Len(line) /\ (Len(text) > 0 => text[Len(text)] = "-")
  BY <1>5, <1>7, LineWritten DEF Listing
<1> HIDE DEF text
<1>10. Len(starts) = N /\ CallsIn(full, starts, calls) /\ KeywordsIn(full, starts)
  BY DEF Listing, CallsIn
<1>11. /\ after \in Seq(Nat \ {0}) /\ Len(after) = N + 1 /\ after[N + 1] = n + 1
       /\ \A j \in 1 .. N : after[j] = starts[j]
  <2>1. n + 1 \in Nat \ {0}
    BY <1>6
  <2> QED BY <1>6, <1>10, <2>1
<1>12. w \in Calls /\ w.gate = gate /\ w.complete = n + Len(call)
  BY <1>3, <1>6 DEF Calls
<1>13. /\ longer \in Seq(Calls) /\ Len(longer) = N + 1 /\ longer[N + 1] = w
       /\ \A j \in 1 .. N : longer[j] = calls[j]
  <2> HIDE DEF w
  <2> QED BY <1>6, <1>12
<1> HIDE DEF after, longer, w
<1>14. KeywordsIn(text, after)
  <2>1. ASSUME NEW i \in 1 .. Len(line), line[i] \in GateKeywords
        PROVE  \E j \in 1 .. Len(after) : after[j] = n + i
    <3>1. i = 1
      <4>1. i # 1 => i \in 2 .. Len(line)
        BY <1>6
      <4>2. \A d \in Digits \cup {"-"} : d \notin GateKeywords
        BY PiecesApart DEF Keywords
      <4> QED BY <1>8, <2>1, <4>1, <4>2
    <3>2. N + 1 \in 1 .. Len(after) /\ after[N + 1] = n + i
      BY <1>6, <1>11, <3>1
    <3> QED BY <3>2
  <2>2. Len(starts) \in Nat /\ Len(after) \in Nat /\ Len(starts) <= Len(after)
    BY <1>6, <1>10, <1>11
  <2>3. \A j \in 1 .. Len(starts) : after[j] = starts[j]
    BY <1>10, <1>11
  <2> QED BY <1>5, <1>9, <1>10, <2>1, <2>2, <2>3, KeywordsWritten
<1>15. \E b, c \in Nat : CallAt(text, n + 1, b, c, w)
  <2>1. Has(text, n + 0, call) /\ Has(text, n + Len(call), <<"-", "7", "-">>)
    <3>1. Len(text) \in Nat
      BY <1>9
    <3> QED BY <1>4, <1>5, <1>6, <1>9, <3>1, HasWithin
  <2>2. Has(text, n, call) /\ Has(text, w.complete, <<"-", "7", "-">>)
    <3>1. n + 0 = n
      BY <1>6
    <3> QED BY <1>12, <2>1, <3>1
  <2>3. n > 0 => text[n] = "-"
    BY <1>6, <1>9 DEF Listing, Begins
  <2> QED BY <1>1, <1>6, <1>9, <1>12, <2>2, <2>3, CallWritten DEF call, gate
<1>16. ASSUME NEW j \in 1 .. N
       PROVE  /\ \E b, c \in Nat : CallAt(text, starts[j], b, c, calls[j])
              /\ calls[j].complete + 3 <= n
  <2>1. PICK b \in Nat, c \in Nat : CallAt(full, starts[j], b, c, calls[j])
    BY <1>10 DEF CallsIn
  <2>2. starts[j] \in Nat \ {0} /\ calls[j].complete \in Nat
    <3>1. j \in 1 .. Len(starts) /\ calls[j] \in Calls
      BY <1>10
    <3> QED BY <3>1 DEF Calls
  <2>3. CallAt(text, starts[j], b, c, calls[j])
    BY <1>9, <2>1, <2>2, CallExtended
  <2>4. calls[j].complete + 3 <= n
    BY <2>1 DEF CallAt
  <2> QED BY <2>3, <2>4
<1>17. CallsIn(text, after, longer)
  <2>1. Len(after) = Len(longer)
    BY <1>11, <1>13
  <2>2. ASSUME NEW j \in 1 .. Len(longer)
        PROVE  \E b, c \in Nat : CallAt(text, after[j], b, c, longer[j])
    <3>1. CASE j \in 1 .. N
      <4>1. after[j] = starts[j] /\ longer[j] = calls[j]
        BY <1>11, <1>13, <3>1
      <4>2. \E b, c \in Nat : CallAt(text, starts[j], b, c, calls[j])
        BY <1>16, <3>1
      <4> QED BY <4>1, <4>2
    <3>2. CASE j = N + 1
      <4>1. after[j] = n + 1 /\ longer[j] = w
        BY <1>11, <1>13, <3>2
      <4> QED BY <1>15, <4>1
    <3>3. j \in 1 .. N \/ j = N + 1
      BY <1>6, <1>13
    <3> QED BY <3>1, <3>2, <3>3
  <2>3. ASSUME NEW j \in 1 .. Len(longer), NEW l \in 1 .. Len(longer), j < l
        PROVE  longer[j].complete + 3 < after[l]
    <3>1. j \in 1 .. N /\ longer[j] = calls[j]
      BY <1>6, <1>13, <2>3
    <3>2. CASE l \in 1 .. N
      <4>1. calls[j].complete + 3 < starts[l]
        BY <1>10, <2>3, <3>1, <3>2 DEF CallsIn
      <4> QED BY <1>11, <3>1, <3>2, <4>1
    <3>3. CASE l = N + 1
      <4>1. calls[j].complete + 3 <= n /\ calls[j].complete \in Nat
        <5>1. calls[j] \in Calls
          BY <3>1
        <5> QED BY <1>16, <3>1, <5>1 DEF Calls
      <4> QED BY <1>6, <1>11, <3>1, <3>3, <4>1
    <3> QED BY <1>6, <1>13, <3>2, <3>3
  <2> QED BY <2>1, <2>2, <2>3 DEF CallsIn
<1>18. Listing(text, after, longer)
  BY <1>9, <1>14, <1>17 DEF Listing
<1> QED BY <1>9, <1>11, <1>13, <1>18 DEF text, line, after, longer, w, call, gate

-----------------------------------------------------------------------------
(* What the parser has read.  The first m calls are gates of its result;   *)
(* the tokenizer stands behind them, not behind the next one's beginning,  *)
(* and at no place where a name looks like a keyword.                      *)
ReadTo(m, starts) ==
  /\ m \in 0 .. Len(written)
  /\ result = [i \in 1 .. m |-> written[i].gate]
  /\ cur \in 1 .. Len(source) + 1 /\ Safe(source, cur)
  /\ \A i \in 1 .. m : written[i].complete <= Len(source) /\ written[i].complete < cur
  /\ m < Len(written) => cur <= starts[m + 1]

(* The calls that are complete are the first ones, and the result has      *)
(* their gates.                                                            *)
Parsed == \E m \in 0 .. Len(written) :
            /\ result = [i \in 1 .. m |-> written[i].gate]
            /\ \A j \in 1 .. Len(written) : written[j].complete <= Len(source) <=> j <= m

(* Before the parser gets it the listing is whole; then it may break off.  *)
ParserInv ==
  /\ state \in {"write", "parse", "done"}
  /\ source \in Seq(Pieces) /\ written \in Seq(Calls)
  /\ state # "done" =>
       \E full \in Seq(Pieces), starts \in Seq(Nat \ {0}) :
         /\ Listing(full, starts, written) /\ Cut(source, full)
         /\ state = "write" => source = full /\ cur = 1 /\ result = <<>>
         /\ state = "parse" => \E m \in Nat : ReadTo(m, starts)
  /\ state = "done" => Parsed

LEMMA CutOfAll ==
  ASSUME NEW full \in Seq(Pieces)
  PROVE  Cut(full, full)
BY DEF Cut, Begins

LEMMA ParserBegins == CircuitParser_New => ParserInv
<1> SUFFICES ASSUME CircuitParser_New PROVE ParserInv
  OBVIOUS
<1> USE DEF CircuitParser_New
<1>1. Listing(<<>>, <<>>, <<>>)
  BY DEF Listing, CallsIn, KeywordsIn
<1>2. <<>> \in Seq(Pieces) /\ <<>> \in Seq(Nat \ {0}) /\ <<>> \in Seq(Calls)
  OBVIOUS
<1>3. Cut(<<>>, <<>>)
  BY <1>2, CutOfAll
<1>4. state = "write" /\ source = <<>> /\ written = <<>> /\ cur = 1 /\ result = <<>>
  OBVIOUS
<1> QED BY ONLY <1>1, <1>2, <1>3, <1>4 DEF ParserInv

(* The listing grows by whole lines.                                       *)
LEMMA ListingGrows ==
  ASSUME ParserInv, state = "write", state' = state, cur' = cur, result' = result,
         source' \in Seq(Pieces), written' \in Seq(Calls),
         \A starts \in Seq(Nat \ {0}) :
           Listing(source, starts, written) =>
             \E after \in Seq(Nat \ {0}) : Listing(source', after, written')
  PROVE  ParserInv'
<1>1. PICK starts \in Seq(Nat \ {0}) : Listing(source, starts, written)
  BY DEF ParserInv
<1>2. PICK after \in Seq(Nat \ {0}) : Listing(source', after, written')
  BY <1>1
<1>3. Cut(source', source')
  BY CutOfAll
<1>4. state' = "write" /\ cur' = 1 /\ result' = <<>>
  BY DEF ParserInv
<1> QED BY <1>2, <1>3, <1>4 DEF ParserInv

LEMMA NoiseKeeps ==
  ASSUME ParserInv, NEW line \in Noise, WriteNoise(line)
  PROVE  ParserInv'
<1>1. /\ state = "write" /\ state' = state /\ cur' = cur /\ result' = result
      /\ source' = source \o line /\ written' = written
  BY DEF WriteNoise, Writes
<1>2. source \in Seq(Pieces) /\ written \in Seq(Calls) /\ line \in Seq(Pieces)
  BY ParserAssumption DEF ParserInv
<1>3. ASSUME NEW starts \in Seq(Nat \ {0}), Listing(source, starts, written)
      PROVE  Listing(source', starts, written')
  BY <1>1, <1>2, <1>3, NoiseWritten
<1>4. source' \in Seq(Pieces) /\ written' \in Seq(Calls)
  BY <1>1, <1>2
<1> QED BY <1>1, <1>3, <1>4, ListingGrows

LEMMA GateKeeps ==
  ASSUME ParserInv, NEW keyword \in GateKeywords, NEW dst \in Numbers, NEW op1 \in Numbers,
         NEW op2 \in Numbers, WriteGate(keyword, dst, op1, op2)
  PROVE  ParserInv'
<1> DEFINE call == CallText(keyword, dst, op1, op2)
           w == [gate |-> WrittenGate(keyword, dst, op1, op2),
                 complete |-> Len(source) + Len(call)]
<1>1. /\ state = "write" /\ state' = state /\ cur' = cur /\ result' = result
      /\ source' = source \o (call \o <<"-", "7", "-">>) /\ written' = Append(written, w)
  BY DEF WriteGate, Writes, CallText, WrittenGate
<1>2. source \in Seq(Pieces) /\ written \in Seq(Calls)
  BY DEF ParserInv
<1>3. ASSUME NEW starts \in Seq(Nat \ {0}), Listing(source, starts, written)
      PROVE  /\ source' \in Seq(Pieces) /\ written' \in Seq(Calls)
             /\ Append(starts, Len(source) + 1) \in Seq(Nat \ {0})
             /\ Listing(source', Append(starts, Len(source) + 1), written')
  <2> HIDE DEF call
  <2> QED BY <1>1, <1>2, <1>3, GateWritten DEF call
<1>4. \E starts \in Seq(Nat \ {0}) : Listing(source, starts, written)
  BY <1>1 DEF ParserInv
<1>5. source' \in Seq(Pieces) /\ written' \in Seq(Calls)
  <2> HIDE DEF call, w
  <2> QED BY <1>3, <1>4
<1>6. \A starts \in Seq(Nat \ {0}) :
        Listing(source, starts, written) =>
          \E after \in Seq(Nat \ {0}) : Listing(source', after, written')
  <2> HIDE DEF call, w
  <2> QED BY <1>3
<1> HIDE DEF call, w
<1> QED BY <1>1, <1>5, <1>6, ListingGrows

LEMMA SubmitKeeps ==
  ASSUME ParserInv, NEW k \in 0 .. Len(source), Submit(k)
  PROVE  ParserInv'
<1>1. /\ state = "write" /\ state' = "parse" /\ (k < Len(source) => ~IsDigit(source[k + 1]))
      /\ source' = SubSeq(source, 1, k)
      /\ written' = written /\ cur' = cur /\ result' = result
  BY DEF Submit
<1>2. PICK starts \in Seq(Nat \ {0}) : Listing(source, starts, written)
  BY <1>1 DEF ParserInv
<1>3. source \in Seq(Pieces) /\ written \in Seq(Calls) /\ cur = 1 /\ result = <<>>
  BY <1>1 DEF ParserInv
<1>4. source' \in Seq(Pieces) /\ Len(source') = k /\ \A i \in 1 .. k : source'[i] = source[i]
  BY <1>1, <1>3
<1>5. Cut(source', source)
  BY <1>1, <1>3, <1>4 DEF Cut, Begins, IsDigit, Digits
<1>6. Listing(source, starts, written')
  BY <1>1, <1>2
<1>7. ReadTo(0, starts)'
  <2>1. Len(written) \in Nat /\ 0 \in 0 .. Len(written)
    BY <1>3
  <2>2. result' = [i \in 1 .. 0 |-> written'[i].gate]
    BY <1>1, <1>3
  <2>3. cur' \in 1 .. Len(source') + 1
    BY <1>1, <1>3, <1>4
  <2>4. Safe(source', cur')
    BY <1>1, <1>3 DEF Safe
  <2>5. 0 < Len(written) => cur' <= starts[0 + 1]
    <3>1. Len(starts) = Len(written)
      BY <1>2 DEF Listing, CallsIn
    <3>2. 0 < Len(written) => starts[0 + 1] \in Nat \ {0}
      BY <2>1, <3>1
    <3> QED BY <1>1, <1>3, <3>2
  <2> QED BY <1>1, <2>1, <2>2, <2>3, <2>4, <2>5 DEF ReadTo
<1> QED BY <1>1, <1>3, <1>4, <1>5, <1>6, <1>7 DEF ParserInv

(* Where the next call begins, or behind a listing without another.        *)
NextStart(m, starts, full) == IF m < Len(written) THEN starts[m + 1] ELSE Len(full) + 1

LEMMA NextStartIs ==
  ASSUME source \in Seq(Pieces), written \in Seq(Calls), NEW full \in Seq(Pieces),
         NEW starts \in Seq(Nat \ {0}), Listing(full, starts, written), Cut(source, full),
         NEW m \in Nat, ReadTo(m, starts), NEW s, s = NextStart(m, starts, full)
  PROVE  Quiet(cur, s) /\ cur <= s
<1>1. Len(source) \in Nat /\ Len(full) \in Nat /\ Len(written) \in Nat /\ Len(source) <= Len(full)
  BY DEF Cut, Begins
<1>2. cur \in 1 .. Len(source) + 1 /\ m \in 0 .. Len(written)
  BY DEF ReadTo
<1>3. Len(starts) = Len(written)
  BY DEF Listing, CallsIn
<1>4. s \in Nat \ {0} /\ cur <= s
  <2>1. CASE m < Len(written)
    <3>1. m + 1 \in 1 .. Len(starts)
      BY <1>1, <1>2, <1>3, <2>1
    <3>2. s = starts[m + 1] /\ starts[m + 1] \in Nat \ {0}
      BY <2>1, <3>1 DEF NextStart
    <3> QED BY <2>1, <3>2 DEF ReadTo
  <2>2. CASE ~(m < Len(written))
    <3>1. s = Len(full) + 1
      BY <2>2 DEF NextStart
    <3> QED BY <1>1, <1>2, <3>1
  <2> QED BY <2>1, <2>2
<1>5. s <= Len(source) =>
        /\ source[s] \in GateKeywords
        /\ s > 1 => source[s - 1] = "-"
        /\ s < Len(source) => source[s + 1] = "-"
  <2> SUFFICES ASSUME s <= Len(source)
               PROVE  /\ source[s] \in GateKeywords
                      /\ s > 1 => source[s - 1] = "-"
                      /\ s < Len(source) => source[s + 1] = "-"
    OBVIOUS
  <2>1. m < Len(written) /\ s = starts[m + 1]
    BY <1>1, <1>4 DEF NextStart
  <2>2. m + 1 \in 1 .. Len(written)
    BY <1>1, <1>2, <2>1
  <2>3. PICK b \in Nat, c \in Nat : CallAt(full, s, b, c, written[m + 1])
    BY <2>1, <2>2 DEF Listing, CallsIn
  <2>4. full[s] \in GateKeywords /\ (s > 1 => full[s - 1] = "-") /\ full[s + 1] = "-"
    BY <2>3 DEF CallAt
  <2>5. /\ s \in 1 .. Len(source) /\ (s > 1 => s - 1 \in 1 .. Len(source))
        /\ s < Len(source) => s + 1 \in 1 .. Len(source)
    BY <1>1, <1>4
  <2>6. \A i \in 1 .. Len(source) : source[i] = full[i]
    BY DEF Cut, Begins
  <2> QED BY <2>4, <2>5, <2>6
<1>6. ASSUME NEW p \in cur .. Len(source), p < s, source[p] \in GateKeywords
      PROVE  InName(source, p) \/ p = Len(source)
  <2>1. p \in 1 .. Len(source) /\ p \in 1 .. Len(full)
    BY <1>1, <1>2
  <2>2. \A i \in 1 .. Len(source) : source[i] = full[i]
    BY DEF Cut, Begins
  <2>3. InName(full, p) \/ \E j \in 1 .. Len(starts) : starts[j] = p
    <3>1. full[p] \in GateKeywords
      BY <1>6, <2>1, <2>2
    <3> QED BY <2>1, <3>1 DEF Listing, KeywordsIn
  <2>4. ASSUME NEW j \in 1 .. Len(starts), starts[j] = p PROVE FALSE
    <3>1. j \in 1 .. Len(written) /\ written[j] \in Calls
      BY <1>3
    <3>2. PICK b \in Nat, c \in Nat : CallAt(full, p, b, c, written[j])
      BY <2>4, <3>1 DEF Listing, CallsIn
    <3>3. written[j].complete \in Nat /\ p \in Nat \ {0}
      BY <2>1, <3>1 DEF Calls
    <3>4. p + 2 <= b /\ b + 2 <= c /\ c <= written[j].complete
      BY <3>2, <3>3, CallOrder
    <3>5. CASE j <= m
      <4>1. j \in 1 .. m
        BY <1>2, <3>1, <3>5
      <4>2. written[j].complete < cur
        BY <4>1 DEF ReadTo
      <4> QED BY <1>2, <3>3, <3>4, <4>2
    <3>6. CASE j > m
      <4>1. m < Len(written) /\ s = starts[m + 1] /\ m + 1 \in 1 .. Len(written)
        BY <1>1, <1>2, <3>1, <3>6 DEF NextStart
      <4>2. j # m + 1
        BY <1>4, <1>6, <2>4, <4>1, <3>3
      <4>3. m + 1 < j
        BY <1>2, <3>1, <3>6, <4>2
      <4>4. written[m + 1].complete + 3 < starts[j]
        BY <3>1, <4>1, <4>3 DEF Listing, CallsIn
      <4>5. PICK b1 \in Nat, c1 \in Nat : CallAt(full, s, b1, c1, written[m + 1])
        BY <4>1 DEF Listing, CallsIn
      <4>6. written[m + 1].complete \in Nat
        <5>1. written[m + 1] \in Calls
          BY <4>1
        <5> QED BY <5>1 DEF Calls
      <4>7. s + 2 <= b1 /\ b1 + 2 <= c1 /\ c1 <= written[m + 1].complete
        BY <1>4, <4>5, <4>6, CallOrder
      <4>8. written[m + 1].complete + 3 < p
        BY <2>4, <4>4
      <4>9. s <= written[m + 1].complete
        BY ONLY <1>4, <4>5, <4>6, <4>7
      <4> QED BY ONLY <1>4, <1>6, <3>3, <4>6, <4>8, <4>9
    <3> QED BY <1>2, <3>1, <3>5, <3>6
  <2>5. InName(full, p)
    BY <2>3, <2>4
  <2>6. CASE p < Len(source)
    <3>1. CASE p < Len(full) /\ full[p + 1] \in NamePieces
      <4>1. p + 1 \in 1 .. Len(source)
        BY <1>1, <2>1, <2>6
      <4> QED BY <2>2, <2>6, <3>1, <4>1 DEF InName
    <3>2. CASE \E j \in 1 .. p - 1 : /\ full[j] \in NamePieces \ Range(Numerals)
                                     /\ \A k \in j .. p - 1 : full[k] \in NamePieces
      <4>1. PICK j \in 1 .. p - 1 : /\ full[j] \in NamePieces \ Range(Numerals)
                                    /\ \A k \in j .. p - 1 : full[k] \in NamePieces
        BY <3>2
      <4>2. \A k \in j .. p - 1 : k \in 1 .. Len(source)
        BY <1>1, <2>1
      <4>3. source[j] = full[j] /\ \A k \in j .. p - 1 : source[k] = full[k]
        BY <2>1, <2>2, <4>2
      <4> QED BY <4>1, <4>3 DEF InName
    <3> QED BY <2>5, <3>1, <3>2 DEF InName
  <2> QED BY <1>1, <2>1, <2>6
<1> QED BY <1>4, <1>5, <1>6 DEF Quiet

(* The calls from m on begin at s or behind, and are complete behind that. *)
LEMMA LaterCalls ==
  ASSUME written \in Seq(Calls), NEW full \in Seq(Pieces), NEW starts \in Seq(Nat \ {0}),
         Listing(full, starts, written), NEW m \in Nat, NEW j \in 1 .. Len(written), m < j
  PROVE  /\ m + 1 \in 1 .. Len(written) /\ starts[m + 1] \in Nat \ {0}
         /\ written[m + 1].complete \in Nat /\ written[j].complete \in Nat
         /\ starts[m + 1] + 3 < written[m + 1].complete
         /\ written[m + 1].complete <= written[j].complete
         /\ \E b, c \in Nat : CallAt(full, starts[m + 1], b, c, written[m + 1])
<1>1. m + 1 \in 1 .. Len(written) /\ Len(starts) = Len(written)
  <2>1. Len(starts) = Len(written)
    BY DEF Listing, CallsIn
  <2>2. Len(written) \in Nat
    OBVIOUS
  <2> QED BY <2>1, <2>2
<1>2. ASSUME NEW l \in 1 .. Len(written)
      PROVE  /\ written[l].complete \in Nat /\ starts[l] \in Nat \ {0}
             /\ starts[l] + 3 < written[l].complete
             /\ \E b, c \in Nat : CallAt(full, starts[l], b, c, written[l])
  <2>1. written[l] \in Calls /\ starts[l] \in Nat \ {0}
    BY <1>1
  <2>2. written[l].complete \in Nat
    BY <2>1 DEF Calls
  <2>3. PICK b \in Nat, c \in Nat : CallAt(full, starts[l], b, c, written[l])
    BY DEF Listing, CallsIn
  <2>4. starts[l] + 2 <= b /\ b + 2 <= c /\ c <= written[l].complete
    BY <2>1, <2>2, <2>3, CallOrder
  <2>5. starts[l] + 3 < written[l].complete
    BY <2>1, <2>2, <2>4
  <2> QED BY <2>1, <2>2, <2>3, <2>5
<1>3. written[m + 1].complete <= written[j].complete
  <2>1. CASE j = m + 1
    BY <1>1, <1>2, <2>1
  <2>2. CASE j # m + 1
    <3>1. m + 1 < j
      BY <2>2
    <3>2. written[m + 1].complete + 3 < starts[j]
      BY <1>1, <3>1 DEF Listing, CallsIn
    <3>3. /\ written[m + 1].complete \in Nat /\ written[j].complete \in Nat
          /\ starts[j] \in Nat \ {0} /\ starts[j] + 3 < written[j].complete
      BY <1>1, <1>2
    <3>4. \A x, y, z \in Nat : x + 3 < y /\ y + 3 < z => x <= z
      OBVIOUS
    <3> QED BY ONLY <3>2, <3>3, <3>4
  <2> QED BY <2>1, <2>2
<1> QED BY <1>1, <1>2, <1>3

(* What it stops with, when no more call is complete.                      *)
LEMMA StopsWith ==
  ASSUME source \in Seq(Pieces), written \in Seq(Calls), NEW full \in Seq(Pieces),
         NEW starts \in Seq(Nat \ {0}), Listing(full, starts, written),
         NEW m \in Nat, ReadTo(m, starts),
         m < Len(written) => Len(source) < written[m + 1].complete,
         state' = "done", UNCHANGED <<source, written, result>>
  PROVE  ParserInv'
<1>1. Len(source) \in Nat /\ Len(written) \in Nat /\ m \in 0 .. Len(written)
      /\ result = [i \in 1 .. m |-> written[i].gate]
  BY DEF ReadTo
<1>2. ASSUME NEW j \in 1 .. Len(written)
      PROVE  written[j].complete <= Len(source) <=> j <= m
  <2>1. CASE j <= m
    <3>1. j \in 1 .. m
      BY <1>1, <2>1
    <3> QED BY <2>1, <3>1 DEF ReadTo
  <2>2. CASE ~(j <= m)
    <3>1. m < j /\ m < Len(written)
      BY <1>1, <2>2
    <3>2. /\ written[m + 1].complete \in Nat /\ written[j].complete \in Nat
          /\ written[m + 1].complete <= written[j].complete
      BY <3>1, LaterCalls
    <3> QED BY <1>1, <2>2, <3>1, <3>2
  <2> QED BY <2>1, <2>2
<1>3. source' = source /\ written' = written /\ result' = result
  OBVIOUS
<1>4. Parsed'
  BY <1>1, <1>2, <1>3 DEF Parsed
<1> QED BY <1>3, <1>4 DEF ParserInv

LEMMA GatesAppended ==
  ASSUME NEW f, NEW m \in Nat, NEW g
  PROVE  LET s == [i \in 1 .. m |-> f[i].gate]
         IN  g = f[m + 1].gate => Append(s, g) = [i \in 1 .. m + 1 |-> f[i].gate]
<1> DEFINE T == {f[i].gate : i \in 1 .. m + 1}
           s == [i \in 1 .. m |-> f[i].gate]
           t == [i \in 1 .. m + 1 |-> f[i].gate]
<1> SUFFICES ASSUME g = f[m + 1].gate PROVE Append(s, g) = t
  OBVIOUS
<1>1. s \in Seq(T) /\ g \in T /\ Len(s) = m
  OBVIOUS
<1>2. t \in Seq(T) /\ Len(t) = m + 1
  OBVIOUS
<1>3. /\ Append(s, g) \in Seq(T) /\ Len(Append(s, g)) = m + 1
      /\ \A i \in 1 .. m + 1 : Append(s, g)[i] = IF i = m + 1 THEN g ELSE s[i]
  <2> HIDE DEF s, T
  <2> QED BY <1>1
<1>4. \A i \in 1 .. m + 1 : Append(s, g)[i] = t[i]
  <2>1. \A i \in 1 .. m + 1 : i # m + 1 => i \in 1 .. m
    OBVIOUS
  <2>2. \A i \in 1 .. m : s[i] = f[i].gate
    OBVIOUS
  <2>3. \A i \in 1 .. m + 1 : t[i] = f[i].gate
    OBVIOUS
  <2> HIDE DEF s, t, T
  <2> QED BY <1>3, <2>1, <2>2, <2>3
<1> HIDE DEF s, t, T
<1> QED BY <1>2, <1>3, <1>4

(* The parser reads on behind a token that begins no gate.                 *)
LEMMA ReadsOn ==
  ASSUME ParserInv, source \in Seq(Pieces), written \in Seq(Calls), NEW full \in Seq(Pieces),
         NEW starts \in Seq(Nat \ {0}), Listing(full, starts, written), Cut(source, full),
         NEW m \in Nat, ReadTo(m, starts), NEW end \in cur + 1 .. Len(source) + 1,
         end <= NextStart(m, starts, full), Safe(source, end),
         state' = "parse", cur' = end, UNCHANGED <<source, written, result>>
  PROVE  ParserInv'
<1>1. source' = source /\ written' = written /\ result' = result
  OBVIOUS
<1>2. cur \in 1 .. Len(source) + 1 /\ m \in 0 .. Len(written) /\ Len(source) \in Nat /\ Len(written) \in Nat
  BY DEF ReadTo
<1>3. \A i \in 1 .. m : written[i].complete <= Len(source) /\ written[i].complete < end
  <2> SUFFICES ASSUME NEW i \in 1 .. m
               PROVE  written[i].complete <= Len(source) /\ written[i].complete < end
    OBVIOUS
  <2>1. written[i] \in Calls
    BY <1>2
  <2>2. written[i].complete \in Nat
    BY <2>1 DEF Calls
  <2>3. written[i].complete <= Len(source) /\ written[i].complete < cur
    BY DEF ReadTo
  <2> QED BY <1>2, <2>2, <2>3
<1>4. m < Len(written) => end <= starts[m + 1]
  BY DEF NextStart
<1>5. end \in 1 .. Len(source) + 1
  BY <1>2
<1>6. ReadTo(m, starts)'
  BY <1>1, <1>2, <1>3, <1>4, <1>5 DEF ReadTo
<1>7. Listing(full, starts, written') /\ Cut(source', full)
  BY <1>1
<1> QED BY <1>1, <1>6, <1>7 DEF ParserInv

(* A call that is there becomes the next gate.                             *)
LEMMA ReadsGate ==
  ASSUME ParserInv, source \in Seq(Pieces), written \in Seq(Calls), NEW full \in Seq(Pieces),
         NEW starts \in Seq(Nat \ {0}), Listing(full, starts, written), Cut(source, full),
         NEW m \in Nat, ReadTo(m, starts), m < Len(written),
         written[m + 1].complete <= Len(source),
         NEW gate, gate = written[m + 1].gate, NEW end,
         end \in written[m + 1].complete + 1 .. written[m + 1].complete + 3,
         end <= Len(source) + 1, Safe(source, end),
         state' = "parse", result' = Append(result, gate), cur' = end,
         UNCHANGED <<source, written>>
  PROVE  ParserInv'
<1>1. source' = source /\ written' = written
  OBVIOUS
<1>2. cur \in 1 .. Len(source) + 1 /\ m \in 0 .. Len(written) /\ Len(source) \in Nat /\ Len(written) \in Nat
  BY DEF ReadTo
<1>3. m + 1 \in 1 .. Len(written) /\ m + 1 \in Nat /\ m + 1 \in 0 .. Len(written) /\ m < m + 1
  BY <1>2
<1>4. ASSUME NEW i \in 1 .. m + 1
      PROVE  written[i].complete <= Len(source) /\ written[i].complete < end
  <2>1. written[i] \in Calls /\ written[m + 1] \in Calls
    BY <1>2, <1>3
  <2>2. written[i].complete \in Nat /\ written[m + 1].complete \in Nat
    BY <2>1 DEF Calls
  <2>3. CASE i = m + 1
    BY <1>2, <2>2, <2>3
  <2>4. CASE i # m + 1
    <3>1. i \in 1 .. m
      BY <2>4
    <3>2. i \in 1 .. Len(written) /\ i < m + 1
      BY <1>2, <3>1
    <3>3. written[i].complete + 3 < starts[m + 1]
      BY <1>3, <3>2 DEF Listing, CallsIn
    <3>4. starts[m + 1] \in Nat \ {0} /\ starts[m + 1] + 3 < written[m + 1].complete
      BY <1>3, LaterCalls
    <3>5. \A x, y, z \in Nat : x + 3 < y /\ y + 3 < z => x < z
      OBVIOUS
    <3>6. written[i].complete < written[m + 1].complete
      BY ONLY <2>2, <3>3, <3>4, <3>5
    <3>7. end \in written[m + 1].complete + 1 .. written[m + 1].complete + 3
          /\ written[m + 1].complete <= Len(source)
      OBVIOUS
    <3>8. \A x, y, l \in Nat : \A e \in y + 1 .. y + 3 : x < y /\ y <= l => x <= l /\ x < e
      OBVIOUS
    <3> QED BY ONLY <1>2, <2>2, <3>6, <3>7, <3>8
  <2> QED BY <2>3, <2>4
<1>5. result' = [i \in 1 .. m + 1 |-> written[i].gate]
  <2>1. result = [i \in 1 .. m |-> written[i].gate]
    BY DEF ReadTo
  <2> QED BY <2>1, GatesAppended
<1>6. m + 1 < Len(written) => end <= starts[(m + 1) + 1]
  <2> SUFFICES ASSUME m + 1 < Len(written) PROVE end <= starts[(m + 1) + 1]
    OBVIOUS
  <2>1. (m + 1) + 1 \in 1 .. Len(written) /\ m + 1 < (m + 1) + 1
    BY <1>2
  <2>2. written[m + 1].complete + 3 < starts[(m + 1) + 1]
    BY <1>3, <2>1 DEF Listing, CallsIn
  <2>3. written[m + 1].complete \in Nat /\ starts[(m + 1) + 1] \in Nat \ {0}
    BY <1>3, <2>1, LaterCalls
  <2>4. end \in written[m + 1].complete + 1 .. written[m + 1].complete + 3
    OBVIOUS
  <2>5. \A x, y \in Nat : \A e \in x + 1 .. x + 3 : x + 3 < y => e <= y
    OBVIOUS
  <2> QED BY ONLY <2>2, <2>3, <2>4, <2>5
<1>7. end \in 1 .. Len(source) + 1
  <2>1. written[m + 1].complete \in Nat
    BY <1>3, LaterCalls
  <2> QED BY <1>2, <2>1
<1>8. ReadTo(m + 1, starts)'
  BY <1>1, <1>3, <1>4, <1>5, <1>6, <1>7 DEF ReadTo
<1>9. Listing(full, starts, written') /\ Cut(source', full)
  BY <1>1
<1> QED BY <1>1, <1>3, <1>8, <1>9 DEF ParserInv

LEMMA KeywordTypes ==
  /\ "MUL" \notin GateKeywords /\ "NUM" \notin GateKeywords /\ "DONE" \notin GateKeywords
  /\ "DONE" \notin {"MUL", "NUM"}
BY DEF GateKeywords

LEMMA ParseKeeps ==
  ASSUME ParserInv, ParseSource
  PROVE  ParserInv'
<1> DEFINE tok == NextToken(cur)
           args == Arguments(tok.type, tok.end)
           Reads == /\ tok.type \in GateKeywords /\ Numeric(tok.type, args)
                    /\ result' = Append(result, ParsedGate(tok.type, args))
                    /\ cur' = Last(args).end /\ state' = state
           Breaks == /\ tok.type \in GateKeywords /\ ~Numeric(tok.type, args)
                     /\ state' = "done" /\ cur' = cur /\ result' = result
           Skips == /\ tok.type \in {"MUL", "NUM"}
                    /\ cur' = tok.end /\ state' = state /\ result' = result
           Ends == /\ tok.type = "DONE" /\ state' = "done" /\ cur' = cur /\ result' = result
<1>1. /\ state = "parse" /\ source' = source /\ written' = written
      /\ Reads \/ Breaks \/ Skips \/ Ends
  BY DEF ParseSource
<1>2. source \in Seq(Pieces) /\ written \in Seq(Calls)
  BY DEF ParserInv
<1>3. PICK full \in Seq(Pieces), starts \in Seq(Nat \ {0}) :
        /\ Listing(full, starts, written) /\ Cut(source, full)
        /\ \E m \in Nat : ReadTo(m, starts)
  BY <1>1 DEF ParserInv
<1>4. PICK m \in Nat : ReadTo(m, starts)
  BY <1>3
<1>5. PICK s : s = NextStart(m, starts, full)
  OBVIOUS
<1>6. Quiet(cur, s) /\ cur <= s
  BY <1>2, <1>3, <1>4, <1>5, NextStartIs
<1>7. /\ cur \in 1 .. Len(source) + 1 /\ Safe(source, cur) /\ Len(source) \in Nat
      /\ m \in 0 .. Len(written) /\ Len(written) \in Nat /\ Len(source) <= Len(full) /\ Len(full) \in Nat
  BY <1>2, <1>3, <1>4 DEF ReadTo, Cut, Begins
<1> HIDE DEF tok
<1>8. Found(cur, s, tok)
  BY <1>2, <1>6, <1>7, TokenFound DEF tok
<1>9. s > Len(source) => (m < Len(written) => Len(source) < written[m + 1].complete)
  <2> SUFFICES ASSUME s > Len(source), m < Len(written)
               PROVE  Len(source) < written[m + 1].complete
    OBVIOUS
  <2>1. s = starts[m + 1]
    BY <1>5 DEF NextStart
  <2>2. m + 1 \in 1 .. Len(written) /\ m < m + 1
    BY <1>7
  <2>3. /\ starts[m + 1] \in Nat \ {0} /\ written[m + 1].complete \in Nat
        /\ starts[m + 1] + 3 < written[m + 1].complete
    BY <1>2, <1>3, <2>2, LaterCalls
  <2> QED BY <1>7, <2>1, <2>3
<1>10. ASSUME state' = "done", result' = result,
              m < Len(written) => Len(source) < written[m + 1].complete
       PROVE  ParserInv'
  BY <1>1, <1>2, <1>3, <1>4, <1>10, StopsWith
<1>11. CASE tok = Token("DONE", 0, Len(source) + 1) /\ s > Len(source)
  <2>1. tok.type = "DONE"
    BY <1>11 DEF Token
  <2>2. Ends
    BY <1>1, <2>1, KeywordTypes
  <2> QED BY <1>9, <1>10, <1>11, <2>2
<1>12. CASE /\ tok.type \in {"MUL", "NUM"} /\ tok.end \in cur + 1 .. Len(source) + 1
            /\ tok.end <= s /\ Safe(source, tok.end)
  <2>1. Skips
    BY <1>1, <1>12, KeywordTypes
  <2>2. state' = "parse" /\ cur' = tok.end /\ result' = result
    BY <1>1, <2>1
  <2> QED BY <1>1, <1>2, <1>3, <1>4, <1>5, <1>12, <2>2, ReadsOn
<1>13. CASE s <= Len(source) /\ tok = Token(source[s], 0, s + 1)
  <2>1. tok.type = source[s] /\ tok.end = s + 1
    BY <1>13 DEF Token
  <2>2. m < Len(written) /\ s = starts[m + 1]
    BY <1>5, <1>7, <1>13 DEF NextStart
  <2>3. m + 1 \in 1 .. Len(written) /\ m < m + 1
    BY <1>7, <2>2
  <2>4. /\ starts[m + 1] \in Nat \ {0} /\ written[m + 1].complete \in Nat
        /\ \E b, c \in Nat : CallAt(full, starts[m + 1], b, c, written[m + 1])
    BY <1>2, <1>3, <2>3, LaterCalls
  <2>5. PICK b \in Nat, c \in Nat : CallAt(full, s, b, c, written[m + 1])
    BY <2>2, <2>4
  <2>6. s \in 1 .. Len(source)
    BY <1>7, <1>13, <2>2, <2>4
  <2>7. source[s] = full[s] /\ full[s] \in GateKeywords
    BY <1>3, <2>5, <2>6 DEF Cut, Begins, CallAt
  <2>8. args = Arguments(full[s], s + 1)
    BY <2>1, <2>7
  <2> HIDE DEF args
  <2>9. CASE written[m + 1].complete <= Len(source)
    <3>1. /\ Numeric(full[s], args) /\ ParsedGate(full[s], args) = written[m + 1].gate
          /\ Last(args).end \in written[m + 1].complete + 1 .. written[m + 1].complete + 3
          /\ Last(args).end <= Len(source) + 1 /\ Safe(source, Last(args).end)
      <4>1. s \in Nat \ {0}
        BY <2>6
      <4>2. \A w : /\ w.complete \in Nat /\ CallAt(full, s, b, c, w)
                   /\ w.complete <= Len(source)
                   => /\ Numeric(full[s], args) /\ ParsedGate(full[s], args) = w.gate
                      /\ Last(args).end \in w.complete + 1 .. w.complete + 3
                      /\ Last(args).end <= Len(source) + 1 /\ Safe(source, Last(args).end)
        BY <1>2, <1>3, <2>5, <2>8, <4>1, CallRead
      <4> QED BY <2>4, <2>5, <2>9, <4>2
    <3>2. Reads
      BY <1>1, <2>1, <2>7, <3>1, KeywordTypes
    <3>3. /\ state' = "parse" /\ result' = Append(result, written[m + 1].gate)
          /\ cur' = Last(args).end
      BY <1>1, <2>1, <2>7, <3>1, <3>2
    <3> QED BY <1>1, <1>2, <1>3, <1>4, <2>2, <2>9, <3>1, <3>3, ReadsGate
  <2>10. CASE ~(written[m + 1].complete <= Len(source))
    <3>1. Len(source) < written[m + 1].complete
      BY <1>7, <2>4, <2>10
    <3>2. ~Numeric(full[s], args)
      <4>1. s \in Nat \ {0} /\ s <= Len(source)
        BY <2>6
      <4>2. \A w : w.complete \in Nat /\ CallAt(full, s, b, c, w) /\ Len(source) < w.complete
                  => ~Numeric(full[s], args)
        BY <1>2, <1>3, <2>5, <2>8, <4>1, BrokenCall
      <4> QED BY <2>4, <2>5, <3>1, <4>2
    <3>3. Breaks
      BY <1>1, <2>1, <2>7, <3>2, KeywordTypes
    <3> QED BY <1>10, <3>1, <3>3
  <2> QED BY <2>9, <2>10
<1>14. CASE tok.type \in GateKeywords /\ tok.end = Len(source) + 1 /\ s > Len(source)
  <2>1. NextToken(tok.end).type = "DONE"
    <3>1. NextToken(Len(source) + 1) = Token("DONE", 0, Len(source) + 1)
      BY <1>2, <1>7, NothingRead
    <3> QED BY <1>14, <3>1 DEF Token
  <2>2. args[1] = NextToken(tok.end)
    BY DEF Arguments
  <2>3. ~Numeric(tok.type, args)
    <3> HIDE DEF args
    <3>1. args[1].type # "NUM"
      BY <2>1, <2>2
    <3> QED BY <3>1 DEF Numeric
  <2> HIDE DEF args
  <2>4. Breaks
    BY <1>1, <1>14, <2>3, KeywordTypes
  <2> QED BY <1>9, <1>10, <1>14, <2>4
<1> QED BY <1>8, <1>11, <1>12, <1>13, <1>14 DEF Found

LEMMA ParserKeeps ==
  ASSUME ParserInv, [ParserNext]_parserVars
  PROVE  ParserInv'
<1>1. CASE \E line \in Noise : WriteNoise(line)
  BY <1>1, NoiseKeeps
<1>2. CASE \E keyword \in GateKeywords, dst, op1, op2 \in Numbers :
             WriteGate(keyword, dst, op1, op2)
  BY <1>2, GateKeeps
<1>3. CASE \E k \in 0 .. Len(source) : Submit(k)
  BY <1>3, SubmitKeeps
<1>4. CASE ParseSource
  BY <1>4, ParseKeeps
<1>5. CASE UNCHANGED parserVars
  <2>1. /\ state' = state /\ source' = source /\ written' = written
        /\ cur' = cur /\ result' = result
    BY <1>5 DEF parserVars
  <2>2. \A m, starts : ReadTo(m, starts) => ReadTo(m, starts)'
    BY <2>1 DEF ReadTo
  <2>3. Parsed => Parsed'
    BY <2>1 DEF Parsed
  <2> QED BY <2>1, <2>2, <2>3 DEF ParserInv
<1> QED BY <1>1, <1>2, <1>3, <1>4, <1>5 DEF ParserNext

LEMMA InvParses == ParserInv => ParsesListing
<1> SUFFICES ASSUME ParserInv, state = "done" PROVE ParsesListing
  BY DEF ParsesListing
<1>1. PICK m \in 0 .. Len(written) :
        /\ result = [i \in 1 .. m |-> written[i].gate]
        /\ \A j \in 1 .. Len(written) : written[j].complete <= Len(source) <=> j <= m
  BY DEF ParserInv, Parsed
<1>2. written \in Seq(Calls) /\ DOMAIN written = 1 .. Len(written) /\ Len(written) \in Nat
  BY DEF ParserInv
<1>3. {j \in DOMAIN written : written[j].complete <= Len(source)} = 1 .. m
  <2>1. \A j : j \in 1 .. m <=> j \in 1 .. Len(written) /\ j <= m
    BY <1>1, <1>2
  <2> QED BY <1>1, <1>2, <2>1
<1>4. Cardinality(1 .. m) = m
  <2>1. 1 \in Int /\ m \in Int /\ 1 <= m + 1 /\ (m - 1) + 1 = m
    BY <1>2
  <2> QED BY <1>1, <1>2, <2>1, FS_Interval
<1> QED BY <1>1, <1>3, <1>4 DEF ParsesListing

(* Of any listing, with any lines that are no gates, and wherever it       *)
(* breaks off, parseSource makes the list of the gates that are complete.  *)
THEOREM ListingsAreParsed == ParserSpec => []ParsesListing
<1>1. CircuitParser_New => ParserInv
  BY ParserBegins
<1>2. ParserInv /\ [ParserNext]_parserVars => ParserInv'
  BY ParserKeeps
<1>3. ParserInv => ParsesListing
  BY InvParses
<1> QED BY <1>1, <1>2, <1>3, PTL DEF ParserSpec
================================================================================
