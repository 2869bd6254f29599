--------------------------- MODULE SequenceLemmas ---------------------------
(***************************************************************************)
(* Facts about least elements, induction, functions defined step by step   *)
(* and the flattening of sequences, for the proofs about the components.   *)
(* FlattenSeq is the community modules' operator: it picks the function f  *)
(* with f[1] = s[1] and f[i] = f[i-1] \o s[i] and returns its last value.  *)
(***************************************************************************)
EXTENDS SequencesExt, WellFoundedInduction, SequenceTheorems, TLAPS

(* A set of numbers that is not empty has a least element.                 *)
LEMMA LeastElement ==
  ASSUME NEW S \in SUBSET Nat, S # {}
  PROVE  \E m \in S : \A k \in S : m <= k
<1> DEFINE R == OpToRel(<, Nat)
           Q == {ss \in Nat \X Nat : ss[1] < ss[2]}
<1>1. IsWellFoundedOn(R, Nat)
  BY NatLessThanWellFounded
<1>2. R = Q
  BY DEF OpToRel
<1>3. PICK m \in S : \A y \in S : ~ (<<y, m>> \in Q)
  <2> HIDE DEF R, Q
  <2> QED BY <1>1, <1>2, WFMin
<1>4. ASSUME NEW k \in S PROVE m <= k
  <2>1. k \in Nat /\ m \in Nat
    OBVIOUS
  <2>2. CASE k < m
    <3>1. <<k, m>> \in Q
      BY <2>1, <2>2
    <3> QED BY <3>1, <1>3
  <2> QED BY <2>1, <2>2
<1> QED BY <1>4

(* Induction over the numbers, for a set in place of a predicate.          *)
LEMMA SetInduction ==
  ASSUME NEW S, 0 \in S, \A n \in Nat : n \in S => n + 1 \in S
  PROVE  \A n \in Nat : n \in S
<1> DEFINE Bad == Nat \ S
<1>1. SUFFICES ASSUME Bad # {} PROVE FALSE
  OBVIOUS
<1>2. PICK m \in Bad : \A k \in Bad : m <= k
  BY <1>1, LeastElement
<1>3. m # 0 /\ m - 1 \in Nat /\ m - 1 \notin Bad
  BY <1>2
<1> QED BY <1>2, <1>3
-----------------------------------------------------------------------------
(* f is the function of FlattenSeq, for the first n members of s.          *)
Flattens(f, s, n) ==
  f = [i \in 1 .. n |-> IF i = 1 THEN s[i] ELSE f[i - 1] \o s[i]]

(* What such a function is, member by member.                              *)
LEMMA FlattensFirst ==
  ASSUME NEW s, NEW n \in Nat \ {0}, NEW f, Flattens(f, s, n)
  PROVE  f[1] = s[1]
BY DEF Flattens

LEMMA FlattensNext ==
  ASSUME NEW s, NEW n \in Nat, NEW f, Flattens(f, s, n),
         NEW i \in Nat \ {0}, i < n
  PROVE  f[i + 1] = f[i] \o s[i + 1]
<1>1. \A j \in 1 .. n : f[j] = IF j = 1 THEN s[j] ELSE f[j - 1] \o s[j]
  BY DEF Flattens
<1>2. i + 1 \in 1 .. n /\ i + 1 # 1 /\ (i + 1) - 1 = i
  OBVIOUS
<1>3. f[i + 1] = f[(i + 1) - 1] \o s[i + 1]
  BY <1>1, <1>2
<1> QED BY <1>2, <1>3

LEMMA FlattensExists ==
  ASSUME NEW s, NEW k \in Nat
  PROVE  \E f : Flattens(f, s, k)
<1> DEFINE P == {n \in Nat : \E f : Flattens(f, s, n)}
<1>1. 0 \in P
  <2>1. Flattens(<<>>, s, 0)
    BY DEF Flattens
  <2> QED BY <2>1
<1>2. ASSUME NEW n \in Nat, n \in P PROVE n + 1 \in P
  <2>1. PICK f : Flattens(f, s, n)
    BY <1>2
  <2> DEFINE v == IF n = 0 THEN s[1] ELSE f[n] \o s[n + 1]
             g == [i \in 1 .. n + 1 |-> IF i = n + 1 THEN v ELSE f[i]]
  <2>2. g = [i \in 1 .. n + 1 |-> g[i]]
    OBVIOUS
  <2>3. g[1] = s[1]
    <3>1. CASE n = 0
      BY <3>1
    <3>2. CASE n # 0
      <4>1. f[1] = s[1]
        BY <2>1, <3>2, FlattensFirst
      <4> QED BY <3>2, <4>1
    <3> QED BY <3>1, <3>2
  <2>4. ASSUME NEW i \in Nat \ {0}, i < n + 1
        PROVE  g[i + 1] = g[i] \o s[i + 1]
    <3>1. g[i] = f[i]
      BY <2>4
    <3>2. CASE i = n
      <4>1. n # 0
        BY <3>2, <2>4
      <4>2. g[n + 1] = f[n] \o s[n + 1]
        <5>1. g[n + 1] = v
          <6> HIDE DEF v
          <6> QED OBVIOUS
        <5>2. v = f[n] \o s[n + 1]
          BY <4>1
        <5> HIDE DEF g, v
        <5> QED BY <5>1, <5>2
      <4> HIDE DEF g
      <4> QED BY <3>1, <3>2, <4>2
    <3>3. CASE i # n
      <4>1. g[i + 1] = f[i + 1]
        BY <2>4, <3>3
      <4>2. i < n
        BY <2>4, <3>3
      <4>3. f[i + 1] = f[i] \o s[i + 1]
        BY <2>1, <4>2, FlattensNext, ZenonT(30)
      <4> HIDE DEF g
      <4> QED BY <3>1, <4>1, <4>3
    <3> QED BY <3>2, <3>3
  <2>5. Flattens(g, s, n + 1)
    <3> HIDE DEF g
    <3>1. ASSUME NEW i \in 1 .. n + 1
          PROVE  g[i] = IF i = 1 THEN s[i] ELSE g[i - 1] \o s[i]
      <4>1. CASE i # 1
        <5>1. i - 1 \in Nat \ {0} /\ i - 1 < n + 1 /\ (i - 1) + 1 = i
          BY <4>1
        <5>2. g[(i - 1) + 1] = g[i - 1] \o s[(i - 1) + 1]
          BY <5>1, <2>4
        <5> QED BY <5>1, <5>2, <4>1
      <4> QED BY <4>1, <2>3
    <3> QED BY <2>2, <3>1 DEF Flattens
  <2> QED BY <2>5
<1>3. \A n \in Nat : n \in P
  <2> HIDE DEF P
  <2> QED BY <1>1, <1>2, SetInduction
<1> QED BY <1>3

(* Where two sequences agree, their functions do.                          *)
Agree(s, t, k) == \A i \in 1 .. k : s[i] = t[i]

LEMMA FlattensUnique ==
  ASSUME NEW s, NEW t, NEW k \in Nat, NEW n \in Nat, NEW f, NEW g, k <= n,
         Agree(s, t, k), Flattens(f, s, k), Flattens(g, t, n)
  PROVE  \A i \in 1 .. k : f[i] = g[i]
<1> DEFINE P == {i \in Nat : i \in 1 .. k => f[i] = g[i]}
<1>1. 0 \in P
  OBVIOUS
<1>2. ASSUME NEW i \in Nat, i \in P PROVE i + 1 \in P
  <2>1. CASE i + 1 \in 1 .. k
    <3>1. CASE i = 0
      <4>1. k \in Nat \ {0} /\ n \in Nat \ {0}
        BY <2>1, <3>1
      <4>2. f[1] = s[1] /\ g[1] = t[1] /\ s[1] = t[1]
        BY <4>1, FlattensFirst DEF Agree
      <4> QED BY <3>1, <4>2
    <3>2. CASE i # 0
      <4>1. i \in Nat \ {0} /\ i < k /\ i < n /\ i \in 1 .. k
        BY <2>1, <3>2
      <4>2. f[i + 1] = f[i] \o s[i + 1]
        <5>1. i \in Nat \ {0} /\ i < k
          BY <4>1
        <5> QED BY <5>1, FlattensNext, ZenonT(30)
      <4>3. g[i + 1] = g[i] \o t[i + 1] /\ s[i + 1] = t[i + 1]
        <5>1. i \in Nat \ {0} /\ i < n
          BY <4>1
        <5>2. g[i + 1] = g[i] \o t[i + 1]
          BY <5>1, FlattensNext, ZenonT(30)
        <5> QED BY <2>1, <5>2 DEF Agree
      <4>4. f[i] = g[i]
        BY <1>2, <4>1
      <4>5. f[i + 1] = g[i + 1]
        <5> HIDE DEF P
        <5> QED BY <4>2, <4>3, <4>4
      <4> QED BY <4>5
    <3> QED BY <3>1, <3>2
  <2> QED BY <2>1
<1>3. \A i \in Nat : i \in P
  <2> HIDE DEF P
  <2> QED BY <1>1, <1>2, SetInduction
<1> QED BY <1>3

(* FlattenSeq returns the last value of any such function.                 *)
LEMMA FlattenIs ==
  ASSUME NEW T, NEW s \in Seq(T), s # <<>>, NEW f, Flattens(f, s, Len(s))
  PROVE  FlattenSeq(s) = f[Len(s)]
<1> DEFINE h == CHOOSE g : Flattens(g, s, Len(s))
<1>1. Flattens(h, s, Len(s))
  OBVIOUS
<1>2. FlattenSeq(s) = h[Len(s)]
  BY DEF FlattenSeq, Flattens
<1>3. Len(s) \in Nat /\ Len(s) > 0 /\ Agree(s, s, Len(s))
  BY DEF Agree
<1> HIDE DEF h
<1>4. \A i \in 1 .. Len(s) : f[i] = h[i]
  BY <1>1, <1>3, FlattensUnique
<1> QED BY <1>2, <1>3, <1>4
-----------------------------------------------------------------------------
(* Induction over sequences that grow at their end.                        *)
LEMMA SeqInduction ==
  ASSUME NEW T, NEW S, <<>> \in S,
         \A s \in Seq(T) : \A x \in T : s \in S => Append(s, x) \in S
  PROVE  \A s \in Seq(T) : s \in S
<1> DEFINE P == {n \in Nat : \A s \in Seq(T) : Len(s) = n => s \in S}
<1>1. 0 \in P
  <2>1. ASSUME NEW s \in Seq(T), Len(s) = 0 PROVE s \in S
    <3>1. s = <<>>
      BY <2>1, EmptySeq
    <3> QED BY <3>1
  <2> QED BY <2>1
<1>2. ASSUME NEW n \in Nat, n \in P PROVE n + 1 \in P
  <2>1. ASSUME NEW s \in Seq(T), Len(s) = n + 1 PROVE s \in S
    <3>1. s # <<>>
      BY <2>1, EmptySeq
    <3>2. PICK r \in Seq(T), x \in T : s = Append(r, x)
      BY <3>1, SequenceEmptyOrAppend
    <3>3. Len(r) = n
      BY <2>1, <3>2, AppendProperties, LenProperties
    <3>4. r \in S
      BY <1>2, <3>3
    <3> QED BY <3>2, <3>4
  <2> QED BY <2>1
<1>3. \A n \in Nat : n \in P
  <2> HIDE DEF P
  <2> QED BY <1>1, <1>2, SetInduction
<1>4. ASSUME NEW s \in Seq(T) PROVE s \in S
  <2>1. Len(s) \in Nat
    OBVIOUS
  <2> QED BY <1>3, <2>1
<1> QED BY <1>4
-----------------------------------------------------------------------------
LEMMA FlattenEmpty == FlattenSeq(<<>>) = <<>>
BY DEF FlattenSeq

LEMMA FlattenAppend ==
  ASSUME NEW T, NEW s \in Seq(Seq(T)), NEW x \in Seq(T)
  PROVE  FlattenSeq(Append(s, x)) = FlattenSeq(s) \o x
<1> DEFINE n == Len(s)
           t == Append(s, x)
           m == n + 1
<1>1. /\ t \in Seq(Seq(T)) /\ t # <<>> /\ Len(t) = m
      /\ n \in Nat /\ m \in Nat \ {0} /\ m \in Nat /\ n < m /\ n <= m
      /\ t[m] = x
  BY AppendProperties, LenProperties
<1>2. Agree(s, t, n)
  BY DEF Agree
<1>3. m = n + 1
  OBVIOUS
<1> HIDE DEF t, n, m
<1>4. PICK f : Flattens(f, t, m)
  BY <1>1, FlattensExists
<1>5. FlattenSeq(t) = f[m]
  BY <1>1, <1>4, FlattenIs
<1>6. CASE n = 0
  <2>1. f[1] = t[1]
    BY <1>1, <1>4, FlattensFirst
  <2>2. s = <<>>
    BY <1>6, EmptySeq DEF n
  <2>3. FlattenSeq(s) \o x = x
    BY <2>2, FlattenEmpty, ConcatEmptySeq
  <2>4. f[m] = x
    BY <1>1, <1>3, <1>6, <2>1
  <2> QED BY <1>5, <2>3, <2>4 DEF t
<1>7. CASE n # 0
  <2>1. n \in Nat \ {0}
    BY <1>1, <1>7
  <2>2. f[m] = f[n] \o x
    <3>1. f[n + 1] = f[n] \o t[n + 1]
      <4>1. m \in Nat /\ n < m
        BY <1>1
      <4> QED BY <1>4, <2>1, <4>1, FlattensNext, ZenonT(30)
    <3> QED BY <1>1, <1>3, <3>1
  <2>3. PICK g : Flattens(g, s, n)
    BY <1>1, FlattensExists
  <2>4. s # <<>>
    BY <1>7 DEF n
  <2>5. FlattenSeq(s) = g[n]
    BY <2>3, <2>4, FlattenIs DEF n
  <2>6. \A i \in 1 .. n : g[i] = f[i]
    BY <1>1, <1>2, <1>4, <2>3, FlattensUnique
  <2>7. g[n] = f[n]
    BY <2>1, <2>6
  <2> QED BY <1>5, <2>2, <2>5, <2>7 DEF t
<1> QED BY <1>6, <1>7

LEMMA FlattenType ==
  ASSUME NEW T, NEW s \in Seq(Seq(T))
  PROVE  FlattenSeq(s) \in Seq(T)
<1> DEFINE S == {r \in Seq(Seq(T)) : FlattenSeq(r) \in Seq(T)}
<1>1. <<>> \in S
  <2>1. <<>> \in Seq(T) /\ <<>> \in Seq(Seq(T))
    OBVIOUS
  <2> QED BY <2>1, FlattenEmpty
<1>2. ASSUME NEW r \in Seq(Seq(T)), NEW x \in Seq(T), r \in S
      PROVE  Append(r, x) \in S
  BY <1>2, FlattenAppend, AppendProperties, ConcatProperties
<1>3. \A r \in Seq(Seq(T)) : r \in S
  <2> HIDE DEF S
  <2> QED BY <1>1, <1>2, SeqInduction
<1> QED BY <1>3

LEMMA FlattenConcat ==
  ASSUME NEW T, NEW a \in Seq(Seq(T)), NEW b \in Seq(Seq(T))
  PROVE  FlattenSeq(a \o b) = FlattenSeq(a) \o FlattenSeq(b)
<1> DEFINE S == {r \in Seq(Seq(T)) :
                   FlattenSeq(a \o r) = FlattenSeq(a) \o FlattenSeq(r)}
<1>1. <<>> \in S
  BY FlattenEmpty, FlattenType, ConcatEmptySeq
<1>2. ASSUME NEW r \in Seq(Seq(T)), NEW x \in Seq(T), r \in S
      PROVE  Append(r, x) \in S
  <2>1. a \o r \in Seq(Seq(T)) /\ Append(r, x) \in Seq(Seq(T))
    BY ConcatProperties, AppendProperties
  <2>2. a \o Append(r, x) = Append(a \o r, x)
    <3>1. <<x>> \in Seq(Seq(T))
      OBVIOUS
    <3>2. Append(r, x) = r \o <<x>> /\ Append(a \o r, x) = (a \o r) \o <<x>>
      BY <2>1, AppendIsConcat
    <3> QED BY <3>1, <3>2, ConcatAssociative
  <2>3. FlattenSeq(a \o Append(r, x)) = FlattenSeq(a \o r) \o x
    BY <2>1, <2>2, FlattenAppend
  <2>4. FlattenSeq(Append(r, x)) = FlattenSeq(r) \o x
    BY FlattenAppend
  <2>5. FlattenSeq(a) \in Seq(T) /\ FlattenSeq(r) \in Seq(T)
    BY FlattenType
  <2>6. (FlattenSeq(a) \o FlattenSeq(r)) \o x
          = FlattenSeq(a) \o (FlattenSeq(r) \o x)
    <3> DEFINE u == FlattenSeq(a)
               v == FlattenSeq(r)
    <3>1. u \in Seq(T) /\ v \in Seq(T) /\ x \in Seq(T)
      BY <2>5
    <3> HIDE DEF u, v
    <3>3. (u \o v) \o x = u \o (v \o x)
      BY <3>1
    <3> QED BY <3>3 DEF u, v
  <2>7. FlattenSeq(a \o r) = FlattenSeq(a) \o FlattenSeq(r)
    BY <1>2
  <2>8. FlattenSeq(a \o Append(r, x)) = FlattenSeq(a) \o FlattenSeq(Append(r, x))
    BY <2>3, <2>4, <2>6, <2>7
  <2> QED BY <2>1, <2>8
<1>3. \A r \in Seq(Seq(T)) : r \in S
  <2> HIDE DEF S
  <2> QED BY <1>1, <1>2, SeqInduction
<1> QED BY <1>3

LEMMA FlattenOne ==
  ASSUME NEW T, NEW x \in Seq(T)
  PROVE  FlattenSeq(<<x>>) = x
<1>1. <<x>> = Append(<<>>, x) /\ <<>> \in Seq(Seq(T))
  OBVIOUS
<1>2. FlattenSeq(Append(<<>>, x)) = FlattenSeq(<<>>) \o x
  BY <1>1, FlattenAppend
<1> QED BY <1>1, <1>2, FlattenEmpty, ConcatEmptySeq

LEMMA FlattenHeadTail ==
  ASSUME NEW T, NEW s \in Seq(Seq(T)), s # <<>>
  PROVE  FlattenSeq(s) = Head(s) \o FlattenSeq(Tail(s))
<1>1. Head(s) \in Seq(T) /\ Tail(s) \in Seq(Seq(T)) /\ s = <<Head(s)>> \o Tail(s)
  OBVIOUS
<1>2. FlattenSeq(<<Head(s)>> \o Tail(s))
        = FlattenSeq(<<Head(s)>>) \o FlattenSeq(Tail(s))
  <2>1. <<Head(s)>> \in Seq(Seq(T))
    BY <1>1
  <2> QED BY <1>1, <2>1, FlattenConcat
<1>3. FlattenSeq(<<Head(s)>>) = Head(s)
  BY <1>1, FlattenOne
<1> QED BY <1>1, <1>2, <1>3

(* The flattened sequence, cut in front of any member.                     *)
LEMMA FlattenCut ==
  ASSUME NEW T, NEW s \in Seq(Seq(T)), NEW k \in 0 .. Len(s)
  PROVE  FlattenSeq(s) = FlattenSeq(SubSeq(s, 1, k))
                           \o FlattenSeq(SubSeq(s, k + 1, Len(s)))
<1>1. /\ SubSeq(s, 1, k) \in Seq(Seq(T))
      /\ SubSeq(s, k + 1, Len(s)) \in Seq(Seq(T))
  <2>1. \A i \in 1 .. Len(s) : s[i] \in Seq(T)
    OBVIOUS
  <2> QED BY <2>1, SubSeqProperties
<1>2. SubSeq(s, 1, k) \o SubSeq(s, k + 1, Len(s)) = SubSeq(s, 1, Len(s))
  <2>1. /\ 1 \in 1 .. Len(s) + 1 /\ k \in 1 - 1 .. Len(s)
        /\ Len(s) \in k .. Len(s)
    OBVIOUS
  <2> QED BY <2>1, ConcatAdjacentSubSeq
<1>3. SubSeq(s, 1, Len(s)) = s
  BY SubSeqFull
<1> QED BY <1>1, <1>2, <1>3, FlattenConcat, ZenonT(30)

(* One more member of a prefix.                                            *)
LEMMA FlattenNextMember ==
  ASSUME NEW T, NEW s \in Seq(Seq(T)), NEW k \in 0 .. Len(s) - 1
  PROVE  FlattenSeq(SubSeq(s, 1, k + 1)) = FlattenSeq(SubSeq(s, 1, k)) \o s[k + 1]
<1>1. SubSeq(s, 1, k + 1) = Append(SubSeq(s, 1, k), s[k + 1])
  OBVIOUS
<1>2. SubSeq(s, 1, k) \in Seq(Seq(T)) /\ s[k + 1] \in Seq(T)
  OBVIOUS
<1> QED BY <1>1, <1>2, FlattenAppend

(* Sequences of one element each.                                          *)
LEMMA FlattenSingles ==
  ASSUME NEW T, NEW s \in Seq(Seq(T)), NEW f \in Seq(T), Len(f) = Len(s),
         \A i \in 1 .. Len(s) : s[i] = <<f[i]>>
  PROVE  FlattenSeq(s) = f
<1> DEFINE n == Len(s)
           P == {m \in Nat : m <= n => FlattenSeq(SubSeq(s, 1, m)) = SubSeq(f, 1, m)}
<1>1. n \in Nat
  OBVIOUS
<1>2. 0 \in P
  <2>1. SubSeq(s, 1, 0) = <<>> /\ SubSeq(f, 1, 0) = <<>>
    BY SubSeqEmpty
  <2> QED BY <2>1, FlattenEmpty
<1>3. ASSUME NEW m \in Nat, m \in P PROVE m + 1 \in P
  <2>1. ASSUME m + 1 <= n
        PROVE  FlattenSeq(SubSeq(s, 1, m + 1)) = SubSeq(f, 1, m + 1)
    <3>1. m \in 0 .. Len(s) - 1 /\ m <= n /\ m + 1 \in 1 .. Len(s)
      BY <1>1, <2>1
    <3>2. FlattenSeq(SubSeq(s, 1, m)) = SubSeq(f, 1, m)
      BY <1>3, <3>1
    <3>3. FlattenSeq(SubSeq(s, 1, m + 1)) = SubSeq(f, 1, m) \o <<f[m + 1]>>
      BY <3>1, <3>2, FlattenNextMember
    <3>4. SubSeq(f, 1, m + 1) = SubSeq(f, 1, m) \o <<f[m + 1]>>
      BY <3>1
    <3> QED BY <3>3, <3>4
  <2> QED BY <2>1
<1>4. \A m \in Nat : m \in P
  <2> HIDE DEF P
  <2> QED BY <1>2, <1>3, SetInduction
<1>5. FlattenSeq(SubSeq(s, 1, n)) = SubSeq(f, 1, n)
  BY <1>1, <1>4
<1> QED BY <1>5, SubSeqFull
-----------------------------------------------------------------------------
(* A sequence cut behind its n-th member.                                  *)
LEMMA CutInTwo ==
  ASSUME NEW T, NEW s \in Seq(T), NEW n \in 0 .. Len(s)
  PROVE  /\ SubSeq(s, 1, n) \in Seq(T) /\ Len(SubSeq(s, 1, n)) = n
         /\ SubSeq(s, n + 1, Len(s)) \in Seq(T)
         /\ s = SubSeq(s, 1, n) \o SubSeq(s, n + 1, Len(s))
<1>1. \A i \in 1 .. Len(s) : s[i] \in T
  OBVIOUS
<1>2. n \in Int /\ Len(s) \in Int /\ n + 1 \in Int
  OBVIOUS
<1>3. SubSeq(s, 1, n) \in Seq(T) /\ Len(SubSeq(s, 1, n)) = n
  OBVIOUS
<1>4. SubSeq(s, n + 1, Len(s)) \in Seq(T)
  OBVIOUS
<1>5. SubSeq(s, 1, n) \o SubSeq(s, n + 1, Len(s)) = SubSeq(s, 1, Len(s))
  <2>1. /\ 1 \in 1 .. Len(s) + 1 /\ n \in 1 - 1 .. Len(s)
        /\ Len(s) \in n .. Len(s)
    OBVIOUS
  <2> QED BY <2>1, ConcatAdjacentSubSeq
<1> QED BY <1>3, <1>4, <1>5, SubSeqFull

(* n members of a sequence behind its m-th.                                *)
LEMMA Window ==
  ASSUME NEW T, NEW s \in Seq(T), NEW m \in Nat, NEW n \in Nat, m + n <= Len(s)
  PROVE  /\ SubSeq(s, m + 1, m + n) \in Seq(T)
         /\ Len(SubSeq(s, m + 1, m + n)) = n
         /\ \A j \in 1 .. n : SubSeq(s, m + 1, m + n)[j] = s[m + j]
<1>1. \A i \in m + 1 .. m + n : s[i] \in T
  OBVIOUS
<1>2. m + 1 \in Int /\ m + n \in Int
  OBVIOUS
<1>3. /\ SubSeq(s, m + 1, m + n) \in Seq(T)
      /\ Len(SubSeq(s, m + 1, m + n)) =
           IF m + 1 <= m + n THEN (m + n) - (m + 1) + 1 ELSE 0
      /\ \A i \in 1 .. (m + n) - (m + 1) + 1 :
           SubSeq(s, m + 1, m + n)[i] = s[(m + 1) + i - 1]
  BY <1>1, <1>2, SubSeqProperties
<1>4. (m + n) - (m + 1) + 1 = n
  OBVIOUS
<1>5. ASSUME NEW j \in 1 .. n PROVE SubSeq(s, m + 1, m + n)[j] = s[m + j]
  <2>1. (m + 1) + j - 1 = m + j
    OBVIOUS
  <2> QED BY <1>3, <1>4, <2>1
<1> QED BY <1>3, <1>4, <1>5

LEMMA PrefixOfConcat ==
  ASSUME NEW T, NEW a \in Seq(T), NEW b \in Seq(T)
  PROVE  IsPrefix(a, a \o b)
<1>1. Len(a \o b) = Len(a) + Len(b) /\ Len(a) \in Nat /\ Len(b) \in Nat
  OBVIOUS
<1>2. SubSeq(a \o b, 1, Len(a)) = a
  OBVIOUS
<1>3. SubSeq(a, 1, Len(a)) = a
  BY SubSeqFull
<1> QED BY <1>1, <1>2, <1>3 DEF IsPrefix
-----------------------------------------------------------------------------
(* A function defined step by step exists.                                 *)
StepByStep(f, n, v0, F) == f[0] = v0 /\ \A i \in 1 .. n : f[i] = F[<<i, f[i - 1]>>]

LEMMA RecursionExists ==
  ASSUME NEW V, NEW n \in Nat, NEW v0 \in V, NEW F \in [(1 .. n) \X V -> V]
  PROVE  \E f \in [0 .. n -> V] : StepByStep(f, n, v0, F)
<1> DEFINE Upto(m, f) == f[0] = v0 /\ \A i \in 1 .. m : f[i] = F[<<i, f[i - 1]>>]
           P == {m \in Nat : m <= n => \E f \in [0 .. m -> V] : Upto(m, f)}
<1>1. 0 \in P
  <2>1. [i \in 0 .. 0 |-> v0] \in [0 .. 0 -> V]
    OBVIOUS
  <2>2. Upto(0, [i \in 0 .. 0 |-> v0])
    OBVIOUS
  <2> QED BY <2>1, <2>2
<1>2. ASSUME NEW m \in Nat, m \in P PROVE m + 1 \in P
  <2>1. SUFFICES ASSUME m + 1 <= n
                 PROVE  \E f \in [0 .. m + 1 -> V] : Upto(m + 1, f)
    OBVIOUS
  <2>2. PICK f \in [0 .. m -> V] : Upto(m, f)
    BY <1>2, <2>1
  <2> DEFINE x == F[<<m + 1, f[m]>>]
             g == [i \in 0 .. m + 1 |-> IF i = m + 1 THEN x ELSE f[i]]
  <2>3. m + 1 \in 1 .. n /\ m \in 0 .. m /\ f[m] \in V
    BY <2>1
  <2>4. x \in V
    BY <2>3
  <2> HIDE DEF x
  <2>5. g \in [0 .. m + 1 -> V]
    BY <2>4
  <2>6. g[0] = v0
    BY <2>2
  <2>7. ASSUME NEW i \in 1 .. m + 1 PROVE g[i] = F[<<i, g[i - 1]>>]
    <3>1. g[i - 1] = f[i - 1]
      OBVIOUS
    <3>2. CASE i = m + 1
      <4>1. g[i] = x /\ i - 1 = m
        BY <3>2
      <4> QED BY <3>1, <3>2, <4>1 DEF x
    <3>3. CASE i # m + 1
      <4>1. i \in 1 .. m /\ g[i] = f[i]
        BY <3>3
      <4>2. f[i] = F[<<i, f[i - 1]>>]
        BY <2>2, <4>1
      <4> QED BY <3>1, <4>1, <4>2
    <3> QED BY <3>2, <3>3
  <2> HIDE DEF g
  <2> QED BY <2>5, <2>6, <2>7
<1>3. \A m \in Nat : m \in P
  <2> HIDE DEF P
  <2> QED BY <1>1, <1>2, SetInduction
<1>4. n \in P /\ n <= n
  <2> HIDE DEF P
  <2> QED BY <1>3
<1> QED BY <1>4 DEF StepByStep
=============================================================================
