----------------------------- MODULE Rtz14Proofs -----------------------------
(***************************************************************************)
(* What executeProof computes and agrees on, for every circuit, witness,   *)
(* mask and challenge.                                                     *)
(***************************************************************************)
EXTENDS Rtz14, SequenceLemmas, FiniteSetTheorems

Bits == {0, 1}
Octet == [1 .. 8 -> Bits]
Gate == [type : {"and", "xor"}, dst : Nat, op1 : Nat, op2 : Nat]
-----------------------------------------------------------------------------
(* Bytes and bits.                                                         *)

LEMMA NoBytesBounds ==
  ASSUME NEW n \in Nat
  PROVE  NoBytes(n) \in Nat /\ n <= 8 * NoBytes(n) /\ 8 * NoBytes(n) < n + 8
BY DEF NoBytes

LEMMA NoBytesOfBytes ==
  ASSUME NEW n \in Nat
  PROVE  NoBytes(8 * n) = n
BY DEF NoBytes

LEMMA NoBytesMonotonic ==
  ASSUME NEW m \in Nat, NEW n \in Nat, m <= n
  PROVE  NoBytes(m) <= NoBytes(n)
BY DEF NoBytes

(* One bit more takes one byte more exactly when the last byte is full.    *)
LEMMA NoBytesNext ==
  ASSUME NEW n \in Nat
  PROVE  NoBytes(n + 1) = NoBytes(n) + (IF n % 8 = 0 THEN 1 ELSE 0)
<1> DEFINE q == n \div 8
           r == n % 8
<1>1. q \in Nat /\ r \in 0 .. 7 /\ n = 8 * q + r
  OBVIOUS
<1> HIDE DEF q, r
<1>2. NoBytes(n) = IF r = 0 THEN q ELSE q + 1
  BY <1>1 DEF NoBytes
<1>3. NoBytes(n + 1) = q + 1
  BY <1>1 DEF NoBytes
<1> QED BY <1>1, <1>2, <1>3 DEF r

LEMMA XorOfBits ==
  ASSUME NEW x \in Bits, NEW y \in Bits
  PROVE  Xor2(x, y) \in Bits /\ (Xor2(x, y) = 0 <=> x = y) /\ Xor2(x, 0) = x
BY DEF Bits, Xor2

LEMMA BitsAreNumbers == Bits \subseteq Nat
BY DEF Bits

LEMMA FunctionIsSeq ==
  ASSUME NEW T, NEW n \in Nat, NEW f \in [1 .. n -> T]
  PROVE  f \in Seq(T) /\ Len(f) = n
<1>1. f \in Seq(T)
  BY DEF Seq
<1>2. DOMAIN f = 1 .. n /\ DOMAIN f = 1 .. Len(f) /\ Len(f) \in Nat
  BY <1>1
<1> QED BY <1>1, <1>2

LEMMA PadToBits ==
  ASSUME NEW bits \in Seq(Bits), NEW n \in Nat
  PROVE  /\ PadTo(bits, n) \in Seq(Bits) /\ Len(PadTo(bits, n)) = 8 * NoBytes(n)
         /\ \A i \in 1 .. 8 * NoBytes(n) :
              PadTo(bits, n)[i] = IF i <= Len(bits) THEN bits[i] ELSE 0
<1> DEFINE m == 8 * NoBytes(n)
<1>1. m \in Nat
  <2>1. NoBytes(n) \in Nat
    BY NoBytesBounds
  <2> QED BY <2>1
<1>2. PadTo(bits, n) = [i \in 1 .. m |-> IF i <= Len(bits) THEN bits[i] ELSE 0]
  BY DEF PadTo
<1> HIDE DEF m
<1>3. \A i \in 1 .. m : (IF i <= Len(bits) THEN bits[i] ELSE 0) \in Bits
  BY <1>1 DEF Bits
<1>4. PadTo(bits, n) \in [1 .. m -> Bits]
  BY <1>2, <1>3
<1>5. PadTo(bits, n) \in Seq(Bits) /\ Len(PadTo(bits, n)) = m
  BY <1>1, <1>4, FunctionIsSeq
<1> QED BY <1>2, <1>5 DEF m

LEMMA BytesOfBits ==
  ASSUME NEW bits \in Seq(Bits)
  PROVE  /\ BytesOf(bits) \in Seq(Octet)
         /\ Len(BytesOf(bits)) = NoBytes(Len(bits))
         /\ \A k \in 1 .. NoBytes(Len(bits)), j \in 1 .. 8 :
              8 * (k - 1) + j <= Len(bits) =>
                BytesOf(bits)[k][j] = bits[8 * (k - 1) + j]
<1> DEFINE n == NoBytes(Len(bits))
           padded == PadTo(bits, Len(bits))
<1>1. /\ n \in Nat /\ padded \in Seq(Bits) /\ Len(padded) = 8 * n
      /\ \A i \in 1 .. 8 * n : i <= Len(bits) => padded[i] = bits[i]
  <2>1. Len(bits) \in Nat
    OBVIOUS
  <2> QED BY <2>1, NoBytesBounds, PadToBits
<1>2. BytesOf(bits) = [k \in 1 .. n |-> Byte(padded, k)]
  BY DEF BytesOf
<1> HIDE DEF n, padded
<1>3. ASSUME NEW k \in 1 .. n, NEW j \in 1 .. 8
      PROVE  8 * (k - 1) + j \in 1 .. 8 * n
  BY <1>1
<1>4. ASSUME NEW k \in 1 .. n PROVE Byte(padded, k) \in Octet
  <2>1. \A j \in 1 .. 8 : padded[8 * (k - 1) + j] \in Bits
    BY <1>1, <1>3
  <2> QED BY <2>1 DEF Byte, Octet
<1>5. BytesOf(bits) \in [1 .. n -> Octet]
  BY <1>2, <1>4
<1>6. BytesOf(bits) \in Seq(Octet) /\ Len(BytesOf(bits)) = n
  BY <1>1, <1>5, FunctionIsSeq
<1>7. ASSUME NEW k \in 1 .. n, NEW j \in 1 .. 8, 8 * (k - 1) + j <= Len(bits)
      PROVE  BytesOf(bits)[k][j] = bits[8 * (k - 1) + j]
  <2>1. BytesOf(bits)[k] = Byte(padded, k)
    BY <1>2
  <2>2. Byte(padded, k)[j] = padded[8 * (k - 1) + j]
    BY DEF Byte
  <2> QED BY <1>1, <1>3, <1>7, <2>1, <2>2
<1> QED BY <1>6, <1>7 DEF n

LEMMA BitsOfBytes ==
  ASSUME NEW bytes \in Seq(Octet)
  PROVE  /\ BitsOf(bytes) \in Seq(Bits) /\ Len(BitsOf(bytes)) = 8 * Len(bytes)
         /\ \A i \in 1 .. 8 * Len(bytes) :
              /\ ((i - 1) \div 8) + 1 \in 1 .. Len(bytes)
              /\ ((i - 1) % 8) + 1 \in 1 .. 8
              /\ BitsOf(bytes)[i] = bytes[((i - 1) \div 8) + 1][((i - 1) % 8) + 1]
<1> DEFINE n == Len(bytes)
           m == 8 * n
<1>1. n \in Nat /\ m \in Nat /\ m = 8 * n
  OBVIOUS
<1>2. BitsOf(bytes) = [i \in 1 .. m |-> bytes[((i - 1) \div 8) + 1][((i - 1) % 8) + 1]]
  BY DEF BitsOf
<1>3. \A k \in 1 .. n : bytes[k] \in Octet
  OBVIOUS
<1> HIDE DEF n, m
<1>4. \A i \in 1 .. m : ((i - 1) \div 8) + 1 \in 1 .. n /\ ((i - 1) % 8) + 1 \in 1 .. 8
  BY <1>1
<1>5. \A i \in 1 .. m : bytes[((i - 1) \div 8) + 1][((i - 1) % 8) + 1] \in Bits
  BY <1>3, <1>4 DEF Octet
<1>6. BitsOf(bytes) \in [1 .. m -> Bits]
  BY <1>2, <1>5
<1>7. BitsOf(bytes) \in Seq(Bits) /\ Len(BitsOf(bytes)) = m
  BY <1>1, <1>6, FunctionIsSeq
<1> QED BY <1>2, <1>4, <1>7 DEF m, n

(* The first k bytes of packed bits unpack to those bits.                  *)
LEMMA Unpacked ==
  ASSUME NEW bits \in Seq(Bits), NEW k \in 0 .. NoBytes(Len(bits))
  PROVE  /\ BitsOf(SubSeq(BytesOf(bits), 1, k)) \in Seq(Bits)
         /\ Len(BitsOf(SubSeq(BytesOf(bits), 1, k))) = 8 * k
         /\ \A i \in 1 .. 8 * k :
              i <= Len(bits) => BitsOf(SubSeq(BytesOf(bits), 1, k))[i] = bits[i]
<1> DEFINE bytes == SubSeq(BytesOf(bits), 1, k)
<1>1. /\ NoBytes(Len(bits)) \in Nat /\ k \in Nat
      /\ BytesOf(bits) \in Seq(Octet) /\ Len(BytesOf(bits)) = NoBytes(Len(bits))
  BY NoBytesBounds, BytesOfBits
<1>2. bytes \in Seq(Octet) /\ Len(bytes) = k
  BY <1>1, CutInTwo
<1>3. \A j \in 1 .. k : bytes[j] = BytesOf(bits)[j]
  BY <1>1
<1> HIDE DEF bytes
<1>4. /\ BitsOf(bytes) \in Seq(Bits) /\ Len(BitsOf(bytes)) = 8 * k
      /\ \A i \in 1 .. 8 * k :
           /\ ((i - 1) \div 8) + 1 \in 1 .. k
           /\ ((i - 1) % 8) + 1 \in 1 .. 8
           /\ BitsOf(bytes)[i] = bytes[((i - 1) \div 8) + 1][((i - 1) % 8) + 1]
  BY <1>2, BitsOfBytes
<1>5. ASSUME NEW i \in 1 .. 8 * k, i <= Len(bits) PROVE BitsOf(bytes)[i] = bits[i]
  <2> DEFINE q == ((i - 1) \div 8) + 1
             r == ((i - 1) % 8) + 1
  <2>1. q \in 1 .. k /\ r \in 1 .. 8 /\ BitsOf(bytes)[i] = bytes[q][r]
    BY <1>4
  <2>2. 8 * (q - 1) + r = i
    BY <1>1
  <2> HIDE DEF q, r
  <2>3. q \in 1 .. NoBytes(Len(bits)) /\ 8 * (q - 1) + r <= Len(bits)
    BY <1>1, <1>5, <2>1, <2>2
  <2>4. BytesOf(bits)[q][r] = bits[8 * (q - 1) + r]
    BY <2>1, <2>3, BytesOfBits
  <2> QED BY <1>3, <2>1, <2>2, <2>4
<1> QED BY <1>4, <1>5 DEF bytes

(* A single bit is sent as a byte that begins with it.                     *)
LEMMA BitAsByte ==
  ASSUME NEW x \in Bits
  PROVE  /\ BytesOf(<<x>>) \in Seq(Octet) /\ Len(BytesOf(<<x>>)) = 1
         /\ BytesOf(<<x>>)[1][1] = x
<1>1. <<x>> \in Seq(Bits) /\ Len(<<x>>) = 1 /\ <<x>>[1] = x
  OBVIOUS
<1>2. NoBytes(1) = 1
  BY DEF NoBytes
<1>3. /\ BytesOf(<<x>>) \in Seq(Octet) /\ Len(BytesOf(<<x>>)) = 1
      /\ \A k \in 1 .. 1, j \in 1 .. 8 :
           8 * (k - 1) + j <= 1 => BytesOf(<<x>>)[k][j] = <<x>>[8 * (k - 1) + j]
  BY <1>1, <1>2, BytesOfBits
<1>4. BytesOf(<<x>>)[1][1] = <<x>>[8 * (1 - 1) + 1]
  BY <1>3
<1> QED BY <1>1, <1>3, <1>4

(* What is received and what is left of a stream that begins with a.       *)
LEMMA FromStream ==
  ASSUME NEW T, NEW a \in Seq(T), NEW c \in Seq(T)
  PROVE  /\ a \o c \in Seq(T) /\ Len(a \o c) = Len(a) + Len(c)
         /\ Received(a \o c, Len(a)) = a /\ Left(a \o c, Len(a)) = c
<1>1. a \o c \in Seq(T) /\ Len(a \o c) = Len(a) + Len(c)
  OBVIOUS
<1>2. SubSeq(a \o c, 1, Len(a)) = a
  OBVIOUS
<1>3. SubSeq(a \o c, Len(a) + 1, Len(a) + Len(c)) = c
  OBVIOUS
<1> QED BY <1>1, <1>2, <1>3 DEF Received, Left

LEMMA OpaqueBytes ==
  ASSUME NEW n \in Nat
  PROVE  Opaque(n) \in Seq(Octet) /\ Len(Opaque(n)) = n
<1>1. [j \in 1 .. 8 |-> 0] \in Octet
  BY DEF Octet, Bits
<1>2. Opaque(n) \in [1 .. n -> Octet]
  BY <1>1 DEF Opaque
<1> QED BY <1>2, FunctionIsSeq
-----------------------------------------------------------------------------
(* Free and output addresses.                                              *)

LEMMA GateParts ==
  ASSUME NEW c \in Seq(Gate), NEW i \in 1 .. Len(c)
  PROVE  /\ c[i] \in Gate /\ c[i].type \in {"and", "xor"}
         /\ c[i].dst \in Nat /\ c[i].op1 \in Nat /\ c[i].op2 \in Nat
<1>1. c[i] \in Gate
  OBVIOUS
<1> QED BY <1>1 DEF Gate

(* a is written by one of the first m gates and not met after.             *)
UnreadAt(c, m, a) ==
  \E i \in 1 .. m :
    /\ c[i].dst = a
    /\ \A j \in i + 1 .. m : a # c[j].dst /\ a # c[j].op1 /\ a # c[j].op2

LEMMA OutputGatesAre ==
  ASSUME NEW c \in Seq(Gate)
  PROVE  /\ OutputGates(c) \subseteq Written(c)
         /\ \A a : a \in OutputGates(c) <=> UnreadAt(c, Len(c), a)
<1> DEFINE n == Len(c)
           V == SUBSET Written(c)
           F == [p \in (1 .. n) \X V |->
                   (p[2] \ {c[p[1]].op1, c[p[1]].op2}) \cup {c[p[1]].dst}]
           Walk(h) == h = [i \in 0 .. n |->
                             IF i = 0 THEN {}
                             ELSE (h[i - 1] \ {c[i].op1, c[i].op2}) \cup {c[i].dst}]
<1>1. n \in Nat /\ {} \in V
  OBVIOUS
<1>2. \A i \in 1 .. n : c[i].dst \in Written(c)
  BY DEF Written
<1>3. F \in [(1 .. n) \X V -> V]
  BY <1>2
<1>4. PICK f \in [0 .. n -> V] : f[0] = {} /\ \A i \in 1 .. n : f[i] = F[<<i, f[i - 1]>>]
  <2> HIDE DEF F, n, V
  <2>1. \E f \in [0 .. n -> V] : StepByStep(f, n, {}, F)
    BY <1>1, <1>3, RecursionExists
  <2> QED BY <2>1 DEF StepByStep
<1>5. \A i \in 1 .. n :
        f[i] = (f[i - 1] \ {c[i].op1, c[i].op2}) \cup {c[i].dst}
  <2>1. ASSUME NEW i \in 1 .. n
        PROVE  f[i] = (f[i - 1] \ {c[i].op1, c[i].op2}) \cup {c[i].dst}
    <3>1. <<i, f[i - 1]>> \in (1 .. n) \X V
      BY <1>1
    <3>2. F[<<i, f[i - 1]>>] = (f[i - 1] \ {c[i].op1, c[i].op2}) \cup {c[i].dst}
      BY <3>1
    <3> QED BY <1>4, <3>2
  <2> QED BY <2>1
<1>6. Walk(f)
  <2>1. f = [i \in 0 .. n |-> f[i]]
    OBVIOUS
  <2>2. \A i \in 0 .. n :
          f[i] = IF i = 0 THEN {}
                 ELSE (f[i - 1] \ {c[i].op1, c[i].op2}) \cup {c[i].dst}
    <3>1. \A i \in 0 .. n : i = 0 \/ i \in 1 .. n
      BY <1>1
    <3> QED BY <1>4, <1>5, <3>1
  <2> QED BY <2>1, <2>2
<1> DEFINE h == CHOOSE g : Walk(g)
<1>7. OutputGates(c) = h[n]
  BY DEF OutputGates
<1>8. Walk(h)
  <2> HIDE DEF Walk
  <2> QED BY <1>6
<1> HIDE DEF h
<1>9. /\ h[0] = {}
      /\ \A i \in 1 .. n : h[i] = (h[i - 1] \ {c[i].op1, c[i].op2}) \cup {c[i].dst}
  <2>1. DOMAIN h = 0 .. n
    BY <1>8
  <2>2. \A i \in 0 .. n :
          h[i] = IF i = 0 THEN {}
                 ELSE (h[i - 1] \ {c[i].op1, c[i].op2}) \cup {c[i].dst}
    BY <1>8
  <2>3. 0 \in 0 .. n /\ \A i \in 1 .. n : i \in 0 .. n /\ i # 0
    BY <1>1
  <2> QED BY <2>2, <2>3
<1> HIDE DEF Walk, F
<1> DEFINE P == {m \in Nat : m <= n => /\ h[m] \subseteq Written(c)
                                       /\ \A a : a \in h[m] <=> UnreadAt(c, m, a)}
<1>10. 0 \in P
  BY <1>9 DEF UnreadAt
<1>11. ASSUME NEW m \in Nat, m \in P PROVE m + 1 \in P
  <2>1. SUFFICES ASSUME m + 1 <= n
                 PROVE  /\ h[m + 1] \subseteq Written(c)
                        /\ \A a : a \in h[m + 1] <=> UnreadAt(c, m + 1, a)
    OBVIOUS
  <2>2. h[m] \subseteq Written(c) /\ \A a : a \in h[m] <=> UnreadAt(c, m, a)
    BY <1>11, <2>1
  <2>3. h[m + 1] = (h[m] \ {c[m + 1].op1, c[m + 1].op2}) \cup {c[m + 1].dst}
    <3>1. m + 1 \in 1 .. n /\ (m + 1) - 1 = m
      BY <2>1
    <3> QED BY <1>9, <3>1
  <2>4. c[m + 1].dst \in Written(c)
    BY <1>2, <2>1
  <2>5. ASSUME NEW a, UnreadAt(c, m + 1, a) PROVE a \in h[m + 1]
    <3>1. PICK i \in 1 .. m + 1 :
            /\ c[i].dst = a
            /\ \A j \in i + 1 .. m + 1 : a # c[j].dst /\ a # c[j].op1 /\ a # c[j].op2
      BY <2>5 DEF UnreadAt
    <3>2. CASE i = m + 1
      BY <2>3, <3>1, <3>2
    <3>3. CASE i # m + 1
      <4>1. i \in 1 .. m /\ m + 1 \in i + 1 .. m + 1
        BY <3>3
      <4>2. \A j \in i + 1 .. m : j \in i + 1 .. m + 1
        OBVIOUS
      <4>3. UnreadAt(c, m, a)
        BY <3>1, <4>1, <4>2 DEF UnreadAt
      <4>4. a # c[m + 1].op1 /\ a # c[m + 1].op2
        BY <3>1, <4>1
      <4> QED BY <2>2, <2>3, <4>3, <4>4
    <3> QED BY <3>2, <3>3
  <2>6. ASSUME NEW a, a \in h[m + 1] PROVE UnreadAt(c, m + 1, a)
    <3>1. CASE a = c[m + 1].dst
      <4>1. m + 1 \in 1 .. m + 1 /\ (m + 1) + 1 .. m + 1 = {}
        OBVIOUS
      <4> QED BY <3>1, <4>1 DEF UnreadAt
    <3>2. CASE a # c[m + 1].dst
      <4>1. a \in h[m] /\ a # c[m + 1].op1 /\ a # c[m + 1].op2
        BY <2>3, <2>6, <3>2
      <4>2. PICK i \in 1 .. m :
              /\ c[i].dst = a
              /\ \A j \in i + 1 .. m : a # c[j].dst /\ a # c[j].op1 /\ a # c[j].op2
        BY <2>2, <4>1 DEF UnreadAt
      <4>3. i \in 1 .. m + 1 /\ \A j \in i + 1 .. m + 1 : j \in i + 1 .. m \/ j = m + 1
        OBVIOUS
      <4> QED BY <3>2, <4>1, <4>2, <4>3 DEF UnreadAt
    <3> QED BY <3>1, <3>2
  <2> QED BY <2>2, <2>3, <2>4, <2>5, <2>6
<1>12. \A m \in Nat : m \in P
  <2> HIDE DEF P
  <2> QED BY <1>10, <1>11, SetInduction
<1>13. n \in P /\ n <= n
  <2> HIDE DEF P, n
  <2> QED BY <1>1, <1>12
<1> QED BY <1>7, <1>13 DEF n
-----------------------------------------------------------------------------
(* AND gates, counted and found.                                           *)

LEMMA NoAndsCounts ==
  ASSUME NEW c \in Seq(Gate), NEW k \in Nat
  PROVE  /\ IsFiniteSet({i \in 1 .. k : c[i].type = "and"})
         /\ NoAnds(c, k) \in Nat /\ NoAnds(c, 0) = 0
         /\ NoAnds(c, k + 1) =
              NoAnds(c, k) + (IF c[k + 1].type = "and" THEN 1 ELSE 0)
<1> DEFINE A(m) == {i \in 1 .. m : c[i].type = "and"}
<1>1. IsFiniteSet(A(k))
  <2>1. IsFiniteSet(1 .. k)
    BY FS_Interval
  <2>2. A(k) \in SUBSET (1 .. k)
    OBVIOUS
  <2> HIDE DEF A
  <2> QED BY <2>1, <2>2, FS_Subset
<1>2. A(0) = {}
  OBVIOUS
<1>3. CASE c[k + 1].type = "and"
  <2>1. A(k + 1) = A(k) \cup {k + 1} /\ k + 1 \notin A(k)
    BY <1>3
  <2> HIDE DEF A
  <2>2. Cardinality(A(k + 1)) = Cardinality(A(k)) + 1
    BY <1>1, <2>1, FS_AddElement
  <2>3. /\ Cardinality(A(k)) = NoAnds(c, k) /\ Cardinality(A(k + 1)) = NoAnds(c, k + 1)
        /\ Cardinality(A(0)) = NoAnds(c, 0)
    BY DEF A, NoAnds
  <2>4. Cardinality(A(k)) \in Nat
    BY <1>1, FS_CardinalityType
  <2>5. Cardinality(A(0)) = 0
    BY <1>2, FS_EmptySet
  <2> QED BY <1>1, <1>3, <2>2, <2>3, <2>4, <2>5 DEF A
<1>4. CASE c[k + 1].type # "and"
  <2>1. A(k + 1) = A(k)
    BY <1>4
  <2> HIDE DEF A
  <2>3. /\ Cardinality(A(k)) = NoAnds(c, k) /\ Cardinality(A(k + 1)) = NoAnds(c, k + 1)
        /\ Cardinality(A(0)) = NoAnds(c, 0)
    BY DEF A, NoAnds
  <2>4. Cardinality(A(k)) \in Nat
    BY <1>1, FS_CardinalityType
  <2>5. Cardinality(A(0)) = 0
    BY <1>2, FS_EmptySet
  <2>6. NoAnds(c, k) \in Nat /\ NoAnds(c, 0) = 0 /\ NoAnds(c, k + 1) = NoAnds(c, k)
    BY <2>1, <2>3, <2>4, <2>5
  <2>7. (IF c[k + 1].type = "and" THEN 1 ELSE 0) = 0
    BY <1>4
  <2>8. NoAnds(c, k + 1) = NoAnds(c, k) + (IF c[k + 1].type = "and" THEN 1 ELSE 0)
    BY <2>6, <2>7
  <2> QED BY <1>1, <2>6, <2>8 DEF A
<1> QED BY <1>3, <1>4

LEMMA NoAndsGrows ==
  ASSUME NEW c \in Seq(Gate), NEW j \in Nat, NEW k \in Nat, j <= k
  PROVE  NoAnds(c, j) <= NoAnds(c, k)
<1> DEFINE A(m) == {i \in 1 .. m : c[i].type = "and"}
<1>1. IsFiniteSet(A(k))
  BY NoAndsCounts
<1>2. A(j) \in SUBSET A(k)
  OBVIOUS
<1>3. Cardinality(A(k)) = NoAnds(c, k) /\ Cardinality(A(j)) = NoAnds(c, j)
  BY DEF NoAnds
<1> HIDE DEF A
<1> QED BY <1>1, <1>2, <1>3, FS_Subset

(* An AND gate has fewer before it than there are.                         *)
LEMMA AndsBefore ==
  ASSUME NEW c \in Seq(Gate), NEW i \in 1 .. Len(c), c[i].type = "and"
  PROVE  /\ NoAnds(c, i - 1) \in Nat /\ AllAnds(c) \in Nat
         /\ NoAnds(c, i - 1) + 1 <= AllAnds(c)
         /\ NoAnds(c, i) = NoAnds(c, i - 1) + 1
<1>1. i - 1 \in Nat /\ i \in Nat /\ Len(c) \in Nat /\ (i - 1) + 1 = i /\ i <= Len(c)
  OBVIOUS
<1>2. NoAnds(c, i - 1) \in Nat /\ NoAnds(c, (i - 1) + 1) = NoAnds(c, i - 1) + 1
  <2> DEFINE m == i - 1
  <2>1. m \in Nat /\ m + 1 = i
    BY <1>1
  <2> HIDE DEF m
  <2>2. NoAnds(c, m) \in Nat /\ NoAnds(c, m + 1) = NoAnds(c, m) + 1
    BY <2>1, NoAndsCounts
  <2> QED BY <2>2 DEF m
<1>3. NoAnds(c, i) <= NoAnds(c, Len(c)) /\ NoAnds(c, Len(c)) \in Nat
  BY <1>1, NoAndsGrows, NoAndsCounts
<1> QED BY <1>1, <1>2, <1>3 DEF AllAnds

LEMMA AndGateExists ==
  ASSUME NEW c \in Seq(Gate), NEW k \in 1 .. AllAnds(c)
  PROVE  \E i \in 1 .. Len(c) : c[i].type = "and" /\ NoAnds(c, i) = k
<1> DEFINE Found(m) == \A j \in 1 .. NoAnds(c, m) :
                         \E i \in 1 .. m : c[i].type = "and" /\ NoAnds(c, i) = j
           P == {m \in Nat : Found(m)}
<1>1. 0 \in P
  <2>1. 0 \in Nat
    OBVIOUS
  <2>2. NoAnds(c, 0) = 0
    BY <2>1, NoAndsCounts
  <2>3. 1 .. NoAnds(c, 0) = {}
    BY <2>2
  <2> QED BY <2>1, <2>3
<1>2. ASSUME NEW m \in Nat, m \in P PROVE m + 1 \in P
  <2>1. Found(m)
    BY <1>2
  <2>2. /\ NoAnds(c, m) \in Nat
        /\ NoAnds(c, m + 1) = NoAnds(c, m) + (IF c[m + 1].type = "and" THEN 1 ELSE 0)
    BY NoAndsCounts
  <2>3. ASSUME NEW j \in 1 .. NoAnds(c, m + 1)
        PROVE  \E i \in 1 .. m + 1 : c[i].type = "and" /\ NoAnds(c, i) = j
    <3>1. CASE j \in 1 .. NoAnds(c, m)
      BY <2>1, <3>1
    <3>2. CASE j \notin 1 .. NoAnds(c, m)
      <4>1. c[m + 1].type = "and" /\ j = NoAnds(c, m + 1)
        BY <2>2, <2>3, <3>2
      <4>2. m + 1 \in 1 .. m + 1
        OBVIOUS
      <4> QED BY <4>1, <4>2
    <3> QED BY <3>1, <3>2
  <2> QED BY <2>3
<1>3. \A m \in Nat : m \in P
  <2> HIDE DEF P
  <2> QED BY <1>1, <1>2, SetInduction
<1>4. Found(Len(c))
  BY <1>3
<1> QED BY <1>4 DEF AllAnds

LEMMA AndGateIs ==
  ASSUME NEW c \in Seq(Gate), NEW k \in 1 .. AllAnds(c)
  PROVE  \E i \in 1 .. Len(c) :
           AndGate(c, k) = c[i] /\ c[i].type = "and" /\ NoAnds(c, i) = k
<1> DEFINE Q(i) == c[i].type = "and" /\ NoAnds(c, i) = k
           i0 == CHOOSE i \in 1 .. Len(c) : Q(i)
<1>1. i0 \in 1 .. Len(c) /\ Q(i0)
  <2>1. \E i \in 1 .. Len(c) : Q(i)
    BY AndGateExists
  <2> HIDE DEF Q
  <2> QED BY <2>1
<1>2. AndGate(c, k) = c[i0]
  BY DEF AndGate
<1> HIDE DEF i0
<1> QED BY <1>1, <1>2
-----------------------------------------------------------------------------
(* Input addresses in the order they are met.                              *)

LEMMA OperandOf ==
  ASSUME NEW c, NEW i \in Nat
  PROVE  Operand(c, 2 * i) = c[i].op1 /\ Operand(c, 2 * i + 1) = c[i].op2
<1>1. (2 * i) \div 2 = i /\ (2 * i) % 2 = 0
  OBVIOUS
<1>2. (2 * i + 1) \div 2 = i /\ (2 * i + 1) % 2 = 1
  OBVIOUS
<1> QED BY <1>1, <1>2 DEF Operand

LEMMA FirstMetIs ==
  ASSUME NEW c \in Seq(Gate), NEW a \in InputGates(c)
  PROVE  /\ FirstMet(c, a) \in 2 .. 2 * Len(c) + 1
         /\ Operand(c, FirstMet(c, a)) = a
<1> DEFINE S == {n \in 2 .. 2 * Len(c) + 1 : Operand(c, n) = a}
<1>1. PICK i \in 1 .. Len(c) : a = c[i].op1 \/ a = c[i].op2
  BY DEF InputGates
<1>2. S # {}
  <2>1. i \in Nat /\ 2 * i \in 2 .. 2 * Len(c) + 1 /\ 2 * i + 1 \in 2 .. 2 * Len(c) + 1
    OBVIOUS
  <2>2. Operand(c, 2 * i) = a \/ Operand(c, 2 * i + 1) = a
    BY <1>1, <2>1, OperandOf
  <2> QED BY <2>1, <2>2
<1>3. S \in SUBSET Nat
  OBVIOUS
<1>4. PICK m \in S : \A k \in S : m <= k
  <2> HIDE DEF S
  <2> QED BY <1>2, <1>3, LeastElement
<1> DEFINE Q(n) == Operand(c, n) = a /\ \A k \in 2 .. n - 1 : Operand(c, k) # a
<1>5. m \in 2 .. 2 * Len(c) + 1 /\ Q(m)
  <2>1. m \in 2 .. 2 * Len(c) + 1 /\ Operand(c, m) = a
    OBVIOUS
  <2>2. ASSUME NEW k \in 2 .. m - 1 PROVE Operand(c, k) # a
    <3>1. k \in 2 .. 2 * Len(c) + 1 /\ ~(m <= k)
      BY <2>1
    <3> QED BY <1>4, <3>1
  <2> QED BY <2>1, <2>2
<1>6. FirstMet(c, a) = CHOOSE n \in 2 .. 2 * Len(c) + 1 : Q(n)
  BY DEF FirstMet
<1>7. FirstMet(c, a) \in 2 .. 2 * Len(c) + 1 /\ Q(FirstMet(c, a))
  <2> HIDE DEF Q
  <2> QED BY <1>5, <1>6
<1> QED BY <1>7

LEMMA InjectsInto ==
  ASSUME NEW S, NEW T, IsFiniteSet(T), NEW f \in [S -> T],
         \A x, y \in S : f[x] = f[y] => x = y
  PROVE  IsFiniteSet(S)
<1>1. f \in Injection(S, T)
  BY DEF Injection, IsInjective
<1> QED BY <1>1, FS_Injection

LEMMA InputsFinite ==
  ASSUME NEW c \in Seq(Gate)
  PROVE  /\ IsFiniteSet(InputGates(c)) /\ Cardinality(InputGates(c)) \in Nat
         /\ \A a \in InputGates(c) :
              Place(c, InputGates(c), a) \in 1 .. Cardinality(InputGates(c))
<1> DEFINE In == InputGates(c)
           f == [a \in In |-> FirstMet(c, a)]
<1>1. \A a \in In : FirstMet(c, a) \in 2 .. 2 * Len(c) + 1 /\ Operand(c, FirstMet(c, a)) = a
  BY FirstMetIs
<1>2. f \in [In -> 2 .. 2 * Len(c) + 1]
  BY <1>1
<1>3. \A x, y \in In : f[x] = f[y] => x = y
  <2>1. ASSUME NEW x \in In, NEW y \in In, f[x] = f[y] PROVE x = y
    <3>1. FirstMet(c, x) = FirstMet(c, y)
      BY <2>1
    <3> QED BY <1>1, <3>1
  <2> QED BY <2>1
<1>4. IsFiniteSet(2 .. 2 * Len(c) + 1)
  BY FS_Interval
<1> HIDE DEF f, In
<1>5. IsFiniteSet(In)
  BY <1>2, <1>3, <1>4, InjectsInto
<1>6. Cardinality(In) \in Nat
  BY <1>5, FS_CardinalityType
<1>7. ASSUME NEW a \in In PROVE Place(c, In, a) \in 1 .. Cardinality(In)
  <2> DEFINE B == {i \in In : FirstMet(c, i) <= FirstMet(c, a)}
  <2>1. B \in SUBSET In /\ a \in B
    BY <1>1
  <2>2. Place(c, In, a) = Cardinality(B)
    BY DEF Place
  <2> HIDE DEF B
  <2>3. IsFiniteSet(B) /\ Cardinality(B) <= Cardinality(In)
    BY <1>5, <2>1, FS_Subset
  <2>4. Cardinality(B) \in Nat /\ Cardinality(B) # 0
    BY <2>1, <2>3, FS_CardinalityType, FS_EmptySet
  <2> QED BY <1>6, <2>2, <2>3, <2>4
<1> QED BY <1>5, <1>6, <1>7 DEF In
-----------------------------------------------------------------------------
(* The circuit is one the proof can be run on: its addresses are bits of   *)
(* the evaluation string, and masks are as long as the message.            *)
Size(c) == 8 * NoBytes(StringLen(c, InputGates(c)))
Span(c) == 8 * NoBytes(StringLen(c, InputGates(c)) + 3 * AllAnds(c))

Provable(c) ==
  /\ c \in Seq(Gate)
  /\ \A a \in Addresses(c) \cup {address_of_one} : a \in 0 .. Size(c) - 1
  /\ \A mask \in Masks : mask \in Seq(Bits) /\ Len(mask) >= Span(c)

GivenOK ==
  /\ Provable(circuit)
  /\ input_gates = InputGates(circuit)
  /\ output_gates = OutputGates(circuit)
  /\ witness \in [1 .. Cardinality(input_gates) -> Bits]

(* Refusal is settled by the circuit alone.                                *)
Refusals ==
  /\ pat \in {"start", "listening", "no_peer", "bad_circuit", "connected",
              "committed", "delta_sent", "revealed", "done"}
  /\ vat \in {"start", "ready", "no_peer", "bad_circuit", "connected",
              "challenged", "tasks_built", "opened", "done"}
  /\ pat # "start" => (pat = "bad_circuit" <=> ~UniqueOutput)
  /\ vat # "start" => (vat = "bad_circuit" <=> ~UniqueOutput)

(* The message is the evaluation string and the auxiliary bits of the      *)
(* permutations the prover drew.                                           *)
MadeFrom(rs) ==
  LET string == Evaluation(circuit, input_gates, witness)
  IN  /\ message = Message(string, GpamAux(circuit, string, rs))
      /\ gpam_res = [permutations |-> GpamPermutations(circuit, rs),
                     majority |-> GpamMajority(circuit, string, rs)]
MessageMade ==
  pat \notin {"start", "bad_circuit"} =>
    \E rs \in [1 .. AllAnds(circuit) -> Randoms] : MadeFrom(rs)

MaskDrawn ==
  pat \in {"committed", "delta_sent", "revealed", "done"} =>
    m0 \in Seq(Bits) /\ Len(m0) = Span(circuit)

(* Both derive the same tasks, the output check apart.                     *)
Permaj == IF b = 0 THEN gpam_res.permutations ELSE gpam_res.majority
Derived == Tasks(b, Permaj)
Deltas == DeltaString(p_tasks, m0)

SameTasks ==
  /\ b \in Bits /\ e \in Bits
  /\ p_accept \in BOOLEAN /\ v_accept \in BOOLEAN
  /\ pat \in {"delta_sent", "revealed", "done"} =>
       p_tasks = Append(Derived, CheckOut(b))
  /\ vat \in {"tasks_built", "opened", "done"} =>
       v_tasks = IF b = 0 THEN Append(Derived, CheckOut(b)) ELSE Derived
  /\ vat \in {"opened", "done"} =>
       \A i \in 1 .. Len(v_tasks) : delta[i] = TaskXor(m0, v_tasks[i])

(* What is under way in each direction at each stage of the protocol.      *)
Shown == IF e = 0 THEN m0 ELSE Xored(message, m0)
Extra == Left(BytesOf(Deltas), NoBytes(Len(v_tasks)))

At(p, v, to_verifier, to_prover) ==
  pat = p /\ vat = v /\ toV = to_verifier /\ toP = to_prover

Ended == /\ p_accept = v_accept \/ pat = "revealed"
         /\ Len(toV) = (IF Aligned THEN 0 ELSE 1)

Stages ==
  \/ /\ pat \in {"start", "listening", "no_peer", "bad_circuit"}
     /\ vat \in {"start", "ready", "no_peer", "bad_circuit"}
     /\ toV = <<>> /\ toP = <<>>
  \/ At("connected", "connected", <<>>, Opaque(CommitBytes))
  \/ At("committed", "connected", Opaque(128), <<>>)
  \/ At("committed", "challenged", <<>>, BytesOf(<<b>>))
  \/ PermajBytes(b) = 0 /\ At("committed", "tasks_built", <<>>, BytesOf(<<b>>))
  \/ At("delta_sent", "challenged", BytesOf(Permaj) \o BytesOf(Deltas), <<>>)
  \/ At("delta_sent", "tasks_built", BytesOf(Deltas), <<>>)
  \/ At("delta_sent", "opened", Extra, BytesOf(<<e>>))
  \/ At("revealed", "opened", Extra \o BytesOf(Shown), <<>>)
  \/ At("revealed", "done", toV, Judgement(v_accept)) /\ Ended
  \/ At("done", "done", toV, <<>>) /\ Ended

ProtocolInv == /\ GivenOK /\ Refusals /\ MessageMade /\ MaskDrawn /\ SameTasks
               /\ Stages /\ VerdictIsRelations
-----------------------------------------------------------------------------
(* The circuits of the model, once patched, are provable.                  *)
LEMMA Patched ==
  ASSUME NEW c \in Circuits
  PROVE  Provable(PatchOne(c, address_of_one))
<1> DEFINE p == PatchOne(c, address_of_one)
<1>1. /\ \A a \in Addresses(p) \cup {address_of_one} : a \in 0 .. Size(p) - 1
      /\ \A mask \in Masks : mask \in Seq(Bits) /\ Len(mask) >= Span(p)
  BY Rtz14Assumption DEF Size, Span, Bits
<1>2. address_of_one \in Nat
  BY <1>1
<1>3. c \in Seq(ParsedGate)
  BY Rtz14Assumption
<1>4. ASSUME NEW i \in 1 .. Len(c) PROVE p[i] \in Gate
  <2>1. c[i] \in ParsedGate
    BY <1>3
  <2>2. p[i] = [c[i] EXCEPT !.op1 = IF @ = UintMax THEN address_of_one ELSE @,
                            !.op2 = IF @ = UintMax THEN address_of_one ELSE @]
    BY DEF PatchOne
  <2> HIDE DEF p
  <2> QED BY <1>2, <2>1, <2>2 DEF ParsedGate, Gate, UintMax
<1>5. p = [i \in 1 .. Len(c) |-> p[i]]
  BY DEF PatchOne
<1>6. Len(c) \in Nat
  BY <1>3
<1> HIDE DEF p
<1>7. p \in [1 .. Len(c) -> Gate]
  BY <1>4, <1>5
<1>8. p \in Seq(Gate)
  BY <1>6, <1>7, FunctionIsSeq
<1> QED BY <1>1, <1>8 DEF Provable, p
-----------------------------------------------------------------------------
(* A circuit is proved if it has one output, and refused otherwise.        *)

LEMMA UnreadIsOutput ==
  ASSUME GivenOK
  PROVE  Unread = output_gates
<1>1. circuit \in Seq(Gate) /\ output_gates = OutputGates(circuit)
  BY DEF GivenOK, Provable
<1>2. /\ output_gates \subseteq Written(circuit)
      /\ \A a : a \in output_gates <=> UnreadAt(circuit, Len(circuit), a)
  BY <1>1, OutputGatesAre
<1>3. DOMAIN circuit = 1 .. Len(circuit)
  BY <1>1
<1>4. ASSUME NEW a PROVE a \in Unread <=> a \in output_gates
  <2>1. a \in Unread <=> a \in Written(circuit) /\ UnreadAt(circuit, Len(circuit), a)
    BY <1>3 DEF Unread, UnreadAt
  <2> QED BY <1>2, <2>1
<1> QED BY <1>4

LEMMA OneIsOutput ==
  ASSUME GivenOK, UniqueOutput
  PROVE  OutBit \in output_gates
<1>1. output_gates # {}
  <2>1. Cardinality({}) = 0
    BY FS_EmptySet
  <2> QED BY <2>1 DEF UniqueOutput
<1> QED BY <1>1 DEF OutBit

LEMMA RefusalsProveOutput ==
  ASSUME GivenOK, Refusals
  PROVE  ProvesOneOutput
<1>1. Cardinality(Unread) = 1 <=> UniqueOutput
  BY UnreadIsOutput DEF UniqueOutput
<1>2. UniqueOutput => OutBit \in Unread
  BY UnreadIsOutput, OneIsOutput
<1> QED BY <1>1, <1>2 DEF ProvesOneOutput, Refusals
-----------------------------------------------------------------------------
(* The evaluation string.                                                  *)

(* v[i][a]: the bit at address a once i gates of c have been visited.      *)
Visits(c, w, v) ==
  /\ v \in [0 .. Len(c) -> [0 .. Size(c) - 1 -> Bits]]
  /\ \A a \in 0 .. Size(c) - 1 :
       v[0][a] = IF a \in InputGates(c) THEN w[Place(c, InputGates(c), a)] ELSE 0
  /\ \A i \in 1 .. Len(c) : \A a \in 0 .. Size(c) - 1 :
       v[i][a] = IF a # c[i].dst THEN v[i - 1][a]
                 ELSE IF c[i].type = "and"
                   THEN v[i - 1][c[i].op1] * v[i - 1][c[i].op2]
                   ELSE Xor2(v[i - 1][c[i].op1], v[i - 1][c[i].op2])

LEMMA SizeBounds ==
  ASSUME NEW c, Provable(c)
  PROVE  /\ Len(c) \in Nat /\ Cardinality(InputGates(c)) \in Nat /\ AllAnds(c) \in Nat
         /\ StringLen(c, InputGates(c)) \in Nat
         /\ Size(c) \in Nat /\ Span(c) \in Nat
         /\ StringLen(c, InputGates(c)) <= Size(c) /\ Size(c) <= Span(c)
         /\ StringLen(c, InputGates(c)) + 3 * AllAnds(c) <= Span(c)
         /\ Size(c) > 0 /\ Len(c) > 0
<1> DEFINE n == StringLen(c, InputGates(c))
           s == AllAnds(c)
<1>1. c \in Seq(Gate) /\ Len(c) \in Nat /\ address_of_one \in 0 .. Size(c) - 1
  BY DEF Provable
<1>2. Cardinality(InputGates(c)) \in Nat
  BY <1>1, InputsFinite
<1>3. s \in Nat
  BY <1>1, NoAndsCounts DEF AllAnds
<1>4. n \in Nat
  BY <1>1, <1>2 DEF StringLen
<1>5. Size(c) = 8 * NoBytes(n) /\ Span(c) = 8 * NoBytes(n + 3 * s)
  BY DEF Size, Span
<1> HIDE DEF n, s
<1>6. n + 3 * s \in Nat /\ n <= n + 3 * s
  BY <1>3, <1>4
<1>7. /\ NoBytes(n) \in Nat /\ n <= 8 * NoBytes(n)
      /\ NoBytes(n + 3 * s) \in Nat /\ n + 3 * s <= 8 * NoBytes(n + 3 * s)
      /\ NoBytes(n) <= NoBytes(n + 3 * s)
  BY <1>4, <1>6, NoBytesBounds, NoBytesMonotonic
<1>8. Size(c) > 0
  BY <1>1, <1>5, <1>7
<1>9. Len(c) # 0
  <2>1. SUFFICES ASSUME Len(c) = 0 PROVE FALSE
    OBVIOUS
  <2>2. InputGates(c) = {}
    BY <2>1 DEF InputGates
  <2>3. Cardinality(InputGates(c)) = 0
    BY <2>2, FS_EmptySet
  <2>4. n = 0
    BY <2>1, <2>3 DEF n, StringLen
  <2>5. NoBytes(0) = 0
    BY DEF NoBytes
  <2> QED BY <1>5, <1>8, <2>4, <2>5
<1> QED BY <1>1, <1>2, <1>3, <1>4, <1>5, <1>7, <1>8, <1>9 DEF n, s

LEMMA AddressesOf ==
  ASSUME NEW c, Provable(c), NEW i \in 1 .. Len(c)
  PROVE  /\ c[i] \in Gate
         /\ c[i].dst \in 0 .. Size(c) - 1
         /\ c[i].op1 \in 0 .. Size(c) - 1 /\ c[i].op2 \in 0 .. Size(c) - 1
<1>1. c \in Seq(Gate) /\ DOMAIN c = 1 .. Len(c)
  BY DEF Provable
<1>2. {c[i].dst, c[i].op1, c[i].op2} \subseteq Addresses(c)
  BY <1>1 DEF Addresses, Written
<1> QED BY <1>1, <1>2 DEF Provable

LEMMA VisitsExist ==
  ASSUME NEW c, Provable(c),
         NEW w \in [1 .. Cardinality(InputGates(c)) -> Bits]
  PROVE  \E v : Visits(c, w, v)
<1> DEFINE n == Len(c)
           S == 0 .. Size(c) - 1
           V == [S -> Bits]
           v0 == [a \in S |-> IF a \in InputGates(c)
                                THEN w[Place(c, InputGates(c), a)] ELSE 0]
           step(i, u) == [a \in S |-> IF a # c[i].dst THEN u[a]
                                      ELSE IF c[i].type = "and"
                                        THEN u[c[i].op1] * u[c[i].op2]
                                        ELSE Xor2(u[c[i].op1], u[c[i].op2])]
           F == [p \in (1 .. n) \X V |-> step(p[1], p[2])]
<1>1. n \in Nat /\ c \in Seq(Gate)
  BY SizeBounds DEF Provable
<1>2. v0 \in V
  <2>1. \A a \in InputGates(c) : w[Place(c, InputGates(c), a)] \in Bits
    BY <1>1, InputsFinite
  <2>2. 0 \in Bits
    BY DEF Bits
  <2> QED BY <2>1, <2>2
<1>3. ASSUME NEW i \in 1 .. n, NEW u \in V PROVE step(i, u) \in V
  <2>1. u[c[i].op1] \in Bits /\ u[c[i].op2] \in Bits
    BY AddressesOf
  <2>2. u[c[i].op1] * u[c[i].op2] \in Bits
    BY <2>1 DEF Bits
  <2>3. Xor2(u[c[i].op1], u[c[i].op2]) \in Bits
    BY <2>1, XorOfBits
  <2> QED BY <2>2, <2>3
<1>4. F \in [(1 .. n) \X V -> V]
  <2> HIDE DEF step, V
  <2> QED BY <1>3
<1>5. PICK v \in [0 .. n -> V] : v[0] = v0 /\ \A i \in 1 .. n : v[i] = F[<<i, v[i - 1]>>]
  <2> HIDE DEF F, n, V, v0
  <2>1. \E f \in [0 .. n -> V] : StepByStep(f, n, v0, F)
    BY <1>1, <1>2, <1>4, RecursionExists
  <2> QED BY <2>1 DEF StepByStep
<1>6. ASSUME NEW i \in 1 .. n PROVE v[i] = step(i, v[i - 1])
  <2> HIDE DEF step, V, F, v0
  <2>1. i - 1 \in 0 .. n
    BY <1>1
  <2>2. v[i - 1] \in V
    BY <1>5, <2>1
  <2>3. F[<<i, v[i - 1]>>] = step(i, v[i - 1])
    BY <2>2 DEF F
  <2> QED BY <1>5, <2>3
<1>7. \A i \in 1 .. n : \A a \in S :
        v[i][a] = IF a # c[i].dst THEN v[i - 1][a]
                  ELSE IF c[i].type = "and"
                    THEN v[i - 1][c[i].op1] * v[i - 1][c[i].op2]
                    ELSE Xor2(v[i - 1][c[i].op1], v[i - 1][c[i].op2])
  <2>1. ASSUME NEW i \in 1 .. n, NEW a \in S
        PROVE  step(i, v[i - 1])[a] =
                 IF a # c[i].dst THEN v[i - 1][a]
                 ELSE IF c[i].type = "and"
                   THEN v[i - 1][c[i].op1] * v[i - 1][c[i].op2]
                   ELSE Xor2(v[i - 1][c[i].op1], v[i - 1][c[i].op2])
    OBVIOUS
  <2> HIDE DEF step, F, v0
  <2> QED BY <1>6, <2>1
<1>8. \A a \in S : v[0][a] = IF a \in InputGates(c)
                               THEN w[Place(c, InputGates(c), a)] ELSE 0
  BY <1>5
<1> HIDE DEF step, F, v0
<1> QED BY <1>5, <1>7, <1>8 DEF Visits

(* The evaluation string is what is there after the last gate.             *)
LEMMA EvaluationIs ==
  ASSUME NEW c, Provable(c),
         NEW w \in [1 .. Cardinality(InputGates(c)) -> Bits]
  PROVE  \E v : /\ Visits(c, w, v)
                /\ Evaluation(c, InputGates(c), w) =
                     [k \in 1 .. Size(c) |-> v[Len(c)][k - 1]]
<1> DEFINE n == Len(c)
           In == InputGates(c)
           S == 0 .. Size(c) - 1
           first == [a \in S |-> IF a \in In THEN w[Place(c, In, a)] ELSE 0]
           next(i, u) == [a \in S |-> IF a # c[i].dst THEN u[a]
                                      ELSE IF c[i].type = "and"
                                        THEN u[c[i].op1] * u[c[i].op2]
                                        ELSE Xor2(u[c[i].op1], u[c[i].op2])]
           Walk(u) == u = [i \in 0 .. n |-> IF i = 0 THEN first ELSE next(i, u[i - 1])]
           value == CHOOSE u : Walk(u)
<1>1. n \in Nat
  BY SizeBounds
<1>2. PICK v : Visits(c, w, v)
  BY VisitsExist
<1>3. v \in [0 .. n -> [S -> Bits]]
  BY <1>2 DEF Visits
<1>4. v[0] = first
  <2>1. \A a \in S : v[0][a] = first[a]
    BY <1>2 DEF Visits
  <2>2. v[0] \in [S -> Bits]
    BY <1>1, <1>3
  <2> HIDE DEF S
  <2> QED BY <2>1, <2>2
<1>5. ASSUME NEW i \in 1 .. n PROVE v[i] = next(i, v[i - 1])
  <2>1. \A a \in S : v[i][a] = next(i, v[i - 1])[a]
    BY <1>2 DEF Visits
  <2>2. v[i] \in [S -> Bits]
    BY <1>1, <1>3
  <2> HIDE DEF S
  <2> QED BY <2>1, <2>2
<1>6. Walk(v)
  <2>1. \A i \in 0 .. n : i = 0 \/ i \in 1 .. n
    BY <1>1
  <2> HIDE DEF first, next, n, S
  <2>2. v = [i \in 0 .. n |-> v[i]]
    BY <1>3
  <2>3. \A i \in 0 .. n : v[i] = IF i = 0 THEN first ELSE next(i, v[i - 1])
    BY <1>4, <1>5, <2>1
  <2> QED BY <2>2, <2>3
<1>7. Walk(value)
  <2> HIDE DEF Walk
  <2> QED BY <1>6
<1>8. Evaluation(c, In, w) = [k \in 1 .. Size(c) |-> value[n][k - 1]]
  BY DEF Evaluation, Size
<1> HIDE DEF value
<1>9. value[0] = first /\ \A i \in 1 .. n : value[i] = next(i, value[i - 1])
  <2> HIDE DEF first, next
  <2>1. \A i \in 0 .. n : value[i] = IF i = 0 THEN first ELSE next(i, value[i - 1])
    BY <1>7
  <2>2. 0 \in 0 .. n /\ \A i \in 1 .. n : i \in 0 .. n /\ i # 0
    BY <1>1
  <2> QED BY <2>1, <2>2
<1>10. DOMAIN value = 0 .. n /\ value = [i \in 0 .. n |-> value[i]]
  <2> HIDE DEF first, next
  <2>1. DOMAIN value = 0 .. n
    BY <1>7
  <2>2. value = [i \in DOMAIN value |-> value[i]]
    BY <1>7
  <2> QED BY <2>1, <2>2
<1> HIDE DEF Walk
<1> DEFINE P == {i \in Nat : i <= n => value[i] = v[i]}
<1>11. 0 \in P
  BY <1>4, <1>9
<1>12. ASSUME NEW i \in Nat, i \in P PROVE i + 1 \in P
  <2>1. ASSUME i + 1 <= n PROVE value[i + 1] = v[i + 1]
    <3>1. i + 1 \in 1 .. n /\ (i + 1) - 1 = i
      BY <1>1, <2>1
    <3>2. value[i] = v[i]
      BY <1>12, <2>1, <1>1
    <3> HIDE DEF next
    <3> QED BY <1>5, <1>9, <3>1, <3>2
  <2> QED BY <2>1
<1>13. \A i \in Nat : i \in P
  <2> HIDE DEF P
  <2> QED BY <1>11, <1>12, SetInduction
<1>14. value[n] = v[n]
  BY <1>1, <1>13
<1> HIDE DEF first, next, P
<1> QED BY <1>2, <1>8, <1>14

LEMMA EvaluationBits ==
  ASSUME NEW c, Provable(c),
         NEW w \in [1 .. Cardinality(InputGates(c)) -> Bits]
  PROVE  /\ Evaluation(c, InputGates(c), w) \in Seq(Bits)
         /\ Len(Evaluation(c, InputGates(c), w)) = Size(c)
<1> DEFINE string == Evaluation(c, InputGates(c), w)
<1>1. PICK v : Visits(c, w, v) /\ string = [k \in 1 .. Size(c) |-> v[Len(c)][k - 1]]
  BY EvaluationIs
<1>2. Len(c) \in 0 .. Len(c) /\ Size(c) \in Nat
  BY SizeBounds
<1>3. v[Len(c)] \in [0 .. Size(c) - 1 -> Bits]
  BY <1>1, <1>2 DEF Visits
<1> HIDE DEF string
<1>4. string \in [1 .. Size(c) -> Bits]
  <2>1. \A k \in 1 .. Size(c) : v[Len(c)][k - 1] \in Bits
    BY <1>2, <1>3
  <2> QED BY <1>1, <2>1
<1>5. string \in Seq(Bits) /\ Len(string) = Size(c)
  BY <1>2, <1>4, FunctionIsSeq
<1> QED BY <1>5 DEF string
-----------------------------------------------------------------------------
(* The message: the string and the auxiliary bits.                         *)
IsPerm(p) == \A k \in 1 .. 3 : \E j \in 1 .. 3 : p[j] = k - 1

LEMMA PermsAre ==
  /\ \A r \in 0 .. 5 : IsPerm(perms[r + 1])
  /\ \A r \in 0 .. 2 : IsPerm(majs[r + 1])
<1> DEFINE Q(x, y, z) == IsPerm(<<x, y, z>>)
<1>1. ASSUME NEW p, \/ p[1] = 0 /\ p[2] = 1 /\ p[3] = 2
                    \/ p[1] = 0 /\ p[2] = 2 /\ p[3] = 1
                    \/ p[1] = 1 /\ p[2] = 0 /\ p[3] = 2
                    \/ p[1] = 1 /\ p[2] = 2 /\ p[3] = 0
                    \/ p[1] = 2 /\ p[2] = 0 /\ p[3] = 1
                    \/ p[1] = 2 /\ p[2] = 1 /\ p[3] = 0
      PROVE  IsPerm(p)
  <2>1. 1 \in 1 .. 3 /\ 2 \in 1 .. 3 /\ 3 \in 1 .. 3
    OBVIOUS
  <2>2. \A k \in 1 .. 3 : k - 1 = 0 \/ k - 1 = 1 \/ k - 1 = 2
    OBVIOUS
  <2> QED BY <1>1, <2>1, <2>2 DEF IsPerm
<1>2. ASSUME NEW r \in 0 .. 5 PROVE IsPerm(perms[r + 1])
  <2>1. r = 0 \/ r = 1 \/ r = 2 \/ r = 3 \/ r = 4 \/ r = 5
    OBVIOUS
  <2> QED BY <1>1, <2>1 DEF perms
<1>3. ASSUME NEW r \in 0 .. 2 PROVE IsPerm(majs[r + 1])
  <2>1. r = 0 \/ r = 1 \/ r = 2
    OBVIOUS
  <2> QED BY <1>1, <2>1 DEF majs
<1> QED BY <1>2, <1>3

LEMMA PermutedIn ==
  ASSUME NEW T, NEW p, IsPerm(p), NEW x, x[1] \in T, x[2] \in T, x[3] \in T
  PROVE  Permuted(p, x) \in [1 .. 3 -> T]
<1>1. ASSUME NEW k \in 1 .. 3
      PROVE  x[CHOOSE j \in 1 .. 3 : p[j] = k - 1] \in T
  <2>1. PICK j \in 1 .. 3 : p[j] = k - 1
    BY DEF IsPerm
  <2>2. (CHOOSE i \in 1 .. 3 : p[i] = k - 1) \in 1 .. 3
    BY <2>1
  <2>3. \A i \in 1 .. 3 : x[i] \in T
    <3>1. \A i \in 1 .. 3 : i = 1 \/ i = 2 \/ i = 3
      OBVIOUS
    <3> QED BY <3>1
  <2> QED BY <2>2, <2>3
<1> QED BY <1>1 DEF Permuted

LEMMA BinaryBits ==
  ASSUME NEW v \in Nat, NEW w \in 2 .. 3
  PROVE  Binary(v, w) \in [1 .. w -> Bits]
<1>1. ASSUME NEW i \in 1 .. w PROVE (v \div <<1, 2, 4>>[i]) % 2 \in Bits
  <2>1. i = 1 \/ i = 2 \/ i = 3
    OBVIOUS
  <2>2. PICK d \in {1, 2, 4} : <<1, 2, 4>>[i] = d
    BY <2>1
  <2>3. v \div d \in Nat
    BY <2>2
  <2>4. ASSUME NEW m \in Nat PROVE m % 2 \in Bits
    BY DEF Bits
  <2> QED BY <2>2, <2>3, <2>4
<1> QED BY <1>1 DEF Binary

LEMMA InThrees ==
  ASSUME NEW q \in Nat, NEW r \in 0 .. 2, NEW x, x = 3 * q + r
  PROVE  x \div 3 = q /\ x % 3 = r
OBVIOUS

(* Groups of w bits, laid out one behind the other.                        *)
LEMMA GroupedBits ==
  ASSUME NEW n \in Nat, NEW w \in 2 .. 3, NEW groups \in [1 .. n -> [1 .. w -> Bits]]
  PROVE  /\ Grouped(w, groups) \in Seq(Bits) /\ Len(Grouped(w, groups)) = w * n
         /\ \A k \in 1 .. n, j \in 1 .. w :
              Grouped(w, groups)[w * (k - 1) + j] = groups[k][j]
<1>1. Len(groups) = n
  BY FunctionIsSeq
<1> DEFINE m == w * n
<1>2. w = 2 \/ w = 3
  OBVIOUS
<1>3. m \in Nat /\ (w = 2 => m = 2 * n) /\ (w = 3 => m = 3 * n)
  BY <1>2
<1>4. Grouped(w, groups) =
        [i \in 1 .. m |-> groups[((i - 1) \div w) + 1][((i - 1) % w) + 1]]
  BY <1>1 DEF Grouped
<1> HIDE DEF m
<1>5. ASSUME NEW i \in 1 .. m
      PROVE  ((i - 1) \div w) + 1 \in 1 .. n /\ ((i - 1) % w) + 1 \in 1 .. w
  <2>1. CASE w = 2
    <3>1. ((i - 1) \div 2) + 1 \in 1 .. n /\ ((i - 1) % 2) + 1 \in 1 .. 2
      BY <1>3, <2>1
    <3> QED BY <2>1, <3>1
  <2>2. CASE w = 3
    <3>1. ((i - 1) \div 3) + 1 \in 1 .. n /\ ((i - 1) % 3) + 1 \in 1 .. 3
      BY <1>3, <2>2
    <3> QED BY <2>2, <3>1
  <2> QED BY <1>2, <2>1, <2>2
<1> DEFINE at(k, j) == w * (k - 1) + j
<1>6. ASSUME NEW k \in 1 .. n, NEW j \in 1 .. w
      PROVE  /\ at(k, j) \in 1 .. m
             /\ ((at(k, j) - 1) \div w) + 1 = k /\ ((at(k, j) - 1) % w) + 1 = j
  <2>1. CASE w = 2
    <3>1. at(k, j) = 2 * (k - 1) + j
      BY <2>1
    <3> HIDE DEF at
    <3>2. /\ at(k, j) \in 1 .. m
          /\ ((at(k, j) - 1) \div 2) + 1 = k /\ ((at(k, j) - 1) % 2) + 1 = j
      BY <1>3, <2>1, <3>1, SMTT(30)
    <3> QED BY <2>1, <3>2
  <2>2. CASE w = 3
    <3>1. at(k, j) = 3 * (k - 1) + j
      BY <2>2
    <3> HIDE DEF at
    <3>2. at(k, j) \in 1 .. m
      BY <1>3, <2>2, <3>1
    <3>3. at(k, j) - 1 = 3 * (k - 1) + (j - 1) /\ k - 1 \in Nat /\ j - 1 \in 0 .. 2
      BY <2>2, <3>1
    <3>4. (at(k, j) - 1) \div 3 = k - 1 /\ (at(k, j) - 1) % 3 = j - 1
      BY <3>3, InThrees
    <3>5. ((at(k, j) - 1) \div 3) + 1 = k /\ ((at(k, j) - 1) % 3) + 1 = j
      BY <3>3, <3>4
    <3> QED BY <2>2, <3>2, <3>5
  <2> QED BY <1>2, <2>1, <2>2
<1> HIDE DEF at
<1>7. Grouped(w, groups) \in [1 .. m -> Bits]
  <2> DEFINE q(i) == ((i - 1) \div w) + 1
             r(i) == ((i - 1) % w) + 1
  <2>1. \A i \in 1 .. m : q(i) \in 1 .. n /\ r(i) \in 1 .. w
    BY <1>5
  <2>2. Grouped(w, groups) = [i \in 1 .. m |-> groups[q(i)][r(i)]]
    BY <1>4
  <2> HIDE DEF q, r
  <2>3. \A i \in 1 .. m : groups[q(i)][r(i)] \in Bits
    BY <2>1
  <2> QED BY <2>2, <2>3
<1>8. Grouped(w, groups) \in Seq(Bits) /\ Len(Grouped(w, groups)) = m
  BY <1>3, <1>7, FunctionIsSeq
<1>9. ASSUME NEW k \in 1 .. n, NEW j \in 1 .. w
      PROVE  Grouped(w, groups)[at(k, j)] = groups[k][j]
  <2> DEFINE x == at(k, j)
  <2>1. x \in 1 .. m /\ ((x - 1) \div w) + 1 = k /\ ((x - 1) % w) + 1 = j
    BY <1>6
  <2> HIDE DEF x
  <2>2. Grouped(w, groups)[x] = groups[((x - 1) \div w) + 1][((x - 1) % w) + 1]
    BY <1>4, <2>1
  <2> QED BY <2>1, <2>2 DEF x
<1>10. \A k \in 1 .. n, j \in 1 .. w : Grouped(w, groups)[at(k, j)] = groups[k][j]
  BY <1>9
<1>11. \A k \in 1 .. n, j \in 1 .. w :
         Grouped(w, groups)[w * (k - 1) + j] = groups[k][j]
  BY <1>10 DEF at
<1> QED BY <1>8, <1>11 DEF m

(* The auxiliary bits of every AND gate, and the messages about them.      *)
LEMMA AuxOfBits ==
  ASSUME NEW c, Provable(c), NEW string \in Seq(Bits), Len(string) = Size(c),
         NEW r \in 0 .. 5, NEW i \in 1 .. Len(c)
  PROVE  AuxOf(string, c[i], r) \in [1 .. 3 -> Bits]
<1> DEFINE x == <<Bit(string, c[i].dst), Bit(string, c[i].op1), Bit(string, c[i].op2)>>
<1>1. ASSUME NEW a \in 0 .. Size(c) - 1 PROVE Bit(string, a) \in Bits
  <2>1. a + 1 \in 1 .. Len(string)
    BY SizeBounds
  <2> QED BY <2>1 DEF Bit
<1>2. x[1] \in Bits /\ x[2] \in Bits /\ x[3] \in Bits
  BY <1>1, AddressesOf
<1> HIDE DEF x
<1>3. Permuted(perms[r + 1], x) \in [1 .. 3 -> Bits]
  BY <1>2, PermsAre, PermutedIn
<1> QED BY <1>3 DEF AuxOf, x

LEMMA GpamBits ==
  ASSUME NEW c, Provable(c), NEW string \in Seq(Bits), Len(string) = Size(c),
         NEW rs \in [1 .. AllAnds(c) -> Randoms]
  PROVE  /\ AuxBits(c, string, rs) \in [1 .. AllAnds(c) -> [1 .. 3 -> Bits]]
         /\ GpamAux(c, string, rs) \in Seq(Bits)
         /\ Len(GpamAux(c, string, rs)) = 3 * AllAnds(c)
         /\ GpamPermutations(c, rs) \in Seq(Bits)
         /\ Len(GpamPermutations(c, rs)) = 3 * AllAnds(c)
         /\ GpamMajority(c, string, rs) \in Seq(Bits)
         /\ Len(GpamMajority(c, string, rs)) = 2 * AllAnds(c)
<1> DEFINE n == AllAnds(c)
           aux == AuxBits(c, string, rs)
<1>1. n \in Nat
  BY SizeBounds
<1>2. ASSUME NEW k \in 1 .. n PROVE AuxOf(string, AndGate(c, k), rs[k]) \in [1 .. 3 -> Bits]
  <2>1. rs[k] \in 0 .. 5
    <3>1. rs[k] \in Randoms
      OBVIOUS
    <3> QED BY <3>1, Rtz14Assumption, Zenon
  <2>2. PICK i \in 1 .. Len(c) : AndGate(c, k) = c[i]
    BY AndGateIs DEF Provable
  <2> QED BY <2>1, <2>2, AuxOfBits
<1>3. aux \in [1 .. n -> [1 .. 3 -> Bits]]
  BY <1>2 DEF AuxBits
<1> HIDE DEF aux
<1>4. 3 \in 2 .. 3 /\ 2 \in 2 .. 3
  OBVIOUS
<1>5. GpamAux(c, string, rs) \in Seq(Bits) /\ Len(GpamAux(c, string, rs)) = 3 * n
  <2> HIDE DEF n
  <2> QED BY <1>1, <1>3, <1>4, GroupedBits DEF GpamAux, aux
<1>6. /\ GpamPermutations(c, rs) \in Seq(Bits)
      /\ Len(GpamPermutations(c, rs)) = 3 * n
  <2> DEFINE g == [k \in 1 .. n |-> Binary(rs[k], 3)]
  <2>1. ASSUME NEW k \in 1 .. n PROVE Binary(rs[k], 3) \in [1 .. 3 -> Bits]
    <3>1. rs[k] \in 0 .. 5
      <4>1. rs[k] \in Randoms
        OBVIOUS
      <4> QED BY <4>1, Rtz14Assumption, Zenon
    <3>2. rs[k] \in Nat
      BY <3>1
    <3> QED BY <1>4, <3>2, BinaryBits
  <2>2. g \in [1 .. n -> [1 .. 3 -> Bits]]
    BY <2>1
  <2>3. GpamPermutations(c, rs) = Grouped(3, g)
    BY DEF GpamPermutations
  <2> HIDE DEF g, n
  <2> QED BY <1>1, <1>4, <2>2, <2>3, GroupedBits
<1>7. /\ GpamMajority(c, string, rs) \in Seq(Bits)
      /\ Len(GpamMajority(c, string, rs)) = 2 * n
  <2> DEFINE g == [k \in DOMAIN aux |-> Binary(MajorityOf(aux[k]), 2)]
  <2>1. ASSUME NEW k \in 1 .. n PROVE Binary(MajorityOf(aux[k]), 2) \in [1 .. 2 -> Bits]
    <3>1. MajorityOf(aux[k]) \in Nat
      BY DEF MajorityOf
    <3> QED BY <1>4, <3>1, BinaryBits
  <2>2. DOMAIN aux = 1 .. n
    BY <1>3
  <2>3. g \in [1 .. n -> [1 .. 2 -> Bits]]
    BY <2>1, <2>2
  <2>4. GpamMajority(c, string, rs) = Grouped(2, g)
    BY DEF GpamMajority, aux
  <2> HIDE DEF g, n
  <2> QED BY <1>1, <1>4, <2>3, <2>4, GroupedBits, ZenonT(60)
<1> QED BY <1>3, <1>5, <1>6, <1>7 DEF aux

LEMMA StringWithAux ==
  ASSUME NEW c, Provable(c), NEW string \in Seq(Bits), Len(string) = Size(c),
         NEW aux \in Seq(Bits), Len(aux) = 3 * AllAnds(c)
  PROVE  LET n == StringLen(c, InputGates(c))
             s == SubSeq(string, 1, n) \o aux
         IN  /\ s \in Seq(Bits) /\ Len(s) = n + 3 * AllAnds(c)
             /\ \A i \in 1 .. n : s[i] = string[i]
             /\ \A i \in 1 .. 3 * AllAnds(c) : s[n + i] = aux[i]
<1> DEFINE n == StringLen(c, InputGates(c))
           m == 3 * AllAnds(c)
           front == SubSeq(string, 1, n)
<1>1. n \in Nat /\ m \in Nat /\ n \in 0 .. Len(string)
  BY SizeBounds
<1> HIDE DEF n, m
<1>2. front \in Seq(Bits) /\ Len(front) = n
  BY <1>1, CutInTwo
<1>3. \A i \in 1 .. n : front[i] = string[i]
  BY <1>1
<1> HIDE DEF front
<1>4. Len(aux) = m
  BY DEF m
<1>5. front \o aux \in Seq(Bits) /\ Len(front \o aux) = n + m
  BY <1>2, <1>4
<1>6. \A i \in 1 .. n : (front \o aux)[i] = string[i]
  BY <1>1, <1>2, <1>3, <1>4
<1>7. \A i \in 1 .. m : (front \o aux)[n + i] = aux[i]
  BY <1>1, <1>2, <1>4
<1> QED BY <1>5, <1>6, <1>7 DEF n, m, front

(* What the message is, bit by bit.                                        *)
LEMMA MessageParts ==
  ASSUME GivenOK, NEW string \in Seq(Bits), Len(string) = Size(circuit),
         NEW aux \in Seq(Bits), Len(aux) = 3 * AllAnds(circuit)
  PROVE  LET n == StringLen(circuit, input_gates)
             m == Message(string, aux)
         IN  /\ m \in Seq(Bits) /\ Len(m) = Span(circuit)
             /\ \A i \in 1 .. n : m[i] = string[i]
             /\ \A i \in 1 .. 3 * AllAnds(circuit) : m[n + i] = aux[i]
<1> DEFINE n == StringLen(circuit, input_gates)
           t == 3 * AllAnds(circuit)
           s == SubSeq(string, 1, n) \o aux
<1>1. Provable(circuit) /\ input_gates = InputGates(circuit)
  BY DEF GivenOK
<1>2. /\ n \in Nat /\ t \in Nat /\ n + t <= Span(circuit) /\ Span(circuit) \in Nat
      /\ Span(circuit) = 8 * NoBytes(n + t)
  BY <1>1, SizeBounds DEF Span
<1>3. /\ s \in Seq(Bits) /\ Len(s) = n + t
      /\ \A i \in 1 .. n : s[i] = string[i]
      /\ \A i \in 1 .. t : s[n + i] = aux[i]
  BY <1>1, StringWithAux
<1>4. Message(string, aux) = PadTo(s, n + t)
  BY DEF Message, MessageBits
<1> HIDE DEF n, t, s
<1>5. n + t \in Nat
  BY <1>2
<1>6. /\ PadTo(s, n + t) \in Seq(Bits) /\ Len(PadTo(s, n + t)) = Span(circuit)
      /\ \A i \in 1 .. Span(circuit) :
           PadTo(s, n + t)[i] = IF i <= Len(s) THEN s[i] ELSE 0
  BY <1>2, <1>3, <1>5, PadToBits, ZenonT(60)
<1>7. \A i \in 1 .. n + t : PadTo(s, n + t)[i] = s[i]
  BY <1>2, <1>3, <1>6
<1>8. \A i \in 1 .. n : PadTo(s, n + t)[i] = string[i]
  BY <1>2, <1>3, <1>7
<1>9. \A i \in 1 .. t : PadTo(s, n + t)[n + i] = aux[i]
  BY <1>2, <1>3, <1>7
<1> QED BY <1>4, <1>6, <1>8, <1>9 DEF n, t

LEMMA MessageBitsAre ==
  ASSUME GivenOK, NEW rs \in [1 .. AllAnds(circuit) -> Randoms], MadeFrom(rs)
  PROVE  /\ message \in Seq(Bits) /\ Len(message) = Span(circuit)
         /\ gpam_res.permutations \in Seq(Bits)
         /\ Len(gpam_res.permutations) = 3 * AllAnds(circuit)
         /\ gpam_res.majority \in Seq(Bits)
         /\ Len(gpam_res.majority) = 2 * AllAnds(circuit)
<1> DEFINE string == Evaluation(circuit, input_gates, witness)
<1>1. /\ Provable(circuit) /\ input_gates = InputGates(circuit)
      /\ witness \in [1 .. Cardinality(InputGates(circuit)) -> Bits]
  BY DEF GivenOK
<1>2. string \in Seq(Bits) /\ Len(string) = Size(circuit)
  BY <1>1, EvaluationBits
<1>3. /\ message = Message(string, GpamAux(circuit, string, rs))
      /\ gpam_res.permutations = GpamPermutations(circuit, rs)
      /\ gpam_res.majority = GpamMajority(circuit, string, rs)
  BY DEF MadeFrom
<1> HIDE DEF string
<1>4. /\ GpamAux(circuit, string, rs) \in Seq(Bits)
      /\ Len(GpamAux(circuit, string, rs)) = 3 * AllAnds(circuit)
      /\ GpamPermutations(circuit, rs) \in Seq(Bits)
      /\ Len(GpamPermutations(circuit, rs)) = 3 * AllAnds(circuit)
      /\ GpamMajority(circuit, string, rs) \in Seq(Bits)
      /\ Len(GpamMajority(circuit, string, rs)) = 2 * AllAnds(circuit)
  BY <1>1, <1>2, GpamBits
<1> QED BY <1>2, <1>3, <1>4, MessageParts
-----------------------------------------------------------------------------
(* Proof tasks about a string of n bits.                                   *)
TaskOn(n) == [indicies : (0 .. n - 1) \X (0 .. n - 1) \X (0 .. n - 1),
              lind : 1 .. 3, value : Bits]
Term(m, t, j) == IF j <= t.lind THEN Bit(m, t.indicies[j]) ELSE 0

LEMMA TaskXorIs ==
  ASSUME NEW m, NEW t
  PROVE  TaskXor(m, t) = Xor2(Xor2(Term(m, t, 1), Term(m, t, 2)), Term(m, t, 3))
BY DEF TaskXor, Term

LEMMA TermBits ==
  ASSUME NEW n \in Nat, NEW t \in TaskOn(n), NEW j \in 1 .. 3
  PROVE  /\ t.indicies[j] \in 0 .. n - 1 /\ t.lind \in 1 .. 3 /\ t.value \in Bits
         /\ \A m : (\A i \in 1 .. n : m[i] \in Bits) => Term(m, t, j) \in Bits
<1>1. /\ t.indicies \in (0 .. n - 1) \X (0 .. n - 1) \X (0 .. n - 1)
      /\ t.lind \in 1 .. 3 /\ t.value \in Bits
  BY DEF TaskOn
<1>2. j = 1 \/ j = 2 \/ j = 3
  OBVIOUS
<1>3. t.indicies[j] \in 0 .. n - 1
  BY <1>1, <1>2
<1>4. t.indicies[j] + 1 \in 1 .. n
  BY <1>3
<1>5. 0 \in Bits
  BY DEF Bits
<1> QED BY <1>1, <1>3, <1>4, <1>5 DEF Term, Bit

LEMMA TaskXorBits ==
  ASSUME NEW n \in Nat, NEW t \in TaskOn(n), NEW m, \A i \in 1 .. n : m[i] \in Bits
  PROVE  TaskXor(m, t) \in Bits
<1>1. Term(m, t, 1) \in Bits /\ Term(m, t, 2) \in Bits /\ Term(m, t, 3) \in Bits
  <2>1. 1 \in 1 .. 3 /\ 2 \in 1 .. 3 /\ 3 \in 1 .. 3
    OBVIOUS
  <2> QED BY <2>1, TermBits
<1>2. Xor2(Term(m, t, 1), Term(m, t, 2)) \in Bits
  BY <1>1, XorOfBits
<1> QED BY <1>1, <1>2, XorOfBits, TaskXorIs

(* A task sees no more than the first n bits.                              *)
LEMMA TaskXorSees ==
  ASSUME NEW n \in Nat, NEW t \in TaskOn(n), NEW m, NEW k,
         \A i \in 1 .. n : m[i] = k[i]
  PROVE  TaskXor(m, t) = TaskXor(k, t)
<1>1. ASSUME NEW j \in 1 .. 3 PROVE Term(m, t, j) = Term(k, t, j)
  <2>1. t.indicies[j] + 1 \in 1 .. n
    BY TermBits
  <2> QED BY <2>1 DEF Term, Bit
<1>2. 1 \in 1 .. 3 /\ 2 \in 1 .. 3 /\ 3 \in 1 .. 3
  OBVIOUS
<1> QED BY <1>1, <1>2, TaskXorIs

(* Masking the string masks what a task computes from it.                  *)
LEMMA TaskXorOfXored ==
  ASSUME NEW n \in Nat, NEW t \in TaskOn(n),
         NEW m \in Seq(Bits), Len(m) = n, NEW k, \A i \in 1 .. n : k[i] \in Bits
  PROVE  TaskXor(Xored(m, k), t) = Xor2(TaskXor(m, t), TaskXor(k, t))
<1>1. \A i \in 1 .. n : m[i] \in Bits /\ Xored(m, k)[i] = Xor2(m[i], k[i])
  BY DEF Xored
<1>2. ASSUME NEW j \in 1 .. 3
      PROVE  /\ Term(m, t, j) \in Bits /\ Term(k, t, j) \in Bits
             /\ Term(Xored(m, k), t, j) = Xor2(Term(m, t, j), Term(k, t, j))
  <2>1. t.indicies[j] + 1 \in 1 .. n /\ Term(m, t, j) \in Bits /\ Term(k, t, j) \in Bits
    BY <1>1, TermBits
  <2>2. Xor2(0, 0) = 0
    BY DEF Xor2
  <2> QED BY <1>1, <2>1, <2>2 DEF Term, Bit
<1>3. ASSUME NEW x1 \in Bits, NEW x2 \in Bits, NEW x3 \in Bits,
             NEW y1 \in Bits, NEW y2 \in Bits, NEW y3 \in Bits
      PROVE  Xor2(Xor2(Xor2(x1, y1), Xor2(x2, y2)), Xor2(x3, y3))
               = Xor2(Xor2(Xor2(x1, x2), x3), Xor2(Xor2(y1, y2), y3))
  <2>1. Xor2(0, 0) = 0 /\ Xor2(0, 1) = 1 /\ Xor2(1, 0) = 1 /\ Xor2(1, 1) = 0
    BY DEF Xor2
  <2>2. /\ x1 = 0 \/ x1 = 1
        /\ x2 = 0 \/ x2 = 1
        /\ x3 = 0 \/ x3 = 1
        /\ y1 = 0 \/ y1 = 1
        /\ y2 = 0 \/ y2 = 1
        /\ y3 = 0 \/ y3 = 1
    BY DEF Bits
  <2> QED BY <2>1, <2>2
<1>4. 1 \in 1 .. 3 /\ 2 \in 1 .. 3 /\ 3 \in 1 .. 3
  OBVIOUS
<1> QED BY <1>2, <1>3, <1>4, TaskXorIs

LEMMA DeltaBits ==
  ASSUME NEW n \in Nat, NEW tasks \in Seq(TaskOn(n)), NEW m, \A i \in 1 .. n : m[i] \in Bits
  PROVE  /\ DeltaString(tasks, m) \in Seq(Bits) /\ Len(DeltaString(tasks, m)) = Len(tasks)
         /\ \A i \in 1 .. Len(tasks) : DeltaString(tasks, m)[i] = TaskXor(m, tasks[i])
<1>1. \A i \in 1 .. Len(tasks) : TaskXor(m, tasks[i]) \in Bits
  BY TaskXorBits
<1>2. DeltaString(tasks, m) \in [1 .. Len(tasks) -> Bits]
  BY <1>1 DEF DeltaString
<1>3. DeltaString(tasks, m) \in Seq(Bits) /\ Len(DeltaString(tasks, m)) = Len(tasks)
  BY <1>2, FunctionIsSeq
<1> QED BY <1>3 DEF DeltaString
-----------------------------------------------------------------------------
(* The tasks of a gate, and all of them.                                   *)

LEMMA PermutationIs ==
  ASSUME NEW n \in Nat, NEW k \in 0 .. n - 1, NEW p, \A i \in 1 .. 3 * n : p[i] \in Bits
  PROVE  /\ \A j \in 1 .. 3 : ApplyPermutation(p, k)[j] \in 0 .. 2
         /\ \A q : (\A i \in 1 .. 3 * n : q[i] = p[i]) =>
                      ApplyPermutation(q, k) = ApplyPermutation(p, k)
<1> DEFINE index(q) == Bit(q, 3 * k) + 2 * Bit(q, 3 * k + 1) + 4 * Bit(q, 3 * k + 2)
           chosen(x) == IF x > 5 THEN <<0, 1, 2>> ELSE Permuted(perms[x + 1], <<0, 1, 2>>)
<1>1. /\ 3 * k + 1 \in 1 .. 3 * n /\ 3 * k + 1 + 1 \in 1 .. 3 * n
      /\ 3 * k + 2 + 1 \in 1 .. 3 * n
  OBVIOUS
<1>2. index(p) \in 0 .. 7
  <2>1. Bit(p, 3 * k) \in Bits /\ Bit(p, 3 * k + 1) \in Bits /\ Bit(p, 3 * k + 2) \in Bits
    BY <1>1 DEF Bit
  <2> QED BY <2>1 DEF Bits
<1>3. \A q : ApplyPermutation(q, k) = chosen(index(q))
  BY DEF ApplyPermutation
<1>4. ASSUME NEW q, \A i \in 1 .. 3 * n : q[i] = p[i] PROVE index(q) = index(p)
  <2>1. /\ Bit(q, 3 * k) = Bit(p, 3 * k) /\ Bit(q, 3 * k + 1) = Bit(p, 3 * k + 1)
        /\ Bit(q, 3 * k + 2) = Bit(p, 3 * k + 2)
    BY <1>1, <1>4 DEF Bit
  <2> QED BY <2>1
<1>5. ASSUME NEW x \in 0 .. 7, NEW j \in 1 .. 3 PROVE chosen(x)[j] \in 0 .. 2
  <2>1. CASE x > 5
    <3>1. j = 1 \/ j = 2 \/ j = 3
      OBVIOUS
    <3> QED BY <2>1, <3>1
  <2>2. CASE ~(x > 5)
    <3> DEFINE id == <<0, 1, 2>>
    <3>1. x \in 0 .. 5
      BY <2>2
    <3>2. id[1] \in 0 .. 2 /\ id[2] \in 0 .. 2 /\ id[3] \in 0 .. 2
      OBVIOUS
    <3> HIDE DEF id
    <3>3. Permuted(perms[x + 1], id) \in [1 .. 3 -> 0 .. 2]
      BY <3>1, <3>2, PermsAre, PermutedIn
    <3> QED BY <2>2, <3>3 DEF id
  <2> QED BY <2>1, <2>2
<1> HIDE DEF index, chosen
<1> QED BY <1>2, <1>3, <1>4, <1>5

LEMMA MajorityIs ==
  ASSUME NEW n \in Nat, NEW k \in 0 .. n - 1, NEW m, \A i \in 1 .. 2 * n : m[i] \in Bits
  PROVE  /\ \A j \in 1 .. 3 : ApplyMajority(m, k)[j] \in 0 .. 2
         /\ \A q : (\A i \in 1 .. 2 * n : q[i] = m[i]) =>
                      ApplyMajority(q, k) = ApplyMajority(m, k)
<1> DEFINE byte_idx == (2 * k) \div 8
           bit_idx == (2 * k + 7) \div 8 - byte_idx
           at == 8 * byte_idx + bit_idx
           chosen(x) == IF 2 * x + x > 2 THEN <<0, 1, 2>>
                        ELSE Permuted(majs[2 * x + x + 1], <<0, 1, 2>>)
<1>1. at + 1 \in 1 .. 2 * n
  <2>1. byte_idx \in Nat /\ 8 * byte_idx <= 2 * k /\ 2 * k < 8 * byte_idx + 8
    OBVIOUS
  <2>2. bit_idx = IF 8 * byte_idx = 2 * k THEN 0 ELSE 1
    <3> DEFINE r == 2 * k - 8 * byte_idx
    <3>1. r \in 0 .. 7 /\ 2 * k = 8 * byte_idx + r
      BY <2>1
    <3>2. (2 * k + 7) \div 8 = byte_idx + (IF r = 0 THEN 0 ELSE 1)
      <4> HIDE DEF byte_idx, r
      <4> QED BY <2>1, <3>1
    <3> QED BY <2>1, <3>1, <3>2
  <2> HIDE DEF byte_idx, bit_idx
  <2> QED BY <2>1, <2>2
<1> HIDE DEF byte_idx, bit_idx, at
<1>2. \A q : ApplyMajority(q, k) = chosen(Bit(q, at))
  BY DEF ApplyMajority, at, bit_idx, byte_idx
<1>3. Bit(m, at) \in Bits
  BY <1>1 DEF Bit
<1>4. ASSUME NEW q, \A i \in 1 .. 2 * n : q[i] = m[i] PROVE Bit(q, at) = Bit(m, at)
  BY <1>1, <1>4 DEF Bit
<1>5. ASSUME NEW x \in Bits, NEW j \in 1 .. 3 PROVE chosen(x)[j] \in 0 .. 2
  <2>1. CASE x = 1
    <3>1. j = 1 \/ j = 2 \/ j = 3
      OBVIOUS
    <3> QED BY <2>1, <3>1
  <2>2. CASE x = 0
    <3> DEFINE id == <<0, 1, 2>>
    <3>1. 2 * x + x + 1 = 0 + 1 /\ ~(2 * x + x > 2) /\ 0 \in 0 .. 2
      BY <2>2
    <3>2. id[1] \in 0 .. 2 /\ id[2] \in 0 .. 2 /\ id[3] \in 0 .. 2
      OBVIOUS
    <3> HIDE DEF id
    <3>3. Permuted(majs[0 + 1], id) \in [1 .. 3 -> 0 .. 2]
      BY <3>1, <3>2, PermsAre, PermutedIn
    <3> QED BY <3>1, <3>3 DEF id
  <2> QED BY <2>1, <2>2 DEF Bits
<1> HIDE DEF chosen
<1> QED BY <1>2, <1>3, <1>4, <1>5
-----------------------------------------------------------------------------
(* The bits that choose, and what one gate asks to be shown.               *)
Chosen(c, ch) == (IF ch = 0 THEN 3 ELSE 2) * AllAnds(c)
GateTasks(c, ch, p, i) ==
  IF c[i].type = "xor" THEN XorTasks(c[i])
  ELSE AndTasks(c[i], ch, NoAnds(c, i - 1), StringLen(c, InputGates(c)), p, address_of_one)

LEMMA TaskIs ==
  ASSUME NEW n \in Nat, NEW x \in 0 .. n - 1, NEW y \in 0 .. n - 1, NEW z \in 0 .. n - 1,
         NEW l \in 1 .. 3, NEW v \in Bits
  PROVE  Task(<<x, y, z>>, l, v) \in TaskOn(n)
BY DEF Task, TaskOn

LEMMA GateTasksAre ==
  ASSUME NEW c, Provable(c), NEW ch \in Bits, NEW i \in 1 .. Len(c),
         NEW p, \A j \in 1 .. Chosen(c, ch) : p[j] \in Bits
  PROVE  /\ GateTasks(c, ch, p, i) \in Seq(TaskOn(Span(c)))
         /\ Len(GateTasks(c, ch, p, i)) > 0
         /\ \A q : (\A j \in 1 .. Chosen(c, ch) : q[j] = p[j]) =>
                      GateTasks(c, ch, q, i) = GateTasks(c, ch, p, i)
<1> DEFINE g == c[i]
           n == Span(c)
           base == StringLen(c, InputGates(c))
           one == address_of_one
           ands == AllAnds(c)
           k == NoAnds(c, i - 1)
<1>1. /\ n \in Nat /\ base \in Nat /\ ands \in Nat /\ Size(c) \in Nat
      /\ base + 3 * ands <= n /\ Size(c) <= n
  BY SizeBounds
<1>2. /\ g.dst \in 0 .. n - 1 /\ g.op1 \in 0 .. n - 1 /\ g.op2 \in 0 .. n - 1
      /\ g.type \in {"and", "xor"} /\ one \in 0 .. n - 1 /\ 0 \in 0 .. n - 1
  <2>1. g \in Gate
    BY AddressesOf
  <2>2. /\ g.dst \in 0 .. Size(c) - 1 /\ g.op1 \in 0 .. Size(c) - 1
        /\ g.op2 \in 0 .. Size(c) - 1 /\ one \in 0 .. Size(c) - 1
    BY AddressesOf DEF Provable
  <2>3. g.type \in {"and", "xor"}
    BY <2>1 DEF Gate
  <2>4. \A x \in 0 .. Size(c) - 1 : x \in 0 .. n - 1 /\ 0 \in 0 .. n - 1
    BY <1>1
  <2> HIDE DEF g, n, one
  <2> QED BY <2>2, <2>3, <2>4
<1>3. 0 \in Bits /\ 1 \in Bits /\ 1 \in 1 .. 3 /\ 2 \in 1 .. 3 /\ 3 \in 1 .. 3
  BY DEF Bits
<1>4. CASE g.type = "xor"
  <2>1. \A q : GateTasks(c, ch, q, i) = XorTasks(g)
    BY <1>4 DEF GateTasks
  <2>2. XorTasks(g) = <<Task(<<g.dst, g.op1, g.op2>>, 3, 0)>>
    BY DEF XorTasks
  <2> HIDE DEF g, n
  <2>3. Task(<<g.dst, g.op1, g.op2>>, 3, 0) \in TaskOn(n)
    BY <1>1, <1>2, <1>3, TaskIs
  <2>4. XorTasks(g) \in Seq(TaskOn(n)) /\ Len(XorTasks(g)) = 1
    BY <2>2, <2>3
  <2>5. GateTasks(c, ch, p, i) = XorTasks(g)
    BY <2>1
  <2>6. GateTasks(c, ch, p, i) \in Seq(TaskOn(n)) /\ Len(GateTasks(c, ch, p, i)) > 0
    BY <2>4, <2>5
  <2>7. \A q : GateTasks(c, ch, q, i) = GateTasks(c, ch, p, i)
    BY <2>1, <2>5
  <2> QED BY <2>6, <2>7 DEF n
<1>5. CASE g.type = "and"
  <2>1. k \in 0 .. ands - 1
    <3>1. c \in Seq(Gate) /\ c[i].type = "and"
      BY <1>5 DEF Provable
    <3>2. NoAnds(c, i - 1) \in Nat /\ NoAnds(c, i - 1) + 1 <= AllAnds(c)
      BY <3>1, AndsBefore
    <3> QED BY <1>1, <3>2
  <2>2. \A q : GateTasks(c, ch, q, i) = AndTasks(g, ch, k, base, q, one)
    BY <1>5 DEF GateTasks
  <2>3. CASE ch = 0
    <3> DEFINE tasks(q) == LET indx == ApplyPermutation(q, k)
                               at == base + 3 * k
                           IN  <<Task(<<one, at + indx[1], 0>>, 2, 1),
                                 Task(<<g.op1, at + indx[2], 0>>, 2, 0),
                                 Task(<<g.op2, at + indx[3], 0>>, 2, 0)>>
               indx == ApplyPermutation(p, k)
               at == base + 3 * k
    <3>1. \A q : AndTasks(g, ch, k, base, q, one) = tasks(q)
      BY <2>3 DEF AndTasks
    <3>2. Chosen(c, ch) = 3 * ands
      BY <2>3 DEF Chosen
    <3> HIDE DEF g, n, base, one, ands, k
    <3>3. /\ \A j \in 1 .. 3 : indx[j] \in 0 .. 2
          /\ \A q : (\A j \in 1 .. 3 * ands : q[j] = p[j]) => ApplyPermutation(q, k) = indx
      BY <1>1, <2>1, <3>2, PermutationIs
    <3>4. \A q : (\A j \in 1 .. 3 * ands : q[j] = p[j]) => tasks(q) = tasks(p)
      BY <3>3
    <3>5. /\ at + indx[1] \in 0 .. n - 1 /\ at + indx[2] \in 0 .. n - 1
          /\ at + indx[3] \in 0 .. n - 1
      <4>1. ASSUME NEW x \in 0 .. 2 PROVE at + x \in 0 .. n - 1
        BY <1>1, <2>1
      <4> HIDE DEF indx, at
      <4> QED BY <3>3, <4>1, <1>3
    <3>6. tasks(p) = <<Task(<<one, at + indx[1], 0>>, 2, 1),
                       Task(<<g.op1, at + indx[2], 0>>, 2, 0),
                       Task(<<g.op2, at + indx[3], 0>>, 2, 0)>>
      OBVIOUS
    <3> HIDE DEF indx, at, tasks
    <3>7. /\ Task(<<one, at + indx[1], 0>>, 2, 1) \in TaskOn(n)
          /\ Task(<<g.op1, at + indx[2], 0>>, 2, 0) \in TaskOn(n)
          /\ Task(<<g.op2, at + indx[3], 0>>, 2, 0) \in TaskOn(n)
      BY <1>1, <1>2, <1>3, <3>5, TaskIs
    <3>8. tasks(p) \in Seq(TaskOn(n)) /\ Len(tasks(p)) = 3
      BY <3>6, <3>7
    <3>9. \A q : GateTasks(c, ch, q, i) = tasks(q)
      BY <2>2, <3>1
    <3>10. GateTasks(c, ch, p, i) \in Seq(TaskOn(n)) /\ Len(GateTasks(c, ch, p, i)) > 0
      BY <3>8, <3>9, SMTT(30)
    <3>11. \A q : (\A j \in 1 .. Chosen(c, ch) : q[j] = p[j]) =>
             GateTasks(c, ch, q, i) = GateTasks(c, ch, p, i)
      BY <3>2, <3>4, <3>9
    <3> QED BY <3>10, <3>11 DEF n
  <2>4. CASE ch = 1
    <3> DEFINE tasks(q) == LET indx == ApplyMajority(q, k)
                               at == base + 2 * k
                           IN  <<Task(<<g.op1, at + indx[1], 0>>, 2, 0),
                                 Task(<<g.op2, at + indx[2], 0>>, 2, 0)>>
               indx == ApplyMajority(p, k)
               at == base + 2 * k
    <3>1. \A q : AndTasks(g, ch, k, base, q, one) = tasks(q)
      BY <2>4 DEF AndTasks
    <3>2. Chosen(c, ch) = 2 * ands
      BY <2>4 DEF Chosen
    <3> HIDE DEF g, n, base, one, ands, k
    <3>3. /\ \A j \in 1 .. 3 : indx[j] \in 0 .. 2
          /\ \A q : (\A j \in 1 .. 2 * ands : q[j] = p[j]) => ApplyMajority(q, k) = indx
      BY <1>1, <2>1, <3>2, MajorityIs
    <3>4. \A q : (\A j \in 1 .. 2 * ands : q[j] = p[j]) => tasks(q) = tasks(p)
      BY <3>3
    <3>5. at + indx[1] \in 0 .. n - 1 /\ at + indx[2] \in 0 .. n - 1
      <4>1. ASSUME NEW x \in 0 .. 2 PROVE at + x \in 0 .. n - 1
        BY <1>1, <2>1
      <4> HIDE DEF indx, at
      <4> QED BY <3>3, <4>1, <1>3
    <3>6. tasks(p) = <<Task(<<g.op1, at + indx[1], 0>>, 2, 0),
                       Task(<<g.op2, at + indx[2], 0>>, 2, 0)>>
      OBVIOUS
    <3> HIDE DEF indx, at, tasks
    <3>7. /\ Task(<<g.op1, at + indx[1], 0>>, 2, 0) \in TaskOn(n)
          /\ Task(<<g.op2, at + indx[2], 0>>, 2, 0) \in TaskOn(n)
      BY <1>1, <1>2, <1>3, <3>5, TaskIs
    <3>8. tasks(p) \in Seq(TaskOn(n)) /\ Len(tasks(p)) = 2
      BY <3>6, <3>7
    <3>9. \A q : GateTasks(c, ch, q, i) = tasks(q)
      BY <2>2, <3>1
    <3>10. GateTasks(c, ch, p, i) \in Seq(TaskOn(n)) /\ Len(GateTasks(c, ch, p, i)) > 0
      BY <3>8, <3>9, SMTT(30)
    <3>11. \A q : (\A j \in 1 .. Chosen(c, ch) : q[j] = p[j]) =>
             GateTasks(c, ch, q, i) = GateTasks(c, ch, p, i)
      BY <3>2, <3>4, <3>9
    <3> QED BY <3>10, <3>11 DEF n
  <2> QED BY <2>3, <2>4 DEF Bits
<1> QED BY <1>2, <1>4, <1>5

(* All tasks are about the message, and there is at least one; they depend *)
(* on the choosing bits alone.                                             *)
LEMMA ProofTasksAre ==
  ASSUME NEW c, Provable(c), NEW ch \in Bits,
         NEW p, \A j \in 1 .. Chosen(c, ch) : p[j] \in Bits
  PROVE  /\ ProofTasks(c, InputGates(c), ch, p, address_of_one) \in Seq(TaskOn(Span(c)))
         /\ Len(ProofTasks(c, InputGates(c), ch, p, address_of_one)) > 0
         /\ \A q : (\A j \in 1 .. Chosen(c, ch) : q[j] = p[j]) =>
              ProofTasks(c, InputGates(c), ch, q, address_of_one)
                = ProofTasks(c, InputGates(c), ch, p, address_of_one)
<1> DEFINE T == TaskOn(Span(c))
           n == Len(c)
           all(q) == [i \in 1 .. n |-> GateTasks(c, ch, q, i)]
<1>1. \A q : ProofTasks(c, InputGates(c), ch, q, address_of_one) = FlattenSeq(all(q))
  BY DEF ProofTasks, GateTasks
<1>2. n \in Nat /\ n > 0
  BY SizeBounds
<1>3. ASSUME NEW i \in 1 .. n
      PROVE  GateTasks(c, ch, p, i) \in Seq(T) /\ Len(GateTasks(c, ch, p, i)) > 0
  BY GateTasksAre
<1> HIDE DEF n, T
<1>4. all(p) \in [1 .. n -> Seq(T)]
  BY <1>3
<1>5. all(p) \in Seq(Seq(T)) /\ Len(all(p)) = n
  BY <1>2, <1>4, FunctionIsSeq
<1>6. FlattenSeq(all(p)) \in Seq(T)
  BY <1>5, FlattenType
<1>7. Len(FlattenSeq(all(p))) > 0
  <2> DEFINE s == all(p)
             m == n - 1
             front == FlattenSeq(SubSeq(s, 1, m))
  <2>1. m \in 0 .. Len(s) - 1 /\ m + 1 = n /\ m \in Nat
    BY <1>2, <1>5
  <2>2. s[n] = GateTasks(c, ch, p, n) /\ s[n] \in Seq(T) /\ Len(s[n]) > 0
    BY <1>2, <1>3
  <2>3. s \in Seq(Seq(T)) /\ Len(s) = n
    BY <1>5
  <2> HIDE DEF s, m
  <2>4. FlattenSeq(SubSeq(s, 1, m + 1)) = front \o s[m + 1]
    BY <2>1, <2>3, FlattenNextMember
  <2>5. SubSeq(s, 1, n) = s
    BY <2>3, SubSeqFull
  <2>6. front \in Seq(T)
    <3>1. m \in 0 .. Len(s)
      BY <2>1, <2>3
    <3>2. SubSeq(s, 1, m) \in Seq(Seq(T))
      BY <2>3, <3>1, CutInTwo
    <3> QED BY <3>2, FlattenType
  <2> HIDE DEF front
  <2>7. Len(front \o s[n]) = Len(front) + Len(s[n]) /\ Len(front) \in Nat
    BY <2>2, <2>6
  <2>8. FlattenSeq(s) = front \o s[n]
    BY <2>1, <2>4, <2>5
  <2>9. Len(FlattenSeq(s)) > 0
    BY <2>2, <2>7, <2>8
  <2> QED BY <2>9 DEF s
<1>8. ASSUME NEW q, \A j \in 1 .. Chosen(c, ch) : q[j] = p[j] PROVE all(q) = all(p)
  <2>1. \A i \in 1 .. n : GateTasks(c, ch, q, i) = GateTasks(c, ch, p, i)
    BY <1>8, GateTasksAre DEF n
  <2> QED BY <2>1
<1> HIDE DEF all
<1>9. \A q : (\A j \in 1 .. Chosen(c, ch) : q[j] = p[j]) =>
        FlattenSeq(all(q)) = FlattenSeq(all(p))
  BY <1>8
<1> QED BY <1>1, <1>6, <1>7, <1>9 DEF T
-----------------------------------------------------------------------------
(* How many tasks the second challenge has: fewer than the message has     *)
(* bits.                                                                   *)
LEMMA CountOfTasks ==
  ASSUME NEW c, Provable(c), NEW p, \A j \in 1 .. Chosen(c, 1) : p[j] \in Bits
  PROVE  Len(ProofTasks(c, InputGates(c), 1, p, address_of_one)) = Len(c) + AllAnds(c)
<1> DEFINE T == TaskOn(Span(c))
           n == Len(c)
           s == [i \in 1 .. n |-> GateTasks(c, 1, p, i)]
           P == {m \in Nat : m <= n => Len(FlattenSeq(SubSeq(s, 1, m))) = m + NoAnds(c, m)}
<1>1. ProofTasks(c, InputGates(c), 1, p, address_of_one) = FlattenSeq(s)
  BY DEF ProofTasks, GateTasks
<1>2. n \in Nat /\ c \in Seq(Gate) /\ 1 \in Bits
  BY SizeBounds DEF Provable, Bits
<1>3. ASSUME NEW i \in 1 .. n
      PROVE  /\ GateTasks(c, 1, p, i) \in Seq(T)
             /\ Len(GateTasks(c, 1, p, i)) = IF c[i].type = "and" THEN 2 ELSE 1
  <2>1. GateTasks(c, 1, p, i) \in Seq(T)
    BY <1>2, GateTasksAre
  <2>2. c[i].type \in {"and", "xor"}
    BY <1>2, GateParts
  <2>3. CASE c[i].type = "xor"
    BY <2>1, <2>3 DEF GateTasks, XorTasks
  <2>4. CASE c[i].type = "and"
    BY <2>1, <2>4 DEF GateTasks, AndTasks
  <2> QED BY <2>1, <2>2, <2>3, <2>4
<1> HIDE DEF T, n
<1>4. s \in [1 .. n -> Seq(T)]
  BY <1>3
<1>5. s \in Seq(Seq(T)) /\ Len(s) = n
  BY <1>2, <1>4, FunctionIsSeq
<1>6. \A i \in 1 .. n : s[i] \in Seq(T) /\ Len(s[i]) = IF c[i].type = "and" THEN 2 ELSE 1
  BY <1>3
<1> HIDE DEF s
<1>7. 0 \in P
  <2>1. SubSeq(s, 1, 0) = <<>>
    BY <1>5, SubSeqEmpty
  <2>2. FlattenSeq(SubSeq(s, 1, 0)) = <<>>
    BY <2>1, FlattenEmpty
  <2>3. NoAnds(c, 0) = 0
    BY <1>2, NoAndsCounts
  <2> QED BY <2>2, <2>3
<1>8. ASSUME NEW m \in Nat, m \in P PROVE m + 1 \in P
  <2>1. ASSUME m + 1 <= n
        PROVE  Len(FlattenSeq(SubSeq(s, 1, m + 1))) = (m + 1) + NoAnds(c, m + 1)
    <3> DEFINE front == FlattenSeq(SubSeq(s, 1, m))
    <3>1. m \in 0 .. Len(s) - 1 /\ m \in 0 .. Len(s) /\ m + 1 \in 1 .. n
      BY <1>2, <1>5, <2>1
    <3>2. Len(front) = m + NoAnds(c, m)
      BY <1>2, <1>8, <2>1
    <3>3. FlattenSeq(SubSeq(s, 1, m + 1)) = front \o s[m + 1]
      BY <1>5, <3>1, FlattenNextMember
    <3>4. front \in Seq(T)
      <4>1. SubSeq(s, 1, m) \in Seq(Seq(T))
        BY <1>5, <3>1, CutInTwo
      <4> QED BY <4>1, FlattenType
    <3>5. s[m + 1] \in Seq(T) /\ Len(s[m + 1]) = IF c[m + 1].type = "and" THEN 2 ELSE 1
      BY <1>6, <3>1
    <3> HIDE DEF front
    <3>6. Len(front \o s[m + 1]) = Len(front) + Len(s[m + 1])
      BY <3>4, <3>5
    <3>7. /\ NoAnds(c, m) \in Nat
          /\ NoAnds(c, m + 1) = NoAnds(c, m) + (IF c[m + 1].type = "and" THEN 1 ELSE 0)
      BY <1>2, NoAndsCounts
    <3> QED BY <3>2, <3>3, <3>5, <3>6, <3>7
  <2> QED BY <2>1
<1>9. \A m \in Nat : m \in P
  <2> HIDE DEF P
  <2> QED BY <1>7, <1>8, SetInduction
<1>10. Len(FlattenSeq(SubSeq(s, 1, n))) = n + NoAnds(c, n)
  BY <1>2, <1>9
<1>11. SubSeq(s, 1, n) = s
  BY <1>5, SubSeqFull
<1> QED BY <1>1, <1>10, <1>11 DEF AllAnds, n

(* The operands of the first gate are free.                                *)
LEMMA SomeInput ==
  ASSUME NEW c, Provable(c)
  PROVE  Cardinality(InputGates(c)) >= 1
<1>1. c \in Seq(Gate) /\ 1 \in 1 .. Len(c)
  BY SizeBounds DEF Provable
<1>2. 1 .. 1 - 1 = {}
  OBVIOUS
<1>3. c[1].op1 \in InputGates(c)
  BY <1>1, <1>2 DEF InputGates
<1>4. IsFiniteSet(InputGates(c)) /\ Cardinality(InputGates(c)) \in Nat
  BY <1>1, InputsFinite
<1>5. Cardinality(InputGates(c)) # 0
  BY <1>3, <1>4, FS_EmptySet
<1> QED BY <1>4, <1>5
-----------------------------------------------------------------------------
(* What is known once the prover has put its message together.             *)

LEMMA Honest ==
  ASSUME GivenOK, Refusals, MessageMade, b \in Bits,
         pat \notin {"start", "bad_circuit"}
  PROVE  /\ message \in Seq(Bits) /\ Len(message) = Span(circuit)
         /\ Permaj \in Seq(Bits) /\ Len(Permaj) = Chosen(circuit, b)
         /\ PermajBytes(b) = NoBytes(Chosen(circuit, b))
         /\ BytesOf(Permaj) \in Seq(Octet) /\ Len(BytesOf(Permaj)) = PermajBytes(b)
         /\ Derived \in Seq(TaskOn(Span(circuit))) /\ Len(Derived) > 0
         /\ CheckOut(b) \in TaskOn(Span(circuit))
         /\ b = 1 => Len(Derived) < MessageBits
<1>1. PICK rs \in [1 .. AllAnds(circuit) -> Randoms] : MadeFrom(rs)
  BY DEF MessageMade
<1>2. /\ message \in Seq(Bits) /\ Len(message) = Span(circuit)
      /\ gpam_res.permutations \in Seq(Bits)
      /\ Len(gpam_res.permutations) = 3 * AllAnds(circuit)
      /\ gpam_res.majority \in Seq(Bits)
      /\ Len(gpam_res.majority) = 2 * AllAnds(circuit)
  BY <1>1, MessageBitsAre
<1>3. b = 0 \/ b = 1
  BY DEF Bits
<1>4. Permaj \in Seq(Bits) /\ Len(Permaj) = Chosen(circuit, b)
  BY <1>2, <1>3 DEF Permaj, Chosen
<1>5. PermajBytes(b) = NoBytes(Chosen(circuit, b))
  BY DEF PermajBytes, Chosen
<1>6. BytesOf(Permaj) \in Seq(Octet) /\ Len(BytesOf(Permaj)) = PermajBytes(b)
  BY <1>4, <1>5, BytesOfBits
<1>7. Provable(circuit) /\ input_gates = InputGates(circuit)
  BY DEF GivenOK
<1>8. \A j \in 1 .. Chosen(circuit, b) : Permaj[j] \in Bits
  BY <1>4
<1>9. Derived = ProofTasks(circuit, InputGates(circuit), b, Permaj, address_of_one)
  BY <1>7 DEF Derived, Tasks
<1>10. Derived \in Seq(TaskOn(Span(circuit))) /\ Len(Derived) > 0
  BY <1>7, <1>8, <1>9, ProofTasksAre
<1>11. CheckOut(b) \in TaskOn(Span(circuit))
  <2>1. UniqueOutput
    BY DEF Refusals
  <2>2. OutBit \in OutputGates(circuit)
    BY <2>1, OneIsOutput DEF GivenOK
  <2>3. circuit \in Seq(Gate)
    BY <1>7 DEF Provable
  <2>4. OutBit \in Written(circuit)
    BY <2>2, <2>3, OutputGatesAre
  <2>5. OutBit \in 0 .. Size(circuit) - 1 /\ address_of_one \in 0 .. Size(circuit) - 1
    BY <1>7, <2>4 DEF Provable, Addresses
  <2>6. /\ Size(circuit) \in Nat /\ Span(circuit) \in Nat
        /\ Size(circuit) <= Span(circuit)
    BY <1>7, SizeBounds
  <2>7. OutBit \in 0 .. Span(circuit) - 1 /\ address_of_one \in 0 .. Span(circuit) - 1
    BY <2>5, <2>6
  <2>8. 1 \in 1 .. 3 /\ (IF b = 0 THEN 1 ELSE 0) \in Bits
    BY DEF Bits
  <2>9. CheckOut(b) = Task(<<OutBit, address_of_one, address_of_one>>, 1,
                           IF b = 0 THEN 1 ELSE 0)
    BY DEF CheckOut, CheckOutBit
  <2> QED BY <2>6, <2>7, <2>8, <2>9, TaskIs
<1>12. b = 1 => Len(Derived) < MessageBits
  <2>1. SUFFICES ASSUME b = 1 PROVE Len(Derived) < MessageBits
    OBVIOUS
  <2>2. Len(Derived) = Len(circuit) + AllAnds(circuit)
    BY <1>7, <1>8, <1>9, <2>1, CountOfTasks
  <2>3. Cardinality(InputGates(circuit)) >= 1
    BY <1>7, SomeInput
  <2>4. MessageBits = Len(circuit) + Cardinality(InputGates(circuit)) + 3 * AllAnds(circuit)
    BY <1>7 DEF MessageBits, StringLen
  <2>5. /\ Len(circuit) \in Nat /\ AllAnds(circuit) \in Nat
        /\ Cardinality(InputGates(circuit)) \in Nat
    BY <1>7, SizeBounds
  <2> QED BY <2>2, <2>3, <2>4, <2>5
<1> QED BY <1>2, <1>4, <1>5, <1>6, <1>10, <1>11, <1>12

LEMMA SpanBytes ==
  ASSUME GivenOK
  PROVE  /\ NoBytes(MessageBits) \in Nat /\ Span(circuit) = 8 * NoBytes(MessageBits)
         /\ NoBytes(Span(circuit)) = NoBytes(MessageBits)
         /\ MessageBits \in Nat
<1>1. Provable(circuit) /\ input_gates = InputGates(circuit)
  BY DEF GivenOK
<1>2. MessageBits \in Nat
  <2>1. StringLen(circuit, InputGates(circuit)) \in Nat /\ AllAnds(circuit) \in Nat
    BY <1>1, SizeBounds
  <2> QED BY <1>1, <2>1 DEF MessageBits
<1>3. NoBytes(MessageBits) \in Nat
  BY <1>2, NoBytesBounds
<1>4. Span(circuit) = 8 * NoBytes(MessageBits)
  BY <1>1 DEF Span, MessageBits
<1> QED BY <1>2, <1>3, <1>4, NoBytesOfBytes
-----------------------------------------------------------------------------
(* The invariant holds at first and is kept.                               *)

LEMMA InitHolds == Init => ProtocolInv
<1> SUFFICES ASSUME Init PROVE ProtocolInv
  OBVIOUS
<1>1. GivenOK
  <2>1. PICK c \in Circuits : circuit = PatchOne(c, address_of_one)
    BY DEF Init
  <2>2. Provable(circuit)
    BY <2>1, Patched
  <2> QED BY <2>2 DEF Init, GivenOK, Bits
<1>2. Refusals
  BY DEF Init, Refusals
<1>3. MessageMade /\ MaskDrawn
  BY DEF Init, MessageMade, MaskDrawn
<1>4. SameTasks
  BY DEF Init, SameTasks, Bits
<1>5. Stages
  BY DEF Init, Stages
<1>6. VerdictIsRelations
  BY DEF Init, VerdictIsRelations
<1> QED BY <1>1, <1>2, <1>3, <1>4, <1>5, <1>6 DEF ProtocolInv

LEMMA GivenStays ==
  ASSUME GivenOK, [Next]_vars
  PROVE  UNCHANGED given /\ GivenOK' /\ (UniqueOutput' <=> UniqueOutput)
<1>1. UNCHANGED given
  <2>1. CASE Prover
    BY <2>1 DEF Prover, Prepare, ProverRefuses, XorCommit, SendDelta, Reveal, HearJudgement
  <2>2. CASE Verifier
    BY <2>2 DEF Verifier, DrawChallenges, VerifierRefuses, Connect, NoProver,
                ChallengeAnds, BuildTasks, OpenChallenge, Judge
  <2>3. CASE UNCHANGED vars
    BY <2>3 DEF vars
  <2> QED BY <2>1, <2>2, <2>3 DEF Next
<1>2. GivenOK'
  BY <1>1 DEF GivenOK, given
<1>3. UniqueOutput' <=> UniqueOutput
  BY <1>1 DEF UniqueOutput, given
<1> QED BY <1>1, <1>2, <1>3

LEMMA RefusalsStay ==
  ASSUME GivenOK, Refusals, [Next]_vars
  PROVE  Refusals'
<1>1. UniqueOutput' <=> UniqueOutput
  BY GivenStays
<1> USE <1>1 DEF Refusals
<1>2. CASE Prepare
  BY <1>2 DEF Prepare, verifierVars
<1>3. CASE ProverRefuses
  BY <1>3 DEF ProverRefuses, verifierVars
<1>4. CASE XorCommit
  BY <1>4 DEF XorCommit, verifierVars
<1>5. CASE SendDelta
  BY <1>5 DEF SendDelta, verifierVars
<1>6. CASE Reveal
  BY <1>6 DEF Reveal, verifierVars
<1>7. CASE HearJudgement
  BY <1>7 DEF HearJudgement, verifierVars
<1>8. CASE DrawChallenges
  BY <1>8 DEF DrawChallenges, proverVars
<1>9. CASE VerifierRefuses
  BY <1>9 DEF VerifierRefuses, proverVars
<1>10. CASE Connect
  BY <1>10 DEF Connect
<1>11. CASE NoProver
  BY <1>11 DEF NoProver, proverVars
<1>12. CASE ChallengeAnds
  BY <1>12 DEF ChallengeAnds, proverVars
<1>13. CASE BuildTasks
  BY <1>13 DEF BuildTasks, proverVars
<1>14. CASE OpenChallenge
  BY <1>14 DEF OpenChallenge, proverVars
<1>15. CASE Judge
  BY <1>15 DEF Judge, proverVars
<1>16. CASE UNCHANGED vars
  BY <1>16 DEF vars, proverVars, verifierVars
<1> QED BY <1>2, <1>3, <1>4, <1>5, <1>6, <1>7, <1>8, <1>9, <1>10, <1>11, <1>12,
           <1>13, <1>14, <1>15, <1>16 DEF Next, Prover, Verifier

LEMMA MessageStays ==
  ASSUME GivenOK, Refusals, MessageMade, [Next]_vars
  PROVE  MessageMade'
<1>1. UNCHANGED given
  BY GivenStays
<1>2. CASE Prepare
  <2>1. PICK rs \in [1 .. AllAnds(circuit) -> Randoms] :
          LET string == Evaluation(circuit, input_gates, witness)
          IN  /\ message' = Message(string, GpamAux(circuit, string, rs))
              /\ gpam_res' = [permutations |-> GpamPermutations(circuit, rs),
                              majority |-> GpamMajority(circuit, string, rs)]
    BY <1>2 DEF Prepare
  <2>2. \A s, a : Message(s, a)' = Message(s, a)
    BY <1>1 DEF Message, MessageBits, given
  <2>3. MadeFrom(rs)'
    BY <1>1, <2>1, <2>2 DEF MadeFrom, given
  <2>4. rs \in [1 .. AllAnds(circuit') -> Randoms]
    BY <1>1 DEF given
  <2> QED BY <2>3, <2>4 DEF MessageMade
<1>3. CASE ProverRefuses
  BY <1>3 DEF ProverRefuses, MessageMade
<1>4. ASSUME UNCHANGED <<message, gpam_res>>,
             pat \in {"start", "bad_circuit"} => pat' = pat
      PROVE  MessageMade'
  <2>1. SUFFICES ASSUME pat' \notin {"start", "bad_circuit"}
                 PROVE  \E rs \in [1 .. AllAnds(circuit') -> Randoms] : MadeFrom(rs)'
    BY DEF MessageMade
  <2>2. pat \notin {"start", "bad_circuit"}
    BY <1>4, <2>1
  <2>3. PICK rs \in [1 .. AllAnds(circuit) -> Randoms] : MadeFrom(rs)
    BY <2>2 DEF MessageMade
  <2>4. MadeFrom(rs)'
    BY <1>1, <1>4, <2>3 DEF MadeFrom, Message, MessageBits, given
  <2> QED BY <1>1, <2>4 DEF given
<1>5. CASE XorCommit
  BY <1>4, <1>5 DEF XorCommit
<1>6. CASE SendDelta
  BY <1>4, <1>6 DEF SendDelta
<1>7. CASE Reveal
  BY <1>4, <1>7 DEF Reveal
<1>8. CASE HearJudgement
  BY <1>4, <1>8 DEF HearJudgement
<1>9. CASE Connect
  BY <1>4, <1>9 DEF Connect
<1>10. CASE DrawChallenges \/ VerifierRefuses \/ NoProver
  BY <1>4, <1>10 DEF DrawChallenges, VerifierRefuses, NoProver, proverVars
<1>11. CASE ChallengeAnds \/ BuildTasks \/ OpenChallenge \/ Judge
  BY <1>4, <1>11 DEF ChallengeAnds, BuildTasks, OpenChallenge, Judge, proverVars
<1>12. CASE UNCHANGED vars
  BY <1>4, <1>12 DEF vars, proverVars
<1> QED BY <1>2, <1>3, <1>5, <1>6, <1>7, <1>8, <1>9, <1>10, <1>11, <1>12
        DEF Next, Prover, Verifier

LEMMA MaskStays ==
  ASSUME ProtocolInv, [Next]_vars
  PROVE  MaskDrawn'
<1>1. /\ GivenOK /\ Refusals /\ MessageMade /\ MaskDrawn
      /\ SameTasks /\ Stages
  BY DEF ProtocolInv
<1>2. UNCHANGED given
  BY <1>1, GivenStays
<1>3. ASSUME UNCHANGED m0,
             pat' \in {"committed", "delta_sent", "revealed", "done"} =>
               pat \in {"committed", "delta_sent", "revealed", "done"}
      PROVE  MaskDrawn'
  BY <1>1, <1>2, <1>3 DEF MaskDrawn, given
<1>4. CASE XorCommit
  <2>1. PICK mask \in Masks : m0' = [i \in 1 .. Len(message) |-> mask[i]]
    BY <1>4 DEF XorCommit
  <2>2. Len(message) = Span(circuit) /\ Span(circuit) \in Nat
    <3>1. b \in Bits /\ pat \notin {"start", "bad_circuit"}
      BY <1>1, <1>4 DEF SameTasks, XorCommit
    <3>2. Len(message) = Span(circuit)
      BY <1>1, <3>1, Honest
    <3>3. Span(circuit) \in Nat
      BY <1>1, SizeBounds DEF GivenOK
    <3> QED BY <3>2, <3>3
  <2>3. mask \in Seq(Bits) /\ Len(mask) >= Span(circuit)
    BY <1>1 DEF GivenOK, Provable
  <2>4. m0' \in [1 .. Span(circuit) -> Bits]
    BY <2>1, <2>2, <2>3
  <2>5. m0' \in Seq(Bits) /\ Len(m0') = Span(circuit)
    BY <2>2, <2>4, FunctionIsSeq
  <2>6. Span(circuit') = Span(circuit)
    BY <1>2 DEF given
  <2> QED BY <2>5, <2>6 DEF MaskDrawn
<1>5. CASE Prepare
  BY <1>3, <1>5 DEF Prepare
<1>6. CASE ProverRefuses
  BY <1>3, <1>6 DEF ProverRefuses
<1>7. CASE SendDelta
  BY <1>3, <1>7 DEF SendDelta
<1>8. CASE Reveal
  BY <1>3, <1>8 DEF Reveal
<1>9. CASE HearJudgement
  BY <1>3, <1>9 DEF HearJudgement
<1>10. CASE Connect
  BY <1>3, <1>10 DEF Connect
<1>11. CASE DrawChallenges \/ VerifierRefuses \/ NoProver
  BY <1>3, <1>11 DEF DrawChallenges, VerifierRefuses, NoProver, proverVars
<1>12. CASE ChallengeAnds \/ BuildTasks \/ OpenChallenge \/ Judge
  BY <1>3, <1>12 DEF ChallengeAnds, BuildTasks, OpenChallenge, Judge, proverVars
<1>13. CASE UNCHANGED vars
  BY <1>3, <1>13 DEF vars, proverVars
<1> QED BY <1>4, <1>5, <1>6, <1>7, <1>8, <1>9, <1>10, <1>11, <1>12, <1>13
        DEF Next, Prover, Verifier
-----------------------------------------------------------------------------
(* Before the connection nothing has been sent or derived.                 *)
Early(p, v) == /\ p \in {"start", "listening", "no_peer", "bad_circuit"}
               /\ v \in {"start", "ready", "no_peer", "bad_circuit"}
Kept == SameTasks /\ Stages /\ VerdictIsRelations

LEMMA BeforeConnecting ==
  ASSUME ProtocolInv, pat \in {"start", "listening"} \/ vat \in {"start", "ready"}
  PROVE  Early(pat, vat) /\ toV = <<>> /\ toP = <<>>
BY DEF ProtocolInv, Stages, At, Early

LEMMA EarlySteps ==
  ASSUME ProtocolInv,
         \/ Prepare \/ ProverRefuses \/ DrawChallenges \/ VerifierRefuses
         \/ NoProver \/ Connect
  PROVE  Kept'
<1>1. Early(pat, vat) /\ toV = <<>> /\ toP = <<>>
  BY BeforeConnecting DEF Prepare, ProverRefuses, DrawChallenges, VerifierRefuses,
                          NoProver, Connect
<1>2. b \in Bits /\ e \in Bits /\ p_accept \in BOOLEAN /\ v_accept \in BOOLEAN
  BY DEF ProtocolInv, SameTasks
<1>3. ASSUME Early(pat', vat'), toV' = toV, toP' = toP, b' \in Bits, e' \in Bits,
             UNCHANGED <<p_accept, v_accept>>
      PROVE  Kept'
  <2>1. SameTasks'
    BY <1>2, <1>3 DEF SameTasks, Early
  <2>2. Stages'
    BY <1>1, <1>3 DEF Stages, Early
  <2>3. VerdictIsRelations'
    BY <1>3 DEF VerdictIsRelations, Early
  <2> QED BY <2>1, <2>2, <2>3 DEF Kept
<1>4. CASE Prepare
  BY <1>1, <1>2, <1>3, <1>4 DEF Prepare, Early, verifierVars
<1>5. CASE ProverRefuses
  BY <1>1, <1>2, <1>3, <1>5 DEF ProverRefuses, Early, verifierVars
<1>6. CASE DrawChallenges
  BY <1>1, <1>2, <1>3, <1>6 DEF DrawChallenges, Early, proverVars, Bits
<1>7. CASE VerifierRefuses
  BY <1>1, <1>2, <1>3, <1>7 DEF VerifierRefuses, Early, proverVars
<1>8. CASE NoProver
  BY <1>1, <1>2, <1>3, <1>8 DEF NoProver, Early, proverVars
<1>9. CASE Connect
  <2>1. pat' = "connected" /\ vat' = "connected" /\ toV' = toV /\ toP' = toP \o Opaque(CommitBytes)
    BY <1>9 DEF Connect
  <2>2. <<>> \o Opaque(CommitBytes) = Opaque(CommitBytes)
    <3>1. CommitBytes \in Nat
      BY Rtz14Assumption
    <3>2. Opaque(CommitBytes) \in Seq(Octet)
      BY <3>1, OpaqueBytes
    <3> QED BY <3>2
  <2>3. SameTasks'
    BY <1>2, <1>9, <2>1 DEF SameTasks, Connect
  <2>4. Stages'
    <3>1. At("connected", "connected", <<>>, Opaque(CommitBytes))'
      BY <1>1, <2>1, <2>2 DEF At
    <3> QED BY <3>1 DEF Stages
  <2>5. VerdictIsRelations'
    BY <2>1 DEF VerdictIsRelations
  <2> QED BY <2>3, <2>4, <2>5 DEF Kept
<1> QED BY <1>4, <1>5, <1>6, <1>7, <1>8, <1>9

LEMMA SameValues ==
  ASSUME UNCHANGED <<given, b, gpam_res>>
  PROVE  /\ Permaj' = Permaj /\ Derived' = Derived /\ CheckOut(b)' = CheckOut(b)
         /\ PermajBytes(b)' = PermajBytes(b)
BY DEF Permaj, Derived, Tasks, CheckOut, OutBit, PermajBytes, given
-----------------------------------------------------------------------------
(* The moves of the proof.                                                 *)

LEMMA XorCommitKeeps ==
  ASSUME ProtocolInv, XorCommit
  PROVE  Kept'
<1>1. At("connected", "connected", <<>>, Opaque(CommitBytes))
  BY DEF ProtocolInv, Stages, At, XorCommit
<1>2. CommitBytes = 80 /\ Left(Opaque(80), 80) = <<>>
  <2>1. Len(toP) >= 80 /\ toP = Opaque(CommitBytes)
    BY <1>1 DEF XorCommit, Available, At
  <2>2. CommitBytes = 64 \/ CommitBytes = 80
    BY Rtz14Assumption
  <2>3. Len(Opaque(64)) = 64 /\ Opaque(80) \in Seq(Octet) /\ Len(Opaque(80)) = 80
    BY OpaqueBytes
  <2>4. SubSeq(Opaque(80), 80 + 1, 80) = <<>>
    BY <2>3, SubSeqEmpty
  <2>5. CommitBytes = 80
    <3>1. CASE CommitBytes = 64
      <4>1. toP = Opaque(64)
        BY <2>1, <3>1
      <4>2. Len(toP) = 64
        BY <2>3, <4>1
      <4> QED BY <2>1, <4>2
    <3> QED BY <2>2, <3>1
  <2>6. Left(Opaque(80), 80) = SubSeq(Opaque(80), 80 + 1, 80)
    BY <2>3 DEF Left
  <2> QED BY <2>4, <2>5, <2>6
<1>3. toP' = <<>>
  BY <1>1, <1>2 DEF XorCommit, At
<1>4. toV' = Opaque(128)
  <2>1. Opaque(128) \in Seq(Octet)
    BY OpaqueBytes
  <2>2. toV = <<>> /\ toV' = toV \o Opaque(128)
    BY <1>1 DEF XorCommit, At
  <2> QED BY <2>1, <2>2
<1>5. pat' = "committed" /\ vat' = "connected"
  BY <1>1 DEF XorCommit, At, verifierVars
<1>6. SameTasks'
  <2>1. b \in Bits /\ e \in Bits /\ p_accept \in BOOLEAN /\ v_accept \in BOOLEAN
    BY DEF ProtocolInv, SameTasks
  <2> QED BY <1>5, <2>1 DEF SameTasks, XorCommit, verifierVars
<1>7. Stages'
  <2>1. At("committed", "connected", Opaque(128), <<>>)'
    BY <1>3, <1>4, <1>5 DEF At
  <2> QED BY <2>1 DEF Stages
<1>8. VerdictIsRelations'
  BY <1>5 DEF VerdictIsRelations
<1> QED BY <1>6, <1>7, <1>8 DEF Kept

LEMMA ChallengeAndsKeeps ==
  ASSUME ProtocolInv, ChallengeAnds
  PROVE  Kept'
<1>1. Opaque(128) \in Seq(Octet) /\ Len(Opaque(128)) = 128
  BY OpaqueBytes
<1>2. At("committed", "connected", Opaque(128), <<>>)
  <2>1. \/ At("connected", "connected", <<>>, Opaque(CommitBytes))
        \/ At("committed", "connected", Opaque(128), <<>>)
    BY DEF ProtocolInv, Stages, At, ChallengeAnds
  <2>2. Len(toV) >= 128
    BY DEF ChallengeAnds, Available
  <2>3. Len(<<>>) = 0
    OBVIOUS
  <2> QED BY <2>1, <2>2, <2>3 DEF At
<1>3. toV' = <<>>
  <2>1. SubSeq(Opaque(128), 128 + 1, 128) = <<>>
    BY <1>1, SubSeqEmpty
  <2> QED BY <1>1, <1>2, <2>1 DEF At, ChallengeAnds, Left
<1>4. b \in Bits /\ e \in Bits /\ p_accept \in BOOLEAN /\ v_accept \in BOOLEAN
  BY DEF ProtocolInv, SameTasks
<1>5. toP' = BytesOf(<<b>>)
  <2>1. BytesOf(<<b>>) \in Seq(Octet)
    BY <1>4, BitAsByte
  <2>2. toP' = <<>> \o BytesOf(<<b>>)
    BY <1>2 DEF At, ChallengeAnds
  <2> QED BY <2>1, <2>2
<1>6. pat' = "committed" /\ vat' = "challenged"
  BY <1>2 DEF ChallengeAnds, At, proverVars
<1>7. SameTasks'
  BY <1>4, <1>6 DEF SameTasks, ChallengeAnds, proverVars
<1>8. Stages'
  <2>1. At("committed", "challenged", <<>>, BytesOf(<<b>>))'
    BY <1>3, <1>5, <1>6 DEF At, ChallengeAnds
  <2> QED BY <2>1 DEF Stages
<1>9. VerdictIsRelations'
  BY <1>6 DEF VerdictIsRelations
<1> QED BY <1>7, <1>8, <1>9 DEF Kept

LEMMA SendDeltaKeeps ==
  ASSUME ProtocolInv, SendDelta
  PROVE  Kept'
<1> DEFINE tasks == Append(Derived, CheckOut(b))
<1>1. b \in Bits /\ e \in Bits /\ p_accept \in BOOLEAN /\ v_accept \in BOOLEAN
  BY DEF ProtocolInv, SameTasks
<1>2. /\ BytesOf(<<b>>) \in Seq(Octet) /\ Len(BytesOf(<<b>>)) = 1
      /\ BytesOf(<<b>>)[1][1] = b
  BY <1>1, BitAsByte
<1>3. \/ At("committed", "challenged", <<>>, BytesOf(<<b>>))
      \/ PermajBytes(b) = 0 /\ At("committed", "tasks_built", <<>>, BytesOf(<<b>>))
  <2>1. Len(toP) >= 1 /\ pat = "committed"
    BY DEF SendDelta, Available
  <2>2. Len(<<>>) = 0
    OBVIOUS
  <2>3. \/ At("committed", "connected", Opaque(128), <<>>)
        \/ At("committed", "challenged", <<>>, BytesOf(<<b>>))
        \/ PermajBytes(b) = 0 /\ At("committed", "tasks_built", <<>>, BytesOf(<<b>>))
    BY <2>1 DEF ProtocolInv, Stages, At
  <2> QED BY <2>1, <2>2, <2>3 DEF At
<1>4. toP = BytesOf(<<b>>) /\ toV = <<>> /\ pat = "committed"
  BY <1>3 DEF At
<1>5. Received(toP, 1) = BytesOf(<<b>>) /\ toP' = <<>>
  <2>1. SubSeq(BytesOf(<<b>>), 1, 1) = BytesOf(<<b>>)
    BY <1>2, SubSeqFull
  <2>2. SubSeq(BytesOf(<<b>>), 1 + 1, 1) = <<>>
    BY <1>2, SubSeqEmpty
  <2> QED BY <1>2, <1>4, <2>1, <2>2 DEF SendDelta, Received, Left
<1>6. Received(toP, 1)[1][1] = b
  BY <1>2, <1>5
<1>7. /\ p_tasks' = tasks
      /\ toV' = toV \o BytesOf(Permaj) \o BytesOf(DeltaString(tasks, m0))
  BY <1>6 DEF SendDelta, Derived, Permaj
<1>8. UNCHANGED <<given, b, gpam_res, m0, message>>
  BY DEF SendDelta, verifierVars
<1>9. /\ BytesOf(Permaj) \in Seq(Octet) /\ Len(BytesOf(Permaj)) = PermajBytes(b)
      /\ Derived \in Seq(TaskOn(Span(circuit))) /\ CheckOut(b) \in TaskOn(Span(circuit))
  BY <1>1, <1>4, Honest DEF ProtocolInv
<1>10. BytesOf(DeltaString(tasks, m0)) \in Seq(Octet)
  <2>1. tasks \in Seq(TaskOn(Span(circuit)))
    BY <1>9
  <2>2. m0 \in Seq(Bits) /\ Len(m0) = Span(circuit)
    BY <1>4 DEF ProtocolInv, MaskDrawn
  <2>3. Span(circuit) \in Nat
    BY SizeBounds DEF ProtocolInv, GivenOK
  <2>4. \A i \in 1 .. Span(circuit) : m0[i] \in Bits
    BY <2>2
  <2> HIDE DEF tasks
  <2>5. DeltaString(tasks, m0) \in Seq(Bits)
    BY <2>1, <2>3, <2>4, DeltaBits
  <2> QED BY <2>5, BytesOfBits
<1> HIDE DEF tasks
<1>11. Deltas' = DeltaString(tasks, m0)
  BY <1>7, <1>8 DEF Deltas
<1>12. toV' = BytesOf(Permaj) \o BytesOf(DeltaString(tasks, m0))
  BY <1>4, <1>7, <1>9, <1>10
<1>13. pat' = "delta_sent" /\ vat' = vat
  BY DEF SendDelta, verifierVars
<1>14. Permaj' = Permaj /\ Derived' = Derived /\ CheckOut(b)' = CheckOut(b)
  BY <1>8, SameValues
<1>15. SameTasks'
  <2>1. p_tasks' = Append(Derived', CheckOut(b)')
    BY <1>7, <1>14 DEF tasks
  <2>2. vat = "tasks_built" =>
          v_tasks' = IF b' = 0 THEN Append(Derived', CheckOut(b)') ELSE Derived'
    BY <1>14, <1>8 DEF ProtocolInv, SameTasks, SendDelta, verifierVars
  <2>3. vat = "challenged" \/ vat = "tasks_built"
    BY <1>3 DEF At
  <2>4. UNCHANGED <<e, p_accept, v_accept>>
    BY DEF SendDelta, verifierVars
  <2> QED BY <1>1, <1>8, <1>13, <2>1, <2>2, <2>3, <2>4 DEF SameTasks
<1>16. Stages'
  <2>1. CASE vat = "challenged"
    <3>1. At("delta_sent", "challenged", BytesOf(Permaj) \o BytesOf(Deltas), <<>>)'
      BY <1>5, <1>11, <1>12, <1>13, <1>14, <2>1 DEF At
    <3> QED BY <3>1 DEF Stages
  <2>2. CASE vat = "tasks_built"
    <3>1. BytesOf(Permaj) = <<>>
      <4>1. PermajBytes(b) = 0
        BY <1>3, <2>2 DEF At
      <4> QED BY <1>9, <4>1, EmptySeq
    <3>2. toV' = BytesOf(DeltaString(tasks, m0))
      BY <1>10, <1>12, <3>1
    <3>3. At("delta_sent", "tasks_built", BytesOf(Deltas), <<>>)'
      BY <1>5, <1>11, <1>13, <2>2, <3>2 DEF At
    <3> QED BY <3>3 DEF Stages
  <2> QED BY <1>3, <2>1, <2>2 DEF At
<1>17. VerdictIsRelations'
  <2>1. vat' # "done"
    BY <1>3, <1>13 DEF At
  <2> QED BY <2>1 DEF VerdictIsRelations
<1> QED BY <1>15, <1>16, <1>17 DEF Kept
-----------------------------------------------------------------------------
(* What is known once the prover has sent its deltas.                      *)
LEMMA DeltasAre ==
  ASSUME ProtocolInv, pat \in {"delta_sent", "revealed", "done"}
  PROVE  /\ p_tasks = Append(Derived, CheckOut(b))
         /\ p_tasks \in Seq(TaskOn(Span(circuit))) /\ Len(p_tasks) = Len(Derived) + 1
         /\ Span(circuit) \in Nat /\ \A i \in 1 .. Span(circuit) : m0[i] \in Bits
         /\ Deltas \in Seq(Bits) /\ Len(Deltas) = Len(p_tasks)
         /\ \A i \in 1 .. Len(p_tasks) : Deltas[i] = TaskXor(m0, p_tasks[i])
         /\ BytesOf(Deltas) \in Seq(Octet) /\ Len(BytesOf(Deltas)) = NoBytes(Len(p_tasks))
         /\ Derived \in Seq(TaskOn(Span(circuit))) /\ Len(Derived) > 0
         /\ b = 1 => Len(Derived) < MessageBits
         /\ b \in Bits /\ e \in Bits
<1>1. b \in Bits /\ e \in Bits /\ p_tasks = Append(Derived, CheckOut(b))
  BY DEF ProtocolInv, SameTasks
<1>2. /\ Derived \in Seq(TaskOn(Span(circuit))) /\ CheckOut(b) \in TaskOn(Span(circuit))
      /\ Len(Derived) > 0 /\ (b = 1 => Len(Derived) < MessageBits)
  BY <1>1, Honest DEF ProtocolInv
<1>3. p_tasks \in Seq(TaskOn(Span(circuit))) /\ Len(p_tasks) = Len(Derived) + 1
  BY <1>1, <1>2
<1>4. Span(circuit) \in Nat
  BY SizeBounds DEF ProtocolInv, GivenOK
<1>5. m0 \in Seq(Bits) /\ Len(m0) = Span(circuit)
  BY DEF ProtocolInv, MaskDrawn
<1>6. \A i \in 1 .. Span(circuit) : m0[i] \in Bits
  BY <1>5
<1>7. /\ Deltas \in Seq(Bits) /\ Len(Deltas) = Len(p_tasks)
      /\ \A i \in 1 .. Len(p_tasks) : Deltas[i] = TaskXor(m0, p_tasks[i])
  BY <1>3, <1>4, <1>6, DeltaBits DEF Deltas
<1>8. BytesOf(Deltas) \in Seq(Octet) /\ Len(BytesOf(Deltas)) = NoBytes(Len(p_tasks))
  BY <1>7, BytesOfBits
<1> QED BY <1>1, <1>2, <1>3, <1>4, <1>6, <1>7, <1>8

(* The verifier's tasks are the first of the prover's; where it has one    *)
(* less, the bytes of the deltas may be one more.                          *)
LEMMA TasksAre ==
  ASSUME ProtocolInv, pat \in {"delta_sent", "revealed", "done"},
         vat \in {"tasks_built", "opened", "done"}
  PROVE  /\ v_tasks \in Seq(TaskOn(Span(circuit))) /\ Len(v_tasks) > 0
         /\ Len(v_tasks) <= Len(p_tasks)
         /\ NoBytes(Len(v_tasks)) \in 0 .. Len(BytesOf(Deltas))
         /\ \A i \in 1 .. Len(v_tasks) : v_tasks[i] = p_tasks[i]
         /\ Extra \in Seq(Octet) /\ Len(Extra) = IF Aligned THEN 0 ELSE 1
         /\ BytesOf(Deltas) = Received(BytesOf(Deltas), NoBytes(Len(v_tasks))) \o Extra
         /\ ~Aligned => NoBytes(MessageBits) > 1
<1>1. v_tasks = IF b = 0 THEN Append(Derived, CheckOut(b)) ELSE Derived
  BY DEF ProtocolInv, SameTasks
<1>2. /\ p_tasks = Append(Derived, CheckOut(b))
      /\ p_tasks \in Seq(TaskOn(Span(circuit))) /\ Len(p_tasks) = Len(Derived) + 1
      /\ BytesOf(Deltas) \in Seq(Octet) /\ Len(BytesOf(Deltas)) = NoBytes(Len(p_tasks))
      /\ Derived \in Seq(TaskOn(Span(circuit))) /\ Len(Derived) > 0
      /\ (b = 1 => Len(Derived) < MessageBits) /\ b \in Bits
  BY DeltasAre
<1>3. /\ v_tasks \in Seq(TaskOn(Span(circuit))) /\ Len(v_tasks) > 0
      /\ Len(v_tasks) <= Len(p_tasks) /\ Len(v_tasks) \in Nat /\ Len(p_tasks) \in Nat
  BY <1>1, <1>2
<1>4. \A i \in 1 .. Len(v_tasks) : v_tasks[i] = p_tasks[i]
  BY <1>1, <1>2
<1> DEFINE k == NoBytes(Len(v_tasks))
<1>5. k \in Nat /\ NoBytes(Len(p_tasks)) \in Nat /\ k <= NoBytes(Len(p_tasks))
  BY <1>3, NoBytesBounds, NoBytesMonotonic
<1>6. k \in 0 .. Len(BytesOf(Deltas))
  BY <1>2, <1>5
<1>7. NoBytes(Len(p_tasks)) = k + (IF Aligned THEN 0 ELSE 1)
  <2>1. CASE b = 0
    BY <1>1, <1>2, <1>5, <2>1 DEF Aligned
  <2>2. CASE b = 1
    <3>1. Len(p_tasks) = Len(v_tasks) + 1
      BY <1>1, <1>2, <2>2
    <3>2. NoBytes(Len(v_tasks) + 1) = k + (IF Len(v_tasks) % 8 = 0 THEN 1 ELSE 0)
      BY <1>3, NoBytesNext
    <3>3. Aligned <=> Len(v_tasks) % 8 # 0
      BY <2>2 DEF Aligned
    <3> QED BY <3>1, <3>2, <3>3
  <2> QED BY <1>2, <2>1, <2>2 DEF Bits
<1>8. ~Aligned => NoBytes(MessageBits) > 1
  <2>1. SUFFICES ASSUME ~Aligned PROVE NoBytes(MessageBits) > 1
    OBVIOUS
  <2>2. b = 1 /\ Len(v_tasks) % 8 = 0
    BY <1>2, <2>1 DEF Aligned, Bits
  <2>3. Len(v_tasks) < MessageBits
    BY <1>1, <1>2, <2>2
  <2>4. Len(v_tasks) >= 8
    BY <1>3, <2>2
  <2>5. MessageBits \in Nat
    BY SpanBytes DEF ProtocolInv
  <2> QED BY <1>3, <2>3, <2>4, <2>5 DEF NoBytes
<1> HIDE DEF k
<1>9. /\ SubSeq(BytesOf(Deltas), k + 1, Len(BytesOf(Deltas))) \in Seq(Octet)
      /\ BytesOf(Deltas) = SubSeq(BytesOf(Deltas), 1, k)
                             \o SubSeq(BytesOf(Deltas), k + 1, Len(BytesOf(Deltas)))
      /\ SubSeq(BytesOf(Deltas), 1, k) \in Seq(Octet)
      /\ Len(SubSeq(BytesOf(Deltas), 1, k)) = k
  BY <1>2, <1>6, CutInTwo
<1>10. /\ Extra = SubSeq(BytesOf(Deltas), k + 1, Len(BytesOf(Deltas)))
       /\ Received(BytesOf(Deltas), k) = SubSeq(BytesOf(Deltas), 1, k)
  BY DEF Extra, Left, Received, k
<1>11. Extra \in Seq(Octet) /\ BytesOf(Deltas) = Received(BytesOf(Deltas), k) \o Extra
  BY <1>9, <1>10
<1>12. Len(Extra) = IF Aligned THEN 0 ELSE 1
  <2>1. Len(BytesOf(Deltas)) = Len(Received(BytesOf(Deltas), k)) + Len(Extra)
    <3>1. Received(BytesOf(Deltas), k) \in Seq(Octet)
      BY <1>9, <1>10
    <3>2. Len(Received(BytesOf(Deltas), k) \o Extra)
            = Len(Received(BytesOf(Deltas), k)) + Len(Extra)
      BY <1>11, <3>1
    <3> QED BY <1>11, <3>2
  <2>2. Len(Received(BytesOf(Deltas), k)) = k /\ Len(Extra) \in Nat
    BY <1>9, <1>10, <1>11
  <2>3. Len(BytesOf(Deltas)) = k + Len(Extra)
    BY <2>1, <2>2
  <2>4. Len(BytesOf(Deltas)) = k + (IF Aligned THEN 0 ELSE 1)
    BY <1>2, <1>7
  <2>5. CASE Aligned
    BY <1>5, <2>2, <2>3, <2>4, <2>5
  <2>6. CASE ~Aligned
    <3>1. Len(BytesOf(Deltas)) = k + 1
      BY <2>4, <2>6
    <3>2. k + Len(Extra) = k + 1
      BY <2>3, <3>1
    <3>3. k \in Nat /\ Len(Extra) \in Nat
      BY <1>5, <2>2
    <3>4. ASSUME NEW x \in Nat, NEW y \in Nat, x + y = x + 1 PROVE y = 1
      BY <3>4
    <3>5. Len(Extra) = 1
      BY <3>2, <3>3, <3>4
    <3> QED BY <2>6, <3>5
  <2> QED BY <2>5, <2>6
<1> QED BY <1>3, <1>4, <1>6, <1>8, <1>11, <1>12 DEF k

LEMMA ShownIs ==
  ASSUME ProtocolInv, pat \in {"delta_sent", "revealed", "done"}
  PROVE  /\ Shown \in Seq(Bits) /\ Len(Shown) = Span(circuit)
         /\ BytesOf(Shown) \in Seq(Octet)
         /\ Len(BytesOf(Shown)) = NoBytes(MessageBits)
         /\ message \in Seq(Bits) /\ Len(message) = Span(circuit)
<1>1. message \in Seq(Bits) /\ Len(message) = Span(circuit)
  BY Honest DEF ProtocolInv, SameTasks
<1>2. m0 \in Seq(Bits) /\ Len(m0) = Span(circuit)
  BY DEF ProtocolInv, MaskDrawn
<1>3. Span(circuit) \in Nat
  BY SizeBounds DEF ProtocolInv, GivenOK
<1>4. Xored(message, m0) \in Seq(Bits) /\ Len(Xored(message, m0)) = Span(circuit)
  <2>1. \A i \in 1 .. Span(circuit) : Xor2(message[i], m0[i]) \in Bits
    BY <1>1, <1>2, XorOfBits
  <2>2. Xored(message, m0) \in [1 .. Span(circuit) -> Bits]
    BY <1>1, <2>1 DEF Xored
  <2> QED BY <1>3, <2>2, FunctionIsSeq
<1>5. Shown \in Seq(Bits) /\ Len(Shown) = Span(circuit)
  BY <1>2, <1>4 DEF Shown
<1>6. BytesOf(Shown) \in Seq(Octet) /\ Len(BytesOf(Shown)) = NoBytes(Span(circuit))
  BY <1>5, BytesOfBits
<1>7. NoBytes(Span(circuit)) = NoBytes(MessageBits)
  BY SpanBytes DEF ProtocolInv
<1> QED BY <1>1, <1>5, <1>6, <1>7

LEMMA StillSame ==
  ASSUME UNCHANGED <<given, b, gpam_res, p_tasks, m0, v_tasks, e, message>>
  PROVE  /\ Deltas' = Deltas /\ Extra' = Extra /\ Shown' = Shown
         /\ (Aligned' <=> Aligned) /\ MessageBits' = MessageBits
BY DEF Deltas, Extra, Shown, Aligned, MessageBits, given
-----------------------------------------------------------------------------
LEMMA BuildTasksKeeps ==
  ASSUME ProtocolInv, BuildTasks
  PROVE  Kept'
<1>1. \/ At("committed", "challenged", <<>>, BytesOf(<<b>>))
      \/ At("delta_sent", "challenged", BytesOf(Permaj) \o BytesOf(Deltas), <<>>)
  BY DEF ProtocolInv, Stages, At, BuildTasks
<1>2. pat = "committed" \/ pat = "delta_sent"
  BY <1>1 DEF At
<1>3. /\ b \in Bits /\ e \in Bits
      /\ p_accept \in BOOLEAN /\ v_accept \in BOOLEAN
  BY DEF ProtocolInv, SameTasks
<1>4. /\ Permaj \in Seq(Bits) /\ Len(Permaj) = Chosen(circuit, b)
      /\ PermajBytes(b) = NoBytes(Chosen(circuit, b))
      /\ BytesOf(Permaj) \in Seq(Octet) /\ Len(BytesOf(Permaj)) = PermajBytes(b)
  BY <1>2, <1>3, Honest DEF ProtocolInv
<1>5. Chosen(circuit, b) \in Nat /\ PermajBytes(b) \in Nat
  BY <1>4, NoBytesBounds
<1> DEFINE permaj == BitsOf(Received(toV, PermajBytes(b)))
<1>6. ASSUME pat = "committed"
      PROVE  Stages' /\ \A j \in 1 .. Chosen(circuit, b) : permaj[j] = Permaj[j]
  <2>1. toV = <<>> /\ toP = BytesOf(<<b>>)
    BY <1>1, <1>6 DEF At
  <2>2. PermajBytes(b) = 0
    <3>1. Len(toV) >= PermajBytes(b)
      BY DEF BuildTasks, Available
    <3>2. Len(<<>>) = 0
      OBVIOUS
    <3> QED BY <1>5, <2>1, <3>1, <3>2
  <2>3. Chosen(circuit, b) = 0
    <3>1. Chosen(circuit, b) <= 8 * NoBytes(Chosen(circuit, b))
      BY <1>5, NoBytesBounds
    <3> QED BY <1>4, <1>5, <2>2, <3>1
  <2>4. toV' = <<>>
    <3>1. SubSeq(<<>>, 0 + 1, 0) = <<>>
      BY SubSeqEmpty
    <3>2. Len(<<>>) = 0
      OBVIOUS
    <3> QED BY <2>1, <2>2, <3>1, <3>2 DEF BuildTasks, Left
  <2>5. \A j \in 1 .. Chosen(circuit, b) : permaj[j] = Permaj[j]
    BY <2>3
  <2>6. At("committed", "tasks_built", <<>>, BytesOf(<<b>>))'
    BY <1>6, <2>1, <2>4 DEF At, BuildTasks, proverVars
  <2>7. PermajBytes(b)' = 0
    BY <2>2, SameValues DEF BuildTasks, proverVars
  <2> QED BY <2>5, <2>6, <2>7 DEF Stages
<1>7. ASSUME pat = "delta_sent"
      PROVE  Stages' /\ \A j \in 1 .. Chosen(circuit, b) : permaj[j] = Permaj[j]
  <2>1. toV = BytesOf(Permaj) \o BytesOf(Deltas) /\ toP = <<>>
    BY <1>1, <1>7 DEF At
  <2>2. BytesOf(Deltas) \in Seq(Octet)
    BY <1>7, DeltasAre
  <2>3. /\ Received(toV, PermajBytes(b)) = BytesOf(Permaj)
        /\ Left(toV, PermajBytes(b)) = BytesOf(Deltas)
    BY <1>4, <2>1, <2>2, FromStream
  <2>4. SubSeq(BytesOf(Permaj), 1, PermajBytes(b)) = BytesOf(Permaj)
    BY <1>4, SubSeqFull
  <2>5. PermajBytes(b) \in 0 .. NoBytes(Len(Permaj))
    BY <1>4, <1>5
  <2>6. \A j \in 1 .. 8 * PermajBytes(b) : j <= Len(Permaj) => permaj[j] = Permaj[j]
    BY <1>4, <2>3, <2>4, <2>5, Unpacked
  <2>7. \A j \in 1 .. Chosen(circuit, b) : permaj[j] = Permaj[j]
    <3>1. Chosen(circuit, b) <= 8 * PermajBytes(b)
      BY <1>4, <1>5, NoBytesBounds
    <3> HIDE DEF permaj
    <3> QED BY <1>4, <1>5, <2>6, <3>1
  <2>8. Deltas' = Deltas
    BY DEF Deltas, BuildTasks, proverVars
  <2>9. At("delta_sent", "tasks_built", BytesOf(Deltas), <<>>)'
    BY <1>7, <2>1, <2>3, <2>8 DEF At, BuildTasks, proverVars
  <2> QED BY <2>7, <2>9 DEF Stages
<1>8. Stages' /\ \A j \in 1 .. Chosen(circuit, b) : permaj[j] = Permaj[j]
  BY <1>2, <1>6, <1>7
<1>9. Tasks(b, permaj) = Derived
  <2>1. Provable(circuit) /\ input_gates = InputGates(circuit)
    BY DEF ProtocolInv, GivenOK
  <2>2. \A j \in 1 .. Chosen(circuit, b) : Permaj[j] \in Bits
    BY <1>4
  <2> HIDE DEF permaj
  <2>3. ProofTasks(circuit, InputGates(circuit), b, permaj, address_of_one)
          = ProofTasks(circuit, InputGates(circuit), b, Permaj, address_of_one)
    BY <1>3, <1>8, <2>1, <2>2, ProofTasksAre
  <2> QED BY <2>1, <2>3 DEF Derived, Tasks
<1>10. SameTasks'
  <2>1. v_tasks' = IF b = 0 THEN Append(Derived, CheckOut(b)) ELSE Derived
    BY <1>9 DEF BuildTasks
  <2>2. Derived' = Derived /\ CheckOut(b)' = CheckOut(b)
    BY SameValues DEF BuildTasks, proverVars
  <2>3. /\ vat' = "tasks_built"
        /\ UNCHANGED <<b, e, p_accept, v_accept, pat, p_tasks>>
    BY DEF BuildTasks, proverVars
  <2>4. pat \in {"delta_sent", "revealed", "done"} => p_tasks = Append(Derived, CheckOut(b))
    BY DEF ProtocolInv, SameTasks
  <2> QED BY <1>3, <2>1, <2>2, <2>3, <2>4 DEF SameTasks
<1>11. VerdictIsRelations'
  BY DEF VerdictIsRelations, BuildTasks
<1> QED BY <1>8, <1>10, <1>11 DEF Kept

LEMMA OpenChallengeKeeps ==
  ASSUME ProtocolInv, OpenChallenge
  PROVE  Kept'
<1> DEFINE k == NoBytes(Len(v_tasks))
<1>1. At("delta_sent", "tasks_built", BytesOf(Deltas), <<>>)
  <2>1. \/ At("committed", "tasks_built", <<>>, BytesOf(<<b>>))
        \/ At("delta_sent", "tasks_built", BytesOf(Deltas), <<>>)
    BY DEF ProtocolInv, Stages, At, OpenChallenge
  <2>2. CASE At("committed", "tasks_built", <<>>, BytesOf(<<b>>))
    <3>1. v_tasks = IF b = 0 THEN Append(Derived, CheckOut(b)) ELSE Derived
      BY <2>2 DEF ProtocolInv, SameTasks, At
    <3>2. /\ Derived \in Seq(TaskOn(Span(circuit))) /\ Len(Derived) > 0
          /\ CheckOut(b) \in TaskOn(Span(circuit))
      BY <2>2, Honest DEF ProtocolInv, SameTasks, At
    <3>3. Len(v_tasks) \in Nat /\ Len(v_tasks) > 0
      BY <3>1, <3>2
    <3>4. k > 0
      BY <3>3, NoBytesBounds
    <3>5. Len(<<>>) >= k
      BY <2>2 DEF OpenChallenge, Available, At
    <3> QED BY <3>3, <3>4, <3>5, NoBytesBounds
  <2> QED BY <2>1, <2>2
<1>2. pat = "delta_sent" /\ vat = "tasks_built" /\ toV = BytesOf(Deltas) /\ toP = <<>>
  BY <1>1 DEF At
<1>3. /\ v_tasks \in Seq(TaskOn(Span(circuit))) /\ Len(v_tasks) <= Len(p_tasks)
      /\ k \in 0 .. Len(BytesOf(Deltas))
      /\ \A i \in 1 .. Len(v_tasks) : v_tasks[i] = p_tasks[i]
  BY <1>2, TasksAre
<1>4. /\ Deltas \in Seq(Bits) /\ Len(Deltas) = Len(p_tasks)
      /\ \A i \in 1 .. Len(p_tasks) : Deltas[i] = TaskXor(m0, p_tasks[i])
      /\ Len(BytesOf(Deltas)) = NoBytes(Len(p_tasks)) /\ b \in Bits /\ e \in Bits
      /\ p_tasks \in Seq(TaskOn(Span(circuit))) /\ p_tasks = Append(Derived, CheckOut(b))
  BY <1>2, DeltasAre
<1>5. \A i \in 1 .. Len(v_tasks) : delta'[i] = TaskXor(m0, v_tasks[i])
  <2>1. delta' = BitsOf(SubSeq(BytesOf(Deltas), 1, k))
    BY <1>2 DEF OpenChallenge, Received
  <2>2. k \in 0 .. NoBytes(Len(Deltas))
    BY <1>3, <1>4
  <2>3. \A i \in 1 .. 8 * k : i <= Len(Deltas) => delta'[i] = Deltas[i]
    BY <1>4, <2>1, <2>2, Unpacked
  <2>4. Len(v_tasks) <= 8 * k /\ Len(v_tasks) \in Nat /\ Len(p_tasks) \in Nat /\ k \in Nat
    BY <1>3, <1>4, NoBytesBounds
  <2> HIDE DEF k
  <2>5. ASSUME NEW i \in 1 .. Len(v_tasks) PROVE delta'[i] = TaskXor(m0, v_tasks[i])
    <3>1. i \in 1 .. 8 * k /\ i \in 1 .. Len(p_tasks) /\ i <= Len(Deltas)
      BY <1>3, <1>4, <2>4
    <3> QED BY <1>3, <1>4, <2>3, <3>1
  <2> QED BY <2>5
<1>6. UNCHANGED <<given, b, gpam_res, p_tasks, m0, v_tasks, e, message,
                  pat, p_accept, v_accept>>
  BY DEF OpenChallenge, proverVars
<1>7. Derived' = Derived /\ CheckOut(b)' = CheckOut(b)
  BY <1>6, SameValues
<1>8. SameTasks'
  <2>1. v_tasks = IF b = 0 THEN Append(Derived, CheckOut(b)) ELSE Derived
    BY <1>2 DEF ProtocolInv, SameTasks
  <2>2. p_accept \in BOOLEAN /\ v_accept \in BOOLEAN
    BY DEF ProtocolInv, SameTasks
  <2>3. \A i \in 1 .. Len(v_tasks') : delta'[i] = TaskXor(m0', v_tasks'[i])
    BY <1>5, <1>6
  <2> QED BY <1>4, <1>6, <1>7, <2>1, <2>2, <2>3 DEF SameTasks
<1>9. Stages'
  <2>1. toV' = Extra /\ vat' = "opened"
    BY <1>2 DEF OpenChallenge, Extra
  <2>2. toP' = BytesOf(<<e>>)
    <3>1. BytesOf(<<e>>) \in Seq(Octet)
      BY <1>4, BitAsByte
    <3>2. toP' = <<>> \o BytesOf(<<e>>)
      BY <1>2 DEF OpenChallenge
    <3> QED BY <3>1, <3>2
  <2>3. Extra' = Extra
    BY <1>6, StillSame
  <2>4. At("delta_sent", "opened", Extra, BytesOf(<<e>>))'
    BY <1>2, <1>6, <2>1, <2>2, <2>3 DEF At
  <2> QED BY <2>4 DEF Stages
<1>10. VerdictIsRelations'
  BY DEF VerdictIsRelations, OpenChallenge
<1> QED BY <1>8, <1>9, <1>10 DEF Kept
-----------------------------------------------------------------------------
LEMMA RevealKeeps ==
  ASSUME ProtocolInv, Reveal
  PROVE  Kept'
<1>1. b \in Bits /\ e \in Bits /\ p_accept \in BOOLEAN /\ v_accept \in BOOLEAN
  BY DEF ProtocolInv, SameTasks
<1>2. /\ BytesOf(<<e>>) \in Seq(Octet) /\ Len(BytesOf(<<e>>)) = 1
      /\ BytesOf(<<e>>)[1][1] = e
  BY <1>1, BitAsByte
<1>3. pat = "delta_sent" /\ vat = "opened" /\ toV = Extra /\ toP = BytesOf(<<e>>)
  <2>1. pat = "delta_sent" /\ Len(toP) >= 1
    BY DEF Reveal, Available
  <2>2. toP = <<>> \/ At("delta_sent", "opened", Extra, BytesOf(<<e>>))
    BY <2>1 DEF ProtocolInv, Stages, At
  <2>3. Len(<<>>) = 0
    OBVIOUS
  <2> QED BY <2>1, <2>2, <2>3 DEF At
<1>4. Received(toP, 1) = BytesOf(<<e>>) /\ toP' = <<>>
  <2>1. SubSeq(BytesOf(<<e>>), 1, 1) = BytesOf(<<e>>)
    BY <1>2, SubSeqFull
  <2>2. SubSeq(BytesOf(<<e>>), 1 + 1, 1) = <<>>
    BY <1>2, SubSeqEmpty
  <2> QED BY <1>2, <1>3, <2>1, <2>2 DEF Reveal, Received, Left
<1>5. toV' = Extra \o BytesOf(Shown)
  <2>1. Received(toP, 1)[1][1] = e
    BY <1>2, <1>4
  <2> QED BY <1>3, <2>1 DEF Reveal, Shown
<1>6. UNCHANGED <<given, b, gpam_res, p_tasks, m0, v_tasks, e, message,
                  vat, p_accept, v_accept, delta>>
  BY DEF Reveal, verifierVars
<1>7. Derived' = Derived /\ CheckOut(b)' = CheckOut(b) /\ Extra' = Extra /\ Shown' = Shown
  BY <1>6, SameValues, StillSame
<1>8. pat' = "revealed"
  BY DEF Reveal
<1>9. SameTasks'
  <2>1. p_tasks = Append(Derived, CheckOut(b))
    BY <1>3, DeltasAre
  <2>2. /\ v_tasks = IF b = 0 THEN Append(Derived, CheckOut(b)) ELSE Derived
        /\ \A i \in 1 .. Len(v_tasks) : delta[i] = TaskXor(m0, v_tasks[i])
    BY <1>3 DEF ProtocolInv, SameTasks
  <2> QED BY <1>1, <1>6, <1>7, <2>1, <2>2 DEF SameTasks
<1>10. Stages'
  <2>1. At("revealed", "opened", Extra \o BytesOf(Shown), <<>>)'
    BY <1>3, <1>4, <1>5, <1>6, <1>7, <1>8 DEF At
  <2> QED BY <2>1 DEF Stages
<1>11. VerdictIsRelations'
  BY <1>3, <1>6 DEF VerdictIsRelations
<1> QED BY <1>9, <1>10, <1>11 DEF Kept

LEMMA JudgementIs ==
  ASSUME NEW accept \in BOOLEAN
  PROVE  /\ Judgement(accept) \in Seq(Octet) /\ Len(Judgement(accept)) = 8
         /\ (Judgement(accept)[1] = LetterA) = accept
<1> DEFINE letter == IF accept THEN LetterA ELSE LetterR
<1>1. LetterA \in Octet /\ LetterR \in Octet
  <2>1. ASSUME NEW t \in Seq(Bits), Len(t) = 8 PROVE t \in Octet
    BY <2>1, LenProperties DEF Octet
  <2>2. /\ LetterA \in Seq(Bits) /\ Len(LetterA) = 8
        /\ LetterR \in Seq(Bits) /\ Len(LetterR) = 8
    BY DEF LetterA, LetterR, Bits
  <2> QED BY <2>1, <2>2
<1>2. LetterA # LetterR
  <2>1. LetterA[1] = 1 /\ LetterR[1] = 0
    BY DEF LetterA, LetterR
  <2> QED BY <2>1
<1>3. letter \in Octet /\ (letter = LetterA) = accept
  BY <1>1, <1>2
<1>4. Opaque(7) \in Seq(Octet) /\ Len(Opaque(7)) = 7
  BY OpaqueBytes
<1>5. Judgement(accept) = <<letter>> \o Opaque(7)
  BY DEF Judgement
<1> HIDE DEF letter
<1>6. /\ <<letter>> \o Opaque(7) \in Seq(Octet) /\ Len(<<letter>> \o Opaque(7)) = 8
      /\ (<<letter>> \o Opaque(7))[1] = letter
  <2>1. <<letter>> \in Seq(Octet) /\ Len(<<letter>>) = 1 /\ <<letter>>[1] = letter
    BY <1>3
  <2>2. ASSUME NEW s \in Seq(Octet), Len(s) = 1, NEW t \in Seq(Octet), Len(t) = 7
        PROVE  s \o t \in Seq(Octet) /\ Len(s \o t) = 8 /\ (s \o t)[1] = s[1]
    <3>1. s \o t \in Seq(Octet) /\ Len(s \o t) = Len(s) + Len(t)
      OBVIOUS
    <3>2. 1 \in 1 .. Len(s)
      BY <2>2
    <3>3. (s \o t)[1] = s[1]
      BY <3>2
    <3> QED BY <2>2, <3>1, <3>3
  <2> QED BY <1>4, <2>1, <2>2
<1> QED BY <1>3, <1>5, <1>6

LEMMA HearJudgementKeeps ==
  ASSUME ProtocolInv, HearJudgement
  PROVE  Kept'
<1>1. b \in Bits /\ e \in Bits /\ p_accept \in BOOLEAN /\ v_accept \in BOOLEAN
  BY DEF ProtocolInv, SameTasks
<1>2. At("revealed", "done", toV, Judgement(v_accept)) /\ Ended
  <2>1. pat = "revealed" /\ Len(toP) >= 8
    BY DEF HearJudgement, Available
  <2>2. \/ toP = <<>>
        \/ At("revealed", "done", toV, Judgement(v_accept)) /\ Ended
    BY <2>1 DEF ProtocolInv, Stages, At
  <2>3. Len(<<>>) = 0
    OBVIOUS
  <2> QED BY <2>1, <2>2, <2>3
<1>3. /\ Judgement(v_accept) \in Seq(Octet) /\ Len(Judgement(v_accept)) = 8
      /\ (Judgement(v_accept)[1] = LetterA) = v_accept
  BY <1>1, JudgementIs
<1>4. toP' = <<>> /\ p_accept' = v_accept
  <2>1. SubSeq(Judgement(v_accept), 8 + 1, 8) = <<>>
    BY <1>3, SubSeqEmpty
  <2> QED BY <1>2, <1>3, <2>1 DEF HearJudgement, Left, At
<1>5. UNCHANGED <<given, b, gpam_res, p_tasks, m0, v_tasks, e, message,
                  vat, v_accept, delta, toV>>
  BY DEF HearJudgement, verifierVars
<1>6. /\ Derived' = Derived /\ CheckOut(b)' = CheckOut(b)
      /\ (Aligned' <=> Aligned)
  BY <1>5, SameValues, StillSame
<1>7. pat = "revealed" /\ vat = "done" /\ pat' = "done"
  BY <1>2 DEF At, HearJudgement
<1>8. SameTasks'
  <2>1. p_tasks = Append(Derived, CheckOut(b))
    BY <1>7, DeltasAre
  <2>2. /\ v_tasks = IF b = 0 THEN Append(Derived, CheckOut(b)) ELSE Derived
        /\ \A i \in 1 .. Len(v_tasks) : delta[i] = TaskXor(m0, v_tasks[i])
    BY <1>7 DEF ProtocolInv, SameTasks
  <2> QED BY <1>1, <1>4, <1>5, <1>6, <2>1, <2>2 DEF SameTasks
<1>9. Stages'
  <2>1. Len(toV) = IF Aligned THEN 0 ELSE 1
    BY <1>2 DEF Ended
  <2>2. Ended'
    BY <1>4, <1>5, <1>6, <2>1 DEF Ended
  <2>3. At("done", "done", toV, <<>>)'
    BY <1>4, <1>5, <1>7 DEF At
  <2> QED BY <2>2, <2>3 DEF Stages
<1>10. VerdictIsRelations'
  <2>1. \A i : Holds(message, v_tasks[i])' = Holds(message, v_tasks[i])
    BY <1>5 DEF Holds, TaskXor
  <2> QED BY <1>5, <1>6, <1>7, <2>1 DEF VerdictIsRelations, ProtocolInv
<1> QED BY <1>8, <1>9, <1>10 DEF Kept

(* The verifier passes a task on what it was shown exactly when the        *)
(* challenge is zero or the task holds of the message.                     *)
LEMMA PassesIs ==
  ASSUME ProtocolInv, pat = "revealed", vat = "opened", NEW m,
         \A j \in 1 .. Span(circuit) : m[j] = Shown[j], NEW i \in 1 .. Len(v_tasks)
  PROVE  Passes(m, i) <=> e = 0 \/ Holds(message, v_tasks[i])
<1> DEFINE t == v_tasks[i]
<1>1. /\ Span(circuit) \in Nat /\ \A j \in 1 .. Span(circuit) : m0[j] \in Bits
      /\ e \in Bits
  BY DeltasAre
<1>2. t \in TaskOn(Span(circuit))
  BY TasksAre
<1>3. t.value \in Bits
  BY <1>2 DEF TaskOn
<1>4. delta[i] = TaskXor(m0, t)
  BY DEF ProtocolInv, SameTasks
<1>5. message \in Seq(Bits) /\ Len(message) = Span(circuit)
  BY ShownIs
<1> HIDE DEF t
<1>6. TaskXor(m, t) = TaskXor(Shown, t)
  BY <1>1, <1>2, TaskXorSees
<1>7. TaskXor(m0, t) \in Bits
  BY <1>1, <1>2, TaskXorBits
<1>8. TaskXor(message, t) \in Bits
  <2>1. \A j \in 1 .. Span(circuit) : message[j] \in Bits
    BY <1>5
  <2> QED BY <1>1, <1>2, <2>1, TaskXorBits
<1>9. Passes(m, i) <=> TaskXor(Shown, t) = Xor2(TaskXor(m0, t), e * t.value)
  BY <1>4, <1>6 DEF Passes, t
<1>10. Holds(message, t) <=> TaskXor(message, t) = t.value
  BY DEF Holds
<1>11. CASE e = 0
  <2>1. e * t.value = 0
    BY <1>3, <1>11 DEF Bits
  <2>2. Shown = m0
    BY <1>11 DEF Shown
  <2>3. Xor2(TaskXor(m0, t), 0) = TaskXor(m0, t)
    BY <1>7, XorOfBits, <1>3 DEF Xor2, Bits
  <2> QED BY <1>9, <1>11, <2>1, <2>2, <2>3
<1>12. CASE e = 1
  <2>1. e * t.value = t.value
    BY <1>3, <1>12 DEF Bits
  <2>2. TaskXor(Shown, t) = Xor2(TaskXor(message, t), TaskXor(m0, t))
    BY <1>1, <1>2, <1>5, <1>12, TaskXorOfXored DEF Shown
  <2>3. ASSUME NEW x \in Bits, NEW y \in Bits, NEW z \in Bits
        PROVE  Xor2(x, y) = Xor2(y, z) <=> x = z
    <3>1. x = 0 \/ x = 1
      BY DEF Bits
    <3>2. y = 0 \/ y = 1
      BY DEF Bits
    <3>3. z = 0 \/ z = 1
      BY DEF Bits
    <3>4. Xor2(0, 0) = 0 /\ Xor2(0, 1) = 1 /\ Xor2(1, 0) = 1 /\ Xor2(1, 1) = 0
      BY DEF Xor2
    <3> QED BY <3>1, <3>2, <3>3, <3>4
  <2>4. Xor2(TaskXor(message, t), TaskXor(m0, t)) = Xor2(TaskXor(m0, t), t.value)
          <=> TaskXor(message, t) = t.value
    BY <1>3, <1>7, <1>8, <2>3
  <2> QED BY <1>9, <1>10, <1>12, <2>1, <2>2, <2>4 DEF t
<1> QED BY <1>1, <1>11, <1>12 DEF Bits

LEMMA JudgeKeeps ==
  ASSUME ProtocolInv, Judge
  PROVE  Kept'
<1> DEFINE n == NoBytes(MessageBits)
           m == BitsOf(Received(toV, n))
<1>1. n \in Nat /\ Span(circuit) = 8 * n /\ NoBytes(Span(circuit)) = n
  BY SpanBytes DEF ProtocolInv
<1>2. \/ At("delta_sent", "opened", Extra, BytesOf(<<e>>))
      \/ At("revealed", "opened", Extra \o BytesOf(Shown), <<>>)
  BY DEF ProtocolInv, Stages, At, Judge
<1>3. vat = "opened" /\ pat \in {"delta_sent", "revealed", "done"}
  BY <1>2 DEF At
<1>4. /\ Extra \in Seq(Octet) /\ Len(Extra) = (IF Aligned THEN 0 ELSE 1)
      /\ ~Aligned => n > 1
  BY <1>3, TasksAre
<1>5. Len(toV) >= n
  BY DEF Judge, Available
<1>6. n > 0
  <2>1. Len(circuit) > 0 /\ StringLen(circuit, InputGates(circuit)) \in Nat
        /\ Size(circuit) > 0 /\ Size(circuit) <= Span(circuit) /\ Size(circuit) \in Nat
    BY SizeBounds DEF ProtocolInv, GivenOK
  <2> HIDE DEF n
  <2> QED BY <1>1, <2>1
<1>7. At("revealed", "opened", Extra \o BytesOf(Shown), <<>>)
  <2> HIDE DEF n
  <2>1. toV # Extra
    <3>1. SUFFICES ASSUME toV = Extra PROVE FALSE
      OBVIOUS
    <3>2. Len(Extra) >= n
      BY <1>5, <3>1
    <3>3. CASE Aligned
      <4>1. Len(Extra) = 0
        BY <1>4, <3>3
      <4> QED BY <1>1, <1>6, <3>2, <4>1
    <3>4. CASE ~Aligned
      <4>1. Len(Extra) = 1 /\ n > 1
        BY <1>4, <3>4
      <4> QED BY <1>1, <3>2, <4>1
    <3> QED BY <3>3, <3>4
  <2> QED BY <1>2, <2>1 DEF At
<1>8. pat = "revealed" /\ toV = Extra \o BytesOf(Shown) /\ toP = <<>>
  BY <1>7 DEF At
<1>9. /\ Shown \in Seq(Bits) /\ Len(Shown) = Span(circuit)
      /\ BytesOf(Shown) \in Seq(Octet) /\ Len(BytesOf(Shown)) = n
  BY <1>3, ShownIs
<1>10. /\ b \in Bits /\ e \in Bits /\ p_accept \in BOOLEAN
       /\ v_tasks \in Seq(TaskOn(Span(circuit)))
  BY <1>3, TasksAre DEF ProtocolInv, SameTasks
<1>11. v_accept' = \A i \in 1 .. Len(v_tasks) : Passes(m, i)
  BY DEF Judge
<1>12. v_accept' \in BOOLEAN
  BY <1>11
<1>13. UNCHANGED <<given, b, gpam_res, p_tasks, m0, v_tasks, e, message,
                   pat, p_accept, delta>>
  BY DEF Judge, proverVars
<1>14. /\ Derived' = Derived /\ CheckOut(b)' = CheckOut(b)
       /\ (Aligned' <=> Aligned)
  BY <1>13, SameValues, StillSame
<1>15. vat' = "done" /\ toP' = Judgement(v_accept')
  <2>1. Judgement(v_accept') \in Seq(Octet)
    BY <1>12, JudgementIs
  <2>2. toP' = <<>> \o Judgement(v_accept') /\ vat' = "done"
    BY <1>8 DEF Judge
  <2> QED BY <2>1, <2>2
<1>16. Len(toV') = IF Aligned THEN 0 ELSE 1
  <2> HIDE DEF n
  <2>1. Len(toV) = Len(Extra) + n /\ toV \in Seq(Octet)
    <3>1. Extra \in Seq(Octet) /\ BytesOf(Shown) \in Seq(Octet)
      BY <1>4, <1>9
    <3>2. /\ Extra \o BytesOf(Shown) \in Seq(Octet)
          /\ Len(Extra \o BytesOf(Shown)) = Len(Extra) + Len(BytesOf(Shown))
      BY <3>1
    <3> QED BY <1>8, <1>9, <3>2
  <2>2. n \in 0 .. Len(toV) /\ Len(Extra) \in Nat
    BY <1>1, <1>4, <1>5, <2>1
  <2>3. toV' = SubSeq(toV, n + 1, Len(toV))
    BY DEF Judge, Left, n
  <2>4. /\ SubSeq(toV, 1, n) \in Seq(Octet) /\ Len(SubSeq(toV, 1, n)) = n
        /\ SubSeq(toV, n + 1, Len(toV)) \in Seq(Octet)
        /\ toV = SubSeq(toV, 1, n) \o SubSeq(toV, n + 1, Len(toV))
    BY <2>1, <2>2, CutInTwo
  <2>5. Len(toV) = n + Len(toV')
    BY <2>3, <2>4, SMTT(30)
  <2>6. Len(toV') = Len(Extra)
    <3>1. Len(toV') \in Nat
      BY <2>3, <2>4
    <3> QED BY <1>1, <2>1, <2>2, <2>5, <3>1
  <2> QED BY <1>4, <2>6
<1>17. SameTasks'
  <2>1. p_tasks = Append(Derived, CheckOut(b))
    BY <1>3, DeltasAre
  <2>2. /\ v_tasks = IF b = 0 THEN Append(Derived, CheckOut(b)) ELSE Derived
        /\ \A i \in 1 .. Len(v_tasks) : delta[i] = TaskXor(m0, v_tasks[i])
    BY <1>3 DEF ProtocolInv, SameTasks
  <2> QED BY <1>10, <1>12, <1>13, <1>14, <2>1, <2>2 DEF SameTasks
<1>18. Stages'
  <2>1. Ended'
    <3>1. pat' = "revealed"
      BY <1>8, <1>13
    <3>2. Len(toV') = IF Aligned' THEN 0 ELSE 1
      BY <1>14, <1>16
    <3> QED BY <3>1, <3>2 DEF Ended
  <2>2. At("revealed", "done", toV, Judgement(v_accept))'
    BY <1>8, <1>13, <1>15 DEF At
  <2> QED BY <2>1, <2>2 DEF Stages
<1>19. VerdictIsRelations'
  <2>1. SUFFICES ASSUME Aligned
                 PROVE  v_accept' <=> e = 0 \/ \A i \in 1 .. Len(v_tasks) : Holds(message, v_tasks[i])
    <3>1. \A i : Holds(message, v_tasks[i])' = Holds(message, v_tasks[i])
      BY <1>13 DEF Holds, TaskXor
    <3> QED BY <1>13, <1>14, <3>1 DEF VerdictIsRelations
  <2>2. Received(toV, n) = BytesOf(Shown)
    <3> HIDE DEF n
    <3>1. Extra = <<>>
      BY <1>4, <2>1, EmptySeq
    <3>2. toV = BytesOf(Shown)
      BY <1>8, <1>9, <3>1
    <3>3. SubSeq(BytesOf(Shown), 1, n) = BytesOf(Shown)
      BY <1>9, SubSeqFull
    <3> QED BY <3>2, <3>3 DEF Received
  <2>3. \A j \in 1 .. Span(circuit) : m[j] = Shown[j]
    <3>1. SubSeq(BytesOf(Shown), 1, n) = BytesOf(Shown)
      BY <1>9, SubSeqFull
    <3>2. n \in 0 .. NoBytes(Len(Shown))
      BY <1>1, <1>9
    <3>3. \A j \in 1 .. 8 * n : j <= Len(Shown) =>
            BitsOf(SubSeq(BytesOf(Shown), 1, n))[j] = Shown[j]
      BY <1>9, <3>2, Unpacked
    <3>4. m = BitsOf(SubSeq(BytesOf(Shown), 1, n))
      BY <2>2, <3>1
    <3> HIDE DEF m, n
    <3>5. Span(circuit) = 8 * n /\ Len(Shown) = 8 * n
      BY <1>1, <1>9
    <3>6. \A j \in 1 .. 8 * n : j <= 8 * n
      BY <1>1
    <3>7. \A j \in 1 .. 8 * n : m[j] = Shown[j]
      BY <3>3, <3>4, <3>5, <3>6
    <3> QED BY <3>5, <3>7
  <2> HIDE DEF m
  <2>4. \A i \in 1 .. Len(v_tasks) : Passes(m, i) <=> e = 0 \/ Holds(message, v_tasks[i])
    BY <1>3, <1>8, <2>3, PassesIs
  <2> QED BY <1>11, <2>4
<1> QED BY <1>17, <1>18, <1>19 DEF Kept
-----------------------------------------------------------------------------
LEMMA StutterKeeps ==
  ASSUME ProtocolInv, UNCHANGED vars
  PROVE  Kept'
<1>1. /\ UNCHANGED <<given, b, gpam_res, p_tasks, m0, v_tasks, e, message>>
      /\ UNCHANGED <<pat, vat, toV, toP, delta, p_accept, v_accept>>
  BY DEF vars, proverVars, verifierVars
<1>2. /\ Derived' = Derived /\ CheckOut(b)' = CheckOut(b) /\ Permaj' = Permaj
      /\ PermajBytes(b)' = PermajBytes(b)
      /\ Deltas' = Deltas /\ Extra' = Extra /\ Shown' = Shown /\ (Aligned' <=> Aligned)
  BY <1>1, SameValues, StillSame
<1>3. SameTasks'
  <2>1. SameTasks
    BY DEF ProtocolInv
  <2> QED BY <1>1, <1>2, <2>1 DEF SameTasks
<1>4. Stages'
  <2>1. Stages
    BY DEF ProtocolInv
  <2>2. Ended' <=> Ended
    BY <1>1, <1>2 DEF Ended
  <2> QED BY <1>1, <1>2, <2>1, <2>2 DEF Stages, At
<1>5. VerdictIsRelations'
  <2>1. \A i : Holds(message, v_tasks[i])' = Holds(message, v_tasks[i])
    BY <1>1 DEF Holds, TaskXor
  <2> QED BY <1>1, <1>2, <2>1 DEF VerdictIsRelations, ProtocolInv
<1> QED BY <1>3, <1>4, <1>5 DEF Kept

LEMMA NextKeeps == ProtocolInv /\ [Next]_vars => ProtocolInv'
<1> SUFFICES ASSUME ProtocolInv, [Next]_vars PROVE ProtocolInv'
  OBVIOUS
<1>1. GivenOK' /\ Refusals' /\ MessageMade' /\ MaskDrawn'
  BY GivenStays, RefusalsStay, MessageStays, MaskStays DEF ProtocolInv
<1>2. Kept'
  <2>1. CASE Prover
    BY <2>1, EarlySteps, XorCommitKeeps, SendDeltaKeeps, RevealKeeps,
       HearJudgementKeeps DEF Prover
  <2>2. CASE Verifier
    BY <2>2, EarlySteps, ChallengeAndsKeeps, BuildTasksKeeps, OpenChallengeKeeps,
       JudgeKeeps DEF Verifier
  <2>3. CASE UNCHANGED vars
    BY <2>3, StutterKeeps
  <2> QED BY <2>1, <2>2, <2>3 DEF Next
<1> QED BY <1>1, <1>2 DEF ProtocolInv, Kept

(* At every moment both parties are at a stage of one and the same proof,  *)
(* with nothing but what that stage says under way.                        *)
THEOREM ProtocolInStep == Spec => []ProtocolInv
BY InitHolds, NextKeeps, PTL DEF Spec

(* The verifier judges the committed string itself: with challenge zero it *)
(* accepts, with challenge one exactly when every relation holds.          *)
THEOREM VerdictCorrect == Spec => []VerdictIsRelations
<1>1. ProtocolInv => VerdictIsRelations
  BY DEF ProtocolInv
<1> QED BY <1>1, ProtocolInStep, PTL

(* Prover and verifier end with the same verdict and nothing unreceived    *)
(* but one byte of deltas that did not line up.                            *)
THEOREM VerdictsAgree == Spec => []EndsInAgreement
<1>1. ProtocolInv => EndsInAgreement
  BY DEF ProtocolInv, Stages, At, Ended, EndsInAgreement
<1> QED BY <1>1, ProtocolInStep, PTL

(* A circuit is proved if exactly one address is left unread, and refused  *)
(* by both parties otherwise.                                              *)
THEOREM OneOutputProved == Spec => []ProvesOneOutput
<1>1. ProtocolInv => ProvesOneOutput
  BY RefusalsProveOutput DEF ProtocolInv
<1> QED BY <1>1, ProtocolInStep, PTL
-----------------------------------------------------------------------------
(* Circuits without reuse: the string satisfies the gates.                 *)

(* What a gate leaves alone stays.                                         *)
LEMMA ValueStays ==
  ASSUME NEW c, Provable(c), NEW w, NEW v, Visits(c, w, v),
         NEW a \in 0 .. Size(c) - 1, NEW i \in 0 .. Len(c),
         \A j \in i + 1 .. Len(c) : c[j].dst # a
  PROVE  v[Len(c)][a] = v[i][a]
<1> DEFINE n == Len(c)
           P == {d \in Nat : i + d <= n => v[i + d][a] = v[i][a]}
<1>1. n \in Nat
  BY SizeBounds
<1>2. 0 \in P
  OBVIOUS
<1>3. ASSUME NEW d \in Nat, d \in P PROVE d + 1 \in P
  <2>1. ASSUME i + (d + 1) <= n PROVE v[i + (d + 1)][a] = v[i][a]
    <3> DEFINE j == i + (d + 1)
    <3>1. j \in 1 .. n /\ j \in i + 1 .. n /\ j - 1 = i + d /\ i + d <= n
      BY <1>1, <2>1
    <3>2. v[i + d][a] = v[i][a]
      BY <1>3, <3>1
    <3> HIDE DEF j, P
    <3>3. c[j].dst # a
      BY <3>1
    <3>4. v[j][a] = v[j - 1][a]
      BY <3>1, <3>3 DEF Visits
    <3>5. v[j][a] = v[i][a]
      BY <3>1, <3>2, <3>4
    <3> QED BY <3>5 DEF j
  <2> QED BY <2>1
<1>4. \A d \in Nat : d \in P
  <2> HIDE DEF P
  <2> QED BY <1>2, <1>3, SetInduction
<1>5. n - i \in Nat /\ i + (n - i) = n
  BY <1>1
<1>6. v[i + (n - i)][a] = v[i][a]
  <2>1. n - i \in P
    BY <1>4, <1>5
  <2> QED BY <1>1, <1>5, <2>1
<1> QED BY <1>5, <1>6

Single(c) ==
  \A i, j \in 1 .. Len(c) :
    i <= j => /\ i # j => c[i].dst # c[j].dst
              /\ c[j].dst # c[i].op1 /\ c[j].dst # c[i].op2

(* Every gate finds its operands, and leaves its result, as they end up.   *)
LEMMA GateInString ==
  ASSUME NEW c, Provable(c), Single(c), NEW w, NEW v, Visits(c, w, v),
         NEW i \in 1 .. Len(c)
  PROVE  v[Len(c)][c[i].dst] =
           IF c[i].type = "and" THEN v[Len(c)][c[i].op1] * v[Len(c)][c[i].op2]
                                ELSE Xor2(v[Len(c)][c[i].op1], v[Len(c)][c[i].op2])
<1>1. Len(c) \in Nat /\ i \in 0 .. Len(c) /\ i - 1 \in 0 .. Len(c)
  BY SizeBounds
<1>2. /\ c[i].dst \in 0 .. Size(c) - 1 /\ c[i].op1 \in 0 .. Size(c) - 1
      /\ c[i].op2 \in 0 .. Size(c) - 1
  BY AddressesOf
<1>3. v[Len(c)][c[i].dst] = v[i][c[i].dst]
  <2>1. ASSUME NEW j \in i + 1 .. Len(c) PROVE c[j].dst # c[i].dst
    <3>1. j \in 1 .. Len(c) /\ i <= j /\ i # j
      BY <1>1
    <3> QED BY <3>1 DEF Single
  <2> QED BY <1>1, <1>2, <2>1, ValueStays
<1>4. ASSUME NEW a, a = c[i].op1 \/ a = c[i].op2
      PROVE  v[Len(c)][a] = v[i - 1][a]
  <2>1. ASSUME NEW j \in (i - 1) + 1 .. Len(c) PROVE c[j].dst # a
    <3>1. j \in 1 .. Len(c) /\ i <= j
      BY <1>1
    <3> QED BY <1>4, <3>1 DEF Single
  <2>2. a \in 0 .. Size(c) - 1
    BY <1>2, <1>4
  <2> QED BY <1>1, <2>1, <2>2, ValueStays
<1>5. v[i][c[i].dst] = IF c[i].type = "and" THEN v[i - 1][c[i].op1] * v[i - 1][c[i].op2]
                       ELSE Xor2(v[i - 1][c[i].op1], v[i - 1][c[i].op2])
  BY <1>2 DEF Visits
<1>6. /\ v[Len(c)][c[i].op1] = v[i - 1][c[i].op1]
      /\ v[Len(c)][c[i].op2] = v[i - 1][c[i].op2]
  BY <1>4
<1> QED BY <1>3, <1>5, <1>6

LEMMA InputInString ==
  ASSUME NEW c, Provable(c), Single(c), NEW w, NEW v, Visits(c, w, v),
         NEW a \in InputGates(c)
  PROVE  a \in 0 .. Size(c) - 1 /\ v[Len(c)][a] = w[Place(c, InputGates(c), a)]
<1>1. Len(c) \in Nat /\ 0 \in 0 .. Len(c)
  BY SizeBounds
<1>2. PICK i \in 1 .. Len(c) : /\ a = c[i].op1 \/ a = c[i].op2
                               /\ \A j \in 1 .. i - 1 : c[j].dst # a
  BY DEF InputGates
<1>3. a \in 0 .. Size(c) - 1
  BY <1>2, AddressesOf
<1>4. ASSUME NEW j \in 0 + 1 .. Len(c) PROVE c[j].dst # a
  <2>1. j \in 1 .. Len(c)
    OBVIOUS
  <2>2. CASE i <= j
    BY <1>2, <2>1, <2>2 DEF Single
  <2>3. CASE ~(i <= j)
    <3>1. j \in 1 .. i - 1
      BY <2>1, <2>3
    <3> QED BY <1>2, <3>1
  <2> QED BY <2>2, <2>3
<1>5. v[Len(c)][a] = v[0][a]
  BY <1>1, <1>3, <1>4, ValueStays
<1>6. v[0][a] = w[Place(c, InputGates(c), a)]
  BY <1>3 DEF Visits
<1> QED BY <1>3, <1>5, <1>6

LEMMA SingleIs ==
  ASSUME GivenOK, SingleAssignment
  PROVE  /\ Single(circuit)
         /\ \A i \in 1 .. Len(circuit) :
              \A a \in {circuit[i].dst, circuit[i].op1, circuit[i].op2} :
                a \in 0 .. StringLen(circuit, InputGates(circuit)) - 1
         /\ \A a \in InputGates(circuit) :
              a \in 0 .. StringLen(circuit, InputGates(circuit)) - 1
<1>1. Provable(circuit) /\ input_gates = InputGates(circuit) /\ circuit \in Seq(Gate)
  BY DEF GivenOK, Provable
<1>2. DOMAIN circuit = 1 .. Len(circuit)
  BY <1>1
<1>3. Single(circuit)
  BY <1>2 DEF SingleAssignment, Single
<1>4. ASSUME NEW a \in Addresses(circuit)
      PROVE  a \in 0 .. StringLen(circuit, InputGates(circuit)) - 1
  <2>1. a \in 0 .. Size(circuit) - 1
    BY <1>1 DEF Provable
  <2>2. a < StringLen(circuit, InputGates(circuit))
    BY <1>1 DEF SingleAssignment
  <2>3. StringLen(circuit, InputGates(circuit)) \in Nat /\ Size(circuit) \in Nat
    BY <1>1, SizeBounds
  <2> QED BY <2>1, <2>2, <2>3
<1>5. ASSUME NEW i \in 1 .. Len(circuit)
      PROVE  /\ circuit[i].dst \in Addresses(circuit)
             /\ circuit[i].op1 \in Addresses(circuit)
             /\ circuit[i].op2 \in Addresses(circuit)
  BY <1>2 DEF Addresses, Written
<1>6. InputGates(circuit) \subseteq Addresses(circuit)
  BY <1>2 DEF InputGates, Addresses
<1> QED BY <1>3, <1>4, <1>5, <1>6

(* The message at the addresses of the circuit.                            *)
LEMMA MessageReads ==
  ASSUME ProtocolInv, Prepared
  PROVE  \E rs, v :
           /\ rs \in [1 .. AllAnds(circuit) -> Randoms] /\ MadeFrom(rs)
           /\ Visits(circuit, witness, v)
           /\ \A a \in 0 .. StringLen(circuit, InputGates(circuit)) - 1 :
                Bit(message, a) = v[Len(circuit)][a]
<1> DEFINE string == Evaluation(circuit, input_gates, witness)
           n == StringLen(circuit, InputGates(circuit))
<1>1. /\ GivenOK /\ Provable(circuit) /\ input_gates = InputGates(circuit)
      /\ witness \in [1 .. Cardinality(InputGates(circuit)) -> Bits]
  BY DEF ProtocolInv, GivenOK
<1>2. PICK rs \in [1 .. AllAnds(circuit) -> Randoms] : MadeFrom(rs)
  BY DEF ProtocolInv, MessageMade, Prepared
<1>3. string \in Seq(Bits) /\ Len(string) = Size(circuit)
  BY <1>1, EvaluationBits
<1>4. PICK v : /\ Visits(circuit, witness, v)
               /\ string = [k \in 1 .. Size(circuit) |-> v[Len(circuit)][k - 1]]
  BY <1>1, EvaluationIs
<1>5. n \in Nat /\ n <= Size(circuit) /\ Size(circuit) \in Nat
  BY <1>1, SizeBounds
<1>6. message = Message(string, GpamAux(circuit, string, rs))
  BY <1>2 DEF MadeFrom
<1> HIDE DEF string
<1>7. /\ GpamAux(circuit, string, rs) \in Seq(Bits)
      /\ Len(GpamAux(circuit, string, rs)) = 3 * AllAnds(circuit)
  BY <1>1, <1>3, GpamBits
<1>8. \A i \in 1 .. n : message[i] = string[i]
  BY <1>1, <1>3, <1>6, <1>7, MessageParts
<1> HIDE DEF n
<1>9. ASSUME NEW a \in 0 .. n - 1 PROVE Bit(message, a) = v[Len(circuit)][a]
  <2>1. a + 1 \in 1 .. n /\ a + 1 \in 1 .. Size(circuit) /\ (a + 1) - 1 = a
    BY <1>5
  <2> QED BY <1>4, <1>8, <2>1 DEF Bit
<1> QED BY <1>2, <1>4, <1>9 DEF n

LEMMA StringSatisfies ==
  ASSUME ProtocolInv
  PROVE  EvaluationSatisfiesGates
<1> SUFFICES ASSUME Prepared, SingleAssignment
             PROVE  /\ \A a \in input_gates :
                         Bit(message, a) = witness[Place(circuit, input_gates, a)]
                    /\ \A i \in DOMAIN circuit : GateHolds(circuit[i])
  BY DEF EvaluationSatisfiesGates
<1>1. /\ GivenOK /\ Provable(circuit) /\ input_gates = InputGates(circuit)
      /\ DOMAIN circuit = 1 .. Len(circuit)
  BY DEF ProtocolInv, GivenOK, Provable
<1>2. PICK v : /\ Visits(circuit, witness, v)
               /\ \A a \in 0 .. StringLen(circuit, InputGates(circuit)) - 1 :
                    Bit(message, a) = v[Len(circuit)][a]
  BY MessageReads
<1>3. /\ Single(circuit)
      /\ \A i \in 1 .. Len(circuit) :
           \A a \in {circuit[i].dst, circuit[i].op1, circuit[i].op2} :
             a \in 0 .. StringLen(circuit, InputGates(circuit)) - 1
      /\ \A a \in InputGates(circuit) :
           a \in 0 .. StringLen(circuit, InputGates(circuit)) - 1
  BY <1>1, SingleIs
<1>4. ASSUME NEW a \in InputGates(circuit)
      PROVE  Bit(message, a) = witness[Place(circuit, InputGates(circuit), a)]
  BY <1>1, <1>2, <1>3, InputInString
<1>5. ASSUME NEW i \in 1 .. Len(circuit) PROVE GateHolds(circuit[i])
  <2> DEFINE g == circuit[i]
  <2>1. /\ Bit(message, g.dst) = v[Len(circuit)][g.dst]
        /\ Bit(message, g.op1) = v[Len(circuit)][g.op1]
        /\ Bit(message, g.op2) = v[Len(circuit)][g.op2]
    BY <1>2, <1>3
  <2>2. v[Len(circuit)][g.dst] =
          IF g.type = "and" THEN v[Len(circuit)][g.op1] * v[Len(circuit)][g.op2]
                            ELSE Xor2(v[Len(circuit)][g.op1], v[Len(circuit)][g.op2])
    BY <1>1, <1>2, <1>3, GateInString
  <2> HIDE DEF g
  <2>3. Bit(message, g.dst) = IF g.type = "and" THEN Bit(message, g.op1) * Bit(message, g.op2)
                              ELSE Xor2(Bit(message, g.op1), Bit(message, g.op2))
    BY <2>1, <2>2
  <2>4. GateHolds(g)
    BY <2>3 DEF GateHolds, Xor2
  <2> QED BY <2>4 DEF g
<1> QED BY <1>1, <1>4, <1>5

(* The string committed to holds the witness and satisfies every gate.     *)
THEOREM EvaluationCorrect == Spec => []EvaluationSatisfiesGates
BY StringSatisfies, ProtocolInStep, PTL
-----------------------------------------------------------------------------
-----------------------------------------------------------------------------
(* The majority index of every AND gate.                                   *)

LEMMA PlacedAt ==
  ASSUME NEW p, NEW x, NEW j \in 1 .. 3, NEW k \in 1 .. 3, p[j] = k - 1,
         \A i \in 1 .. 3 : p[i] = k - 1 => i = j
  PROVE  Permuted(p, x)[k] = x[j]
<1>1. (CHOOSE i \in 1 .. 3 : p[i] = k - 1) = j
  OBVIOUS
<1> QED BY <1>1 DEF Permuted

LEMMA AllPlaced ==
  ASSUME NEW p, NEW x, NEW i \in 1 .. 3, NEW j \in 1 .. 3, NEW k \in 1 .. 3,
         i # j, i # k, j # k, p[i] = 0, p[j] = 1, p[k] = 2
  PROVE  /\ Permuted(p, x)[1] = x[i] /\ Permuted(p, x)[2] = x[j]
         /\ Permuted(p, x)[3] = x[k]
<1>1. \A l \in 1 .. 3 : l = i \/ l = j \/ l = k
  OBVIOUS
<1>2. 1 \in 1 .. 3 /\ 2 \in 1 .. 3 /\ 3 \in 1 .. 3 /\ 1 - 1 = 0 /\ 2 - 1 = 1 /\ 3 - 1 = 2
  OBVIOUS
<1>3. \A l \in 1 .. 3 : /\ p[l] = 0 => l = i
                        /\ p[l] = 1 => l = j
                        /\ p[l] = 2 => l = k
  BY <1>1
<1>4. Permuted(p, x)[1] = x[i]
  BY <1>2, <1>3, PlacedAt
<1>5. Permuted(p, x)[2] = x[j]
  BY <1>2, <1>3, PlacedAt
<1>6. Permuted(p, x)[3] = x[k]
  BY <1>2, <1>3, PlacedAt
<1> QED BY <1>4, <1>5, <1>6

(* A permutation keeps the number of ones.                                 *)
Ones(x) == x[1] + x[2] + x[3]

LEMMA PermutedOnes ==
  ASSUME NEW r \in 0 .. 5, NEW x, x[1] \in Bits, x[2] \in Bits, x[3] \in Bits
  PROVE  Ones(Permuted(perms[r + 1], x)) = Ones(x)
<1> DEFINE p == perms[r + 1]
<1>1. \/ p[1] = 0 /\ p[2] = 1 /\ p[3] = 2
      \/ p[1] = 0 /\ p[3] = 1 /\ p[2] = 2
      \/ p[2] = 0 /\ p[1] = 1 /\ p[3] = 2
      \/ p[3] = 0 /\ p[1] = 1 /\ p[2] = 2
      \/ p[2] = 0 /\ p[3] = 1 /\ p[1] = 2
      \/ p[3] = 0 /\ p[2] = 1 /\ p[1] = 2
  <2>1. r = 0 \/ r = 1 \/ r = 2 \/ r = 3 \/ r = 4 \/ r = 5
    OBVIOUS
  <2> QED BY <2>1 DEF perms
<1> HIDE DEF p
<1>2. 1 \in 1 .. 3 /\ 2 \in 1 .. 3 /\ 3 \in 1 .. 3 /\ 1 # 2 /\ 1 # 3 /\ 2 # 3
  OBVIOUS
<1>3. PICK i \in 1 .. 3, j \in 1 .. 3, k \in 1 .. 3 :
        i # j /\ i # k /\ j # k /\ p[i] = 0 /\ p[j] = 1 /\ p[k] = 2
  BY <1>1, <1>2
<1>4. /\ Permuted(p, x)[1] = x[i] /\ Permuted(p, x)[2] = x[j]
      /\ Permuted(p, x)[3] = x[k]
  BY <1>3, AllPlaced
<1>5. x[1] \in Int /\ x[2] \in Int /\ x[3] \in Int
  BY DEF Bits
<1>6. x[i] + x[j] + x[k] = x[1] + x[2] + x[3]
  <2>1. /\ i = 1 \/ i = 2 \/ i = 3
        /\ j = 1 \/ j = 2 \/ j = 3
        /\ k = 1 \/ k = 2 \/ k = 3
    OBVIOUS
  <2> QED BY <1>3, <1>5, <2>1
<1> QED BY <1>4, <1>6 DEF Ones, p

(* Two of three bits that are not two ones and a zero are equal zeros, or  *)
(* all are equal; the majority brings such a pair to the front.            *)
LEMMA PairInFront ==
  ASSUME NEW aux \in [1 .. 3 -> Bits], Ones(aux) # 2
  PROVE  /\ MajorityOf(aux) \in 0 .. 2
         /\ LET front == Permuted(majs[MajorityOf(aux) + 1], aux)
            IN  front[1] = front[2]
<1>1. 1 \in 1 .. 3 /\ 2 \in 1 .. 3 /\ 3 \in 1 .. 3 /\ 1 # 2 /\ 1 # 3 /\ 2 # 3
  OBVIOUS
<1>2. /\ aux[1] = 0 \/ aux[1] = 1
      /\ aux[2] = 0 \/ aux[2] = 1
      /\ aux[3] = 0 \/ aux[3] = 1
  BY <1>1 DEF Bits
<1>3. aux = <<aux[1], aux[2], aux[3]>>
  OBVIOUS
<1>4. CASE aux = <<0, 1, 0>>
  <2>1. MajorityOf(aux) = 1
    BY <1>4 DEF MajorityOf
  <2>2. majs[1 + 1][1] = 0 /\ majs[1 + 1][3] = 1 /\ majs[1 + 1][2] = 2
    BY DEF majs
  <2>3. Permuted(majs[1 + 1], aux)[1] = aux[1] /\ Permuted(majs[1 + 1], aux)[2] = aux[3]
    BY <1>1, <2>2, AllPlaced
  <2> QED BY <1>4, <2>1, <2>3
<1>5. CASE aux = <<1, 0, 0>>
  <2>1. MajorityOf(aux) = 2
    BY <1>5 DEF MajorityOf
  <2>2. majs[2 + 1][3] = 0 /\ majs[2 + 1][2] = 1 /\ majs[2 + 1][1] = 2
    BY DEF majs
  <2>3. Permuted(majs[2 + 1], aux)[1] = aux[3] /\ Permuted(majs[2 + 1], aux)[2] = aux[2]
    BY <1>1, <2>2, AllPlaced
  <2> QED BY <1>5, <2>1, <2>3
<1>6. CASE aux # <<0, 1, 0>> /\ aux # <<1, 0, 0>>
  <2>1. MajorityOf(aux) = 0
    BY <1>6 DEF MajorityOf
  <2>2. majs[0 + 1][1] = 0 /\ majs[0 + 1][2] = 1 /\ majs[0 + 1][3] = 2
    BY DEF majs
  <2>3. Permuted(majs[0 + 1], aux)[1] = aux[1] /\ Permuted(majs[0 + 1], aux)[2] = aux[2]
    BY <1>1, <2>2, AllPlaced
  <2>4. ~(aux[1] = 0 /\ aux[2] = 1 /\ aux[3] = 0) /\ ~(aux[1] = 1 /\ aux[2] = 0 /\ aux[3] = 0)
    BY <1>3, <1>6
  <2>5. aux[1] = aux[2]
    BY <1>2, <2>4 DEF Ones
  <2> QED BY <2>1, <2>3, <2>5
<1> QED BY <1>4, <1>5, <1>6

(* Result and operands of an AND gate are not two ones and a zero.         *)
LEMMA AndOnes ==
  ASSUME NEW x \in Bits, NEW y \in Bits, NEW z \in Bits, x = y * z
  PROVE  x + y + z # 2
<1>1. y = 0 \/ y = 1
  BY DEF Bits
<1>2. z = 0 \/ z = 1
  BY DEF Bits
<1>3. CASE y = 0
  <2>1. x = 0
    BY <1>2, <1>3
  <2> QED BY <1>2, <1>3, <2>1
<1>4. CASE y = 1
  <2>1. x = z
    BY <1>2, <1>4
  <2> QED BY <1>2, <1>4, <2>1
<1> QED BY <1>1, <1>3, <1>4

LEMMA AuxOnes ==
  ASSUME NEW string, NEW g, NEW r \in 0 .. 5,
         Bit(string, g.dst) \in Bits, Bit(string, g.op1) \in Bits,
         Bit(string, g.op2) \in Bits,
         Bit(string, g.dst) = Bit(string, g.op1) * Bit(string, g.op2)
  PROVE  Ones(AuxOf(string, g, r)) # 2
<1> DEFINE x == <<Bit(string, g.dst), Bit(string, g.op1), Bit(string, g.op2)>>
<1>1. Ones(x) # 2
  BY AndOnes DEF Ones
<1>2. x[1] \in Bits /\ x[2] \in Bits /\ x[3] \in Bits
  OBVIOUS
<1> HIDE DEF x
<1>3. Ones(Permuted(perms[r + 1], x)) = Ones(x)
  BY <1>2, PermutedOnes
<1> QED BY <1>1, <1>3 DEF AuxOf, x

(* The two bits of an index give it back.                                  *)
LEMMA IndexBits ==
  ASSUME NEW v \in 0 .. 2
  PROVE  Binary(v, 2)[1] + 2 * Binary(v, 2)[2] = v
<1>1. 1 \in 1 .. 2 /\ 2 \in 1 .. 2 /\ <<1, 2, 4>>[1] = 1 /\ <<1, 2, 4>>[2] = 2
  OBVIOUS
<1>2. Binary(v, 2)[1] = (v \div 1) % 2 /\ Binary(v, 2)[2] = (v \div 2) % 2
  BY <1>1 DEF Binary
<1>3. ((v \div 1) % 2) + 2 * ((v \div 2) % 2) = v
  <2>1. v = 0 \/ v = 1 \/ v = 2
    OBVIOUS
  <2> QED BY <2>1
<1> QED BY <1>2, <1>3

(* Where the majority string and the auxiliary bits have those of gate k.  *)
Indexed(c, string, rs, k) ==
  LET a == AuxBits(c, string, rs)[k]
      m == GpamMajority(c, string, rs)
  IN  /\ a = AuxOf(string, AndGate(c, k), rs[k]) /\ a \in [1 .. 3 -> Bits]
      /\ m[2 * (k - 1) + 1] = Binary(MajorityOf(a), 2)[1]
      /\ m[2 * (k - 1) + 2] = Binary(MajorityOf(a), 2)[2]
      /\ \A j \in 1 .. 3 : GpamAux(c, string, rs)[3 * (k - 1) + j] = a[j]

LEMMA IndexAt ==
  ASSUME NEW c, Provable(c), NEW string \in Seq(Bits), Len(string) = Size(c),
         NEW rs \in [1 .. AllAnds(c) -> Randoms], NEW k \in 1 .. AllAnds(c)
  PROVE  Indexed(c, string, rs, k)
<1> DEFINE n == AllAnds(c)
           aux == AuxBits(c, string, rs)
           g == [i \in DOMAIN aux |-> Binary(MajorityOf(aux[i]), 2)]
<1>1. n \in Nat
  BY SizeBounds
<1>2. aux \in [1 .. n -> [1 .. 3 -> Bits]]
  BY GpamBits
<1>3. aux[k] = AuxOf(string, AndGate(c, k), rs[k])
  BY DEF AuxBits
<1>4. GpamAux(c, string, rs) = Grouped(3, aux) /\ GpamMajority(c, string, rs) = Grouped(2, g)
  BY DEF GpamAux, GpamMajority
<1> HIDE DEF aux
<1>5. /\ DOMAIN aux = 1 .. n /\ 2 \in 2 .. 3 /\ 3 \in 2 .. 3
      /\ 1 \in 1 .. 2 /\ 2 \in 1 .. 2
  BY <1>2
<1>6. ASSUME NEW i \in 1 .. n PROVE Binary(MajorityOf(aux[i]), 2) \in [1 .. 2 -> Bits]
  <2>1. MajorityOf(aux[i]) \in Nat
    BY DEF MajorityOf
  <2> QED BY <1>5, <2>1, BinaryBits
<1>7. g \in [1 .. n -> [1 .. 2 -> Bits]] /\ g[k] = Binary(MajorityOf(aux[k]), 2)
  BY <1>5, <1>6
<1> HIDE DEF g
<1>8. \A j \in 1 .. 3 : Grouped(3, aux)[3 * (k - 1) + j] = aux[k][j]
  <2> HIDE DEF n
  <2>1. k \in 1 .. n
    BY DEF n
  <2> QED BY <1>1, <1>2, <1>5, <2>1, GroupedBits
<1>9. \A j \in 1 .. 2 : Grouped(2, g)[2 * (k - 1) + j] = g[k][j]
  <2> HIDE DEF n
  <2>1. k \in 1 .. n
    BY DEF n
  <2> QED BY <1>1, <1>5, <1>7, <2>1, GroupedBits
<1>10. aux[k] \in [1 .. 3 -> Bits]
  BY <1>2
<1>11. /\ Grouped(2, g)[2 * (k - 1) + 1] = Binary(MajorityOf(aux[k]), 2)[1]
       /\ Grouped(2, g)[2 * (k - 1) + 2] = Binary(MajorityOf(aux[k]), 2)[2]
  BY <1>5, <1>7, <1>9
<1> QED BY <1>3, <1>4, <1>8, <1>10, <1>11 DEF aux, Indexed

LEMMA FrontIsMajority ==
  ASSUME ProtocolInv
  PROVE  MajorityInFront
<1> SUFFICES ASSUME Prepared, SingleAssignment, NEW k0 \in 0 .. AllAnds(circuit) - 1
             PROVE  LET index == Bit(gpam_res.majority, 2 * k0)
                                   + 2 * Bit(gpam_res.majority, 2 * k0 + 1)
                        front == Permuted(majs[index + 1], CommittedAux(k0))
                    IN  front[1] = front[2]
  BY DEF MajorityInFront
<1> DEFINE string == Evaluation(circuit, input_gates, witness)
           n == StringLen(circuit, InputGates(circuit))
           k == k0 + 1
<1>1. /\ GivenOK /\ Provable(circuit) /\ input_gates = InputGates(circuit)
      /\ witness \in [1 .. Cardinality(InputGates(circuit)) -> Bits]
      /\ circuit \in Seq(Gate)
  BY DEF ProtocolInv, GivenOK, Provable
<1>2. PICK rs \in [1 .. AllAnds(circuit) -> Randoms] : MadeFrom(rs)
  BY DEF ProtocolInv, MessageMade, Prepared
<1>3. string \in Seq(Bits) /\ Len(string) = Size(circuit)
  BY <1>1, EvaluationBits
<1>4. PICK v : /\ Visits(circuit, witness, v)
               /\ string = [i \in 1 .. Size(circuit) |-> v[Len(circuit)][i - 1]]
  BY <1>1, EvaluationIs
<1>5. /\ n \in Nat /\ Size(circuit) \in Nat /\ AllAnds(circuit) \in Nat
      /\ Len(circuit) \in Nat
  BY <1>1, SizeBounds
<1>6. /\ message = Message(string, GpamAux(circuit, string, rs))
      /\ gpam_res.majority = GpamMajority(circuit, string, rs)
  BY <1>2 DEF MadeFrom
<1> HIDE DEF string, n
<1>7. /\ GpamAux(circuit, string, rs) \in Seq(Bits)
      /\ Len(GpamAux(circuit, string, rs)) = 3 * AllAnds(circuit)
  BY <1>1, <1>3, GpamBits
<1>8. \A i \in 1 .. 3 * AllAnds(circuit) : message[n + i] = GpamAux(circuit, string, rs)[i]
  BY <1>1, <1>3, <1>6, <1>7, MessageParts DEF n
<1>9. k \in 1 .. AllAnds(circuit) /\ k - 1 = k0 /\ k0 \in Nat
  BY <1>5
<1> HIDE DEF k
<1> DEFINE a == AuxBits(circuit, string, rs)[k]
           index == MajorityOf(a)
<1>10. /\ a = AuxOf(string, AndGate(circuit, k), rs[k]) /\ a \in [1 .. 3 -> Bits]
       /\ gpam_res.majority[2 * k0 + 1] = Binary(index, 2)[1]
       /\ gpam_res.majority[2 * k0 + 2] = Binary(index, 2)[2]
       /\ \A j \in 1 .. 3 : GpamAux(circuit, string, rs)[3 * k0 + j] = a[j]
  <2> DEFINE m == GpamMajority(circuit, string, rs)
             aux == GpamAux(circuit, string, rs)
  <2>1. Indexed(circuit, string, rs, k)
    BY <1>1, <1>3, <1>9, IndexAt
  <2>2. /\ a = AuxOf(string, AndGate(circuit, k), rs[k]) /\ a \in [1 .. 3 -> Bits]
        /\ m[2 * (k - 1) + 1] = Binary(index, 2)[1]
        /\ m[2 * (k - 1) + 2] = Binary(index, 2)[2]
        /\ \A j \in 1 .. 3 : aux[3 * (k - 1) + j] = a[j]
    BY <2>1 DEF Indexed
  <2> HIDE DEF a, index, m, aux
  <2>3. /\ m[2 * k0 + 1] = Binary(index, 2)[1] /\ m[2 * k0 + 2] = Binary(index, 2)[2]
        /\ \A j \in 1 .. 3 : aux[3 * k0 + j] = a[j]
    BY <1>9, <2>2
  <2> QED BY <1>6, <2>2, <2>3 DEF m, aux
<1> HIDE DEF a
<1>11. CommittedAux(k0) = a
  <2>1. ASSUME NEW j \in 1 .. 3
        PROVE  Bit(message, StringLen(circuit, input_gates) + 3 * k0 + j - 1) = a[j]
    <3>1. 3 * k0 + j \in 1 .. 3 * AllAnds(circuit) /\ (n + 3 * k0 + j - 1) + 1 = n + (3 * k0 + j)
      BY <1>5, <1>9
    <3>2. Bit(message, n + 3 * k0 + j - 1) = message[n + (3 * k0 + j)]
      BY <3>1 DEF Bit
    <3> QED BY <1>1, <1>8, <1>10, <3>1, <3>2 DEF n
  <2> QED BY <1>10, <2>1 DEF CommittedAux
<1>12. Ones(a) # 2
  <2>1. PICK i \in 1 .. Len(circuit) : AndGate(circuit, k) = circuit[i] /\ circuit[i].type = "and"
    BY <1>1, <1>9, AndGateIs
  <2> DEFINE g == circuit[i]
  <2>2. ASSUME NEW x \in 0 .. Size(circuit) - 1
        PROVE  Bit(string, x) = v[Len(circuit)][x] /\ v[Len(circuit)][x] \in Bits
    <3>1. x + 1 \in 1 .. Size(circuit) /\ (x + 1) - 1 = x
      BY <1>5
    <3>2. Len(circuit) \in 0 .. Len(circuit)
      BY <1>5
    <3> QED BY <1>4, <3>1, <3>2 DEF Bit, Visits
  <2>3. /\ g.dst \in 0 .. Size(circuit) - 1 /\ g.op1 \in 0 .. Size(circuit) - 1
        /\ g.op2 \in 0 .. Size(circuit) - 1
    BY <1>1, AddressesOf
  <2>4. v[Len(circuit)][g.dst] = v[Len(circuit)][g.op1] * v[Len(circuit)][g.op2]
    BY <1>1, <1>4, <2>1, SingleIs, GateInString
  <2>5. rs[k] \in 0 .. 5
    <3>1. rs[k] \in Randoms
      BY <1>9
    <3> QED BY <3>1, Rtz14Assumption, Zenon
  <2> HIDE DEF g
  <2>6. /\ Bit(string, g.dst) \in Bits /\ Bit(string, g.op1) \in Bits
        /\ Bit(string, g.op2) \in Bits
        /\ Bit(string, g.dst) = Bit(string, g.op1) * Bit(string, g.op2)
    BY <2>2, <2>3, <2>4
  <2>7. Ones(AuxOf(string, g, rs[k])) # 2
    BY <2>5, <2>6, AuxOnes
  <2> QED BY <1>10, <2>1, <2>7 DEF g
<1>13. /\ index \in 0 .. 2
       /\ Permuted(majs[index + 1], a)[1] = Permuted(majs[index + 1], a)[2]
  BY <1>10, <1>12, PairInFront
<1> HIDE DEF index
<1>14. Bit(gpam_res.majority, 2 * k0) + 2 * Bit(gpam_res.majority, 2 * k0 + 1) = index
  <2>1. /\ Bit(gpam_res.majority, 2 * k0) = gpam_res.majority[2 * k0 + 1]
        /\ Bit(gpam_res.majority, 2 * k0 + 1) = gpam_res.majority[2 * k0 + 2]
    <3>1. (2 * k0 + 1) + 1 = 2 * k0 + 2
      BY <1>9
    <3> QED BY <3>1 DEF Bit
  <2> QED BY <1>10, <1>13, <2>1, IndexBits
<1> QED BY <1>11, <1>13, <1>14

(* The majority index brings two equal bits of the three to the front.     *)
THEOREM MajorityCorrect == Spec => []MajorityInFront
BY FrontIsMajority, ProtocolInStep, PTL
-----------------------------------------------------------------------------
(* Circuits without AND gates.                                             *)

LEMMA AllXors ==
  ASSUME NEW c, Provable(c), AllAnds(c) = 0, NEW i \in 1 .. Len(c)
  PROVE  c[i].type = "xor"
<1>1. c \in Seq(Gate)
  BY DEF Provable
<1>2. c[i].type = "and" \/ c[i].type = "xor"
  BY <1>1, GateParts
<1>3. c[i].type # "and"
  <2>1. SUFFICES ASSUME c[i].type = "and" PROVE FALSE
    OBVIOUS
  <2>2. NoAnds(c, i - 1) \in Nat /\ NoAnds(c, i - 1) + 1 <= AllAnds(c)
    BY <1>1, <2>1, AndsBefore
  <2> QED BY <2>2
<1> QED BY <1>2, <1>3

XorTask(g) == Task(<<g.dst, g.op1, g.op2>>, 3, 0)

(* One task for each gate.                                                 *)
LEMMA TasksOfXors ==
  ASSUME NEW c, Provable(c), AllAnds(c) = 0, NEW ch \in Bits, NEW p
  PROVE  ProofTasks(c, InputGates(c), ch, p, address_of_one)
           = [i \in 1 .. Len(c) |-> XorTask(c[i])]
<1> DEFINE T == TaskOn(Span(c))
           n == Len(c)
           f == [i \in 1 .. n |-> XorTask(c[i])]
           s == [i \in 1 .. n |-> GateTasks(c, ch, p, i)]
<1>1. ProofTasks(c, InputGates(c), ch, p, address_of_one) = FlattenSeq(s)
  BY DEF ProofTasks, GateTasks
<1>2. n \in Nat
  BY SizeBounds
<1>3. ASSUME NEW i \in 1 .. n
      PROVE  /\ XorTask(c[i]) \in T /\ GateTasks(c, ch, p, i) = <<XorTask(c[i])>>
  <2>1. c[i].type = "xor"
    BY AllXors
  <2>2. GateTasks(c, ch, p, i) = <<XorTask(c[i])>>
    BY <2>1 DEF GateTasks, XorTasks, XorTask
  <2>3. /\ c[i].dst \in 0 .. Size(c) - 1 /\ c[i].op1 \in 0 .. Size(c) - 1
        /\ c[i].op2 \in 0 .. Size(c) - 1
    BY AddressesOf
  <2>4. Size(c) \in Nat /\ Span(c) \in Nat /\ Size(c) <= Span(c)
    BY SizeBounds
  <2>5. /\ c[i].dst \in 0 .. Span(c) - 1 /\ c[i].op1 \in 0 .. Span(c) - 1
        /\ c[i].op2 \in 0 .. Span(c) - 1
    BY <2>3, <2>4
  <2>6. 3 \in 1 .. 3 /\ 0 \in Bits
    BY DEF Bits
  <2> QED BY <2>2, <2>4, <2>5, <2>6, TaskIs DEF XorTask
<1> HIDE DEF T, n
<1>4. f \in [1 .. n -> T]
  BY <1>3
<1>5. f \in Seq(T) /\ Len(f) = n
  BY <1>2, <1>4, FunctionIsSeq
<1>6. ASSUME NEW i \in 1 .. n PROVE s[i] = <<f[i]>> /\ s[i] \in Seq(T)
  <2>1. s[i] = <<XorTask(c[i])>> /\ f[i] = XorTask(c[i]) /\ XorTask(c[i]) \in T
    BY <1>3
  <2> HIDE DEF s, f
  <2> QED BY <2>1
<1>7. s \in [1 .. n -> Seq(T)]
  BY <1>6
<1>8. s \in Seq(Seq(T)) /\ Len(s) = n
  BY <1>2, <1>7, FunctionIsSeq
<1> HIDE DEF f, s
<1>9. FlattenSeq(s) = f
  BY <1>5, <1>6, <1>8, FlattenSingles
<1> QED BY <1>1, <1>9 DEF f, n

(* The task of a gate holds when the string satisfies the gate.            *)
LEMMA XorTaskHolds ==
  ASSUME NEW n \in Nat, NEW m, \A i \in 1 .. n : m[i] \in Bits, NEW g,
         g.dst \in 0 .. n - 1, g.op1 \in 0 .. n - 1, g.op2 \in 0 .. n - 1,
         Bit(m, g.dst) = (Bit(m, g.op1) + Bit(m, g.op2)) % 2
  PROVE  Holds(m, XorTask(g))
<1> DEFINE t == XorTask(g)
<1>1. t.indicies = <<g.dst, g.op1, g.op2>> /\ t.lind = 3 /\ t.value = 0
  BY DEF XorTask, Task
<1>2. \A a \in 0 .. n - 1 : Bit(m, a) \in Bits
  <2>1. \A a \in 0 .. n - 1 : a + 1 \in 1 .. n
    OBVIOUS
  <2> QED BY <2>1 DEF Bit
<1>3. /\ Term(m, t, 1) = Bit(m, g.dst) /\ Term(m, t, 2) = Bit(m, g.op1)
      /\ Term(m, t, 3) = Bit(m, g.op2)
  BY <1>1 DEF Term
<1> HIDE DEF t
<1>4. ASSUME NEW x \in Bits, NEW y \in Bits, NEW z \in Bits, x = (y + z) % 2
      PROVE  Xor2(Xor2(x, y), z) = 0
  <2>1. y = 0 \/ y = 1
    BY DEF Bits
  <2>2. z = 0 \/ z = 1
    BY DEF Bits
  <2> QED BY <1>4, <2>1, <2>2 DEF Xor2
<1>5. TaskXor(m, t) = 0
  BY <1>2, <1>3, <1>4, TaskXorIs
<1> QED BY <1>1, <1>5 DEF Holds, t

(* The output check holds when the output bit is its value.                *)
LEMMA CheckHolds ==
  ASSUME NEW m, Bit(m, OutBit) \in Bits
  PROVE  Holds(m, CheckOut(0)) <=> Bit(m, OutBit) = 1
<1> DEFINE t == CheckOut(0)
<1>1. t.indicies = <<OutBit, address_of_one, address_of_one>> /\ t.lind = 1 /\ t.value = 1
  BY DEF CheckOut, CheckOutBit, Task
<1>2. Term(m, t, 1) = Bit(m, OutBit) /\ Term(m, t, 2) = 0 /\ Term(m, t, 3) = 0
  BY <1>1 DEF Term
<1> HIDE DEF t
<1>3. ASSUME NEW x \in Bits PROVE Xor2(Xor2(x, 0), 0) = x
  <2>1. x = 0 \/ x = 1
    BY DEF Bits
  <2> QED BY <2>1 DEF Xor2
<1>4. TaskXor(m, t) = Bit(m, OutBit)
  BY <1>2, <1>3, TaskXorIs
<1> QED BY <1>1, <1>4 DEF Holds, t

LEMMA XorsDecided ==
  ASSUME ProtocolInv
  PROVE  XorExact
<1> SUFFICES ASSUME vat = "done", Aligned, SingleAssignment, AllAnds(circuit) = 0
             PROVE  v_accept <=> e = 0 \/ b = 1 \/ OutputIsOne
  BY DEF XorExact
<1>1. /\ GivenOK /\ Refusals /\ MessageMade /\ SameTasks /\ Stages /\ VerdictIsRelations
      /\ Provable(circuit) /\ input_gates = InputGates(circuit)
      /\ b \in Bits /\ (b = 0 \/ b = 1)
  BY DEF ProtocolInv, GivenOK, SameTasks, Bits
<1>2. Prepared /\ pat \notin {"start", "bad_circuit"}
  BY <1>1 DEF Stages, At, Prepared
<1>3. /\ message \in Seq(Bits) /\ Len(message) = Span(circuit)
      /\ CheckOut(b) \in TaskOn(Span(circuit))
  BY <1>1, <1>2, Honest
<1>4. v_accept <=> (e = 0 \/ \A i \in 1 .. Len(v_tasks) : Holds(message, v_tasks[i]))
  BY <1>1 DEF VerdictIsRelations
<1>5. v_tasks = IF b = 0 THEN Append(Derived, CheckOut(b)) ELSE Derived
  BY <1>1 DEF SameTasks
<1> DEFINE n == Len(circuit)
<1>6. Derived = [i \in 1 .. n |-> XorTask(circuit[i])]
  BY <1>1, TasksOfXors DEF Derived, Tasks
<1>7. n \in Nat /\ Span(circuit) \in Nat /\ Size(circuit) \in Nat /\ Size(circuit) <= Span(circuit)
  BY <1>1, SizeBounds
<1>8. ASSUME NEW i \in 1 .. n PROVE Holds(message, XorTask(circuit[i]))
  <2> DEFINE g == circuit[i]
  <2>1. g.dst \in 0 .. Size(circuit) - 1 /\ g.op1 \in 0 .. Size(circuit) - 1 /\ g.op2 \in 0 .. Size(circuit) - 1
    BY <1>1, AddressesOf
  <2>2. DOMAIN circuit = 1 .. n
    BY <1>1 DEF Provable
  <2>3. GateHolds(g)
    BY <1>2, <2>2, StringSatisfies DEF EvaluationSatisfiesGates
  <2>4. g.type = "xor"
    BY <1>1, AllXors
  <2> HIDE DEF g
  <2>5. Bit(message, g.dst) = (Bit(message, g.op1) + Bit(message, g.op2)) % 2
    BY <2>3, <2>4 DEF GateHolds
  <2>6. \A j \in 1 .. Span(circuit) : message[j] \in Bits
    BY <1>3
  <2>7. g.dst \in 0 .. Span(circuit) - 1 /\ g.op1 \in 0 .. Span(circuit) - 1 /\ g.op2 \in 0 .. Span(circuit) - 1
    BY <1>7, <2>1
  <2>8. Holds(message, XorTask(g))
    BY <1>7, <2>5, <2>6, <2>7, XorTaskHolds
  <2> QED BY <2>8 DEF g
<1>9. Derived \in Seq(TaskOn(Span(circuit))) /\ Len(Derived) = n
  <2>1. Derived \in Seq(TaskOn(Span(circuit)))
    BY <1>1, <1>2, Honest
  <2>2. DOMAIN Derived = 1 .. n
    BY <1>6
  <2> HIDE DEF n
  <2> QED BY <1>7, <2>1, <2>2
<1>10. \A i \in 1 .. n : Holds(message, Derived[i])
  BY <1>6, <1>8
<1> HIDE DEF n
<1>11. CASE b = 1
  BY <1>4, <1>5, <1>9, <1>10, <1>11
<1>12. CASE b = 0
  <2>1. v_tasks = Append(Derived, CheckOut(0)) /\ CheckOut(0) \in TaskOn(Span(circuit))
    BY <1>3, <1>5, <1>12
  <2>2. /\ Len(v_tasks) = n + 1 /\ v_tasks[n + 1] = CheckOut(0)
        /\ \A i \in 1 .. n : v_tasks[i] = Derived[i]
    BY <1>7, <1>9, <2>1
  <2>3. Bit(message, OutBit) \in Bits
    <3>1. CheckOut(0).indicies[1] = OutBit
      BY DEF CheckOut, CheckOutBit, Task
    <3>2. 1 \in 1 .. 3
      OBVIOUS
    <3>3. OutBit \in 0 .. Span(circuit) - 1
      BY <1>7, <2>1, <3>1, <3>2, TermBits
    <3>4. OutBit + 1 \in 1 .. Span(circuit)
      BY <1>7, <3>3
    <3> QED BY <1>3, <3>4 DEF Bit
  <2>4. Holds(message, CheckOut(0)) <=> OutputIsOne
    BY <2>3, CheckHolds DEF OutputIsOne
  <2>5. (\A i \in 1 .. n + 1 : Holds(message, v_tasks[i])) <=> OutputIsOne
    <3>1. \A i \in 1 .. n + 1 : i \in 1 .. n \/ i = n + 1
      BY <1>7
    <3>2. n + 1 \in 1 .. n + 1
      BY <1>7
    <3> QED BY <1>10, <2>2, <2>4, <3>1, <3>2
  <2> QED BY <1>4, <1>12, <2>2, <2>5
<1> QED BY <1>1, <1>11, <1>12

(* Without AND gates a proof is rejected only when the output bit, checked *)
(* under b = 0 and challenge one, is not one.                              *)
THEOREM XorsExact == Spec => []XorExact
BY XorsDecided, ProtocolInStep, PTL
=============================================================================
