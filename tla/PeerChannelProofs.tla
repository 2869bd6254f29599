-------------------------- MODULE PeerChannelProofs --------------------------
(***************************************************************************)
(* What the two connected peers of PeerChannel guarantee, for all          *)
(* messages, capacities and connections.                                   *)
(***************************************************************************)
EXTENDS PeerChannel, SequenceLemmas

LEMMA OtherSide ==
  ASSUME NEW s \in Sides
  PROVE  /\ Other(s) \in Sides /\ Other(s) # s /\ Other(Other(s)) = s
         /\ \A t \in Sides : t = s \/ t = Other(s)
<1>1. PICK a, b \in Sides : a # b /\ Sides = {a, b}
  BY ChannelAssumption
<1>2. \A t \in Sides : \E o \in Sides : o # t
  BY <1>1
<1>3. \A t \in Sides : Other(t) \in Sides /\ Other(t) # t
  BY <1>2 DEF Other
<1> QED BY <1>1, <1>3

(* Min, of module FiniteSetsExt, for two numbers.                          *)
LEMMA MinOfTwo ==
  ASSUME NEW a \in Int, NEW b \in Int
  PROVE  Min({a, b}) = IF a <= b THEN a ELSE b
<1>1. \E x \in {a, b} : \A y \in {a, b} : x <= y
  OBVIOUS
<1>2. Min({a, b}) \in {a, b} /\ \A y \in {a, b} : Min({a, b}) <= y
  BY <1>1 DEF Min
<1> QED BY <1>2

(* The length of a message survives its four bytes.                        *)
LEMMA LengthReadsBack ==
  ASSUME NEW m \in Message
  PROVE  /\ m \in Seq(Byte) /\ Len(m) \in Nat
         /\ I2B(Len(m)) \in Seq(Byte) /\ Len(I2B(Len(m))) = 4
         /\ B2I(I2B(Len(m))) = Len(m)
<1> DEFINE n == Len(m)
           a == n \div 16777216
           b == n \div 65536
           c == n \div 256
           w == a % 256
           x == b % 256
           y == c % 256
           z == n % 256
<1>1. m \in Seq(Byte) /\ n \in Nat /\ a < 256
  BY SMT DEF Message
<1> HIDE DEF n
<1>2. a \in Nat /\ b \in Nat /\ c \in Nat
  BY <1>1, SMT
<1>3. w = a
  BY <1>1, <1>2, SMT
<1>4. n = 256 * c + z /\ c = 256 * b + y /\ b = 256 * a + x
  BY <1>1, SMT
<1>5. w \in Byte /\ x \in Byte /\ y \in Byte /\ z \in Byte
  BY <1>1, SMT DEF Byte
<1>6. I2B(n) = <<w, x, y, z>>
  BY SMT DEF I2B
<1> HIDE DEF a, b, c, w, x, y, z
<1>7. B2I(I2B(n)) = w * 16777216 + x * 65536 + y * 256 + z
  BY <1>5, <1>6, SMT DEF B2I, Byte
<1>8. B2I(I2B(n)) = n
  BY <1>1, <1>2, <1>3, <1>4, <1>5, <1>7, SMT DEF Byte
<1>9. I2B(n) \in Seq(Byte) /\ Len(I2B(n)) = 4
  BY <1>5, <1>6
<1> QED BY <1>1, <1>8, <1>9 DEF n
-----------------------------------------------------------------------------
(* The stream of bytes that a sequence of messages becomes.                *)
Framed(ms) == [i \in 1 .. Len(ms) |-> Frame(ms[i])]

LEMMA FrameProperties ==
  ASSUME NEW m \in Message
  PROVE  /\ Frame(m) \in Seq(Byte) /\ Len(Frame(m)) = 4 + Len(m)
         /\ \A j \in 1 .. 4 : Frame(m)[j] = I2B(Len(m))[j]
         /\ \A j \in 1 .. Len(m) : Frame(m)[4 + j] = m[j]
<1> DEFINE h == I2B(Len(m))
<1>1. h \in Seq(Byte) /\ Len(h) = 4 /\ m \in Seq(Byte) /\ Len(m) \in Nat
  BY LengthReadsBack
<1>2. Frame(m) = h \o m
  BY DEF Frame
<1>3. /\ h \o m \in Seq(Byte) /\ Len(h \o m) = 4 + Len(m)
      /\ \A i \in 1 .. 4 + Len(m) :
           (h \o m)[i] = IF i <= 4 THEN h[i] ELSE m[i - 4]
  <2>1. /\ h \o m \in Seq(Byte) /\ Len(h \o m) = Len(h) + Len(m)
        /\ \A i \in 1 .. Len(h) + Len(m) :
             (h \o m)[i] = IF i <= Len(h) THEN h[i] ELSE m[i - Len(h)]
    BY <1>1, ConcatProperties
  <2> HIDE DEF h
  <2> QED BY <1>1, <2>1
<1> HIDE DEF h
<1>4. \A j \in 1 .. 4 : Frame(m)[j] = h[j]
  BY <1>1, <1>2, <1>3
<1>5. ASSUME NEW j \in 1 .. Len(m) PROVE Frame(m)[4 + j] = m[j]
  <2>1. 4 + j \in 1 .. 4 + Len(m) /\ ~ (4 + j <= 4) /\ (4 + j) - 4 = j
    BY <1>1
  <2> QED BY <1>2, <1>3, <2>1
<1> QED BY <1>2, <1>3, <1>4, <1>5 DEF h

LEMMA FramedProperties ==
  ASSUME NEW ms \in Seq(Message)
  PROVE  /\ Framed(ms) \in Seq(Seq(Byte)) /\ Len(Framed(ms)) = Len(ms)
         /\ \A i \in 1 .. Len(ms) : Framed(ms)[i] = Frame(ms[i])
         /\ Frames(ms) = FlattenSeq(Framed(ms))
         /\ Frames(ms) \in Seq(Byte)
<1>1. \A i \in 1 .. Len(ms) : Frame(ms[i]) \in Seq(Byte)
  BY FrameProperties
<1>2. /\ Framed(ms) \in Seq(Seq(Byte)) /\ Len(Framed(ms)) = Len(ms)
      /\ \A i \in 1 .. Len(ms) : Framed(ms)[i] = Frame(ms[i])
  <2>1. Len(ms) \in Nat
    OBVIOUS
  <2>2. Framed(ms) \in [1 .. Len(ms) -> Seq(Byte)]
    BY <1>1 DEF Framed
  <2>3. \A i \in 1 .. Len(ms) : Framed(ms)[i] = Frame(ms[i])
    BY DEF Framed
  <2> QED BY <2>1, <2>2, <2>3
<1>3. Frames(ms) = FlattenSeq(Framed(ms))
  BY DEF Frames, Framed
<1> QED BY <1>2, <1>3, FlattenType

LEMMA FramesEmpty == Frames(<<>>) = <<>>
<1>1. Framed(<<>>) = <<>>
  BY DEF Framed
<1>2. <<>> \in Seq(Message)
  OBVIOUS
<1> QED BY <1>1, <1>2, FramedProperties, FlattenEmpty

LEMMA FramesAppend ==
  ASSUME NEW ms \in Seq(Message), NEW m \in Message
  PROVE  Frames(Append(ms, m)) = Frames(ms) \o Frame(m)
<1>1. Append(ms, m) \in Seq(Message)
  OBVIOUS
<1>2. Framed(Append(ms, m)) = Append(Framed(ms), Frame(m))
  BY FramedProperties DEF Framed
<1>3. Framed(ms) \in Seq(Seq(Byte)) /\ Frame(m) \in Seq(Byte)
  BY FramedProperties, FrameProperties
<1>4. FlattenSeq(Append(Framed(ms), Frame(m))) = FlattenSeq(Framed(ms)) \o Frame(m)
  BY <1>3, FlattenAppend
<1> QED BY <1>1, <1>2, <1>4, FramedProperties

LEMMA FramesHeadTail ==
  ASSUME NEW ms \in Seq(Message), ms # <<>>
  PROVE  Frames(ms) = Frame(Head(ms)) \o Frames(Tail(ms))
<1>1. Head(ms) \in Message /\ Tail(ms) \in Seq(Message)
  OBVIOUS
<1>2. Framed(ms) # <<>> /\ Head(Framed(ms)) = Frame(Head(ms))
  BY FramedProperties DEF Framed
<1>3. Tail(Framed(ms)) = Framed(Tail(ms))
  BY FramedProperties DEF Framed
<1> QED BY <1>1, <1>2, <1>3, FramedProperties, FlattenHeadTail

(* The k-th message lies, framed, behind the frames of the ones before it. *)
LEMMA FrameInStream ==
  ASSUME NEW ms \in Seq(Message), NEW k \in 0 .. Len(ms) - 1
  PROVE  LET before == Len(Frames(SubSeq(ms, 1, k)))
             m == ms[k + 1]
         IN  /\ before \in Nat
             /\ Len(Frames(SubSeq(ms, 1, k + 1))) = before + 4 + Len(m)
             /\ before + 4 + Len(m) <= Len(Frames(ms))
             /\ \A j \in 1 .. 4 + Len(m) : Frames(ms)[before + j] = Frame(m)[j]
<1> DEFINE first == SubSeq(ms, 1, k)
           next == SubSeq(ms, 1, k + 1)
           rest == SubSeq(ms, k + 2, Len(ms))
           m == ms[k + 1]
           a == Frames(first)
           f == Frame(m)
           b == FlattenSeq(SubSeq(Framed(ms), k + 2, Len(ms)))
<1>1. first \in Seq(Message) /\ next \in Seq(Message) /\ m \in Message
  OBVIOUS
<1>2. next = Append(first, m)
  OBVIOUS
<1>3. Frames(next) = a \o f
  BY <1>1, <1>2, FramesAppend
<1>4. Frames(ms) = (a \o f) \o b
  <2>1. SubSeq(Framed(ms), 1, k + 1) = Framed(next)
    BY FramedProperties DEF Framed
  <2>2. k + 1 \in 0 .. Len(Framed(ms)) /\ Len(Framed(ms)) = Len(ms)
    BY FramedProperties
  <2>3. FlattenSeq(Framed(ms)) = FlattenSeq(SubSeq(Framed(ms), 1, k + 1)) \o b
    <3>1. (k + 1) + 1 = k + 2
      OBVIOUS
    <3> QED BY <2>2, <3>1, FramedProperties, FlattenCut
  <2> QED BY <1>1, <1>3, <2>1, <2>3, FramedProperties
<1>5. a \in Seq(Byte) /\ f \in Seq(Byte) /\ b \in Seq(Byte)
  <2>1. SubSeq(Framed(ms), k + 2, Len(ms)) \in Seq(Seq(Byte))
    BY FramedProperties
  <2> QED BY <1>1, <2>1, FramedProperties, FrameProperties, FlattenType
<1>6. Len(f) = 4 + Len(m) /\ Len(m) \in Nat
  BY <1>1, FrameProperties, LengthReadsBack
<1> HIDE DEF a, f, b, m, first, next
<1>7. a \o f \in Seq(Byte) /\ Len(a \o f) = Len(a) + Len(f)
  BY <1>5, ConcatProperties
<1>8. Len(Frames(ms)) = Len(a) + Len(f) + Len(b)
  BY <1>4, <1>5, <1>7, ConcatProperties
<1>9. ASSUME NEW j \in 1 .. Len(f) PROVE Frames(ms)[Len(a) + j] = f[j]
  <2>1. (a \o f)[Len(a) + j] = f[j]
    BY <1>5
  <2>2. ((a \o f) \o b)[Len(a) + j] = (a \o f)[Len(a) + j]
    BY <1>5, <1>7
  <2> QED BY <1>4, <2>1, <2>2
<1>10. Len(a) \in Nat /\ Len(b) \in Nat
  BY <1>5
<1>11. /\ Len(a) \in Nat /\ Len(Frames(next)) = Len(a) + 4 + Len(m)
       /\ Len(a) + 4 + Len(m) <= Len(Frames(ms))
       /\ \A j \in 1 .. 4 + Len(m) : Frames(ms)[Len(a) + j] = f[j]
  BY <1>3, <1>6, <1>7, <1>8, <1>9, <1>10
<1> QED BY <1>11 DEF a, f, m, first, next

LEMMA MessagesAreBytes ==
  ASSUME NEW ms \in Seq(Message)
  PROVE  ms \in Seq(Seq(Byte)) /\ Bytes(ms) \in Seq(Byte)
<1>1. Message \subseteq Seq(Byte)
  BY DEF Message
<1>2. ms \in Seq(Seq(Byte))
  BY <1>1, SeqMonotonic
<1> QED BY <1>2, FlattenType DEF Bytes
-----------------------------------------------------------------------------
(* The inductive invariant.                                                *)

TypeOK ==
  /\ traffic \in Traffics
  /\ usr \in [Sides -> {"idle", "receive", "put_die", "join_sender",
                        "join_receiver", "closed"}]
  /\ snd \in [Sides -> {"get", "write", "done"}]
  /\ rcv \in [Sides -> {"header", "body", "done"}]
  /\ die \in [Sides -> BOOLEAN]
  /\ outgoing \in [Sides -> Seq(Message \cup {DiePackage})]
  /\ sent \in [Sides -> Seq(Message)]
  /\ incoming \in [Sides -> Seq(Seq(Byte))]
  /\ unwritten \in [Sides -> Seq(Byte)]
  /\ wire \in [Sides -> Seq(Byte)]
  /\ buf \in [Sides -> Seq(Byte)]
  /\ drem \in [Sides -> Seq(Byte)]
  /\ got \in [Sides -> Seq(Byte)]
  /\ delivered \in [Sides -> Seq(Byte)]
  /\ taken \in [Sides -> Nat]
  /\ need \in [Sides -> Nat]
  /\ ask \in [Sides -> Nat]
  /\ cut \in [Sides -> BOOLEAN]

(* The order in which the threads of a side come to their ends.            *)
Stages(s) ==
  /\ snd[s] = "done" => usr[s] \in {"join_sender", "join_receiver", "closed"}
  /\ usr[s] \in {"join_receiver", "closed"} => snd[s] = "done"
  /\ usr[s] = "closed" => rcv[s] = "done"
  /\ snd[s] # "write" => unwritten[s] = <<>>
  /\ usr[s] # "receive" => got[s] = <<>>

(* The die package is the last item of outgoing, once it is put and until  *)
(* the sender has seen it.                                                 *)
DieQueued(s) == /\ usr[s] \in {"join_sender", "join_receiver", "closed"}
                /\ snd[s] # "done"

(* What was sent is on the wire, in the sender's hands or in outgoing, in  *)
(* this order, until the other side has closed.                            *)
StreamOut(s) ==
  /\ \E q \in Seq(Message) :
       /\ outgoing[s] = IF DieQueued(s) THEN Append(q, DiePackage) ELSE q
       /\ snd[s] = "done" => q = <<>>
       /\ ~Closed(Other(s)) =>
            (wire[s] \o unwritten[s]) \o Frames(q) = Frames(sent[s])
  /\ \E r \in Seq(Byte) : wire[s] \o r = Frames(sent[s])

(* The receiver has taken k messages off the wire and is at a length, or   *)
(* in the body of the next one.                                            *)
InAt(s, ms, k) ==
  /\ ((delivered[s] \o got[s]) \o drem[s]) \o Bytes(incoming[s])
       = Bytes(SubSeq(ms, 1, k))
  /\ rcv[s] = "header" => taken[s] = Len(Frames(SubSeq(ms, 1, k)))
  /\ rcv[s] = "body" =>
       /\ k < Len(ms)
       /\ need[s] = Len(ms[k + 1])
       /\ Len(buf[s]) <= need[s]
       /\ \A j \in 1 .. Len(buf[s]) : buf[s][j] = ms[k + 1][j]
       /\ taken[s] = Len(Frames(SubSeq(ms, 1, k))) + 4 + Len(buf[s])

StreamIn(s) ==
  /\ taken[s] <= Len(wire[Other(s)])
  /\ ~cut[s] => \E k \in 0 .. Len(sent[Other(s)]) : InAt(s, sent[Other(s)], k)

PeerInv == /\ TypeOK
           /\ \A s \in Sides : Stages(s) /\ StreamOut(s) /\ StreamIn(s)
-----------------------------------------------------------------------------
LEMMA InitInv == Init => PeerInv
<1> SUFFICES ASSUME Init PROVE PeerInv
  OBVIOUS
<1>1. TypeOK
  BY DEF Init, TypeOK
<1>2. ASSUME NEW s \in Sides PROVE Stages(s)
  BY DEF Init, Stages
<1>3. ASSUME NEW s \in Sides PROVE StreamOut(s)
  <2>1. <<>> \in Seq(Message) /\ <<>> \in Seq(Byte)
    OBVIOUS
  <2>2. outgoing[s] = <<>> /\ ~DieQueued(s) /\ wire[s] = <<>> /\ unwritten[s] = <<>>
        /\ sent[s] = <<>>
    BY DEF Init, DieQueued
  <2>3. (<<>> \o <<>>) \o Frames(<<>>) = Frames(<<>>)
    BY <2>1, FramesEmpty, ConcatEmptySeq
  <2>4. <<>> \o <<>> = Frames(<<>>)
    BY <2>1, FramesEmpty, ConcatEmptySeq
  <2> QED BY <2>1, <2>2, <2>3, <2>4 DEF StreamOut
<1>4. ASSUME NEW s \in Sides PROVE StreamIn(s)
  <2>1. Other(s) \in Sides
    BY OtherSide
  <2>2. /\ taken[s] = 0 /\ wire[Other(s)] = <<>> /\ sent[Other(s)] = <<>>
        /\ delivered[s] = <<>> /\ got[s] = <<>> /\ drem[s] = <<>>
        /\ incoming[s] = <<>> /\ rcv[s] = "header"
    BY <2>1 DEF Init
  <2>3. SubSeq(<<>>, 1, 0) = <<>>
    OBVIOUS
  <2>4. ((<<>> \o <<>>) \o <<>>) \o Bytes(<<>>) = Bytes(<<>>)
    <3>1. <<>> \in Seq(Byte)
      OBVIOUS
    <3> QED BY <3>1, FlattenEmpty, ConcatEmptySeq DEF Bytes
  <2>5. Len(Frames(<<>>)) = 0
    BY FramesEmpty
  <2>6. InAt(s, <<>>, 0)
    BY <2>2, <2>3, <2>4, <2>5 DEF InAt
  <2> QED BY <2>2, <2>6 DEF StreamIn
<1> QED BY <1>1, <1>2, <1>3, <1>4 DEF PeerInv
-----------------------------------------------------------------------------
LEMMA BytesAssociate ==
  \A a, b, c \in Seq(Byte) : (a \o b) \o c = a \o (b \o c)
BY ConcatAssociative

(* What one turn of receive's loop does with its chunk.                    *)
LEMMA ConsumeKeeps ==
  ASSUME TypeOK, NEW s \in Sides, NEW chunk \in Seq(Byte), Consume(s, chunk)
  PROVE  /\ \/ usr' = [usr EXCEPT ![s] = "idle"] /\ got'[s] = <<>>
            \/ usr' = usr
         /\ usr' \in [Sides -> {"idle", "receive", "put_die", "join_sender",
                                "join_receiver", "closed"}]
         /\ drem' \in [Sides -> Seq(Byte)] /\ got' \in [Sides -> Seq(Byte)]
         /\ delivered' \in [Sides -> Seq(Byte)] /\ ask' \in [Sides -> Nat]
         /\ (delivered'[s] \o got'[s]) \o drem'[s]
              = (delivered[s] \o got[s]) \o chunk
         /\ \A t \in Sides : t # s =>
              /\ delivered'[t] = delivered[t] /\ got'[t] = got[t]
              /\ drem'[t] = drem[t] /\ usr'[t] = usr[t] /\ ask'[t] = ask[t]
<1> DEFINE remaining == ask[s] - Len(got[s])
           part == IF Len(chunk) <= remaining THEN chunk
                                              ELSE SubSeq(chunk, 1, remaining)
           rest == SubSeq(chunk, Len(part) + 1, Len(chunk))
           all == got[s] \o part
<1>1. /\ delivered[s] \in Seq(Byte) /\ got[s] \in Seq(Byte)
      /\ remaining \in Int /\ Len(chunk) \in Nat
  BY DEF TypeOK
<1>2. part \in Seq(Byte) /\ rest \in Seq(Byte) /\ chunk = part \o rest
  <2>1. CASE Len(chunk) <= remaining
    <3>1. part = chunk
      BY <2>1
    <3>2. rest = <<>>
      <4>1. rest = SubSeq(chunk, Len(chunk) + 1, Len(chunk))
        BY <3>1
      <4> QED BY <1>1, <4>1, SubSeqEmpty
    <3> HIDE DEF part, rest
    <3> QED BY <3>1, <3>2
  <2>2. CASE ~ (Len(chunk) <= remaining) /\ remaining >= 0
    <3>1. part = SubSeq(chunk, 1, remaining) /\ remaining \in 0 .. Len(chunk)
      BY <1>1, <2>2
    <3> HIDE DEF remaining, part
    <3>2. part \in Seq(Byte) /\ Len(part) = remaining
      BY <3>1, CutInTwo
    <3>3. rest = SubSeq(chunk, remaining + 1, Len(chunk))
      BY <3>2
    <3> HIDE DEF rest
    <3> QED BY <3>1, <3>2, <3>3, CutInTwo
  <2>3. CASE ~ (Len(chunk) <= remaining) /\ remaining < 0
    <3>1. part = SubSeq(chunk, 1, remaining) /\ remaining < 1 /\ remaining \in Int
      BY <1>1, <2>3
    <3>2. part = <<>>
      BY <3>1, SubSeqEmpty
    <3>3. rest = SubSeq(chunk, 1, Len(chunk))
      <4> HIDE DEF part
      <4> QED BY <3>2
    <3> HIDE DEF part, rest
    <3>4. rest = chunk
      BY <3>3, SubSeqFull
    <3> QED BY <3>2, <3>4
  <2> HIDE DEF part, rest, remaining
  <2> QED BY <1>1, <2>1, <2>2, <2>3
<1> HIDE DEF part, rest
<1>3. all \in Seq(Byte)
  BY <1>1, <1>2
<1>4. /\ drem' = [drem EXCEPT ![s] = rest]
      /\ \/ /\ usr' = [usr EXCEPT ![s] = "idle"]
            /\ got' = [got EXCEPT ![s] = <<>>]
            /\ ask' = [ask EXCEPT ![s] = 0]
            /\ delivered' = [delivered EXCEPT ![s] = @ \o all]
         \/ /\ got' = [got EXCEPT ![s] = all]
            /\ UNCHANGED <<usr, ask, delivered>>
  BY DEF Consume, part, rest
<1>5. (delivered[s] \o all) \o rest = (delivered[s] \o got[s]) \o chunk
  <2>1. delivered[s] \o (got[s] \o part) = (delivered[s] \o got[s]) \o part
    <3>1. delivered[s] \in Seq(Byte) /\ got[s] \in Seq(Byte) /\ part \in Seq(Byte)
      BY <1>1, <1>2
    <3> QED BY <3>1, BytesAssociate, ZenonT(30)
  <2>2. delivered[s] \o got[s] \in Seq(Byte)
    BY <1>1
  <2>3. ((delivered[s] \o got[s]) \o part) \o rest
          = (delivered[s] \o got[s]) \o (part \o rest)
    BY <1>2, <2>2, BytesAssociate, ZenonT(30)
  <2> QED BY <1>2, <2>1, <2>3
<1> HIDE DEF all
<1>6. <<>> \in Seq(Byte) /\ delivered[s] \o all \in Seq(Byte)
  BY <1>1, <1>3
<1>7. CASE /\ usr' = [usr EXCEPT ![s] = "idle"]
           /\ got' = [got EXCEPT ![s] = <<>>]
           /\ ask' = [ask EXCEPT ![s] = 0]
           /\ delivered' = [delivered EXCEPT ![s] = @ \o all]
  <2>1. delivered'[s] = delivered[s] \o all /\ got'[s] = <<>> /\ drem'[s] = rest
    BY <1>4, <1>7 DEF TypeOK
  <2>2. (delivered'[s] \o got'[s]) \o drem'[s] = (delivered[s] \o all) \o rest
    BY <1>6, <2>1, ConcatEmptySeq
  <2> QED BY <1>2, <1>4, <1>5, <1>6, <1>7, <2>1, <2>2 DEF TypeOK
<1>8. CASE /\ got' = [got EXCEPT ![s] = all]
           /\ UNCHANGED <<usr, ask, delivered>>
  <2>1. delivered'[s] = delivered[s] /\ got'[s] = all /\ drem'[s] = rest
    BY <1>4, <1>8 DEF TypeOK
  <2>2. (delivered'[s] \o got'[s]) \o drem'[s] = (delivered[s] \o all) \o rest
    BY <2>1
  <2> QED BY <1>2, <1>3, <1>4, <1>5, <1>8, <2>1, <2>2 DEF TypeOK
<1> QED BY <1>4, <1>7, <1>8

(* The next n bytes of the connection.                                     *)
LEMMA ArrivedBytes ==
  ASSUME TypeOK, NEW s \in Sides, NEW n \in Nat, n <= Available(s)
  PROVE  /\ Arrived(s, n) \in Seq(Byte) /\ Len(Arrived(s, n)) = n
         /\ taken[s] + n <= Len(wire[Other(s)])
         /\ \A j \in 1 .. n : Arrived(s, n)[j] = wire[Other(s)][taken[s] + j]
<1>1. /\ Other(s) \in Sides /\ Other(Other(s)) = s
      /\ wire[Other(s)] \in Seq(Byte) /\ taken[s] \in Nat
  BY OtherSide DEF TypeOK
<1>2. taken[s] + n <= Len(wire[Other(s)])
  BY <1>1 DEF Available, Unread
<1> DEFINE w == wire[Other(s)]
           m == taken[s]
<1>3. Arrived(s, n) = SubSeq(w, m + 1, m + n)
  BY DEF Arrived
<1>4. w \in Seq(Byte) /\ m \in Nat /\ m + n <= Len(w)
  BY <1>1, <1>2
<1> HIDE DEF w, m
<1>5. /\ SubSeq(w, m + 1, m + n) \in Seq(Byte)
      /\ Len(SubSeq(w, m + 1, m + n)) = n
      /\ \A j \in 1 .. n : SubSeq(w, m + 1, m + n)[j] = w[m + j]
  BY <1>4, Window
<1>6. /\ Arrived(s, n) \in Seq(Byte) /\ Len(Arrived(s, n)) = n
      /\ \A j \in 1 .. n : Arrived(s, n)[j] = w[m + j]
  BY <1>3, <1>5
<1> QED BY <1>4, <1>6 DEF w, m

(* What a read may take is there, and is wanted.                           *)
LEMMA AtMostAvailable ==
  ASSUME TypeOK, NEW s \in Sides, NEW a \in Int, NEW n \in 1 .. Min({a, Available(s)})
  PROVE  n \in Nat /\ n <= a /\ n <= Available(s)
<1>1. Available(s) \in Int
  <2>1. /\ Other(s) \in Sides /\ Other(Other(s)) = s
        /\ wire[Other(s)] \in Seq(Byte) /\ taken[s] \in Nat
    BY OtherSide DEF TypeOK
  <2> QED BY <2>1 DEF Available, Unread
<1> QED BY <1>1, MinOfTwo

LEMMA BytesAreNumbers == Byte \subseteq Nat
BY DEF Byte

LEMMA LengthIsANumber ==
  ASSUME NEW b \in Seq(Byte), Len(b) = 4
  PROVE  B2I(b) \in Nat
<1>1. \A i \in 1 .. 4 : b[i] \in Byte
  BY ElementOfSeq
<1>2. \A i \in 1 .. 4 : b[i] \in Nat
  BY <1>1, BytesAreNumbers
<1> QED BY <1>2, SMTT(30) DEF B2I

(* What a write does: the first n bytes move to the wire.                  *)
LEMMA WriteMoves ==
  ASSUME TypeOK, NEW s \in Sides, Write(s)
  PROVE  \E a, b \in Seq(Byte) :
           /\ unwritten[s] = a \o b
           /\ wire' = [wire EXCEPT ![s] = @ \o a]
           /\ unwritten' = [unwritten EXCEPT ![s] = b]
           /\ \/ snd' = [snd EXCEPT ![s] = "get"] /\ b = <<>>
              \/ snd' = [snd EXCEPT ![s] = "write"]
<1> DEFINE u == unwritten[s]
           n == Min({Len(u), WireCap - Unread(s)})
           a == SubSeq(u, 1, n)
           b == SubSeq(u, n + 1, Len(u))
<1>1. /\ u \in Seq(Byte) /\ Len(u) \in Nat
      /\ Unread(s) \in Int /\ WireCap \in Nat /\ Unread(s) < WireCap
  <2>1. /\ Other(s) \in Sides /\ taken \in [Sides -> Nat]
        /\ wire \in [Sides -> Seq(Byte)] /\ unwritten \in [Sides -> Seq(Byte)]
    BY OtherSide DEF TypeOK
  <2>2. Len(wire[s]) \in Nat /\ taken[Other(s)] \in Nat /\ u \in Seq(Byte)
    BY <2>1
  <2>3. Unread(s) \in Int
    BY <2>2 DEF Unread
  <2>4. Unread(s) < WireCap
    BY DEF Write
  <2> QED BY <2>2, <2>3, <2>4, ChannelAssumption
<1>2. n \in 0 .. Len(u)
  BY <1>1, MinOfTwo
<1>3. /\ wire' = [wire EXCEPT ![s] = @ \o a]
      /\ unwritten' = [unwritten EXCEPT ![s] = b]
      /\ snd' = [snd EXCEPT ![s] = IF n = Len(u) THEN "get" ELSE "write"]
  BY DEF Write, TypeOK
<1> HIDE DEF n, u
<1>4. a \in Seq(Byte) /\ b \in Seq(Byte) /\ u = a \o b
  BY <1>1, <1>2, CutInTwo
<1>5. n = Len(u) => b = <<>>
  BY <1>1
<1> QED BY <1>3, <1>4, <1>5 DEF u
-----------------------------------------------------------------------------
(* A side's actions, one at a time.                                        *)
SideSteps(s) ==
  \/ \E m \in Message : Send(s, m)
  \/ \E n \in Nat : CallReceive(s, n)
  \/ ReceiveRest(s) \/ ReceiveChunk(s)
  \/ Destroy(s) \/ PutDie(s) \/ JoinSender(s) \/ JoinReceiver(s)
  \/ GetItem(s) \/ Write(s) \/ WriteFails(s)
  \/ SeeDie(s) \/ ReadHeader(s) \/ ReadShortHeader(s)
  \/ HeaderHangup(s) \/ ReadBody(s) \/ BodyHangup(s) \/ PutChunk(s)

LEMMA NextSteps ==
  ASSUME TypeOK, [Next]_<<vars, traffic>>
  PROVE  /\ traffic' = traffic
         /\ (\E t \in Sides : SideSteps(t)) \/ UNCHANGED vars
<1>1. /\ traffic.payloads \subseteq Message /\ traffic.asks \subseteq Nat
  BY ChannelAssumption DEF TypeOK
<1>2. CASE Next
  <2>1. PICK t \in Sides : User(t) \/ Sender(t) \/ Receiver(t)
    BY <1>2 DEF Next
  <2>2. SideSteps(t)
    BY <1>1, <2>1 DEF User, Sender, Receiver, SideSteps
  <2> QED BY <1>2, <2>2 DEF Next
<1>3. CASE UNCHANGED <<vars, traffic>>
  BY <1>3
<1> QED BY <1>2, <1>3

ConsumeTypes ==
  /\ usr' \in [Sides -> {"idle", "receive", "put_die", "join_sender",
                         "join_receiver", "closed"}]
  /\ drem' \in [Sides -> Seq(Byte)] /\ got' \in [Sides -> Seq(Byte)]
  /\ delivered' \in [Sides -> Seq(Byte)] /\ ask' \in [Sides -> Nat]

LEMMA TypeStep ==
  ASSUME TypeOK, NEW s \in Sides, SideSteps(s), traffic' = traffic
  PROVE  TypeOK'
<1> USE DEF userVars, sendVars, recvVars
<1>0. <<>> \in Seq(Byte)
  OBVIOUS
<1>1. ASSUME NEW m \in Message, Send(s, m) PROVE TypeOK'
  <2>1. /\ Append(sent[s], m) \in Seq(Message)
        /\ Append(outgoing[s], m) \in Seq(Message \cup {DiePackage})
    BY DEF TypeOK
  <2> QED BY <1>1, <2>1 DEF Send, TypeOK
<1>2. ASSUME NEW n \in Nat, CallReceive(s, n) PROVE TypeOK'
  BY <1>0, <1>2 DEF CallReceive, TypeOK
<1>3. CASE ReceiveRest(s)
  <2>1. drem[s] \in Seq(Byte) /\ Consume(s, drem[s])
    BY <1>3 DEF ReceiveRest, TypeOK
  <2>2. ConsumeTypes
    BY <2>1, ConsumeKeeps DEF ConsumeTypes
  <2> QED BY <1>3, <2>2 DEF ReceiveRest, TypeOK, ConsumeTypes
<1>4. CASE ReceiveChunk(s)
  <2>1. /\ incoming[s] \in Seq(Seq(Byte)) /\ incoming[s] # <<>>
        /\ Consume(s, Head(incoming[s]))
    BY <1>4 DEF ReceiveChunk, TypeOK
  <2>2. Head(incoming[s]) \in Seq(Byte) /\ Tail(incoming[s]) \in Seq(Seq(Byte))
    BY <2>1
  <2>3. ConsumeTypes
    BY <2>1, <2>2, ConsumeKeeps DEF ConsumeTypes
  <2> QED BY <1>4, <2>2, <2>3 DEF ReceiveChunk, TypeOK, ConsumeTypes
<1>5. CASE Destroy(s) \/ PutDie(s) \/ JoinSender(s) \/ JoinReceiver(s)
  <2>1. CASE PutDie(s)
    <3>1. Append(outgoing[s], DiePackage) \in Seq(Message \cup {DiePackage})
      BY DEF TypeOK
    <3> QED BY <2>1, <3>1 DEF PutDie, TypeOK
  <2> QED BY <1>5, <2>1 DEF TypeOK, Destroy, JoinSender, JoinReceiver
<1>6. CASE GetItem(s)
  <2>1. /\ outgoing[s] \in Seq(Message \cup {DiePackage}) /\ outgoing[s] # <<>>
    BY <1>6 DEF GetItem, TypeOK
  <2>2. /\ Tail(outgoing[s]) \in Seq(Message \cup {DiePackage})
        /\ Head(outgoing[s]) \in Message \cup {DiePackage}
    BY <2>1
  <2>3. Head(outgoing[s]) # DiePackage => Frame(Head(outgoing[s])) \in Seq(Byte)
    BY <2>2, FrameProperties
  <2> QED BY <1>6, <2>2, <2>3 DEF GetItem, TypeOK
<1>7. CASE Write(s)
  <2>1. PICK a, b \in Seq(Byte) :
           /\ wire' = [wire EXCEPT ![s] = @ \o a]
           /\ unwritten' = [unwritten EXCEPT ![s] = b]
           /\ \/ snd' = [snd EXCEPT ![s] = "get"]
              \/ snd' = [snd EXCEPT ![s] = "write"]
    BY <1>7, WriteMoves
  <2>2. wire[s] \o a \in Seq(Byte)
    BY DEF TypeOK
  <2>3. UNCHANGED <<userVars, recvVars, die, outgoing, incoming, sent>>
    BY <1>7 DEF Write
  <2> QED BY <2>1, <2>2, <2>3 DEF TypeOK
<1>8. CASE WriteFails(s)
  BY <1>0, <1>8 DEF WriteFails, TypeOK
<1>9. CASE SeeDie(s) \/ HeaderHangup(s) \/ BodyHangup(s)
  BY <1>9 DEF TypeOK, SeeDie, HeaderHangup, BodyHangup
<1>10. CASE ReadHeader(s)
  <2>1. B2I(Arrived(s, 4)) \in Nat
    BY <1>10, ArrivedBytes, LengthIsANumber DEF ReadHeader
  <2>2. taken[s] + 4 \in Nat
    BY DEF TypeOK
  <2> QED BY <1>0, <1>10, <2>1, <2>2 DEF ReadHeader, TypeOK
<1>11. CASE ReadShortHeader(s)
  <2>1. PICK n \in 1 .. Min({3, Available(s)}) : taken' = [taken EXCEPT ![s] = @ + n]
    BY <1>11 DEF ReadShortHeader
  <2>2. n \in Nat
    BY AtMostAvailable
  <2>3. taken[s] + n \in Nat
    BY <2>2 DEF TypeOK
  <2>4. /\ cut' = [cut EXCEPT ![s] = TRUE]
        /\ UNCHANGED <<userVars, sendVars, rcv, need, buf, die, outgoing,
                       incoming, sent>>
    BY <1>11 DEF ReadShortHeader
  <2> QED BY <2>1, <2>3, <2>4 DEF TypeOK
<1>12. CASE ReadBody(s)
  <2>1. PICK n \in 1 .. Min({need[s] - Len(buf[s]), Available(s)}) :
          /\ buf' = [buf EXCEPT ![s] = @ \o Arrived(s, n)]
          /\ taken' = [taken EXCEPT ![s] = @ + n]
    BY <1>12 DEF ReadBody
  <2>2. n \in Nat /\ n <= Available(s)
    <3>1. need[s] - Len(buf[s]) \in Int
      BY DEF TypeOK
    <3> QED BY <3>1, AtMostAvailable
  <2>3. Arrived(s, n) \in Seq(Byte)
    BY <2>2, ArrivedBytes
  <2>4. buf[s] \o Arrived(s, n) \in Seq(Byte)
    BY <2>3 DEF TypeOK
  <2>5. taken[s] + n \in Nat
    BY <2>2 DEF TypeOK
  <2> QED BY <1>12, <2>1, <2>4, <2>5 DEF ReadBody, TypeOK
<1>13. CASE PutChunk(s)
  <2>1. Append(incoming[s], buf[s]) \in Seq(Seq(Byte))
    BY DEF TypeOK
  <2> QED BY <1>0, <1>13, <2>1 DEF PutChunk, TypeOK
<1> QED BY <1>1, <1>2, <1>3, <1>4, <1>5, <1>6, <1>7, <1>8, <1>9, <1>10,
           <1>11, <1>12, <1>13 DEF SideSteps
-----------------------------------------------------------------------------
(* A step of one side leaves the other side's state alone.                 *)
Untouched(s) ==
  /\ usr'[s] = usr[s] /\ ask'[s] = ask[s] /\ got'[s] = got[s]
  /\ drem'[s] = drem[s] /\ delivered'[s] = delivered[s]
  /\ snd'[s] = snd[s] /\ unwritten'[s] = unwritten[s] /\ wire'[s] = wire[s]
  /\ rcv'[s] = rcv[s] /\ taken'[s] = taken[s] /\ need'[s] = need[s]
  /\ buf'[s] = buf[s] /\ cut'[s] = cut[s] /\ outgoing'[s] = outgoing[s]
  /\ incoming'[s] = incoming[s] /\ sent'[s] = sent[s]

LEMMA OneSideMoves ==
  ASSUME TypeOK, NEW s \in Sides, NEW t \in Sides, s # t, SideSteps(t)
  PROVE  Untouched(s)
<1> USE DEF userVars, sendVars, recvVars, Untouched
<1>1. CASE \E m \in Message : Send(t, m)
  BY <1>1 DEF Send, TypeOK
<1>2. CASE \E n \in Nat : CallReceive(t, n)
  BY <1>2 DEF CallReceive, TypeOK
<1>3. CASE ReceiveRest(t)
  <2>1. drem[t] \in Seq(Byte) /\ Consume(t, drem[t])
    BY <1>3 DEF ReceiveRest, TypeOK
  <2>2. /\ delivered'[s] = delivered[s] /\ got'[s] = got[s]
        /\ drem'[s] = drem[s] /\ usr'[s] = usr[s] /\ ask'[s] = ask[s]
    BY <2>1, ConsumeKeeps
  <2> QED BY <1>3, <2>2 DEF ReceiveRest
<1>4. CASE ReceiveChunk(t)
  <2>1. /\ incoming[t] \in Seq(Seq(Byte)) /\ incoming[t] # <<>>
        /\ Consume(t, Head(incoming[t]))
    BY <1>4 DEF ReceiveChunk, TypeOK
  <2>2. Head(incoming[t]) \in Seq(Byte)
    BY <2>1
  <2>3. /\ delivered'[s] = delivered[s] /\ got'[s] = got[s]
        /\ drem'[s] = drem[s] /\ usr'[s] = usr[s] /\ ask'[s] = ask[s]
    BY <2>1, <2>2, ConsumeKeeps
  <2> QED BY <1>4, <2>3 DEF ReceiveChunk, TypeOK
<1>5. CASE Destroy(t)
  BY <1>5 DEF Destroy, TypeOK
<1>6. CASE PutDie(t)
  BY <1>6 DEF PutDie, TypeOK
<1>7. CASE JoinSender(t) \/ JoinReceiver(t)
  BY <1>7 DEF JoinSender, JoinReceiver, TypeOK
<1>8. CASE GetItem(t)
  BY <1>8 DEF GetItem, TypeOK
<1>9. CASE Write(t)
  BY <1>9 DEF Write, TypeOK
<1>10. CASE WriteFails(t)
  BY <1>10 DEF WriteFails, TypeOK
<1>11. CASE SeeDie(t) \/ HeaderHangup(t) \/ BodyHangup(t)
  BY <1>11 DEF SeeDie, HeaderHangup, BodyHangup, TypeOK
<1>12. CASE ReadHeader(t)
  BY <1>12 DEF ReadHeader, TypeOK
<1>13. CASE ReadShortHeader(t)
  BY <1>13 DEF ReadShortHeader, TypeOK
<1>14. CASE ReadBody(t)
  BY <1>14 DEF ReadBody, TypeOK
<1>15. CASE PutChunk(t)
  BY <1>15 DEF PutChunk, TypeOK
<1> QED BY <1>1, <1>2, <1>3, <1>4, <1>5, <1>6, <1>7, <1>8, <1>9, <1>10,
           <1>11, <1>12, <1>13, <1>14, <1>15 DEF SideSteps

(* What a side has sent and written only grows, and it stays closed.       *)
Grows(t) ==
  /\ sent'[t] = sent[t] \/ \E m \in Message : sent'[t] = Append(sent[t], m)
  /\ \E a \in Seq(Byte) : wire'[t] = wire[t] \o a
  /\ Closed(t) => Closed(t)'

LEMMA StreamsGrow ==
  ASSUME TypeOK, NEW t \in Sides, SideSteps(t)
  PROVE  Grows(t)
<1> USE DEF userVars, sendVars, recvVars, Closed
<1>0. <<>> \in Seq(Byte) /\ wire[t] \o <<>> = wire[t]
  BY ConcatEmptySeq DEF TypeOK
<1>1. CASE \E m \in Message : Send(t, m)
  <2>1. PICK m \in Message : Send(t, m)
    BY <1>1
  <2>2. sent'[t] = Append(sent[t], m) /\ wire' = wire /\ usr' = usr
    BY <2>1 DEF Send, TypeOK
  <2> QED BY <1>0, <2>2 DEF Grows
<1>2. CASE Write(t)
  <2>1. PICK a \in Seq(Byte) : wire' = [wire EXCEPT ![t] = @ \o a]
    BY <1>2, WriteMoves
  <2>2. wire'[t] = wire[t] \o a /\ sent' = sent /\ usr' = usr
    BY <1>2, <2>1 DEF Write, TypeOK
  <2> QED BY <2>2 DEF Grows
<1>3. CASE ~ (\E m \in Message : Send(t, m)) /\ ~ Write(t)
  <2>1. sent' = sent /\ wire' = wire
    BY <1>3 DEF SideSteps, CallReceive, ReceiveRest, ReceiveChunk, Destroy,
       PutDie, JoinSender, JoinReceiver, GetItem, WriteFails, SeeDie,
       ReadHeader, ReadShortHeader, HeaderHangup, ReadBody, BodyHangup, PutChunk
  <2>2. Closed(t) => usr' = usr
    BY <1>3 DEF SideSteps, CallReceive, ReceiveRest, ReceiveChunk, Destroy,
       PutDie, JoinSender, JoinReceiver, GetItem, WriteFails, SeeDie,
       ReadHeader, ReadShortHeader, HeaderHangup, ReadBody, BodyHangup, PutChunk
  <2> QED BY <1>0, <2>1, <2>2 DEF Grows
<1> QED BY <1>1, <1>2, <1>3

(* The head of outgoing is the die package only once that is all there is. *)
LEMMA DieIsLast ==
  ASSUME NEW s \in Sides, StreamOut(s), outgoing[s] # <<>>
  PROVE  \E q \in Seq(Message) :
           /\ snd[s] = "done" => q = <<>>
           /\ ~Closed(Other(s)) =>
                (wire[s] \o unwritten[s]) \o Frames(q) = Frames(sent[s])
           /\ \/ /\ DieQueued(s) /\ q = <<>>
                 /\ Head(outgoing[s]) = DiePackage /\ Tail(outgoing[s]) = <<>>
              \/ /\ q # <<>> /\ Head(outgoing[s]) = Head(q)
                 /\ Head(q) \in Message /\ Head(q) # DiePackage
                 /\ Tail(q) \in Seq(Message)
                 /\ Tail(outgoing[s]) =
                      IF DieQueued(s) THEN Append(Tail(q), DiePackage) ELSE Tail(q)
<1>1. PICK q \in Seq(Message) :
        /\ outgoing[s] = IF DieQueued(s) THEN Append(q, DiePackage) ELSE q
        /\ snd[s] = "done" => q = <<>>
        /\ ~Closed(Other(s)) =>
             (wire[s] \o unwritten[s]) \o Frames(q) = Frames(sent[s])
  BY DEF StreamOut
<1>2. CASE q = <<>>
  <2>1. DieQueued(s) /\ outgoing[s] = Append(<<>>, DiePackage)
    BY <1>1, <1>2
  <2>2. Head(Append(<<>>, DiePackage)) = DiePackage
        /\ Tail(Append(<<>>, DiePackage)) = <<>>
    OBVIOUS
  <2> QED BY <1>1, <1>2, <2>1, <2>2
<1>3. CASE q # <<>>
  <2>1. Head(q) \in Message /\ Tail(q) \in Seq(Message)
    BY <1>3
  <2>2. Head(q) # DiePackage
    BY <2>1, ChannelAssumption
  <2>3. /\ Head(Append(q, DiePackage)) = Head(q)
        /\ Tail(Append(q, DiePackage)) = Append(Tail(q), DiePackage)
    BY <1>3, HeadTailAppend
  <2> QED BY <1>1, <1>3, <2>1, <2>2, <2>3
<1> QED BY <1>2, <1>3

LEMMA StagesStep ==
  ASSUME PeerInv, NEW s \in Sides, NEW t \in Sides, SideSteps(t)
  PROVE  Stages(s)'
<1> USE DEF userVars, sendVars, recvVars
<1>0. TypeOK /\ Stages(s)
  BY DEF PeerInv
<1>1. CASE s # t
  <2>1. Untouched(s)
    BY <1>0, <1>1, OneSideMoves
  <2> QED BY <1>0, <2>1 DEF Untouched, Stages
<1>2. CASE s = t
  <2>1. CASE \E m \in Message : Send(s, m)
    BY <1>0, <2>1 DEF Send, Stages
  <2>2. CASE \E n \in Nat : CallReceive(s, n)
    BY <1>0, <2>2 DEF CallReceive, Stages, TypeOK
  <2>3. ASSUME NEW chunk \in Seq(Byte), Consume(s, chunk), usr[s] = "receive",
               UNCHANGED <<sendVars, rcv>>
        PROVE  Stages(s)'
    <3>1. \/ usr' = [usr EXCEPT ![s] = "idle"] /\ got'[s] = <<>>
          \/ usr' = usr
      BY <1>0, <2>3, ConsumeKeeps
    <3>2. usr \in [Sides -> {"idle", "receive", "put_die", "join_sender",
                             "join_receiver", "closed"}]
      BY <1>0 DEF TypeOK
    <3>3. \/ usr'[s] = "idle" /\ got'[s] = <<>>
          \/ usr'[s] = "receive"
      BY <2>3, <3>1, <3>2
    <3>4. snd'[s] = snd[s] /\ unwritten'[s] = unwritten[s]
      BY <2>3
    <3> QED BY <1>0, <2>3, <3>3, <3>4 DEF Stages
  <2>4. CASE ReceiveRest(s)
    <3>1. drem[s] \in Seq(Byte)
      BY <1>0 DEF TypeOK
    <3> QED BY <2>3, <2>4, <3>1 DEF ReceiveRest
  <2>5. CASE ReceiveChunk(s)
    <3>1. incoming[s] \in Seq(Seq(Byte)) /\ incoming[s] # <<>>
      BY <1>0, <2>5 DEF TypeOK, ReceiveChunk
    <3>2. Head(incoming[s]) \in Seq(Byte)
      BY <3>1
    <3> QED BY <2>3, <2>5, <3>2 DEF ReceiveChunk
  <2>6. CASE Destroy(s) \/ PutDie(s) \/ JoinSender(s) \/ JoinReceiver(s)
    BY <1>0, <2>6 DEF Destroy, PutDie, JoinSender, JoinReceiver, Stages, TypeOK
  <2>7. CASE GetItem(s)
    <3>1. StreamOut(s)
      BY DEF PeerInv
    <3>2. Head(outgoing[s]) = DiePackage => DieQueued(s)
      BY <2>7, <3>1, DieIsLast DEF GetItem
    <3> QED BY <1>0, <2>7, <3>2 DEF GetItem, Stages, DieQueued, TypeOK
  <2>8. CASE Write(s)
    <3>1. PICK b \in Seq(Byte) :
             /\ unwritten' = [unwritten EXCEPT ![s] = b]
             /\ \/ snd' = [snd EXCEPT ![s] = "get"] /\ b = <<>>
                \/ snd' = [snd EXCEPT ![s] = "write"]
      BY <1>0, <2>8, WriteMoves
    <3>2. snd[s] = "write" /\ UNCHANGED <<userVars, recvVars>>
      BY <2>8 DEF Write
    <3> QED BY <1>0, <3>1, <3>2 DEF Stages, TypeOK
  <2>9. CASE WriteFails(s)
    BY <1>0, <2>9 DEF WriteFails, Stages, TypeOK
  <2>10. CASE SeeDie(s) \/ HeaderHangup(s) \/ BodyHangup(s)
    BY <1>0, <2>10 DEF SeeDie, HeaderHangup, BodyHangup, Stages, TypeOK
  <2>11. CASE ReadHeader(s) \/ ReadShortHeader(s) \/ ReadBody(s) \/ PutChunk(s)
    BY <1>0, <2>11 DEF ReadHeader, ReadShortHeader, ReadBody, PutChunk, Stages,
       TypeOK
  <2> QED BY <1>2, <2>1, <2>2, <2>4, <2>5, <2>6, <2>7, <2>8, <2>9, <2>10, <2>11
          DEF SideSteps
<1> QED BY <1>1, <1>2
-----------------------------------------------------------------------------
(* The way out.                                                            *)
OutUntouched(s) ==
  /\ outgoing'[s] = outgoing[s] /\ snd'[s] = snd[s] /\ sent'[s] = sent[s]
  /\ unwritten'[s] = unwritten[s] /\ wire'[s] = wire[s]

LEMMA OutKept ==
  ASSUME NEW s \in Sides, StreamOut(s), OutUntouched(s),
         DieQueued(s)' = DieQueued(s), Closed(Other(s)) => Closed(Other(s))'
  PROVE  StreamOut(s)'
<1>1. PICK q \in Seq(Message) :
        /\ outgoing[s] = IF DieQueued(s) THEN Append(q, DiePackage) ELSE q
        /\ snd[s] = "done" => q = <<>>
        /\ ~Closed(Other(s)) =>
             (wire[s] \o unwritten[s]) \o Frames(q) = Frames(sent[s])
  BY DEF StreamOut
<1>2. PICK r \in Seq(Byte) : wire[s] \o r = Frames(sent[s])
  BY DEF StreamOut
<1>3. /\ outgoing'[s] = IF DieQueued(s)' THEN Append(q, DiePackage) ELSE q
      /\ snd'[s] = "done" => q = <<>>
      /\ ~Closed(Other(s))' =>
           (wire'[s] \o unwritten'[s]) \o Frames(q) = Frames(sent'[s])
  BY <1>1 DEF OutUntouched
<1>4. wire'[s] \o r = Frames(sent'[s])
  BY <1>2 DEF OutUntouched
<1> HIDE DEF OutUntouched, DieQueued
<1> QED BY <1>3, <1>4 DEF StreamOut

LEMMA SendStreams ==
  ASSUME PeerInv, NEW s \in Sides, NEW m \in Message, Send(s, m),
         Closed(Other(s))' = Closed(Other(s))
  PROVE  StreamOut(s)'
<1> USE DEF userVars, sendVars, recvVars
<1>1. TypeOK /\ Stages(s) /\ StreamOut(s)
  BY DEF PeerInv
<1>2. PICK q \in Seq(Message) :
        /\ outgoing[s] = IF DieQueued(s) THEN Append(q, DiePackage) ELSE q
        /\ ~Closed(Other(s)) =>
             (wire[s] \o unwritten[s]) \o Frames(q) = Frames(sent[s])
  BY <1>1 DEF StreamOut
<1>3. PICK r \in Seq(Byte) : wire[s] \o r = Frames(sent[s])
  BY <1>1 DEF StreamOut
<1>4. /\ ~DieQueued(s) /\ ~DieQueued(s)' /\ snd'[s] # "done"
      /\ outgoing'[s] = Append(q, m) /\ sent'[s] = Append(sent[s], m)
      /\ wire'[s] = wire[s] /\ unwritten'[s] = unwritten[s]
  BY <1>1, <1>2 DEF Send, Stages, DieQueued, TypeOK
<1>5. /\ Frames(Append(q, m)) = Frames(q) \o Frame(m)
      /\ Frames(Append(sent[s], m)) = Frames(sent[s]) \o Frame(m)
  <2>1. sent[s] \in Seq(Message)
    BY <1>1 DEF TypeOK
  <2> QED BY <2>1, FramesAppend
<1>6. /\ wire[s] \in Seq(Byte) /\ unwritten[s] \in Seq(Byte)
      /\ Frames(q) \in Seq(Byte) /\ Frame(m) \in Seq(Byte)
      /\ wire[s] \o unwritten[s] \in Seq(Byte)
  BY <1>1, FramedProperties, FrameProperties, ConcatProperties DEF TypeOK
<1>7. Append(q, m) \in Seq(Message) /\ r \o Frame(m) \in Seq(Byte)
  BY <1>6
<1>8. ~Closed(Other(s))' =>
        (wire'[s] \o unwritten'[s]) \o Frames(Append(q, m)) = Frames(sent'[s])
  <2>1. ((wire[s] \o unwritten[s]) \o Frames(q)) \o Frame(m)
          = (wire[s] \o unwritten[s]) \o (Frames(q) \o Frame(m))
    BY <1>6, BytesAssociate, ZenonT(30)
  <2> QED BY <1>2, <1>4, <1>5, <2>1
<1>9. wire'[s] \o (r \o Frame(m)) = Frames(sent'[s])
  <2>1. (wire[s] \o r) \o Frame(m) = wire[s] \o (r \o Frame(m))
    <3>1. wire[s] \in Seq(Byte) /\ r \in Seq(Byte) /\ Frame(m) \in Seq(Byte)
      BY <1>6
    <3> QED BY <3>1, BytesAssociate, ZenonT(30)
  <2> QED BY <1>3, <1>4, <1>5, <2>1
<1> HIDE DEF DieQueued
<1> QED BY <1>4, <1>7, <1>8, <1>9 DEF StreamOut

LEMMA GetItemStreams ==
  ASSUME PeerInv, NEW s \in Sides, GetItem(s),
         Closed(Other(s))' = Closed(Other(s))
  PROVE  StreamOut(s)'
<1> USE DEF userVars, sendVars, recvVars
<1>1. TypeOK /\ Stages(s) /\ StreamOut(s) /\ outgoing[s] # <<>>
  BY DEF PeerInv, GetItem
<1>2. PICK q \in Seq(Message) :
           /\ ~Closed(Other(s)) =>
                (wire[s] \o unwritten[s]) \o Frames(q) = Frames(sent[s])
           /\ \/ /\ DieQueued(s) /\ q = <<>>
                 /\ Head(outgoing[s]) = DiePackage /\ Tail(outgoing[s]) = <<>>
              \/ /\ q # <<>> /\ Head(outgoing[s]) = Head(q)
                 /\ Head(q) \in Message /\ Head(q) # DiePackage
                 /\ Tail(q) \in Seq(Message)
                 /\ Tail(outgoing[s]) =
                      IF DieQueued(s) THEN Append(Tail(q), DiePackage) ELSE Tail(q)
  BY <1>1, DieIsLast
<1>3. PICK r \in Seq(Byte) : wire[s] \o r = Frames(sent[s])
  BY <1>1 DEF StreamOut
<1>4. /\ snd[s] = "get" /\ unwritten[s] = <<>>
      /\ wire'[s] = wire[s] /\ sent'[s] = sent[s] /\ usr'[s] = usr[s]
      /\ outgoing'[s] = Tail(outgoing[s])
      /\ wire[s] \in Seq(Byte)
  BY <1>1 DEF GetItem, Stages, TypeOK
<1>5. CASE Head(outgoing[s]) = DiePackage
  <2>1. q = <<>> /\ Tail(outgoing[s]) = <<>>
    BY <1>2, <1>5
  <2>2. snd'[s] = "done" /\ unwritten'[s] = unwritten[s]
    BY <1>1, <1>5 DEF GetItem, TypeOK
  <2>3. ~DieQueued(s)' /\ outgoing'[s] = q
    BY <1>4, <2>1, <2>2 DEF DieQueued
  <2> HIDE DEF DieQueued
  <2> QED BY <1>2, <1>3, <1>4, <2>1, <2>2, <2>3 DEF StreamOut
<1>6. CASE Head(outgoing[s]) # DiePackage
  <2>1. /\ q # <<>> /\ Head(q) \in Message /\ Tail(q) \in Seq(Message)
        /\ Head(outgoing[s]) = Head(q)
        /\ Tail(outgoing[s]) =
             IF DieQueued(s) THEN Append(Tail(q), DiePackage) ELSE Tail(q)
    BY <1>2, <1>6
  <2>2. snd'[s] = "write" /\ unwritten'[s] = Frame(Head(q))
    BY <1>1, <1>6, <2>1 DEF GetItem, TypeOK
  <2>3. DieQueued(s)' = DieQueued(s)
    BY <1>4, <2>2 DEF DieQueued
  <2>4. outgoing'[s] = IF DieQueued(s)' THEN Append(Tail(q), DiePackage)
                                        ELSE Tail(q)
    BY <1>4, <2>1, <2>3
  <2>5. (wire[s] \o <<>>) \o Frames(q)
          = (wire[s] \o Frame(Head(q))) \o Frames(Tail(q))
    <3>1. Frames(q) = Frame(Head(q)) \o Frames(Tail(q))
      BY <2>1, FramesHeadTail
    <3>2. wire[s] \o <<>> = wire[s]
      BY <1>4, ConcatEmptySeq
    <3>3. Frame(Head(q)) \in Seq(Byte) /\ Frames(Tail(q)) \in Seq(Byte)
      BY <2>1, FrameProperties, FramedProperties
    <3>4. (wire[s] \o Frame(Head(q))) \o Frames(Tail(q))
            = wire[s] \o (Frame(Head(q)) \o Frames(Tail(q)))
      BY <1>4, <3>3, BytesAssociate, ZenonT(30)
    <3> QED BY <3>1, <3>2, <3>4
  <2>6. ~Closed(Other(s))' =>
          (wire'[s] \o unwritten'[s]) \o Frames(Tail(q)) = Frames(sent'[s])
    BY <1>2, <1>4, <2>2, <2>5
  <2> HIDE DEF DieQueued
  <2> QED BY <1>3, <1>4, <2>1, <2>2, <2>4, <2>6 DEF StreamOut
<1> QED BY <1>5, <1>6

LEMMA WriteStreams ==
  ASSUME PeerInv, NEW s \in Sides, Write(s),
         Closed(Other(s))' = Closed(Other(s))
  PROVE  StreamOut(s)'
<1> USE DEF userVars, sendVars, recvVars
<1>1. TypeOK /\ StreamOut(s) /\ ~Closed(Other(s)) /\ snd[s] = "write"
  BY DEF PeerInv, Write
<1>2. PICK q \in Seq(Message) :
        /\ outgoing[s] = IF DieQueued(s) THEN Append(q, DiePackage) ELSE q
        /\ (wire[s] \o unwritten[s]) \o Frames(q) = Frames(sent[s])
  BY <1>1 DEF StreamOut
<1>3. PICK a, b \in Seq(Byte) :
           /\ unwritten[s] = a \o b
           /\ wire' = [wire EXCEPT ![s] = @ \o a]
           /\ unwritten' = [unwritten EXCEPT ![s] = b]
           /\ \/ snd' = [snd EXCEPT ![s] = "get"] /\ b = <<>>
              \/ snd' = [snd EXCEPT ![s] = "write"]
  BY <1>1, WriteMoves
<1>4. /\ wire'[s] = wire[s] \o a /\ unwritten'[s] = b /\ snd'[s] # "done"
      /\ wire[s] \in Seq(Byte)
  BY <1>1, <1>3 DEF TypeOK
<1>5. sent' = sent /\ usr' = usr /\ outgoing' = outgoing
  BY DEF Write
<1>6. DieQueued(s)' = DieQueued(s)
  BY <1>1, <1>4, <1>5 DEF DieQueued
<1>7. Frames(q) \in Seq(Byte) /\ b \o Frames(q) \in Seq(Byte)
      /\ wire[s] \o a \in Seq(Byte)
  BY <1>4, FramedProperties, ConcatProperties
<1>8. (wire'[s] \o unwritten'[s]) \o Frames(q) = Frames(sent'[s])
  <2>1. (wire[s] \o a) \o b = wire[s] \o (a \o b)
    BY <1>4, BytesAssociate, ZenonT(30)
  <2> QED BY <1>2, <1>3, <1>4, <1>5, <2>1
<1>9. wire'[s] \o (b \o Frames(q)) = Frames(sent'[s])
  <2>1. ((wire[s] \o a) \o b) \o Frames(q) = (wire[s] \o a) \o (b \o Frames(q))
    BY <1>7, BytesAssociate, ZenonT(30)
  <2> QED BY <1>4, <1>8, <2>1
<1> HIDE DEF DieQueued
<1> QED BY <1>2, <1>4, <1>5, <1>6, <1>7, <1>8, <1>9 DEF StreamOut

LEMMA StreamOutStep ==
  ASSUME PeerInv, NEW s \in Sides, NEW t \in Sides, SideSteps(t)
  PROVE  StreamOut(s)'
<1> USE DEF userVars, sendVars, recvVars
<1>0. TypeOK /\ Stages(s) /\ StreamOut(s) /\ Other(s) \in Sides /\ Other(s) # s
  BY OtherSide DEF PeerInv
<1>1. CASE s # t
  <2>1. Untouched(s) /\ Grows(t) /\ t = Other(s)
    BY <1>0, <1>1, OneSideMoves, StreamsGrow, OtherSide
  <2>2. OutUntouched(s) /\ DieQueued(s)' = DieQueued(s)
    BY <2>1 DEF Untouched, OutUntouched, DieQueued
  <2>3. Closed(Other(s)) => Closed(Other(s))'
    BY <2>1 DEF Grows
  <2> QED BY <1>0, <2>2, <2>3, OutKept
<1>2. CASE s = t
  <2>0. Closed(Other(s))' = Closed(Other(s))
    <3>1. Untouched(Other(s))
      BY <1>0, <1>2, OneSideMoves
    <3> QED BY <3>1 DEF Untouched, Closed
  <2>1. CASE \E m \in Message : Send(s, m)
    BY <2>0, <2>1, SendStreams
  <2>2. CASE GetItem(s)
    BY <2>0, <2>2, GetItemStreams
  <2>3. CASE Write(s)
    BY <2>0, <2>3, WriteStreams
  <2>4. CASE WriteFails(s)
    <3>1. PICK q \in Seq(Message) :
            outgoing[s] = IF DieQueued(s) THEN Append(q, DiePackage) ELSE q
      BY <1>0 DEF StreamOut
    <3>2. PICK r \in Seq(Byte) : wire[s] \o r = Frames(sent[s])
      BY <1>0 DEF StreamOut
    <3>3. /\ snd[s] = "write" /\ snd'[s] = "get" /\ usr' = usr /\ wire' = wire
          /\ sent' = sent /\ outgoing' = outgoing /\ Closed(Other(s))'
      BY <1>0, <2>0, <2>4 DEF WriteFails, TypeOK
    <3>4. DieQueued(s)' = DieQueued(s)
      BY <3>3 DEF DieQueued
    <3> HIDE DEF DieQueued
    <3> QED BY <3>1, <3>2, <3>3, <3>4 DEF StreamOut
  <2>5. CASE PutDie(s)
    <3>1. PICK q \in Seq(Message) :
        /\ outgoing[s] = IF DieQueued(s) THEN Append(q, DiePackage) ELSE q
        /\ snd[s] = "done" => q = <<>>
        /\ ~Closed(Other(s)) =>
             (wire[s] \o unwritten[s]) \o Frames(q) = Frames(sent[s])
      BY <1>0 DEF StreamOut
    <3>2. PICK r \in Seq(Byte) : wire[s] \o r = Frames(sent[s])
      BY <1>0 DEF StreamOut
    <3>3. /\ usr[s] = "put_die" /\ usr'[s] = "join_sender" /\ snd[s] # "done"
          /\ outgoing'[s] = Append(outgoing[s], DiePackage)
          /\ UNCHANGED <<snd, unwritten, wire, sent>>
      BY <1>0, <2>5 DEF PutDie, Stages, TypeOK
    <3>4. ~DieQueued(s) /\ DieQueued(s)'
      BY <3>3 DEF DieQueued
    <3> HIDE DEF DieQueued
    <3> QED BY <2>0, <3>1, <3>2, <3>3, <3>4 DEF StreamOut
  <2>6. ASSUME OutUntouched(s), DieQueued(s)' = DieQueued(s)
        PROVE  StreamOut(s)'
    BY <1>0, <2>0, <2>6, OutKept
  <2>7. CASE \E n \in Nat : CallReceive(s, n)
    <3>1. OutUntouched(s) /\ DieQueued(s)' = DieQueued(s)
      BY <1>0, <2>7 DEF CallReceive, OutUntouched, DieQueued, TypeOK
    <3> QED BY <2>6, <3>1
  <2>8. ASSUME NEW chunk \in Seq(Byte), Consume(s, chunk), usr[s] = "receive",
               UNCHANGED <<sendVars, outgoing, sent>>
        PROVE  StreamOut(s)'
    <3>1. usr' = [usr EXCEPT ![s] = "idle"] \/ usr' = usr
      BY <1>0, <2>8, ConsumeKeeps
    <3>2. usr'[s] \in {"idle", "receive"}
      BY <1>0, <2>8, <3>1 DEF TypeOK
    <3>3. OutUntouched(s) /\ DieQueued(s)' = DieQueued(s)
      BY <2>8, <3>2 DEF OutUntouched, DieQueued
    <3> QED BY <2>6, <3>3
  <2>9. CASE ReceiveRest(s)
    <3>1. drem[s] \in Seq(Byte)
      BY <1>0 DEF TypeOK
    <3> QED BY <2>8, <2>9, <3>1 DEF ReceiveRest
  <2>10. CASE ReceiveChunk(s)
    <3>1. incoming[s] \in Seq(Seq(Byte)) /\ incoming[s] # <<>>
      BY <1>0, <2>10 DEF TypeOK, ReceiveChunk
    <3>2. Head(incoming[s]) \in Seq(Byte)
      BY <3>1
    <3> QED BY <2>8, <2>10, <3>2 DEF ReceiveChunk
  <2>11. CASE Destroy(s) \/ JoinSender(s) \/ JoinReceiver(s)
    <3>1. OutUntouched(s)
      BY <2>11 DEF Destroy, JoinSender, JoinReceiver, OutUntouched
    <3>2. DieQueued(s)' = DieQueued(s)
      BY <1>0, <2>11 DEF Destroy, JoinSender, JoinReceiver, DieQueued, Stages,
         TypeOK
    <3> QED BY <2>6, <3>1, <3>2
  <2>12. CASE \/ SeeDie(s) \/ ReadHeader(s) \/ ReadShortHeader(s)
              \/ HeaderHangup(s) \/ ReadBody(s) \/ BodyHangup(s) \/ PutChunk(s)
    <3>1. UNCHANGED <<usr, snd, unwritten, wire, outgoing, sent>>
      BY <2>12 DEF SeeDie, ReadHeader, ReadShortHeader, HeaderHangup, ReadBody,
         BodyHangup, PutChunk
    <3>2. OutUntouched(s) /\ DieQueued(s)' = DieQueued(s)
      BY <3>1 DEF OutUntouched, DieQueued
    <3> QED BY <2>6, <3>2
  <2> QED BY <1>2, <2>1, <2>2, <2>3, <2>4, <2>5, <2>7, <2>9, <2>10, <2>11, <2>12
          DEF SideSteps
<1> QED BY <1>1, <1>2
-----------------------------------------------------------------------------
(* The way in.                                                             *)
LEMMA WireIsPrefix ==
  ASSUME TypeOK, NEW o \in Sides, StreamOut(o)
  PROVE  /\ Len(wire[o]) <= Len(Frames(sent[o]))
         /\ \A i \in 1 .. Len(wire[o]) : wire[o][i] = Frames(sent[o])[i]
<1> DEFINE w == wire[o]
<1>1. PICK r \in Seq(Byte) : w \o r = Frames(sent[o])
  BY DEF StreamOut
<1>2. w \in Seq(Byte)
  BY DEF TypeOK
<1> HIDE DEF w
<1>3. /\ Len(w \o r) = Len(w) + Len(r) /\ Len(w) \in Nat /\ Len(r) \in Nat
      /\ \A i \in 1 .. Len(w) + Len(r) :
           (w \o r)[i] = IF i <= Len(w) THEN w[i] ELSE r[i - Len(w)]
  BY <1>2, ConcatProperties
<1>4. Len(w) <= Len(Frames(sent[o]))
  BY <1>1, <1>3
<1>5. \A i \in 1 .. Len(w) : w[i] = Frames(sent[o])[i]
  BY <1>1, <1>3
<1> QED BY <1>4, <1>5 DEF w

(* The first k messages are behind the receiver: where the next one lies.  *)
LEMMA NextOnWire ==
  ASSUME TypeOK, NEW o \in Sides, StreamOut(o), NEW k \in 0 .. Len(sent[o]),
         Len(Frames(SubSeq(sent[o], 1, k))) < Len(wire[o])
  PROVE  k < Len(sent[o])
<1>1. sent[o] \in Seq(Message)
  BY DEF TypeOK
<1>2. CASE k = Len(sent[o])
  <2>1. SubSeq(sent[o], 1, k) = sent[o]
    BY <1>1, <1>2, SubSeqFull
  <2>2. Len(wire[o]) <= Len(Frames(sent[o])) /\ Len(wire[o]) \in Nat
        /\ Len(Frames(sent[o])) \in Nat
    <3>1. wire[o] \in Seq(Byte) /\ Frames(sent[o]) \in Seq(Byte)
      BY <1>1, FramedProperties DEF TypeOK
    <3> QED BY <3>1, WireIsPrefix
  <2>3. Len(Frames(sent[o])) < Len(wire[o])
    BY <2>1
  <2> QED BY <2>2, <2>3
<1> QED BY <1>1, <1>2

LEMMA FrameOnWire ==
  ASSUME TypeOK, NEW o \in Sides, StreamOut(o), NEW k \in 0 .. Len(sent[o]) - 1
  PROVE  LET before == Len(Frames(SubSeq(sent[o], 1, k)))
             m == sent[o][k + 1]
         IN  /\ before \in Nat /\ m \in Message
             /\ Len(Frames(SubSeq(sent[o], 1, k + 1))) = before + 4 + Len(m)
             /\ before + 4 + Len(m) <= Len(Frames(sent[o]))
             /\ \A j \in 1 .. 4 + Len(m) :
                  before + j <= Len(wire[o]) =>
                    wire[o][before + j] = Frame(m)[j]
<1> DEFINE ms == sent[o]
           before == Len(Frames(SubSeq(ms, 1, k)))
           m == ms[k + 1]
           w == wire[o]
<1>1. ms \in Seq(Message) /\ w \in Seq(Byte)
  BY DEF TypeOK
<1>2. m \in Message
  BY <1>1
<1>3. /\ before \in Nat
      /\ Len(Frames(SubSeq(ms, 1, k + 1))) = before + 4 + Len(m)
      /\ before + 4 + Len(m) <= Len(Frames(ms))
      /\ \A j \in 1 .. 4 + Len(m) : Frames(ms)[before + j] = Frame(m)[j]
  <2> HIDE DEF ms
  <2>1. k \in 0 .. Len(ms) - 1
    BY DEF ms
  <2> QED BY <1>1, <2>1, FrameInStream
<1>4. \A i \in 1 .. Len(w) : w[i] = Frames(ms)[i]
  BY WireIsPrefix
<1>5. Len(w) \in Nat /\ Len(m) \in Nat
  BY <1>1, <1>2, LengthReadsBack
<1> HIDE DEF ms, before, m, w
<1>6. ASSUME NEW j \in 1 .. 4 + Len(m), before + j <= Len(w)
      PROVE  w[before + j] = Frame(m)[j]
  <2>1. before + j \in 1 .. Len(w)
    BY <1>3, <1>5, <1>6
  <2> QED BY <1>3, <1>4, <2>1
<1> QED BY <1>2, <1>3, <1>6 DEF ms, before, m, w

(* Receiving goes on as it was while the other side sends and writes.      *)
InUntouched(s) ==
  /\ delivered'[s] = delivered[s] /\ got'[s] = got[s] /\ drem'[s] = drem[s]
  /\ incoming'[s] = incoming[s] /\ rcv'[s] = rcv[s] /\ taken'[s] = taken[s]
  /\ need'[s] = need[s] /\ buf'[s] = buf[s] /\ cut'[s] = cut[s]

LEMMA FirstOfLonger ==
  ASSUME NEW ms \in Seq(Message), NEW m \in Message, NEW k \in 0 .. Len(ms)
  PROVE  /\ SubSeq(Append(ms, m), 1, k) = SubSeq(ms, 1, k)
         /\ k < Len(ms) => Append(ms, m)[k + 1] = ms[k + 1]
         /\ Len(Append(ms, m)) = Len(ms) + 1
OBVIOUS

LEMMA InAtKept ==
  ASSUME NEW s \in Sides, NEW ms \in Seq(Message), NEW k \in 0 .. Len(ms),
         NEW new, new = ms \/ \E m \in Message : new = Append(ms, m),
         InAt(s, ms, k), InUntouched(s)
  PROVE  k \in 0 .. Len(new) /\ InAt(s, new, k)'
<1>1. /\ SubSeq(new, 1, k) = SubSeq(ms, 1, k)
      /\ k < Len(ms) => new[k + 1] = ms[k + 1]
      /\ Len(new) \in Nat /\ Len(new) >= Len(ms)
  BY FirstOfLonger
<1>2. k \in 0 .. Len(new)
  BY <1>1
<1>3. ((delivered'[s] \o got'[s]) \o drem'[s]) \o Bytes(incoming'[s])
        = Bytes(SubSeq(new, 1, k))
  BY <1>1 DEF InAt, InUntouched
<1>4. rcv'[s] = "header" => taken'[s] = Len(Frames(SubSeq(new, 1, k)))
  BY <1>1 DEF InAt, InUntouched
<1>5. CASE rcv'[s] = "body"
  <2>1. /\ k < Len(ms) /\ need[s] = Len(ms[k + 1]) /\ Len(buf[s]) <= need[s]
        /\ \A j \in 1 .. Len(buf[s]) : buf[s][j] = ms[k + 1][j]
        /\ taken[s] = Len(Frames(SubSeq(ms, 1, k))) + 4 + Len(buf[s])
    BY <1>5 DEF InAt, InUntouched
  <2>2. k < Len(new) /\ new[k + 1] = ms[k + 1]
    BY <1>1, <2>1
  <2>3. buf'[s] = buf[s] /\ need'[s] = need[s] /\ taken'[s] = taken[s]
    BY DEF InUntouched
  <2>4. /\ k < Len(new) /\ need'[s] = Len(new[k + 1]) /\ Len(buf'[s]) <= need'[s]
        /\ \A j \in 1 .. Len(buf'[s]) : buf'[s][j] = new[k + 1][j]
        /\ taken'[s] = Len(Frames(SubSeq(new, 1, k))) + 4 + Len(buf'[s])
    BY <1>1, <2>1, <2>2, <2>3
  <2> QED BY <1>2, <1>3, <1>4, <2>4 DEF InAt
<1>6. CASE rcv'[s] # "body"
  BY <1>2, <1>3, <1>4, <1>6 DEF InAt
<1> QED BY <1>5, <1>6

LEMMA InKept ==
  ASSUME TypeOK, NEW s \in Sides, StreamIn(s), InUntouched(s),
         Grows(Other(s))
  PROVE  StreamIn(s)'
<1> DEFINE o == Other(s)
<1>1. o \in Sides /\ wire[o] \in Seq(Byte) /\ sent[o] \in Seq(Message)
      /\ taken[s] \in Nat
  BY OtherSide DEF TypeOK
<1>2. taken'[s] <= Len(wire'[o])
  <2>1. PICK a \in Seq(Byte) : wire'[o] = wire[o] \o a
    BY DEF Grows
  <2>2. Len(wire[o] \o a) = Len(wire[o]) + Len(a) /\ Len(wire[o]) \in Nat
        /\ Len(a) \in Nat
    BY <1>1, ConcatProperties
  <2> QED BY <1>1, <2>1, <2>2 DEF StreamIn, InUntouched
<1>3. CASE cut'[s]
  BY <1>2, <1>3 DEF StreamIn
<1>4. CASE ~cut'[s]
  <2>1. PICK ms \in Seq(Message) : ms = sent[o]
    BY <1>1
  <2>2. PICK k \in 0 .. Len(ms) : InAt(s, ms, k)
    BY <1>4, <2>1 DEF StreamIn, InUntouched
  <2>3. PICK new : new = sent'[o]
    OBVIOUS
  <2>4. new = ms \/ \E m \in Message : new = Append(ms, m)
    BY <2>1, <2>3 DEF Grows
  <2>5. k \in 0 .. Len(new) /\ InAt(s, new, k)'
    BY <2>2, <2>4, InAtKept
  <2> QED BY <1>2, <2>3, <2>5 DEF StreamIn
<1> QED BY <1>3, <1>4

(* A step of the receiving side itself: the other side's streams stand.    *)
OtherStands(s) == sent'[Other(s)] = sent[Other(s)] /\ wire'[Other(s)] = wire[Other(s)]

LEMMA StreamInIf ==
  ASSUME NEW s \in Sides, OtherStands(s), taken'[s] <= Len(wire[Other(s)]),
         NEW ms, ms = sent[Other(s)],
         ~cut'[s] => \E k \in 0 .. Len(ms) : InAt(s, ms, k)'
  PROVE  StreamIn(s)'
<1>1. taken'[s] <= Len(wire'[Other(s)]) /\ ms = sent'[Other(s)]
  BY DEF OtherStands
<1> QED BY <1>1 DEF StreamIn

(* Receive moves bytes from incoming by way of drem into the user's hands. *)
LEMMA ConsumeStreams ==
  ASSUME TypeOK, NEW s \in Sides, StreamIn(s), OtherStands(s),
         NEW chunk \in Seq(Byte), Consume(s, chunk), UNCHANGED recvVars,
         NEW rest \in Seq(Byte),
         drem[s] \o Bytes(incoming[s]) = chunk \o rest,
         Bytes(incoming'[s]) = rest
  PROVE  StreamIn(s)'
<1> USE DEF recvVars
<1>1. /\ delivered[s] \in Seq(Byte) /\ got[s] \in Seq(Byte) /\ drem[s] \in Seq(Byte)
      /\ incoming[s] \in Seq(Seq(Byte)) /\ Bytes(incoming[s]) \in Seq(Byte)
      /\ delivered[s] \o got[s] \in Seq(Byte)
  BY FlattenType, ConcatProperties DEF TypeOK, Bytes
<1>2. (delivered'[s] \o got'[s]) \o drem'[s] = (delivered[s] \o got[s]) \o chunk
  BY ConsumeKeeps
<1>3. ((delivered'[s] \o got'[s]) \o drem'[s]) \o Bytes(incoming'[s])
        = ((delivered[s] \o got[s]) \o drem[s]) \o Bytes(incoming[s])
  <2>1. ((delivered[s] \o got[s]) \o chunk) \o rest
          = (delivered[s] \o got[s]) \o (chunk \o rest)
    <3>1. delivered[s] \o got[s] \in Seq(Byte) /\ chunk \in Seq(Byte) /\ rest \in Seq(Byte)
      BY <1>1
    <3> QED BY <3>1, BytesAssociate, ZenonT(30)
  <2>2. ((delivered[s] \o got[s]) \o drem[s]) \o Bytes(incoming[s])
          = (delivered[s] \o got[s]) \o (drem[s] \o Bytes(incoming[s]))
    <3> DEFINE a == delivered[s] \o got[s]
               b == drem[s]
               c == Bytes(incoming[s])
    <3>1. a \in Seq(Byte) /\ b \in Seq(Byte) /\ c \in Seq(Byte)
      BY <1>1
    <3> HIDE DEF a, b, c
    <3>2. (a \o b) \o c = a \o (b \o c)
      BY <3>1, BytesAssociate, ZenonT(30)
    <3> QED BY <3>2 DEF a, b, c
  <2> QED BY <1>2, <2>1, <2>2
<1>4. PICK ms : ms = sent[Other(s)]
  OBVIOUS
<1>5. ASSUME NEW k, InAt(s, ms, k) PROVE InAt(s, ms, k)'
  <2>1. ((delivered'[s] \o got'[s]) \o drem'[s]) \o Bytes(incoming'[s])
          = Bytes(SubSeq(ms, 1, k))
    BY <1>3, <1>5 DEF InAt
  <2>2. UNCHANGED <<rcv, taken, need, buf>>
    OBVIOUS
  <2>3. /\ rcv'[s] = "header" => taken'[s] = Len(Frames(SubSeq(ms, 1, k)))
        /\ rcv'[s] = "body" =>
             /\ k < Len(ms)
             /\ need'[s] = Len(ms[k + 1])
             /\ Len(buf'[s]) <= need'[s]
             /\ \A j \in 1 .. Len(buf'[s]) : buf'[s][j] = ms[k + 1][j]
             /\ taken'[s] = Len(Frames(SubSeq(ms, 1, k))) + 4 + Len(buf'[s])
    BY <1>5, <2>2 DEF InAt
  <2> QED BY <2>1, <2>3 DEF InAt
<1>6. ~cut'[s] => \E k \in 0 .. Len(ms) : InAt(s, ms, k)'
  BY <1>4, <1>5 DEF StreamIn
<1>7. taken'[s] <= Len(wire[Other(s)])
  BY DEF StreamIn
<1> QED BY <1>4, <1>6, <1>7, StreamInIf

LEMMA ReadHeaderStreams ==
  ASSUME TypeOK, NEW s \in Sides, StreamIn(s), StreamOut(Other(s)),
         OtherStands(s), ReadHeader(s)
  PROVE  StreamIn(s)'
<1> USE DEF userVars, sendVars
<1> DEFINE o == Other(s)
<1>1. /\ o \in Sides /\ sent[o] \in Seq(Message) /\ taken[s] \in Nat
      /\ wire[o] \in Seq(Byte) /\ Len(wire[o]) \in Nat
  BY OtherSide DEF TypeOK
<1>2. /\ Arrived(s, 4) \in Seq(Byte) /\ Len(Arrived(s, 4)) = 4
      /\ taken[s] + 4 <= Len(wire[o])
      /\ \A j \in 1 .. 4 : Arrived(s, 4)[j] = wire[o][taken[s] + j]
  BY ArrivedBytes DEF ReadHeader
<1>3. /\ need'[s] = B2I(Arrived(s, 4)) /\ buf'[s] = <<>> /\ taken'[s] = taken[s] + 4
      /\ rcv[s] = "header" /\ rcv'[s] = "body"
      /\ UNCHANGED <<delivered, got, drem, incoming, cut>>
  BY DEF ReadHeader, TypeOK
<1>4. PICK ms \in Seq(Message) : ms = sent[o]
  BY <1>1
<1>5. ASSUME NEW k \in 0 .. Len(ms), InAt(s, ms, k)
      PROVE  InAt(s, ms, k)'
  <2> DEFINE before == Len(Frames(SubSeq(ms, 1, k)))
             m == ms[k + 1]
  <2>1. taken[s] = before /\ before < Len(wire[o]) /\ before + 4 <= Len(wire[o])
    BY <1>1, <1>2, <1>3, <1>5 DEF InAt
  <2>2. k < Len(ms)
    BY <1>1, <1>4, <2>1, NextOnWire
  <2>3. /\ m \in Message /\ before \in Nat
        /\ \A j \in 1 .. 4 + Len(m) :
             before + j <= Len(wire[o]) => wire[o][before + j] = Frame(m)[j]
    <3>1. k \in 0 .. Len(sent[o]) - 1
      BY <1>4, <2>2
    <3> QED BY <1>1, <1>4, <3>1, FrameOnWire
  <2> HIDE DEF before, m
  <2>4. /\ Len(m) \in Nat /\ I2B(Len(m)) \in Seq(Byte) /\ Len(I2B(Len(m))) = 4
        /\ B2I(I2B(Len(m))) = Len(m)
        /\ \A j \in 1 .. 4 : Frame(m)[j] = I2B(Len(m))[j]
    BY <2>3, LengthReadsBack, FrameProperties
  <2>5. ASSUME NEW j \in 1 .. 4 PROVE Arrived(s, 4)[j] = I2B(Len(m))[j]
    <3>1. j \in 1 .. 4 + Len(m) /\ before + j <= Len(wire[o])
      BY <1>1, <2>1, <2>3, <2>4
    <3>2. wire[o][before + j] = Frame(m)[j]
      BY <2>3, <3>1
    <3>3. Arrived(s, 4)[j] = wire[o][before + j]
      BY <1>2, <2>1
    <3> QED BY <2>4, <3>2, <3>3
  <2>6. Arrived(s, 4) = I2B(Len(m))
    <3> DEFINE x == Arrived(s, 4)
               y == I2B(Len(m))
    <3>1. x \in Seq(Byte) /\ y \in Seq(Byte) /\ Len(x) = 4 /\ Len(y) = 4
      BY <1>2, <2>4
    <3>2. \A j \in 1 .. 4 : x[j] = y[j]
      BY <2>5
    <3> HIDE DEF x, y
    <3>3. x = y
      BY <3>1, <3>2, SeqEqual
    <3> QED BY <3>3 DEF x, y
  <2>7. need'[s] = Len(m) /\ Len(buf'[s]) = 0
    BY <1>3, <2>4, <2>6
  <2>8. taken'[s] = before + 4 + Len(buf'[s])
    BY <1>3, <2>1, <2>3, <2>7
  <2>9. /\ k < Len(ms) /\ need'[s] = Len(m) /\ Len(buf'[s]) <= need'[s]
        /\ \A j \in 1 .. Len(buf'[s]) : buf'[s][j] = m[j]
        /\ taken'[s] = before + 4 + Len(buf'[s])
    BY <2>2, <2>4, <2>7, <2>8
  <2>10. ((delivered'[s] \o got'[s]) \o drem'[s]) \o Bytes(incoming'[s])
          = Bytes(SubSeq(ms, 1, k))
    BY <1>3, <1>5 DEF InAt
  <2> QED BY <1>3, <2>9, <2>10 DEF InAt, before, m
<1>6. ~cut'[s] => \E k \in 0 .. Len(ms) : InAt(s, ms, k)'
  BY <1>3, <1>4, <1>5 DEF StreamIn
<1>7. taken'[s] <= Len(wire[o])
  BY <1>2, <1>3
<1> QED BY <1>4, <1>6, <1>7, StreamInIf

LEMMA ReadBodyStreams ==
  ASSUME TypeOK, NEW s \in Sides, StreamIn(s), StreamOut(Other(s)),
         OtherStands(s), ReadBody(s)
  PROVE  StreamIn(s)'
<1> USE DEF userVars, sendVars
<1> DEFINE o == Other(s)
<1>1. /\ o \in Sides /\ sent[o] \in Seq(Message) /\ taken[s] \in Nat
      /\ wire[o] \in Seq(Byte) /\ Len(wire[o]) \in Nat
      /\ buf[s] \in Seq(Byte) /\ Len(buf[s]) \in Nat /\ need[s] \in Nat
  <2>1. o \in Sides
    BY OtherSide
  <2>2. /\ sent[o] \in Seq(Message) /\ wire[o] \in Seq(Byte)
        /\ buf[s] \in Seq(Byte) /\ taken[s] \in Nat /\ need[s] \in Nat
    BY <2>1 DEF TypeOK
  <2> QED BY <2>1, <2>2
<1>2. PICK n \in 1 .. Min({need[s] - Len(buf[s]), Available(s)}) :
        /\ buf' = [buf EXCEPT ![s] = @ \o Arrived(s, n)]
        /\ taken' = [taken EXCEPT ![s] = @ + n]
  BY DEF ReadBody
<1>3. n \in Nat /\ n <= need[s] - Len(buf[s]) /\ n <= Available(s)
  <2>1. need[s] - Len(buf[s]) \in Int
    BY <1>1
  <2> QED BY <2>1, AtMostAvailable
<1>4. /\ Arrived(s, n) \in Seq(Byte) /\ Len(Arrived(s, n)) = n
      /\ taken[s] + n <= Len(wire[o])
      /\ \A j \in 1 .. n : Arrived(s, n)[j] = wire[o][taken[s] + j]
  BY <1>3, ArrivedBytes
<1>5. /\ buf'[s] = buf[s] \o Arrived(s, n) /\ taken'[s] = taken[s] + n
      /\ rcv[s] = "body" /\ rcv'[s] = "body"
      /\ UNCHANGED <<delivered, got, drem, incoming, need, cut>>
  BY <1>2 DEF ReadBody, TypeOK
<1>6. PICK ms \in Seq(Message) : ms = sent[o]
  BY <1>1
<1>7. ASSUME NEW k \in 0 .. Len(ms), InAt(s, ms, k)
      PROVE  InAt(s, ms, k)'
  <2> DEFINE before == Len(Frames(SubSeq(ms, 1, k)))
             m == ms[k + 1]
             b == Len(buf[s])
  <2>1. /\ k < Len(ms) /\ need[s] = Len(m)
        /\ \A j \in 1 .. b : buf[s][j] = m[j]
        /\ taken[s] = before + 4 + b
    BY <1>5, <1>7 DEF InAt
  <2>2. /\ m \in Message /\ before \in Nat
        /\ \A j \in 1 .. 4 + Len(m) :
             before + j <= Len(wire[o]) => wire[o][before + j] = Frame(m)[j]
    <3>1. k \in 0 .. Len(sent[o]) - 1
      BY <1>6, <2>1
    <3> QED BY <1>1, <1>6, <3>1, FrameOnWire
  <2>3. b \in Nat /\ Len(m) \in Nat /\ b + n <= Len(m)
    <3>1. Len(m) \in Nat
      BY <2>2, LengthReadsBack
    <3> HIDE DEF m
    <3> QED BY <1>1, <1>3, <2>1, <3>1
  <2> HIDE DEF before, m, b
  <2>4. \A j \in 1 .. Len(m) : Frame(m)[4 + j] = m[j]
    BY <2>2, FrameProperties
  <2>5. ASSUME NEW j \in 1 .. n PROVE Arrived(s, n)[j] = m[b + j]
    <3>1. 4 + (b + j) \in 1 .. 4 + Len(m) /\ b + j \in 1 .. Len(m)
      BY <1>3, <2>3
    <3>2. before + (4 + (b + j)) = taken[s] + j
      BY <2>1, <2>2, <2>3
    <3>3. taken[s] + j <= Len(wire[o])
      BY <1>1, <1>3, <1>4
    <3>4. wire[o][before + (4 + (b + j))] = Frame(m)[4 + (b + j)]
      BY <2>2, <3>1, <3>2, <3>3
    <3>5. Arrived(s, n)[j] = wire[o][taken[s] + j]
      BY <1>4
    <3> QED BY <2>4, <3>1, <3>2, <3>4, <3>5
  <2>6. /\ Len(buf'[s]) = b + n
        /\ \A i \in 1 .. b + n : buf'[s][i] =
             IF i <= b THEN buf[s][i] ELSE Arrived(s, n)[i - b]
    <3> DEFINE x == buf[s]
               y == Arrived(s, n)
    <3>1. x \in Seq(Byte) /\ y \in Seq(Byte) /\ Len(x) = b /\ Len(y) = n
      BY <1>1, <1>4 DEF b
    <3>2. /\ Len(x \o y) = Len(x) + Len(y)
          /\ \A i \in 1 .. Len(x) + Len(y) :
               (x \o y)[i] = IF i <= Len(x) THEN x[i] ELSE y[i - Len(x)]
      BY <3>1, ConcatProperties
    <3> HIDE DEF x, y
    <3>3. /\ Len(x \o y) = b + n
          /\ \A i \in 1 .. b + n : (x \o y)[i] = IF i <= b THEN x[i] ELSE y[i - b]
      BY <3>1, <3>2
    <3> QED BY <1>5, <3>3 DEF x, y
  <2>7. ASSUME NEW i \in 1 .. b + n PROVE buf'[s][i] = m[i]
    <3>1. CASE i <= b
      BY <2>1, <2>3, <2>6, <3>1
    <3>2. CASE ~ (i <= b)
      <4>1. i - b \in 1 .. n /\ b + (i - b) = i
        BY <1>3, <2>3, <3>2
      <4>2. buf'[s][i] = Arrived(s, n)[i - b]
        BY <2>6, <3>2
      <4> QED BY <2>5, <4>1, <4>2
    <3> QED BY <3>1, <3>2
  <2>8. taken'[s] = before + 4 + Len(buf'[s])
    BY <1>3, <1>5, <2>1, <2>2, <2>3, <2>6
  <2>9. /\ k < Len(ms) /\ need'[s] = Len(m) /\ Len(buf'[s]) <= need'[s]
        /\ \A j \in 1 .. Len(buf'[s]) : buf'[s][j] = m[j]
    BY <1>5, <2>1, <2>3, <2>6, <2>7
  <2>10. ((delivered'[s] \o got'[s]) \o drem'[s]) \o Bytes(incoming'[s])
          = Bytes(SubSeq(ms, 1, k))
    BY <1>5, <1>7 DEF InAt
  <2> QED BY <1>5, <2>8, <2>9, <2>10 DEF InAt, before, m
<1>8. ~cut'[s] => \E k \in 0 .. Len(ms) : InAt(s, ms, k)'
  BY <1>5, <1>6, <1>7 DEF StreamIn
<1>9. taken'[s] <= Len(wire[o])
  BY <1>4, <1>5
<1> QED BY <1>6, <1>8, <1>9, StreamInIf

LEMMA PutChunkStreams ==
  ASSUME TypeOK, NEW s \in Sides, StreamIn(s), OtherStands(s), PutChunk(s)
  PROVE  StreamIn(s)'
<1> USE DEF userVars, sendVars
<1>1. /\ Other(s) \in Sides /\ sent[Other(s)] \in Seq(Message)
      /\ incoming[s] \in Seq(Seq(Byte)) /\ buf[s] \in Seq(Byte)
  <2>1. Other(s) \in Sides
    BY OtherSide
  <2> QED BY <2>1 DEF TypeOK
<1>2. /\ rcv[s] = "body" /\ Len(buf[s]) = need[s]
      /\ incoming'[s] = Append(incoming[s], buf[s]) /\ rcv'[s] = "header"
      /\ UNCHANGED <<delivered, got, drem, taken, cut>>
  BY DEF PutChunk, TypeOK
<1>3. PICK ms \in Seq(Message) : ms = sent[Other(s)]
  BY <1>1
<1>4. ASSUME NEW k \in 0 .. Len(ms), InAt(s, ms, k)
      PROVE  k + 1 \in 0 .. Len(ms) /\ InAt(s, ms, k + 1)'
  <2> DEFINE before == Len(Frames(SubSeq(ms, 1, k)))
             m == ms[k + 1]
             held == (delivered[s] \o got[s]) \o drem[s]
             waiting == Bytes(incoming[s])
             first == Bytes(SubSeq(ms, 1, k))
  <2>1. /\ k < Len(ms) /\ need[s] = Len(m)
        /\ \A j \in 1 .. Len(buf[s]) : buf[s][j] = m[j]
        /\ taken[s] = before + 4 + Len(buf[s])
        /\ held \o waiting = first
    BY <1>2, <1>4 DEF InAt
  <2>2. k \in 0 .. Len(ms) - 1 /\ k + 1 \in 0 .. Len(ms) /\ m \in Message
    BY <2>1
  <2>3. m \in Seq(Byte)
    BY <2>2, LengthReadsBack
  <2>4. buf[s] = m
    <3> HIDE DEF m
    <3> QED BY <1>1, <1>2, <2>1, <2>3, SeqEqual
  <2>5. Len(Frames(SubSeq(ms, 1, k + 1))) = before + 4 + Len(m)
    BY <2>2, FrameInStream
  <2>6. Bytes(SubSeq(ms, 1, k + 1)) = first \o m
    BY <2>2, MessagesAreBytes, FlattenNextMember DEF Bytes
  <2>7. Bytes(incoming'[s]) = waiting \o m
    BY <1>1, <1>2, <2>4, FlattenAppend DEF Bytes
  <2>8. held \in Seq(Byte) /\ waiting \in Seq(Byte)
    BY <1>1, FlattenType DEF TypeOK, Bytes
  <2>9. (delivered'[s] \o got'[s]) \o drem'[s] = held
    BY <1>2
  <2>10. taken'[s] = Len(Frames(SubSeq(ms, 1, k + 1)))
    BY <1>2, <2>1, <2>4, <2>5
  <2> HIDE DEF held, waiting, first, m, before
  <2>11. held \o (waiting \o m) = first \o m
    BY <2>1, <2>3, <2>8, BytesAssociate, ZenonT(30)
  <2>12. ((delivered'[s] \o got'[s]) \o drem'[s]) \o Bytes(incoming'[s])
          = Bytes(SubSeq(ms, 1, k + 1))
    BY <2>6, <2>7, <2>9, <2>11
  <2> QED BY <1>2, <2>2, <2>10, <2>12 DEF InAt
<1>5. ~cut'[s] => \E k \in 0 .. Len(ms) : InAt(s, ms, k)'
  BY <1>2, <1>3, <1>4 DEF StreamIn
<1>6. taken'[s] <= Len(wire[Other(s)])
  BY <1>2 DEF StreamIn
<1> QED BY <1>3, <1>5, <1>6, StreamInIf

(* A body never ends early: a side that has closed, while the other has    *)
(* not, has everything it sent on the wire.                                *)
LEMMA ClosedFlushed ==
  ASSUME TypeOK, NEW o \in Sides, Stages(o), StreamOut(o), Closed(o),
         ~Closed(Other(o))
  PROVE  wire[o] = Frames(sent[o])
<1>1. snd[o] = "done" /\ unwritten[o] = <<>>
  BY DEF Closed, Stages
<1>2. PICK q \in Seq(Message) :
        /\ snd[o] = "done" => q = <<>>
        /\ ~Closed(Other(o)) =>
             (wire[o] \o unwritten[o]) \o Frames(q) = Frames(sent[o])
  BY DEF StreamOut
<1>3. q = <<>> /\ wire[o] \in Seq(Byte)
  BY <1>1, <1>2 DEF TypeOK
<1>4. (wire[o] \o <<>>) \o <<>> = wire[o]
  BY <1>3, ConcatEmptySeq
<1> QED BY <1>1, <1>2, <1>3, <1>4, FramesEmpty

LEMMA BodyHangupStreams ==
  ASSUME PeerInv, NEW s \in Sides, OtherStands(s), BodyHangup(s)
  PROVE  StreamIn(s)'
<1> USE DEF userVars, sendVars
<1> DEFINE o == Other(s)
<1>1. /\ o \in Sides /\ Other(o) = s /\ TypeOK /\ StreamIn(s) /\ Stages(s)
      /\ StreamOut(o) /\ Stages(o)
  BY OtherSide DEF PeerInv
<1>2. /\ rcv[s] = "body" /\ Len(buf[s]) < need[s] /\ Closed(o) /\ Available(s) = 0
      /\ taken' = taken /\ cut' = cut
  BY DEF BodyHangup, HungUp
<1>3. /\ sent[o] \in Seq(Message) /\ wire[o] \in Seq(Byte) /\ buf[s] \in Seq(Byte)
      /\ taken[s] \in Nat /\ need[s] \in Nat
  BY <1>1 DEF TypeOK
<1>4. ~Closed(s)
  BY <1>1, <1>2 DEF Stages, Closed
<1>5. wire[o] = Frames(sent[o])
  BY <1>1, <1>2, <1>4, ClosedFlushed
<1>6. taken[s] = Len(wire[o])
  BY <1>1, <1>2, <1>3 DEF Available, Unread
<1>7. PICK ms \in Seq(Message) : ms = sent[o]
  BY <1>3
<1>8. ASSUME NEW k \in 0 .. Len(ms), InAt(s, ms, k) PROVE FALSE
  <2> DEFINE before == Len(Frames(SubSeq(ms, 1, k)))
             m == ms[k + 1]
  <2>1. k < Len(ms) /\ need[s] = Len(m) /\ taken[s] = before + 4 + Len(buf[s])
    BY <1>2, <1>8 DEF InAt
  <2>2. before \in Nat /\ before + 4 + Len(m) <= Len(Frames(ms))
    <3>1. k \in 0 .. Len(ms) - 1
      BY <2>1
    <3> QED BY <3>1, FrameInStream
  <2> HIDE DEF before, m
  <2>3. taken[s] = Len(Frames(ms))
    BY <1>5, <1>6, <1>7
  <2>4. Len(buf[s]) \in Nat
    BY <1>3
  <2>5. Len(m) \in Nat
    BY <1>3, <2>1
  <2>6. Len(buf[s]) < Len(m)
    BY <1>2, <2>1
  <2>7. before + 4 + Len(buf[s]) = Len(Frames(ms))
    BY <2>1, <2>3
  <2>8. \A a, b, c \in Nat : \A d : b < c /\ a + 4 + b = d => ~(a + 4 + c <= d)
    OBVIOUS
  <2> QED BY <2>2, <2>4, <2>5, <2>6, <2>7, <2>8
<1>9. ~cut'[s] => \E k \in 0 .. Len(ms) : InAt(s, ms, k)'
  BY <1>1, <1>2, <1>7, <1>8 DEF StreamIn
<1>10. taken'[s] <= Len(wire[o])
  BY <1>1, <1>2 DEF StreamIn
<1> QED BY <1>7, <1>9, <1>10, StreamInIf

LEMMA StreamInStep ==
  ASSUME PeerInv, NEW s \in Sides, NEW t \in Sides, SideSteps(t)
  PROVE  StreamIn(s)'
<1> USE DEF userVars, sendVars
<1> DEFINE o == Other(s)
<1>1. /\ o \in Sides /\ o # s /\ TypeOK /\ Stages(s) /\ StreamIn(s)
      /\ StreamOut(o)
  BY OtherSide DEF PeerInv
<1>2. CASE s # t
  <2>1. t = o
    BY <1>2, OtherSide
  <2>2. Untouched(s) /\ Grows(o)
    BY <1>1, <1>2, <2>1, OneSideMoves, StreamsGrow
  <2>3. InUntouched(s)
    BY <2>2 DEF Untouched, InUntouched
  <2> QED BY <1>1, <2>2, <2>3, InKept
<1>3. CASE s = t
  <2>1. Untouched(o)
    BY <1>1, <1>3, OneSideMoves
  <2>2. OtherStands(s)
    BY <2>1 DEF OtherStands, Untouched
  <2>3. Grows(o)
    <3>1. <<>> \in Seq(Byte) /\ wire[o] \o <<>> = wire[o]
      BY <1>1, ConcatEmptySeq DEF TypeOK
    <3> QED BY <2>1, <3>1 DEF Untouched, Grows, Closed
  <2>4. CASE ReceiveRest(s)
    <3>1. drem[s] \in Seq(Byte) /\ Bytes(incoming[s]) \in Seq(Byte)
      BY <1>1, FlattenType DEF TypeOK, Bytes
    <3>2. Consume(s, drem[s]) /\ incoming' = incoming /\ UNCHANGED recvVars
      BY <2>4 DEF ReceiveRest
    <3> QED BY <1>1, <2>2, <3>1, <3>2, ConsumeStreams
  <2>5. CASE ReceiveChunk(s)
    <3>1. /\ drem[s] = <<>> /\ incoming[s] # <<>> /\ Consume(s, Head(incoming[s]))
          /\ incoming'[s] = Tail(incoming[s]) /\ UNCHANGED recvVars
          /\ incoming[s] \in Seq(Seq(Byte))
      BY <1>1, <2>5 DEF ReceiveChunk, TypeOK
    <3>2. Head(incoming[s]) \in Seq(Byte) /\ Tail(incoming[s]) \in Seq(Seq(Byte))
      BY <3>1
    <3>3. Bytes(Tail(incoming[s])) \in Seq(Byte) /\ Bytes(incoming[s]) \in Seq(Byte)
      BY <3>1, <3>2, FlattenType DEF Bytes
    <3>4. Bytes(incoming[s]) = Head(incoming[s]) \o Bytes(Tail(incoming[s]))
      BY <3>1, FlattenHeadTail DEF Bytes
    <3>5. drem[s] \o Bytes(incoming[s]) = Bytes(incoming[s])
      BY <3>1, <3>3, ConcatEmptySeq
    <3>6. /\ drem[s] \o Bytes(incoming[s])
               = Head(incoming[s]) \o Bytes(Tail(incoming[s]))
          /\ Bytes(incoming'[s]) = Bytes(Tail(incoming[s]))
      BY <3>1, <3>4, <3>5
    <3> QED BY <1>1, <2>2, <3>1, <3>2, <3>3, <3>6, ConsumeStreams
  <2>6. CASE SeeDie(s) \/ HeaderHangup(s)
    <3>1. /\ rcv'[s] = "done"
          /\ UNCHANGED <<delivered, got, drem, incoming, taken, need, buf, cut>>
      BY <1>1, <2>6 DEF SeeDie, HeaderHangup, TypeOK
    <3>2. PICK ms : ms = sent[o]
      OBVIOUS
    <3>3. ASSUME NEW k, InAt(s, ms, k) PROVE InAt(s, ms, k)'
      BY <3>1, <3>3 DEF InAt
    <3>4. ~cut'[s] => \E k \in 0 .. Len(ms) : InAt(s, ms, k)'
      BY <1>1, <3>1, <3>2, <3>3 DEF StreamIn
    <3>5. taken'[s] <= Len(wire[o])
      BY <1>1, <3>1 DEF StreamIn
    <3> QED BY <2>2, <3>2, <3>4, <3>5, StreamInIf
  <2>7. CASE ReadHeader(s)
    BY <1>1, <2>2, <2>7, ReadHeaderStreams
  <2>8. CASE ReadShortHeader(s)
    <3>1. PICK n \in 1 .. Min({3, Available(s)}) : taken' = [taken EXCEPT ![s] = @ + n]
      BY <2>8 DEF ReadShortHeader
    <3>2. n \in Nat /\ n <= Available(s)
      BY <1>1, AtMostAvailable
    <3>3. taken'[s] = taken[s] + n /\ cut'[s] = TRUE
      BY <1>1, <2>8, <3>1 DEF ReadShortHeader, TypeOK
    <3>4. taken'[s] <= Len(wire[o])
      BY <1>1, <3>2, <3>3, ArrivedBytes
    <3>5. PICK ms : ms = sent[o]
      OBVIOUS
    <3> QED BY <2>2, <3>3, <3>4, <3>5, StreamInIf
  <2>9. CASE ReadBody(s)
    BY <1>1, <2>2, <2>9, ReadBodyStreams
  <2>10. CASE BodyHangup(s)
    BY <2>2, <2>10, BodyHangupStreams
  <2>11. CASE PutChunk(s)
    BY <1>1, <2>2, <2>11, PutChunkStreams
  <2>12. CASE \E n \in Nat : CallReceive(s, n)
    <3>1. /\ got[s] = <<>> /\ got'[s] = <<>>
          /\ UNCHANGED <<delivered, drem, incoming, rcv, taken, need, buf, cut>>
      BY <1>1, <2>12 DEF CallReceive, Stages, TypeOK, recvVars
    <3>2. InUntouched(s)
      BY <3>1 DEF InUntouched
    <3> QED BY <1>1, <2>3, <3>2, InKept
  <2>13. CASE \/ \E m \in Message : Send(s, m)
              \/ Destroy(s) \/ PutDie(s) \/ JoinSender(s) \/ JoinReceiver(s)
              \/ GetItem(s) \/ Write(s) \/ WriteFails(s)
    <3>1. UNCHANGED <<delivered, got, drem, incoming, rcv, taken, need, buf, cut>>
      BY <2>13 DEF Send, Destroy, PutDie, JoinSender, JoinReceiver, GetItem,
         Write, WriteFails, recvVars
    <3>2. InUntouched(s)
      BY <3>1 DEF InUntouched
    <3> QED BY <1>1, <2>3, <3>2, InKept
  <2> QED BY <1>3, <2>4, <2>5, <2>6, <2>7, <2>8, <2>9, <2>10, <2>11, <2>12, <2>13
          DEF SideSteps
<1> QED BY <1>2, <1>3
-----------------------------------------------------------------------------
LEMMA InvStep ==
  ASSUME PeerInv, [Next]_<<vars, traffic>>
  PROVE  PeerInv'
<1>1. TypeOK
  BY DEF PeerInv
<1>2. traffic' = traffic /\ ((\E t \in Sides : SideSteps(t)) \/ UNCHANGED vars)
  BY <1>1, NextSteps
<1>3. ASSUME NEW t \in Sides, SideSteps(t) PROVE PeerInv'
  <2>1. TypeOK'
    BY <1>1, <1>2, <1>3, TypeStep
  <2>2. \A s \in Sides : Stages(s)' /\ StreamOut(s)' /\ StreamIn(s)'
    BY <1>3, StagesStep, StreamOutStep, StreamInStep
  <2> QED BY <2>1, <2>2 DEF PeerInv
<1>4. CASE UNCHANGED vars
  <2> USE <1>4 DEF vars, userVars, sendVars, recvVars
  <2>1. TypeOK'
    BY <1>1, <1>2 DEF TypeOK
  <2>2. ASSUME NEW s \in Sides PROVE Stages(s)'
    BY DEF PeerInv, Stages
  <2>3. ASSUME NEW s \in Sides PROVE StreamOut(s)'
    BY DEF PeerInv, StreamOut, DieQueued, Closed
  <2>4. ASSUME NEW s \in Sides PROVE StreamIn(s)'
    BY DEF PeerInv, StreamIn, InAt
  <2> QED BY <2>1, <2>2, <2>3, <2>4 DEF PeerInv
<1> QED BY <1>2, <1>3, <1>4

(* The threads of the two peers keep to the order of their shutdown, and   *)
(* every byte sent is accounted for on its way.                            *)
THEOREM PeersKeepStreams == Spec => []PeerInv
BY InitInv, InvStep, PTL DEF Spec

LEMMA InvInOrder == PeerInv => InOrder
<1> SUFFICES ASSUME PeerInv, NEW s \in Sides, ~cut[s] PROVE ReceivedPrefix(s)
  BY DEF InOrder
<1> DEFINE o == Other(s)
           d == ((delivered[s] \o got[s]) \o drem[s]) \o Bytes(incoming[s])
<1>1. o \in Sides /\ TypeOK /\ StreamIn(s)
  BY OtherSide DEF PeerInv
<1>2. PICK k \in 0 .. Len(sent[o]) : InAt(s, sent[o], k)
  BY <1>1 DEF StreamIn
<1>3. PICK ms \in Seq(Message) : ms = sent[o]
  BY <1>1 DEF TypeOK
<1>4. d = Bytes(SubSeq(ms, 1, k))
  BY <1>2, <1>3 DEF InAt
<1>5. ms \in Seq(Seq(Byte)) /\ k \in 0 .. Len(ms)
  BY <1>2, <1>3, MessagesAreBytes
<1>6. /\ SubSeq(ms, 1, k) \in Seq(Seq(Byte))
      /\ SubSeq(ms, k + 1, Len(ms)) \in Seq(Seq(Byte))
  BY <1>5, CutInTwo
<1>7. Bytes(ms) = d \o Bytes(SubSeq(ms, k + 1, Len(ms)))
  BY <1>4, <1>5, FlattenCut DEF Bytes
<1>8. d \in Seq(Byte) /\ Bytes(SubSeq(ms, k + 1, Len(ms))) \in Seq(Byte)
  BY <1>4, <1>6, FlattenType DEF Bytes
<1> HIDE DEF d
<1>9. IsPrefix(d, Bytes(ms))
  BY <1>7, <1>8, PrefixOfConcat
<1> QED BY <1>3, <1>9 DEF ReceivedPrefix, d

(* However the network cuts the stream, whatever lengths are asked for and *)
(* whatever either side does meanwhile: what a user receives is a prefix   *)
(* of what the other user sent.                                            *)
THEOREM ReceivedInOrder == Spec => []InOrder
BY PeersKeepStreams, InvInOrder, PTL

LEMMA InvFraming == PeerInv => KeepsFraming
<1> SUFFICES ASSUME PeerInv, NEW s \in Sides, ~cut[s], rcv[s] = "header"
             PROVE  \E k \in 0 .. Len(sent[Other(s)]) :
                      taken[s] = Len(Frames(SubSeq(sent[Other(s)], 1, k)))
  BY DEF KeepsFraming
<1>1. PICK k \in 0 .. Len(sent[Other(s)]) : InAt(s, sent[Other(s)], k)
  BY DEF PeerInv, StreamIn
<1> QED BY <1>1 DEF InAt

(* The receiver never mistakes the bytes of a message for a length.        *)
THEOREM FramingIsKept == Spec => []KeepsFraming
BY PeersKeepStreams, InvFraming, PTL

LEMMA InvFlushes == PeerInv => CloseFlushes
BY ClosedFlushed DEF PeerInv, CloseFlushes

(* Destroying a peer drops nothing that was sent before, unless the other  *)
(* side has closed first.                                                  *)
THEOREM DestroyFlushes == Spec => []CloseFlushes
BY PeersKeepStreams, InvFlushes, PTL
=============================================================================
