---------------------------------- MODULE Der ----------------------------------
(***************************************************************************)
(* common/encoding/src/encoding/der.c: trees of integers, strings and      *)
(* sequences are written into one buffer and read back from it by contexts *)
(* (DerCtx).  DerStream reads the same bytes from a descriptor.            *)
(*                                                                         *)
(* Bytes are numbers.  A length below Long takes one byte, a longer one    *)
(* its digits to the base Radix behind Long plus their number; 128 and 256 *)
(* in the code.                                                            *)
(***************************************************************************)
EXTENDS IntEncoding, SequencesExt

CONSTANTS Ints, Strings,          \* what may be written
          MaxItems, MaxDepth,     \* bounds on a tree
          Long, Radix,
          Stray                   \* the byte behind a buffer: undefined

ASSUME DerAssumption == Long > 6 /\ Radix = 2 * Long /\ Stray \in 0 .. Radix - 1

INT_P == 2
OCTET_STR_P == 4
SEQ == 48

Item(type, value) == [type |-> type, value |-> value]

VARIABLES phase,      \* "write", "context", "stream", ...
          tree,       \* history: the items put into each open context
          items,      \* history: how many there are
          subs,       \* DerCtx: the encoded items of each, outermost first
          data,       \* what der_final wrote
          reading,    \* the contexts read, outermost first
          here        \* history: the sequences they stand for

writeVars == <<tree, items, subs, data>>
contextVars == <<reading, here>>
derVars == <<phase, writeVars, contextVars>>
----------------------------------------------------------------------------
(* len_len and get_len                                                     *)

Digits(n) == CHOOSE k \in 1 .. 4 : Radix ^ (k - 1) <= n /\ n < Radix ^ k

LenBytes(n) ==
  IF n < Long THEN <<n>>
  ELSE LET k == Digits(n)
       IN  <<Long + k>> \o [i \in 1 .. k |-> (n \div Radix ^ (k - i)) % Radix]

Number(digits) ==
  LET k == Len(digits)
      upto[i \in 0 .. k] == IF i = 0 THEN 0 ELSE Radix * upto[i - 1] + digits[i]
  IN  upto[k]

(* The length that stands in a buffer behind off bytes, and the offset     *)
(* behind it; where nothing is left, the byte behind the buffer is read.   *)
(* The byte Long itself, which len_len never writes, is neither short nor  *)
(* long.                                                                   *)
GetLen(buf, off) ==
  IF off > Len(buf) THEN [ok |-> FALSE, len |-> 0, off |-> off]
  ELSE LET first == IF off = Len(buf) THEN Stray ELSE buf[off + 1] IN
       CASE first < Long -> [ok |-> TRUE, len |-> first, off |-> off + 1]
         [] first = Long -> [ok |-> TRUE, len |-> 0, off |-> off]
         [] first > Long ->
              LET end == off + 1 + (first - Long)
              IN  IF Len(buf) < end THEN [ok |-> FALSE, len |-> 0, off |-> off]
                  ELSE [ok |-> TRUE, len |-> Number(SubSeq(buf, off + 2, end)), off |-> end]
----------------------------------------------------------------------------
(* Writing: der_begin, der_insert_..., der_begin_seq, der_end_seq,         *)
(* der_final.                                                              *)

EncodeInteger(v) == <<INT_P, 4>> \o I2B(v)
EncodeOctetstring(s) == <<OCTET_STR_P>> \o LenBytes(Len(s)) \o s
EncodeSeq(payload) == <<SEQ>> \o LenBytes(Len(payload)) \o payload

DerBegin == /\ phase = "write"
            /\ tree = << <<>> >> /\ items = 0
            /\ subs = << <<>> >> /\ data = <<>>
            /\ reading = <<>> /\ here = <<>>

Writing == phase = "write" /\ UNCHANGED <<phase, data, contextVars>>

(* One more item for the innermost context.                                *)
With(stack, x) == ReplaceAt(stack, Len(stack), Append(Last(stack), x))

Insert(item, encoded) == /\ Writing
                         /\ items < MaxItems /\ Len(subs) > 1
                         /\ items' = items + 1
                         /\ tree' = With(tree, item)
                         /\ subs' = With(subs, encoded)

DerInsertUint(v) == Insert(Item(INT_P, v), EncodeInteger(v))
DerInsertOctetstring(s) == Insert(Item(OCTET_STR_P, s), EncodeOctetstring(s))

(* The outermost context gets one sequence here: a reader takes what comes *)
(* behind a sequence for more of its items.                                *)
DerBeginSeq == /\ Writing
               /\ items < MaxItems /\ Len(subs) <= MaxDepth
               /\ Len(subs) = 1 => subs = << <<>> >>
               /\ items' = items + 1
               /\ tree' = Append(tree, <<>>)
               /\ subs' = Append(subs, <<>>)

(* A closed sequence is one more item of the context around it.            *)
DerEndSeq == /\ Writing
             /\ Len(subs) > 1
             /\ tree' = With(Front(tree), Item(SEQ, Last(tree)))
             /\ subs' = With(Front(subs), EncodeSeq(FlattenSeq(Last(subs))))
             /\ UNCHANGED items

DerFinal(reader) == /\ phase = "write" /\ phase' = reader
                    /\ Len(subs) = 1 /\ subs # << <<>> >>
                    /\ data' = FlattenSeq(subs[1])
                    /\ UNCHANGED <<tree, items, subs, contextVars>>

DerWrite == \/ \E v \in Ints : DerInsertUint(v)
            \/ \E s \in Strings : DerInsertOctetstring(s)
            \/ DerBeginSeq
            \/ DerEndSeq
----------------------------------------------------------------------------
(* Reading by contexts                                                     *)

(* der_decode_seq: where the items of an encoded sequence begin, as        *)
(* offsets; -1 behind the last one the buffer has room for.                *)
ItemEnd(buf, off) == LET l == GetLen(buf, off + 1) IN l.off + l.len
Behind(buf, off) == IF off = -1 \/ ~GetLen(buf, off + 1).ok \/ ItemEnd(buf, off) > Len(buf)
                    THEN -1 ELSE ItemEnd(buf, off)
Starts(buf) ==
  LET at[i \in 0 .. Len(buf)] ==
        IF i = 0 THEN GetLen(buf, 1).off ELSE Behind(buf, at[i - 1])
  IN  at

DecodeSeq(buf, start) == SubSeq(buf, start + 1, ItemEnd(buf, start))

(* The header says no more than the buffer holds.                          *)
Decodable(buf) == LET l == GetLen(buf, 1)
                  IN  /\ Len(buf) >= 2 /\ buf[1] = SEQ
                      /\ l.ok /\ Len(buf) - l.off + 1 >= l.len

(* der_begin_read counts the items until one cannot be decoded.            *)
Contents(buf) ==
  IF ~Decodable(buf) THEN <<>>
  ELSE LET at == Starts(buf)
           Readable == {i \in 0 .. Len(buf) : at[i] # -1 /\ GetLen(buf, at[i] + 1).ok}
       IN  [i \in 1 .. Cardinality(Readable) |-> DecodeSeq(buf, at[i - 1])]

Reading == phase = "context" /\ UNCHANGED <<phase, writeVars>>

DerBeginRead == /\ Reading /\ reading = <<>>
                /\ reading' = <<Contents(data)>>
                /\ here' = <<tree[1][1].value>>

DerEnterSeq(idx) == /\ Reading /\ reading # <<>>
                    /\ idx \in DOMAIN Last(reading)
                    /\ Last(reading)[idx][1] = SEQ
                    /\ reading' = Append(reading, Contents(Last(reading)[idx]))
                    /\ here' = Append(here, Last(here)[idx].value)

DerLeaveSeq == /\ Reading /\ Len(reading) > 1
               /\ reading' = Front(reading)
               /\ here' = Front(here)

DerRead == \/ DerBeginRead
           \/ \E idx \in 1 .. MaxItems : DerEnterSeq(idx)
           \/ DerLeaveSeq

(* What der_take_uint and der_take_octetstring make of an item.            *)
DerTakeUint(sub) == IF GetLen(sub, 1).len = 4 THEN B2I(SubSeq(sub, 3, 6)) ELSE -1
DerTakeOctetstring(sub) == LET l == GetLen(sub, 1)
                           IN  SubSeq(sub, l.off + 1, l.off + l.len)

Taken(sub, item) == /\ sub[1] = item.type
                    /\ item.type = INT_P => DerTakeUint(sub) = item.value
                    /\ item.type = OCTET_STR_P => DerTakeOctetstring(sub) = item.value

(* In whatever sequence a reader is, it finds the items that were put into *)
(* it: as many, of the same types, with the same values.                   *)
ContextReadsBack ==
  reading # <<>> =>
    /\ Len(Last(reading)) = Len(Last(here))
    /\ \A i \in DOMAIN Last(here) : Taken(Last(reading)[i], Last(here)[i])
=============================================================================
