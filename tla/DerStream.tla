------------------------------- MODULE DerStream -------------------------------
(***************************************************************************)
(* The stream reader of common/encoding/src/encoding/der.c                 *)
(* (DerInputStream): calls take bytes one by one out of a cyclic buffer,   *)
(* which is filled from the descriptor when it is empty, and keep count of *)
(* the bytes of each open sequence, so that one can be left before its end.*)
(*                                                                         *)
(* A reader asks for an item only where there is one, and for an integer   *)
(* only where there is an integer: read_int keeps a wrong tag it has       *)
(* taken, and a call behind the end of a sequence takes bytes of what      *)
(* follows.                                                                *)
(***************************************************************************)
EXTENDS Der

CONSTANTS CYCLIC_BUF_SIZ,     \* 8192 in the code
          Chunks              \* the most bytes one read delivers

VARIABLES ring,       \* the cyclic buffer and what the descriptor still holds
          seqs,       \* the open sequences: offset, length, lenlen
          answer,     \* history: what the last call returned, and should have
          place       \* history: what is still to come in each sequence

streamVars == <<ring, seqs, answer, place>>

Answer(rc, value) == [rc |-> rc, value |-> value]
NoAnswer == [got |-> Answer("ok", 0), want |-> Answer("ok", 0)]

DerInputStream_New ==
  /\ ring = [cbuf |-> [i \in 0 .. CYCLIC_BUF_SIZ - 1 |-> 0], cbuf_start |-> 0,
             cbuf_len |-> 0, unread |-> <<>>, chunk |-> 0]
  /\ seqs = <<>> /\ answer = NoAnswer /\ place = <<>>
----------------------------------------------------------------------------
(* The ring: fill it when it is empty, take bytes one by one, give one     *)
(* back.                                                                   *)

Fill(r) ==
  LET k == Min({CYCLIC_BUF_SIZ, r.chunk, Len(r.unread)})
      nth(i) == ((i + CYCLIC_BUF_SIZ - r.cbuf_start) % CYCLIC_BUF_SIZ) + 1
  IN  IF r.cbuf_len > 0 THEN r
      ELSE [r EXCEPT !.cbuf = [i \in DOMAIN @ |-> IF nth(i) <= k THEN r.unread[nth(i)]
                                                  ELSE @[i]],
                     !.cbuf_len = k,
                     !.unread = SubSeq(@, k + 1, Len(@))]

(* n bytes, or as many as there are.                                       *)
TakeOne(taken) ==
  LET full == Fill(taken.ring) IN
  IF full.cbuf_len = 0 THEN [taken EXCEPT !.ok = FALSE, !.ring = full]
  ELSE [taken EXCEPT !.ring = [full EXCEPT !.cbuf_start = (@ + 1) % CYCLIC_BUF_SIZ,
                                           !.cbuf_len = @ - 1],
                     !.bytes = Append(@, full.cbuf[full.cbuf_start])]

CyclicTake(r, n) == FoldLeft(LAMBDA taken, i : TakeOne(taken),
                             [ok |-> TRUE, ring |-> r, bytes |-> <<>>],
                             [i \in 1 .. n |-> i])

(* The index is unsigned and the size a power of two.                      *)
CyclicRewind(r) ==
  [r EXCEPT !.cbuf_len = @ + 1,
            !.cbuf_start = (@ + CYCLIC_BUF_SIZ - 1) % CYCLIC_BUF_SIZ]

(* A tag and a length: the tag, the length, and the bytes it took.         *)
ReadThelen(r) ==
  LET one == CyclicTake(r, 2)
      more == CyclicTake(one.ring, one.bytes[2] - Long)
  IN  IF ~one.ok THEN [ok |-> FALSE, ring |-> one.ring, len |-> 0, lenlen |-> 1]
      ELSE IF one.bytes[2] <= Long
      THEN [ok |-> TRUE, ring |-> one.ring, len |-> one.bytes[2], lenlen |-> 1]
      ELSE [ok |-> more.ok, ring |-> more.ring, len |-> Number(more.bytes),
            lenlen |-> one.bytes[2] - Long + 1]
----------------------------------------------------------------------------
Streaming == phase = "stream" /\ UNCHANGED derVars

StreamOpen(chunk) == /\ Streaming /\ place = <<>>
                     /\ ring' = [ring EXCEPT !.unread = data, !.chunk = chunk]
                     /\ place' = <<tree[1]>>
                     /\ UNCHANGED <<seqs, answer>>

Expected == Head(Last(place))
Expecting == Streaming /\ place # <<>> /\ Last(place) # <<>>
Advance == ReplaceAt(place, Len(place), Tail(Last(place)))

Tag == CyclicTake(ring, 1)
TagIs(tag) == Tag.ok /\ Tag.bytes[1] = tag
GiveBack == IF Tag.ok THEN CyclicRewind(Tag.ring) ELSE Tag.ring

Rc(ok) == IF ok THEN "ok" ELSE "bad data"
Answers(got, want) == answer' = [got |-> got, want |-> want]

PeekTag == /\ Expecting
           /\ ring' = GiveBack
           /\ Answers(Answer(Rc(Tag.ok), IF Tag.ok THEN Tag.bytes[1] ELSE 0),
                      Answer("ok", Expected.type))
           /\ UNCHANGED <<seqs, place>>

(* begin_seq and read_str give a wrong tag back.                           *)
WrongTag(tag, none) == /\ Expecting /\ ~TagIs(tag)
                       /\ ring' = GiveBack
                       /\ Answers(Answer("bad data", none),
                                  Answer(Rc(Expected.type = tag), none))
                       /\ UNCHANGED <<seqs, place>>

BeginSeq ==
  LET header == ReadThelen(ring) IN
  /\ Expecting /\ TagIs(SEQ)
  /\ ring' = header.ring
  /\ seqs' = IF header.ok
             THEN Append(seqs, [offset |-> 0, length |-> header.len, lenlen |-> header.lenlen])
             ELSE seqs
  /\ place' = IF Expected.type = SEQ THEN Append(Advance, Expected.value) ELSE place
  /\ Answers(Answer(Rc(header.ok), 0), Answer(Rc(Expected.type = SEQ), 0))

(* What fits into the sequence around it is counted in it.                 *)
Fits(len) == seqs = <<>> \/ Last(seqs).length - Last(seqs).offset >= len
Count(stack, n) == IF stack = <<>> THEN stack
                   ELSE ReplaceAt(stack, Len(stack), [Last(stack) EXCEPT !.offset = @ + n])

ReadStr ==
  LET header == ReadThelen(ring)
      counted == header.ok /\ Fits(header.len)
      body == CyclicTake(header.ring, header.len)
      ok == counted /\ body.ok
  IN  /\ Expecting /\ TagIs(OCTET_STR_P)
      /\ ring' = IF counted THEN body.ring ELSE header.ring
      /\ seqs' = IF counted THEN Count(seqs, header.len + 1 + header.lenlen) ELSE seqs
      /\ place' = Advance
      /\ Answers(Answer(Rc(ok), IF ok THEN body.bytes ELSE <<>>),
                 IF Expected.type = OCTET_STR_P THEN Answer("ok", Expected.value)
                 ELSE Answer("bad data", <<>>))

ReadInt ==
  LET header == CyclicTake(ring, 2)
      counted == header.ok /\ header.bytes = <<INT_P, 4>> /\ Fits(4)
      body == CyclicTake(header.ring, 4)
      ok == counted /\ body.ok
  IN  /\ Expecting /\ Expected.type = INT_P
      /\ ring' = IF counted THEN body.ring ELSE header.ring
      /\ seqs' = IF counted THEN Count(seqs, 4 + 1 + 1) ELSE seqs
      /\ place' = Advance
      /\ Answers(Answer(Rc(ok), IF ok THEN B2I(body.bytes) ELSE 0), Answer("ok", Expected.value))

\* Mutant of LeaveSeq: the bytes of the length are not counted.
LeaveSeq_ForgetsLenlen ==
  LET ent == Last(seqs)
      rest == CyclicTake(ring, ent.length - ent.offset)
  IN  /\ Streaming /\ seqs # <<>>
      /\ ring' = rest.ring
      /\ seqs' = Count(Front(seqs), ent.length + 1)
      /\ place' = Front(place)
      /\ Answers(Answer(Rc(rest.ok), 0), Answer("ok", 0))

(* leave_seq skips what is left of the sequence and counts it in the one   *)
(* around it.                                                              *)
LeaveSeq ==
  LET ent == Last(seqs)
      rest == CyclicTake(ring, ent.length - ent.offset)
  IN  /\ Streaming /\ seqs # <<>>
      /\ ring' = rest.ring
      /\ seqs' = Count(Front(seqs), ent.length + ent.lenlen + 1)
      /\ place' = Front(place)
      /\ Answers(Answer(Rc(rest.ok), 0), Answer("ok", 0))

StreamRead == \/ \E chunk \in Chunks : StreamOpen(chunk)
              \/ PeekTag
              \/ WrongTag(SEQ, 0)
              \/ WrongTag(OCTET_STR_P, <<>>)
              \/ BeginSeq \/ ReadStr \/ ReadInt \/ LeaveSeq

(* However the descriptor cuts the bytes and wherever the reader leaves a  *)
(* sequence, every call returns the item that was written at its place,    *)
(* and nothing is left when the outermost sequence has been left.          *)
StreamReadsBack == /\ answer.got = answer.want
                   /\ place = << <<>> >> => ring.cbuf_len = 0 /\ ring.unread = <<>>

(* What was encoded comes back by either reader.                           *)
EncodingReadsBack == ContextReadsBack /\ StreamReadsBack
=============================================================================
