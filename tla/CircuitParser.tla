----------------------------- MODULE CircuitParser -----------------------------
(***************************************************************************)
(* empiricalZK/rtz14/src/circuitparser.c: a listing of calls such as       *)
(* XOR(12,0,1,7); becomes the list of gates an evaluation works on.  The   *)
(* tokenizer knows keywords and numbers and skips the rest.                *)
(*                                                                         *)
(* A listing is a sequence of pieces: keywords, digits, "x" for any other  *)
(* letter, and "-" for whatever is no part of a name.                      *)
(***************************************************************************)
EXTENDS Integers, SequencesExt

CONSTANTS Noise,            \* lines that are no gates
          Numbers,          \* the addresses gates use, as digits
          MaxLines

GateKeywords == {"XOR", "AND", "INV"}
Keywords == {"MUL"} \cup GateKeywords
Numerals == <<"0", "1", "2", "3", "4", "5", "6", "7", "8", "9">>

VARIABLES state,            \* "write", "parse", "done"
          source, lines,    \* the listing, and how many lines it has
          written,          \* history: its gates, and where each is complete
          cur,              \* the tokenizer's position
          result            \* the list the parser builds

parserVars == <<state, source, lines, written, cur, result>>

CircuitParser_New == /\ state = "write"
                     /\ source = <<>> /\ lines = 0 /\ written = <<>>
                     /\ cur = 1 /\ result = <<>>
----------------------------------------------------------------------------
(* The tokenizer                                                           *)

IsDigit(p) == p \in Range(Numerals)

(* Where the digits, or the characters of names, from i on end.            *)
EndOf(i, pieces) == Min({j \in i .. Len(source) : source[j] \notin pieces}
                          \cup {Len(source) + 1})
NamePieces == Keywords \cup Range(Numerals) \cup {"x"}
Pieces == NamePieces \cup {"-"}

(* Characters: a keyword has three, the other pieces of a name one.        *)
Width(i, end) == (end - i) + 2 * Cardinality({j \in i .. end - 1 : source[j] \in Keywords})

\* Mutant of ReadName: one character too many.
ReadName_Longer(i) ==
  IF source[i] = "-" \/ IsDigit(source[i]) THEN 0 ELSE 1 + Width(i, EndOf(i, NamePieces))

(* read_name: how long the name at i is; a digit begins none.              *)
ReadName(i) ==
  IF source[i] = "-" \/ IsDigit(source[i]) THEN 0 ELSE Width(i, EndOf(i, NamePieces))

(* atoui *)
Atoui(digits) ==
  FoldLeft(LAMBDA n, d : 10 * n + (CHOOSE v \in 0 .. 9 : Numerals[v + 1] = d), 0, digits)

Token(type, num, end) == [type |-> type, num |-> num, end |-> end]

(* The token at or behind i.  Names longer than three characters are       *)
(* skipped as a whole, of shorter ones only their first characters.        *)
NextToken(i) ==
  LET token[k \in 1 .. Len(source) + 1] ==
        IF k > Len(source) THEN Token("DONE", 0, k)
        ELSE IF ReadName(k) > 3 THEN token[EndOf(k, NamePieces)]
        ELSE IF source[k] \in Keywords THEN Token(source[k], 0, k + 1)
        ELSE IF IsDigit(source[k])
          THEN LET end == EndOf(k, Range(Numerals))
               IN  Token("NUM", Atoui(SubSeq(source, k, end - 1)), end)
        ELSE token[k + 1]
  IN  token[i]
----------------------------------------------------------------------------
(* The parser                                                              *)

Gate(type, dst, op1, op2) == [type |-> type, dst |-> dst, op1 |-> op1, op2 |-> op2]

(* parseAnd and parseXor read four tokens, the last of which they ignore;  *)
(* parseInv reads two.                                                     *)
Arguments(keyword, i) ==
  LET dst == NextToken(i)
      op1 == NextToken(dst.end)
      op2 == NextToken(op1.end)
      index == NextToken(op2.end)
  IN  IF keyword = "INV" THEN <<dst, op1>> ELSE <<dst, op1, op2, index>>

Numeric(keyword, args) ==
  \A k \in 1 .. (IF keyword = "INV" THEN 2 ELSE 3) : args[k].type = "NUM"

(* An inversion is an exclusive or with the constant one, whose address is *)
(* UINT_MAX.                                                               *)
ParsedGate(keyword, args) ==
  IF keyword = "INV" THEN Gate("xor", args[1].num, -1, args[2].num)
  ELSE Gate(IF keyword = "AND" THEN "and" ELSE "xor", args[1].num, args[2].num, args[3].num)

(* One round of parseSource.  A gate that cannot be parsed ends it, with   *)
(* the gates so far as its result.                                         *)
ParseSource ==
  LET tok == NextToken(cur)
      args == Arguments(tok.type, tok.end)
  IN  /\ state = "parse"
      /\ UNCHANGED <<source, lines, written>>
      /\ \/ /\ tok.type \in GateKeywords
            /\ Numeric(tok.type, args)
            /\ result' = Append(result, ParsedGate(tok.type, args))
            /\ cur' = Last(args).end
            /\ UNCHANGED state
         \/ /\ tok.type \in GateKeywords
            /\ ~Numeric(tok.type, args)
            /\ state' = "done"
            /\ UNCHANGED <<cur, result>>
         \/ /\ tok.type \in {"MUL", "NUM"}
            /\ cur' = tok.end
            /\ UNCHANGED <<state, result>>
         \/ /\ tok.type = "DONE"
            /\ state' = "done"
            /\ UNCHANGED <<cur, result>>
----------------------------------------------------------------------------
(* A listing is written line by line.  Calls of gates have an index behind *)
(* the addresses: without one parseAnd and parseXor take the next keyword  *)
(* for it.  In other lines such a keyword is part of a longer name.        *)

InName(line, i) ==
  \/ i < Len(line) /\ line[i + 1] \in NamePieces
  \/ \E j \in 1 .. i - 1 : /\ line[j] \in NamePieces \ Range(Numerals)
                           /\ \A k \in j .. i - 1 : line[k] \in NamePieces

ASSUME ParserAssumption ==
  /\ Numbers \subseteq Seq(Range(Numerals)) \ {<<>>}
  /\ Noise \subseteq Seq(Pieces)
  /\ \A line \in Noise :
       /\ line # <<>> => Last(line) = "-"
       /\ \A i \in DOMAIN line : line[i] \in GateKeywords => InName(line, i)

Writes(line) == /\ state = "write" /\ lines < MaxLines
                /\ lines' = lines + 1
                /\ source' = source \o line
                /\ UNCHANGED <<state, cur, result>>

WriteNoise(line) == Writes(line) /\ UNCHANGED written

WriteGate(keyword, dst, op1, op2) ==
  LET call == <<keyword, "-">> \o dst \o <<"-">> \o op1
                \o (IF keyword = "INV" THEN <<>> ELSE <<"-">> \o op2)
      gate == IF keyword = "INV" THEN Gate("xor", Atoui(dst), -1, Atoui(op1))
              ELSE Gate(IF keyword = "AND" THEN "and" ELSE "xor",
                        Atoui(dst), Atoui(op1), Atoui(op2))
  IN  /\ Writes(call \o <<"-", "7", "-">>)
      /\ written' = Append(written, [gate |-> gate, complete |-> Len(source) + Len(call)])

(* The parser gets the first k pieces: a whole file or one that breaks off *)
(* where no number is.                                                     *)
Submit(k) == /\ state = "write" /\ state' = "parse"
             /\ k < Len(source) => ~IsDigit(source[k + 1])
             /\ source' = SubSeq(source, 1, k)
             /\ UNCHANGED <<lines, written, cur, result>>

ParserNext == \/ \E line \in Noise : WriteNoise(line)
              \/ \E keyword \in GateKeywords, dst, op1, op2 \in Numbers :
                   WriteGate(keyword, dst, op1, op2)
              \/ \E k \in 0 .. Len(source) : Submit(k)
              \/ ParseSource

ParserSpec == CircuitParser_New /\ [][ParserNext]_parserVars

(* The list that comes back is the gates of the listing, in order: all     *)
(* that are complete in what there was of it, whatever stands between      *)
(* them.                                                                   *)
ParsesListing ==
  state = "done" =>
    result = [i \in 1 .. Cardinality({j \in DOMAIN written : written[j].complete <= Len(source)})
                |-> written[i].gate]
=============================================================================
