------------------------------- MODULE MCLibrary -------------------------------
(* The library: the containers, the DER encoding, the parser of circuits,  *)
(* the commitments and their hash, the clock of the log, the BCH codec,    *)
(* each with one caller at a time, and the teardown of a queue with        *)
(* several.  A behaviour is that of one of them.                           *)
EXTENDS LinkedList, MCHashMaps, DerStream, CircuitParser, Commitments, LogClock,
        Bch, Sha512, QueueTeardown, TLC

CONSTANT Parts       \* those that are used

VARIABLE part

Params(m, t) == [m |-> m, t |-> t, prim_poly |-> {}]
NoCodec == Params(5, 1)

derAll == <<derVars, streamVars>>
allVars == <<part, listVars, mapVars, ikmVars, derAll, parserVars, commitVars, clockVars,
             bchVars, shaVars, teardownVars>>

Init == /\ part \in Parts
        /\ SingleLinkedList_new /\ HashMap_new /\ IntKeyMap_New
        /\ DerBegin /\ DerInputStream_New
        /\ CircuitParser_New /\ CommitInit /\ ClockInit
        /\ BchBegin /\ ShaStart /\ BlkQueue_newown
        /\ part # "bch" => codec = NoCodec
        /\ part # "hash" => todo = <<>>
        /\ part # "teardown" => owns

DerNext == \/ DerWrite /\ UNCHANGED streamVars
           \/ \E reader \in {"context", "stream"} : DerFinal(reader) /\ UNCHANGED streamVars
           \/ DerRead /\ UNCHANGED streamVars
           \/ StreamRead

Next == /\ UNCHANGED part
        /\ \/ part = "list" /\ ListNext
           \/ part # "list" /\ UNCHANGED listVars
        /\ \/ part = "hash map" /\ MapNext
           \/ part # "hash map" /\ UNCHANGED mapVars
        /\ \/ part = "int key map" /\ IkmNext
           \/ part # "int key map" /\ UNCHANGED ikmVars
        /\ \/ part = "der" /\ DerNext
           \/ part # "der" /\ UNCHANGED derAll
        /\ \/ part = "parser" /\ ParserNext
           \/ part # "parser" /\ UNCHANGED parserVars
        /\ \/ part = "commitment" /\ CommitNext
           \/ part # "commitment" /\ UNCHANGED commitVars
        /\ \/ part = "clock" /\ ClockNext
           \/ part # "clock" /\ UNCHANGED clockVars
        /\ \/ part = "bch" /\ BchNext
           \/ part # "bch" /\ UNCHANGED bchVars
        /\ \/ part = "hash" /\ ShaNext
           \/ part # "hash" /\ UNCHANGED shaVars
        /\ \/ part = "teardown" /\ TeardownNext
           \/ part # "teardown" /\ UNCHANGED teardownVars

Spec == Init /\ [][Next]_allVars

UpToThree == 0 .. 3

(* Lengths of one byte and of two, at the boundary between them.           *)
SomeStrings == {<<>>, [i \in 1 .. 7 |-> i], [i \in 1 .. 8 |-> i]}

(* Lines with short and long names and numbers, and a keyword in a name.   *)
SomeNoise == {<<"x", "AND", "-", "1", "-">>, <<"x", "x", "x", "-", "x", "1", "-">>,
              <<"MUL", "-">>, <<"XOR", "1", "-">>, <<"1", "x", "AND", "-">>}
SomeNumbers == {<<"0">>, <<"1", "2">>}

(* All lengths up to more than a block, with at most one byte that is not  *)
(* zero.                                                                   *)
SomeMessages == UNION {{[i \in 1 .. n |-> IF i = j THEN 1 ELSE 0] : j \in 0 .. n} : n \in 0 .. 8}
SomeRandoms == {<<0>>, <<128>>}

(* BCH codes that correct one to six bits: what parity there is, of how    *)
(* much data, and the wrong bits; for the formulas of the degrees 1 to 4   *)
(* and for the splitting of 5 and 6.  The last four are refused.           *)
Bytes(n) == SubSeq(<<{0, 3, 4}, {1, 7}, {2, 5}, 0 .. 7, {}, {3, 6}, {0}>>, 1, n)
Traffic(n, bits) == [data |-> {Bytes(n)}, wrong |-> bits]
SomeTraffic ==
  Params(5, 1) :> Traffic(3, {{i, j} : i, j \in 0 .. 31}) @@
  Params(5, 2) :> Traffic(2, {{i, j} : i, j \in 0 .. 31} \cup SUBSET {0, 7, 8, 13, 23}) @@
  Params(5, 3) :> Traffic(2, SUBSET {0, 7, 8, 13, 16, 20, 29}) @@
  Params(5, 4) :> Traffic(1, SUBSET {0, 7, 8, 13, 16, 24}) @@
  Params(6, 4) :> Traffic(4, SUBSET {0, 13, 24, 36, 50}) @@
  Params(6, 6) :> Traffic(3, SUBSET {0, 5, 11, 13, 24, 36, 55}) @@
  Params(7, 2) :> Traffic(7, SUBSET {0, 33, 68}) @@
  [Params(5, 1) EXCEPT !.prim_poly = {5, 3, 0}] :> Traffic(2, {{}, {1}}) @@
  [Params(5, 1) EXCEPT !.prim_poly = {5, 0}] :> Traffic(1, {{}}) @@
  Params(4, 1) :> Traffic(1, {{}}) @@
  Params(16, 1) :> Traffic(1, {{}}) @@
  Params(5, 7) :> Traffic(1, {{}})
SomeParams == DOMAIN SomeTraffic

(* "abc" with its padding, alone and behind a block of many values.        *)
Abc == [i \in 1 .. 128 |-> IF i <= 4 THEN <<97, 98, 99, 128>>[i] ELSE IF i = 128 THEN 24 ELSE 0]
Mixed == [i \in 1 .. 128 |-> (37 * i) % 256]
SomeInputs == {<<>>, <<Abc>>, <<Mixed, Abc>>}
=============================================================================
