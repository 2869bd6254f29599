------------------------------- MODULE MCRtz14 -------------------------------
(* Small circuits for the model checker.                                   *)
EXTENDS Rtz14

AND(dst, op1, op2) == [type |-> "and", dst |-> dst, op1 |-> op1, op2 |-> op2]
XOR(dst, op1, op2) == [type |-> "xor", dst |-> dst, op1 |-> op1, op2 |-> op2]
INV(dst, src) == XOR(dst, UintMax, src)      \* parseInv

XorChain(n) == [i \in 1 .. n |-> XOR(i + 1, i - 1, i)]

OneAnd == <<AND(2, 0, 1)>>
InvAnd == <<INV(1, 0), AND(3, 1, 2)>>
ThreeAnds == <<AND(2, 0, 1), AND(3, 2, 0), AND(4, 3, 1)>>
XorAnd == <<XOR(3, 0, 1), AND(4, 3, 2)>>
Reuse == <<XOR(2, 0, 1), XOR(2, 2, 1)>>
Gap == <<XOR(3, 1, 2)>>
TwoOutputs == <<XOR(2, 0, 1), AND(3, 0, 1)>>

Mixed == {OneAnd, InvAnd, XorAnd, ThreeAnds, Reuse, Gap, TwoOutputs,
          XorChain(1), XorChain(7), XorChain(8), XorChain(9)}
JustOneAnd == {OneAnd}
EightXors == {XorChain(8)}

SomeRandoms == {0, 3, 5}

Ones == [i \in 1 .. 32 |-> 1]
Uneven == [i \in 1 .. 32 |-> IF i % 3 = 0 THEN 1 ELSE 0]
TwoMasks == {Ones, Uneven}
=============================================================================
