-------------------------------- MODULE BitSets --------------------------------
(***************************************************************************)
(* Words of any width as the sets of the positions of their ones.          *)
(***************************************************************************)
EXTENDS Integers, FiniteSets, FiniteSetsExt

XOR(a, b) == SymDiff(a, b)
Shl(x, k) == {i + k : i \in x}
Shr(x, k) == {i - k : i \in {j \in x : j >= k}}
parity(x) == Cardinality(x) % 2

(* The sum, with as many bits as it needs: the carries are added in turn.  *)
RECURSIVE Sum2(_, _)
Sum2(a, b) == IF b = {} THEN a ELSE Sum2(XOR(a, b), Shl(a \cap b, 1))

Less(a, b) == a # b /\ Max(XOR(a, b)) \in b

(* A natural number of fewer than w bits.                                  *)
BitsOf(n, w) == {i \in 0 .. w - 1 : (n \div 2^i) % 2 = 1}
=============================================================================
