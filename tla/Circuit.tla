------------------------------- MODULE Circuit -------------------------------
(***************************************************************************)
(* What rtz14 computes from a circuit: its free and its output addresses   *)
(* (circuit_analyser.c), the evaluation string (emiter.c), the             *)
(* permutations, majorities and auxiliary bits of its AND gates, and the   *)
(* linear relations that prover and verifier derive (linear_proof.c).      *)
(*                                                                         *)
(* A circuit is a sequence of gates over bit addresses that start at 0.  A *)
(* bit string is a sequence of zeros and ones: bit i is element i + 1.     *)
(***************************************************************************)
EXTENDS Integers, FiniteSets, SequencesExt

UintMax == -1   \* what parseInv writes for the constant one

Xor2(a, b) == (a + b) % 2
Bit(m, i) == m[i + 1]

NoBytes(n) == (n + 7) \div 8
PadTo(bits, n) ==
  [i \in 1 .. 8 * NoBytes(n) |-> IF i <= Len(bits) THEN bits[i] ELSE 0]
----------------------------------------------------------------------------
(* circuit_analyser.c *)

PatchOne(circuit, one) ==
  LET patched(a) == IF a = UintMax THEN one ELSE a
  IN  [i \in 1 .. Len(circuit) |->
         [circuit[i] EXCEPT !.op1 = patched(@), !.op2 = patched(@)]]

Written(circuit) == {circuit[i].dst : i \in 1 .. Len(circuit)}

(* Addresses read before they are written. *)
InputGates(circuit) ==
  {a \in UNION {{circuit[i].op1, circuit[i].op2} : i \in 1 .. Len(circuit)} :
     \E i \in 1 .. Len(circuit) :
        /\ a \in {circuit[i].op1, circuit[i].op2}
        /\ \A j \in 1 .. i - 1 : circuit[j].dst # a}

\* Mutant of OutputGates: a read does not take an address out.
OutputGates_NoRemoval(circuit) == Written(circuit)

(* Addresses written and not read after: a write of an address that is     *)
(* still there adds nothing, a read takes it out.                          *)
OutputGates(circuit) ==
  LET h[i \in 0 .. Len(circuit)] ==
        IF i = 0 THEN {}
        ELSE (h[i - 1] \ {circuit[i].op1, circuit[i].op2}) \cup {circuit[i].dst}
  IN  h[Len(circuit)]

NoAnds(circuit, n) == Cardinality({i \in 1 .. n : circuit[i].type = "and"})
AllAnds(circuit) == NoAnds(circuit, Len(circuit))
StringLen(circuit, inputs) == Len(circuit) + Cardinality(inputs)
----------------------------------------------------------------------------
(* emiter.c: walk the circuit, taking a bit of the witness for each input  *)
(* address when it is first met.                                           *)

Operand(circuit, n) ==
  LET g == circuit[n \div 2] IN IF n % 2 = 0 THEN g.op1 ELSE g.op2

(* The place of an input address in the order of appearance.               *)
FirstMet(circuit, a) ==
  CHOOSE n \in 2 .. 2 * Len(circuit) + 1 :
    Operand(circuit, n) = a /\ \A k \in 2 .. n - 1 : Operand(circuit, k) # a
Place(circuit, inputs, a) ==
  Cardinality({i \in inputs : FirstMet(circuit, i) <= FirstMet(circuit, a)})

\* Mutant of Evaluation: input bits are used but not put into the string.
Evaluation_NoInputs(circuit, inputs, witness) ==
  LET size == 8 * NoBytes(StringLen(circuit, inputs))
      value[i \in 0 .. Len(circuit)] ==
        IF i = 0
          THEN [a \in 0 .. size - 1 |->
                  IF a \in inputs THEN witness[Place(circuit, inputs, a)] ELSE 0]
          ELSE LET g == circuit[i] IN
               [a \in 0 .. size - 1 |->
                  IF a # g.dst THEN value[i - 1][a]
                  ELSE IF g.type = "and" THEN value[i - 1][g.op1] * value[i - 1][g.op2]
                  ELSE Xor2(value[i - 1][g.op1], value[i - 1][g.op2])]
  IN  [k \in 1 .. size |-> IF k - 1 \in inputs THEN 0 ELSE value[Len(circuit)][k - 1]]

(* value[i][a]: the bit at address a once i gates have been visited.       *)
Evaluation(circuit, inputs, witness) ==
  LET size == 8 * NoBytes(StringLen(circuit, inputs))
      value[i \in 0 .. Len(circuit)] ==
        IF i = 0
          THEN [a \in 0 .. size - 1 |->
                  IF a \in inputs THEN witness[Place(circuit, inputs, a)] ELSE 0]
          ELSE LET g == circuit[i] IN
               [a \in 0 .. size - 1 |->
                  IF a # g.dst THEN value[i - 1][a]
                  ELSE IF g.type = "and" THEN value[i - 1][g.op1] * value[i - 1][g.op2]
                  ELSE Xor2(value[i - 1][g.op1], value[i - 1][g.op2])]
  IN  [k \in 1 .. size |-> value[Len(circuit)][k - 1]]
----------------------------------------------------------------------------
(* linear_proof.c *)

perms == <<<<0, 1, 2>>, <<0, 2, 1>>, <<1, 0, 2>>,
           <<1, 2, 0>>, <<2, 0, 1>>, <<2, 1, 0>>>>
majs == <<<<0, 1, 2>>, <<0, 2, 1>>, <<2, 1, 0>>>>

(* res[p[j]] = x[j], counting from 0.                                      *)
Permuted(p, x) == [k \in 1 .. 3 |-> x[CHOOSE j \in 1 .. 3 : p[j] = k - 1]]

(* The auxiliary bits of an AND gate: result and operands, permuted.       *)
AuxOf(string, g, r) ==
  Permuted(perms[r + 1], <<Bit(string, g.dst), Bit(string, g.op1), Bit(string, g.op2)>>)

\* Mutant of MajorityOf: the two swaps are taken for one another.
MajorityOf_Swapped(aux) == CASE aux = <<0, 1, 0>> -> 2
                             [] aux = <<1, 0, 0>> -> 1
                             [] OTHER -> 0

(* Which of majs brings the majority of the three bits to the front, when  *)
(* they are those of an AND gate.                                          *)
MajorityOf(aux) == CASE aux = <<0, 1, 0>> -> 1
                     [] aux = <<1, 0, 0>> -> 2
                     [] OTHER -> 0

(* The AND gates of the circuit in their order, and groups of w bits laid  *)
(* out one behind the other.                                               *)
AndGate(circuit, k) ==
  circuit[CHOOSE i \in 1 .. Len(circuit) :
            circuit[i].type = "and" /\ NoAnds(circuit, i) = k]
Grouped(w, groups) ==
  [i \in 1 .. w * Len(groups) |-> groups[((i - 1) \div w) + 1][((i - 1) % w) + 1]]

(* The first w of the bits 0x01, 0x02, 0x04.                               *)
Binary(v, w) == [i \in 1 .. w |-> (v \div <<1, 2, 4>>[i]) % 2]

AuxBits(circuit, string, rs) ==
  [k \in 1 .. AllAnds(circuit) |-> AuxOf(string, AndGate(circuit, k), rs[k])]
GpamAux(circuit, string, rs) == Grouped(3, AuxBits(circuit, string, rs))
GpamPermutations(circuit, rs) ==
  Grouped(3, [k \in 1 .. AllAnds(circuit) |-> Binary(rs[k], 3)])
GpamMajority(circuit, string, rs) ==
  LET aux == AuxBits(circuit, string, rs)
  IN  Grouped(2, [k \in DOMAIN aux |-> Binary(MajorityOf(aux[k]), 2)])

(* apply_permutation: three bits select, least significant first.          *)
ApplyPermutation(p, k) ==
  LET index == Bit(p, 3 * k) + 2 * Bit(p, 3 * k + 1) + 4 * Bit(p, 3 * k + 2)
  IN  IF index > 5 THEN <<0, 1, 2>> ELSE Permuted(perms[index + 1], <<0, 1, 2>>)

(* apply_majority: both bits come from one place, which is the first or    *)
(* the second bit of the byte.                                             *)
ApplyMajority(m, k) ==
  LET byte_idx == (2 * k) \div 8
      bit_idx == (2 * k + 7) \div 8 - byte_idx
      bit == Bit(m, 8 * byte_idx + bit_idx)
      index == 2 * bit + bit
  IN  IF index > 2 THEN <<0, 1, 2>> ELSE Permuted(majs[index + 1], <<0, 1, 2>>)

(* A proof task: the first lind of three bits xor to value.  (The code     *)
(* keeps lind and value in one number, 2 * lind + value.)                  *)
Task(indicies, lind, value) ==
  [indicies |-> indicies, lind |-> lind, value |-> value]

XorTasks(g) == <<Task(<<g.dst, g.op1, g.op2>>, 3, 0)>>

AndTasks(g, b, k, base, permaj, one) ==
  IF b = 0
    THEN LET indx == ApplyPermutation(permaj, k)
             at == base + 3 * k
         IN  <<Task(<<one, at + indx[1], 0>>, 2, 1),
               Task(<<g.op1, at + indx[2], 0>>, 2, 0),
               Task(<<g.op2, at + indx[3], 0>>, 2, 0)>>
    ELSE LET indx == ApplyMajority(permaj, k)
             at == base + 2 * k
         IN  <<Task(<<g.op1, at + indx[1], 0>>, 2, 0),
               Task(<<g.op2, at + indx[2], 0>>, 2, 0)>>

ProofTasks(circuit, inputs, b, permaj, one) ==
  LET base == StringLen(circuit, inputs)
      GateTasks(i) == IF circuit[i].type = "xor" THEN XorTasks(circuit[i])
                      ELSE AndTasks(circuit[i], b, NoAnds(circuit, i - 1), base,
                                    permaj, one)
  IN  FlattenSeq([i \in 1 .. Len(circuit) |-> GateTasks(i)])

\* Mutant of CheckOutBit: the two values are swapped.
CheckOutBit_Swapped(out, one, b) == Task(<<out, one, one>>, 1, IF b = 0 THEN 0 ELSE 1)

(* check_out_bit of executeProof.                                          *)
CheckOutBit(out, one, b) == Task(<<out, one, one>>, 1, IF b = 0 THEN 1 ELSE 0)

TaskXor(m, task) ==
  LET x(j) == IF j <= task.lind THEN Bit(m, task.indicies[j]) ELSE 0
  IN  Xor2(Xor2(x(1), x(2)), x(3))

Holds(m, task) == TaskXor(m, task) = task.value
=============================================================================
