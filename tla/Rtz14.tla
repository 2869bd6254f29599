-------------------------------- MODULE Rtz14 --------------------------------
(***************************************************************************)
(* executeProof of empiricalZK/rtz14: a prover and a verifier, each with   *)
(* its copy of a circuit, run the three-move proof over one connection.    *)
(* The two directions of the connection are byte streams; that they are    *)
(* reliable and in order is what PeerChannel shows of carena.              *)
(*                                                                         *)
(* An action goes from one blocking call of its party to the next.         *)
(* Commitments are opaque bytes: neither party ever opens one.             *)
(***************************************************************************)
EXTENDS Circuit

CONSTANTS Circuits,      \* the circuits that may be proved
          address_of_one,
          Randoms,       \* what a random byte modulo six may give
          Masks,         \* what rand may write, as bit strings
          CommitBytes    \* the length of a commitment of the scheme in use

Addresses(circuit) ==
  Written(circuit) \cup UNION {{circuit[i].op1, circuit[i].op2} : i \in DOMAIN circuit}

(* The gates a parser makes.                                               *)
ParsedGate == [type : {"and", "xor"}, dst : Nat,
               op1 : Nat \cup {UintMax}, op2 : Nat \cup {UintMax}]

(* Addresses stay within the bytes of the evaluation string; rand fills    *)
(* the mask, which is as long as the message.  A commitment is the         *)
(* challenge itself (dummy) or a hash and its randomness (SHA-512).        *)
ASSUME Rtz14Assumption ==
  /\ Circuits \subseteq Seq(ParsedGate)
  /\ \A c \in Circuits :
       LET patched == PatchOne(c, address_of_one)
           bits == StringLen(patched, InputGates(patched))
       IN  /\ \A a \in Addresses(patched) \cup {address_of_one} :
                a \in 0 .. 8 * NoBytes(bits) - 1
           /\ \A mask \in Masks :
                Len(mask) >= 8 * NoBytes(bits + 3 * AllAnds(patched))
  /\ Masks \subseteq Seq({0, 1})
  /\ Randoms \subseteq 0 .. 5
  /\ CommitBytes \in {64, 80}

VARIABLES circuit,    \* the patched circuit
          input_gates, output_gates,   \* its free and its output addresses
          witness,
          pat,        \* where the prover is
          vat,        \* where the verifier is
          toV, toP,   \* bytes sent and not yet received
          message,    \* the bit string the prover commits to
          gpam_res,   \* its permutations and majorities
          m0,         \* its random mask
          p_tasks,    \* the prover's proof tasks
          b, e,       \* the and-challenge and the challenge
          v_tasks,    \* the verifier's proof tasks
          delta,      \* the delta string the verifier got
          p_accept, v_accept

proverVars == <<pat, message, gpam_res, m0, p_tasks, p_accept>>
verifierVars == <<vat, b, e, v_tasks, delta, v_accept>>
given == <<circuit, input_gates, output_gates, witness>>
vars == <<given, proverVars, verifierVars, toV, toP>>
----------------------------------------------------------------------------
(* Bytes, and the bits of a byte from the least significant on.            *)
Byte(bits, k) == [j \in 1 .. 8 |-> bits[8 * (k - 1) + j]]
BytesOf(bits) == LET padded == PadTo(bits, Len(bits))
                 IN  [k \in 1 .. NoBytes(Len(bits)) |-> Byte(padded, k)]
BitsOf(bytes) == [i \in 1 .. 8 * Len(bytes) |-> bytes[((i - 1) \div 8) + 1][((i - 1) % 8) + 1]]

Opaque(n) == [i \in 1 .. n |-> [j \in 1 .. 8 |-> 0]]
LetterA == <<1, 0, 0, 0, 0, 1, 1, 0>>
LetterR == <<0, 1, 0, 0, 1, 1, 1, 0>>
Judgement(accept) == <<IF accept THEN LetterA ELSE LetterR>> \o Opaque(7)

(* receive: wait for n bytes and take them.                                *)
Available(stream, n) == Len(stream) >= n
Received(stream, n) == SubSeq(stream, 1, n)
Left(stream, n) == SubSeq(stream, n + 1, Len(stream))

\* Mutant of PermajBytes: majorities are taken to be as long as permutations.
PermajBytes_AlwaysThree(challenge) == NoBytes(3 * AllAnds(circuit))

PermajBytes(challenge) == NoBytes((IF challenge = 0 THEN 3 ELSE 2) * AllAnds(circuit))
MessageBits == StringLen(circuit, input_gates) + 3 * AllAnds(circuit)

Message(string, aux) ==
  PadTo(SubSeq(string, 1, StringLen(circuit, input_gates)) \o aux, MessageBits)

Xored(m, mask) == [i \in 1 .. Len(m) |-> Xor2(m[i], mask[i])]

OutBit == CHOOSE out \in output_gates : TRUE
Tasks(challenge, permaj) == ProofTasks(circuit, input_gates, challenge, permaj, address_of_one)
CheckOut(challenge) == CheckOutBit(OutBit, address_of_one, challenge)

(* build_delta_string *)
DeltaString(tasks, mask) == [i \in 1 .. Len(tasks) |-> TaskXor(mask, tasks[i])]

UniqueOutput == Cardinality(output_gates) = 1
----------------------------------------------------------------------------
(* Both have patched and analysed the circuit.                             *)
Init == /\ \E c \in Circuits : circuit = PatchOne(c, address_of_one)
        /\ input_gates = InputGates(circuit)
        /\ output_gates = OutputGates(circuit)
        /\ witness \in [1 .. Cardinality(input_gates) -> {0, 1}]
        /\ pat = "start" /\ vat = "start"
        /\ toV = <<>> /\ toP = <<>>
        /\ message = <<>> /\ m0 = <<>>
        /\ gpam_res = [permutations |-> <<>>, majority |-> <<>>]
        /\ p_tasks = <<>> /\ v_tasks = <<>> /\ delta = <<>>
        /\ b = 0 /\ e = 0
        /\ p_accept = FALSE /\ v_accept = FALSE

(* The prover. ***********************************************************)

(* Evaluate the circuit, draw a permutation for each AND gate, put the     *)
(* message together and listen; listen_wait comes back without a peer when *)
(* the port cannot be had.                                                 *)
Prepare == /\ pat = "start"
           /\ UniqueOutput
           /\ \E string \in {Evaluation(circuit, input_gates, witness)},
                 rs \in [1 .. AllAnds(circuit) -> Randoms] :
                /\ message' = Message(string, GpamAux(circuit, string, rs))
                /\ gpam_res' = [permutations |-> GpamPermutations(circuit, rs),
                                majority |-> GpamMajority(circuit, string, rs)]
           /\ pat' \in {"listening", "no_peer"}
           /\ UNCHANGED <<given, m0, p_tasks, p_accept, verifierVars,
                          toV, toP>>

ProverRefuses == /\ pat = "start"
                 /\ ~UniqueOutput
                 /\ pat' = "bad_circuit"
                 /\ UNCHANGED <<given, message, gpam_res, m0, p_tasks,
                                p_accept, verifierVars, toV, toP>>

(* Once the verifier's commitment is in - its length is taken to be 80 -   *)
(* mask the message and send a commitment of 128 bytes.                    *)
XorCommit == /\ pat = "connected"
             /\ Available(toP, 80)
             /\ toP' = Left(toP, 80)
             /\ \E mask \in Masks :
                  m0' = [i \in 1 .. Len(message) |-> mask[i]]
             /\ toV' = toV \o Opaque(128)
             /\ pat' = "committed"
             /\ UNCHANGED <<given, message, gpam_res, p_tasks,
                            p_accept, verifierVars>>

(* Send permutations or majorities as asked, build the tasks, the output   *)
(* check with them, and send the delta string.                             *)
SendDelta == /\ pat = "committed"
             /\ Available(toP, 1)
             /\ toP' = Left(toP, 1)
             /\ LET challenge == Received(toP, 1)[1][1]
                    permaj == IF challenge = 0 THEN gpam_res.permutations
                                               ELSE gpam_res.majority
                IN  \E tasks \in {Append(Tasks(challenge, permaj), CheckOut(challenge))} :
                      /\ p_tasks' = tasks
                      /\ toV' = toV \o BytesOf(permaj) \o BytesOf(DeltaString(tasks, m0))
             /\ pat' = "delta_sent"
             /\ UNCHANGED <<given, message, gpam_res, m0, p_accept,
                            verifierVars>>

Reveal == /\ pat = "delta_sent"
          /\ Available(toP, 1)
          /\ toP' = Left(toP, 1)
          /\ toV' = toV \o BytesOf(IF Received(toP, 1)[1][1] = 0
                                     THEN m0 ELSE Xored(message, m0))
          /\ pat' = "revealed"
          /\ UNCHANGED <<given, message, gpam_res, m0, p_tasks,
                         p_accept, verifierVars>>

HearJudgement == /\ pat = "revealed"
                 /\ Available(toP, 8)
                 /\ toP' = Left(toP, 8)
                 /\ p_accept' = (toP[1] = LetterA)
                 /\ pat' = "done"
                 /\ UNCHANGED <<given, message, gpam_res, m0, p_tasks,
                                verifierVars, toV>>

Prover == \/ Prepare \/ ProverRefuses
          \/ XorCommit \/ SendDelta \/ Reveal \/ HearJudgement
----------------------------------------------------------------------------
(* The verifier draws its challenges first.                                *)
DrawChallenges == /\ vat = "start"
                  /\ UniqueOutput
                  /\ b' \in {0, 1} /\ e' \in {0, 1}
                  /\ vat' = "ready"
                  /\ UNCHANGED <<given, proverVars, v_tasks, delta,
                                 v_accept, toV, toP>>

VerifierRefuses == /\ vat = "start"
                   /\ ~UniqueOutput
                   /\ vat' = "bad_circuit"
                   /\ UNCHANGED <<given, proverVars, b, e, v_tasks,
                                  delta, v_accept, toV, toP>>

(* Both sides of the connection are set up, listen_wait returns, and the   *)
(* commitment to the challenge is sent.                                    *)
Connect == /\ vat = "ready"
           /\ pat = "listening"
           /\ toP' = toP \o Opaque(CommitBytes)
           /\ pat' = "connected"
           /\ vat' = "connected"
           /\ UNCHANGED <<given, message, gpam_res, m0, p_tasks,
                          p_accept, b, e, v_tasks, delta, v_accept, toV>>

(* No prover is listening: "No prover sorry, leaving."                     *)
NoProver == /\ vat = "ready"
            /\ pat \in {"start", "bad_circuit", "no_peer"}
            /\ vat' = "no_peer"
            /\ UNCHANGED <<given, proverVars, b, e, v_tasks, delta,
                           v_accept, toV, toP>>

ChallengeAnds == /\ vat = "connected"
                 /\ Available(toV, 128)
                 /\ toV' = Left(toV, 128)
                 /\ toP' = toP \o BytesOf(<<b>>)
                 /\ vat' = "challenged"
                 /\ UNCHANGED <<given, proverVars, b, e, v_tasks, delta,
                                v_accept>>

(* Build the tasks from what was received; the output check is among them  *)
(* for permutations only.                                                  *)
BuildTasks == /\ vat = "challenged"
              /\ Available(toV, PermajBytes(b))
              /\ \E permaj \in {BitsOf(Received(toV, PermajBytes(b)))} :
                   v_tasks' = IF b = 0 THEN Append(Tasks(b, permaj), CheckOut(b))
                                       ELSE Tasks(b, permaj)
              /\ toV' = Left(toV, PermajBytes(b))
              /\ vat' = "tasks_built"
              /\ UNCHANGED <<given, proverVars, b, e, delta, v_accept, toP>>

OpenChallenge == /\ vat = "tasks_built"
                 /\ Available(toV, NoBytes(Len(v_tasks)))
                 /\ delta' = BitsOf(Received(toV, NoBytes(Len(v_tasks))))
                 /\ toV' = Left(toV, NoBytes(Len(v_tasks)))
                 /\ toP' = toP \o BytesOf(<<e>>)
                 /\ vat' = "opened"
                 /\ UNCHANGED <<given, proverVars, b, e, v_tasks, v_accept>>

\* Mutant of Passes: the value of the task is left out.
Passes_NoValue(m, i) == TaskXor(m, v_tasks[i]) = delta[i]

(* Each task must give, on the string received, its delta bit plus - under *)
(* challenge one - its value.                                              *)
Passes(m, i) == TaskXor(m, v_tasks[i]) = Xor2(delta[i], e * v_tasks[i].value)

\* Mutant of Judge: the judgement is sent before it is reached.
Judge_SendsFirst ==
  /\ vat = "opened"
  /\ Available(toV, NoBytes(MessageBits))
  /\ \E m \in {BitsOf(Received(toV, NoBytes(MessageBits)))} :
       v_accept' = \A i \in 1 .. Len(v_tasks) : Passes(m, i)
  /\ toP' = toP \o Judgement(v_accept)
  /\ toV' = Left(toV, NoBytes(MessageBits))
  /\ vat' = "done"
  /\ UNCHANGED <<given, proverVars, b, e, v_tasks, delta>>

Judge == /\ vat = "opened"
         /\ Available(toV, NoBytes(MessageBits))
         /\ \E m \in {BitsOf(Received(toV, NoBytes(MessageBits)))} :
              v_accept' = \A i \in 1 .. Len(v_tasks) : Passes(m, i)
         /\ toP' = toP \o Judgement(v_accept')
         /\ toV' = Left(toV, NoBytes(MessageBits))
         /\ vat' = "done"
         /\ UNCHANGED <<given, proverVars, b, e, v_tasks, delta>>

Verifier == \/ DrawChallenges \/ VerifierRefuses \/ Connect \/ NoProver
            \/ ChallengeAnds \/ BuildTasks \/ OpenChallenge \/ Judge
----------------------------------------------------------------------------
Next == Prover \/ Verifier

Spec == Init /\ [][Next]_vars

(* Both programs run, and what is sent arrives.                            *)
FairSpec == Spec /\ WF_vars(Prover) /\ WF_vars(Verifier)
----------------------------------------------------------------------------
(* The prover's delta string is as long as the verifier expects.           *)
Aligned == b = 0 \/ Len(v_tasks) % 8 # 0

(* The verifier has judged the committed string itself: under challenge    *)
(* zero it accepts, under challenge one exactly when every relation it     *)
(* derived holds - whatever the masks, the padding and the byte boundaries.*)
VerdictIsRelations ==
  vat = "done" /\ Aligned =>
    (v_accept <=> (e = 0 \/ \A i \in 1 .. Len(v_tasks) : Holds(message, v_tasks[i])))

(* Prover and verifier end with the same verdict, and by then every byte   *)
(* has been received, but for one when the deltas did not line up.         *)
EndsInAgreement ==
  pat = "done" => /\ vat = "done" /\ p_accept = v_accept
                  /\ toP = <<>> /\ Len(toV) = (IF Aligned THEN 0 ELSE 1)

(* A circuit without reuse or gaps: no address is written twice or after   *)
(* it was read, and every address is a bit of the evaluation string.       *)
SingleAssignment ==
  /\ \A i, j \in DOMAIN circuit :
       i <= j => /\ i # j => circuit[i].dst # circuit[j].dst
                 /\ circuit[j].dst \notin {circuit[i].op1, circuit[i].op2}
  /\ \A a \in Addresses(circuit) : a < StringLen(circuit, input_gates)

(* What a gate says of the string.                                         *)
GateHolds(g) ==
  Bit(message, g.dst) =
    IF g.type = "and" THEN Bit(message, g.op1) * Bit(message, g.op2)
                      ELSE (Bit(message, g.op1) + Bit(message, g.op2)) % 2

Prepared == pat \notin {"start", "bad_circuit"}

(* The string committed to holds the witness, one bit for each input       *)
(* address in the order they are met, and satisfies every gate.            *)
EvaluationSatisfiesGates ==
  Prepared /\ SingleAssignment =>
    /\ \A a \in input_gates : Bit(message, a) = witness[Place(circuit, input_gates, a)]
    /\ \A i \in DOMAIN circuit : GateHolds(circuit[i])

(* "such that the first two bits are the majority of three bits"           *)
(* (linear_proof.h:124): the majority index brings two equal bits of the   *)
(* auxiliary three to the front.  This is about its computation; what the  *)
(* tasks make of it is in VerdictIsRelations.                              *)
CommittedAux(k) == [j \in 1 .. 3 |-> Bit(message, StringLen(circuit, input_gates) + 3 * k + j - 1)]
MajorityInFront ==
  Prepared /\ SingleAssignment =>
    \A k \in 0 .. AllAnds(circuit) - 1 :
      LET index == Bit(gpam_res.majority, 2 * k) + 2 * Bit(gpam_res.majority, 2 * k + 1)
          front == Permuted(majs[index + 1], CommittedAux(k))
      IN  front[1] = front[2]

(* Without AND gates the proof is decided as it should be: rejected only   *)
(* when the output bit, checked under b = 0 and challenge one, is not one. *)
OutputIsOne == Bit(message, OutBit) = 1
XorExact ==
  vat = "done" /\ Aligned /\ SingleAssignment /\ AllAnds(circuit) = 0 =>
    (v_accept <=> e = 0 \/ b = 1 \/ OutputIsOne)

(* A circuit is proved if and only if one address is written for the last  *)
(* time and not read from then on.                                         *)
Unread == {a \in Written(circuit) :
             \E i \in DOMAIN circuit :
               /\ circuit[i].dst = a
               /\ \A j \in i + 1 .. Len(circuit) :
                    a \notin {circuit[j].dst, circuit[j].op1, circuit[j].op2}}
ProvesOneOutput ==
  /\ pat # "start" => ((pat = "bad_circuit") <=> Cardinality(Unread) # 1)
  /\ vat # "start" => ((vat = "bad_circuit") <=> Cardinality(Unread) # 1)
  /\ Cardinality(Unread) = 1 => OutBit \in Unread

(* Once connected, both programs come to an end.                           *)
Terminates == (pat = "connected") ~> (pat = "done" /\ vat = "done")

(* "receive m_{challange}" (rtz14.c:478): what the verifier receives after  *)
(* its challenge is the prover's opening.  When the number of relations is *)
(* a multiple of eight, the prover's output check takes a byte of deltas   *)
(* more, which for majorities the verifier leaves in the stream.           *)
OpeningIsReceived ==
  vat = "opened" /\ pat = "revealed" =>
    Received(toV, NoBytes(MessageBits)) = BytesOf(IF e = 0 THEN m0 ELSE Xored(message, m0))

(* executeProof returns "true if the proof was successful and the verifier *)
(* accepted" (rtz14.h:37), as test_rtz14.c:103 expects of a satisfying     *)
(* witness: an honest prover with one has its proof accepted.              *)
Completeness ==
  pat = "done" /\ SingleAssignment /\ OutputIsOne => p_accept
=============================================================================
