------------------------------ MODULE Commitments ------------------------------
(***************************************************************************)
(* The commitment scheme of empiricalZK/rtz14/src/commitment.c that stands *)
(* on SHA-512: what is hashed, in which blocks, and what opening compares. *)
(*                                                                         *)
(* sha512_compress is outside: the hash is the sequence of blocks it was   *)
(* given, and two of them collide only if they are equal.                  *)
(***************************************************************************)
EXTENDS Integers, SequencesExt

CONSTANTS Messages, Randoms,
          BlockSize,          \* 128 in the code
          LengthField,        \* 16
          LengthBytes         \* 8, the last of the field

Octets == 0 .. 255

ASSUME BlockAssumption == /\ BlockSize \in Nat /\ LengthField \in Nat
                          /\ LengthBytes \in 1 .. LengthField
                          /\ LengthField < BlockSize
ASSUME OctetsAssumption == Messages \subseteq Seq(Octets) /\ Randoms \subseteq Seq(Octets)

VARIABLES committed,  \* history: the message
          commitment, \* 64 bytes of hash and the randomness behind them
          offered,    \* history: the message an opening offers
          opens

commitVars == <<committed, commitment, offered, opens>>

NoMessage == <<-1>>

CommitInit == /\ committed = NoMessage /\ offered = NoMessage
              /\ commitment = [hash |-> <<>>, rand |-> <<>>]
              /\ opens = FALSE
----------------------------------------------------------------------------
Zeros(n) == [i \in 1 .. n |-> 0]
Marker == 128

(* The length, in bytes where the code has bits, is the last of a block.   *)
LengthOf(n) == [i \in 1 .. LengthBytes |-> (n \div 256 ^ (LengthBytes - i)) % 256]

\* Mutant of Sha512Hash: a full last block is not compressed.
Sha512Hash_Drops(message) ==
  LET full == Len(message) \div BlockSize
      rest == SubSeq(message, full * BlockSize + 1, Len(message)) \o <<Marker>>
      ending == LengthOf(Len(message))
      whole == [b \in 1 .. full |->
                  SubSeq(message, (b - 1) * BlockSize + 1, b * BlockSize)]
  IN  IF BlockSize - Len(rest) >= LengthField
      THEN Append(whole, rest \o Zeros(BlockSize - LengthBytes - Len(rest)) \o ending)
      ELSE Append(whole, Zeros(BlockSize - LengthBytes) \o ending)

(* sha512_hash: the blocks that are compressed.  If there is no room for   *)
(* the length behind the rest of the message, it gets a block of its own.  *)
Sha512Hash(message) ==
  LET full == Len(message) \div BlockSize
      rest == SubSeq(message, full * BlockSize + 1, Len(message)) \o <<Marker>>
      ending == LengthOf(Len(message))
      whole == [b \in 1 .. full |->
                  SubSeq(message, (b - 1) * BlockSize + 1, b * BlockSize)]
  IN  IF BlockSize - Len(rest) >= LengthField
      THEN Append(whole, rest \o Zeros(BlockSize - LengthBytes - Len(rest)) \o ending)
      ELSE whole \o <<rest \o Zeros(BlockSize - Len(rest)),
                      Zeros(BlockSize - LengthBytes) \o ending>>
----------------------------------------------------------------------------
(* sha512_commit and sha512_open                                           *)

Commit(message, rand) == /\ committed = NoMessage
                         /\ committed' = message
                         /\ commitment' = [hash |-> Sha512Hash(message \o rand), rand |-> rand]
                         /\ UNCHANGED <<offered, opens>>

Open(message) == /\ committed # NoMessage /\ offered = NoMessage
                 /\ offered' = message
                 /\ opens' = (commitment.hash = Sha512Hash(message \o commitment.rand))
                 /\ UNCHANGED <<committed, commitment>>

CommitNext == \/ \E message \in Messages, rand \in Randoms : Commit(message, rand)
              \/ \E message \in Messages : Open(message)

CommitSpec == CommitInit /\ [][CommitNext]_commitVars
----------------------------------------------------------------------------
(* A commitment opens to the message it was made of and to no other,       *)
(* whatever their lengths; and what is compressed are whole blocks.        *)
OpensItsMessage == /\ offered # NoMessage => (opens <=> offered = committed)
                   /\ \A b \in DOMAIN commitment.hash : Len(commitment.hash[b]) = BlockSize
=============================================================================
