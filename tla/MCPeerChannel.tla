---------------------------- MODULE MCPeerChannel ----------------------------
(***************************************************************************)
(* Small instances of PeerChannel for TLC.                                 *)
(***************************************************************************)
EXTENDS PeerChannel, TLC

CONSTANTS alice, bob

BothSides == {alice, bob}

(* Messages of one byte, of two, and one whose bytes look like a length.   *)
ShortPayloads == {<<7>>, <<8, 9>>}
TwoBytes == {<<8, 9>>}
LengthLikePayloads == {<<7>>, <<0, 0, 0, 0>>}

OneEach == alice :> 1 @@ bob :> 1
OneSided == alice :> 2 @@ bob :> 0

Traffic(payloads, budget, asks) ==
  [payloads |-> payloads, budget |-> budget, asks |-> asks]

(* Alice sends up to two messages to Bob, or each sends one to the other.  *)
BothTraffics == {Traffic(ShortPayloads, OneSided, 1 .. 3),
                 Traffic(TwoBytes, OneEach, 1 .. 2)}
OneWay == {Traffic(ShortPayloads, OneSided, 1 .. 3)}
LengthLike == {Traffic(LengthLikePayloads, OneSided, 1 .. 3)}
=============================================================================
