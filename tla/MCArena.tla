------------------------------- MODULE MCArena -------------------------------
(* Three programs that find each other, for the model checker.             *)
EXTENDS Arena, TLC

CONSTANTS zero, one, two

Programs == {zero, one, two}

(* threeway.c: number i waits for those above it and connects to those     *)
(* below it.                                                               *)
ThreeWay == [expected |-> zero :> 2 @@ one :> 1 @@ two :> 0,
             targets |-> zero :> <<>> @@ one :> <<zero>> @@ two :> <<zero, one>>]

(* rtz14.c: a prover waits for a verifier.  Here a second one comes.       *)
TwoVerifiers == [expected |-> zero :> 1 @@ one :> 0 @@ two :> 0,
                 targets |-> zero :> <<>> @@ one :> <<zero>> @@ two :> <<zero>>]

OneVerifier == [expected |-> zero :> 1 @@ one :> 0 @@ two :> 0,
                targets |-> zero :> <<>> @@ one :> <<zero>> @@ two :> <<>>]

(* Two clients reach a server that waits for both, at the same time.       *)
TwoClients == [TwoVerifiers EXCEPT !.expected[zero] = 2]

AllScenarios == {ThreeWay, TwoVerifiers, OneVerifier, TwoClients}
JustTwoVerifiers == {TwoVerifiers}
=============================================================================
