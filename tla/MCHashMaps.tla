------------------------------ MODULE MCHashMaps ------------------------------
(* The two maps of a program, for the model checker.                       *)
EXTENDS HashMaps, TLC

(* Two keys that share a bucket and one that does not, in either map.      *)
ThreeKeys == {0, 1, 17}
TwoBuckets == 0 :> 4 @@ 1 :> 7 @@ 17 :> 6

EitherMap == \/ MapNext /\ UNCHANGED ikmVars
             \/ IkmNext /\ UNCHANGED mapVars
MapsSpec == HashMap_new /\ IntKeyMap_New /\ [][EitherMap]_<<mapVars, ikmVars>>
=============================================================================
