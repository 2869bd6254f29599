------------------------------ MODULE KeyedStore ------------------------------
(***************************************************************************)
(* What the headers of the two maps promise (common/ds/include/map.h and   *)
(* platform/osal/include/intkeymap.h): under every key that is filed a     *)
(* value, until the key is removed.  They leave open what becomes of a     *)
(* value when another is put under its key: one map keeps the latest, the  *)
(* other the first.                                                        *)
(***************************************************************************)
EXTENDS Integers, FiniteSets, Sequences

CONSTANTS Keys, Values, Null

VARIABLES filed,         \* the keys in the map
          value,         \* what each stands for, Null for the others
          answer         \* the last call and what it returned

storeVars == <<filed, value, answer>>

Init == /\ filed = {}
        /\ value = [k \in Keys |-> Null]
        /\ answer = <<"new", Null>>

Put(k, v) == /\ filed' = filed \cup {k}
             /\ value' = [value EXCEPT ![k] = v]
             /\ UNCHANGED answer

(* The null pointer "if no element is filed under {key}".                  *)
Get(k) == answer' = <<"get", value[k]>> /\ UNCHANGED <<filed, value>>

(* "True if key is in this map."                                           *)
Contains(k) == answer' = <<"contains", k \in filed>> /\ UNCHANGED <<filed, value>>

(* "Return the number of elements in this map."                            *)
Size == answer' = <<"size", Cardinality(filed)>> /\ UNCHANGED <<filed, value>>

(* "Return the keys in this map": each once, in any order.                 *)
ListsKeys(s) == /\ {s[i] : i \in DOMAIN s} = filed
                /\ Len(s) = Cardinality(filed)
GetKeys == /\ answer'[1] = "keys" /\ ListsKeys(answer'[2])
           /\ UNCHANGED <<filed, value>>

(* "The map does not contain any key, value pair with key after invoking   *)
(* {rem}."                                                                 *)
Remove(k) == /\ answer' = <<"rem", value[k]>>
             /\ filed' = filed \ {k}
             /\ value' = [value EXCEPT ![k] = Null]

Renew == /\ filed' = {}
         /\ value' = [k \in Keys |-> Null]
         /\ UNCHANGED answer

Other == (\E k \in Keys : Get(k) \/ Contains(k) \/ Remove(k)) \/ Size \/ GetKeys
         \/ Renew

NextLatest == (\E k \in Keys, v \in Values : Put(k, v)) \/ Other
NextFirst == (\E k \in Keys \ filed, v \in Values : Put(k, v)) \/ Other
=============================================================================
