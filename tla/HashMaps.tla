------------------------------- MODULE HashMaps -------------------------------
(***************************************************************************)
(* The two maps: HashMap (common/ds/src/hashmap.c), whose put appends an   *)
(* entry even when there is one with the key, and IntKeyMap                *)
(* (platform/osal/src/intkeymap.c), whose put then returns.  Their buckets *)
(* are lists, which LinkedList shows to be sequences.                      *)
(*                                                                         *)
(* A map belongs to one caller at a time; each operation is one step.      *)
(***************************************************************************)
EXTENDS Integers, FiniteSets, Sequences, SequencesExt

CONSTANTS Keys, Values,
          NoElm,               \* the null pointer
          lbuckets, hfn,       \* parameters of HashMap_new
          MaxEntries           \* bound on the entries of a map

(* 101 * key + 65537 is below 2^32 for the keys there are.                 *)
ASSUME MapAssumption == /\ Keys \subseteq Nat
                        /\ lbuckets \in Nat \ {0} /\ hfn \in [Keys -> Nat]
                        /\ NoElm \notin Values

INT_KEY_MAP_BUCKETS == 17

VARIABLES buckets, map_answer,
          ikm_buckets, ikm_answer

mapVars == <<buckets, map_answer>>
ikmVars == <<ikm_buckets, ikm_answer>>

Entry(key, elm) == [key |-> key, elm |-> elm]

(* The place of the first entry with a key, if there is one.               *)
Places(bucket, key) == {i \in DOMAIN bucket : bucket[i].key = key}
FirstPlace(bucket, key) == CHOOSE i \in Places(bucket, key) :
                             \A j \in Places(bucket, key) : i <= j
Elm(bucket, key) == IF Places(bucket, key) = {} THEN NoElm
                    ELSE bucket[FirstPlace(bucket, key)].elm
Without(bucket, key) == IF Places(bucket, key) = {} THEN bucket
                        ELSE RemoveAt(bucket, FirstPlace(bucket, key))

(* The entries of all buckets, in the order a walk meets them.             *)
EntriesOf(bs, n) == FlattenSeq([b \in 1 .. n |-> bs[b - 1]])
KeysOf(entries) == [i \in DOMAIN entries |-> entries[i].key]
----------------------------------------------------------------------------
(* HashMap                                                                 *)

Bucket(key) == hfn[key] % lbuckets

HashMap_new == /\ buckets = [b \in 0 .. lbuckets - 1 |-> <<>>]
               /\ map_answer = <<"new", NoElm>>

\* Mutant of Map_put: an entry that is there keeps its element.
Map_put_KeepsOld(key, elm) ==
  /\ elm # NoElm
  /\ buckets' = [buckets EXCEPT ![Bucket(key)] = Append(@, Entry(key, elm))]
  /\ UNCHANGED map_answer

(* Change the entries with that key, and add one more all the same.        *)
Map_put(key, elm) ==
  /\ elm # NoElm
  /\ buckets' = [buckets EXCEPT ![Bucket(key)] =
                   Append([i \in DOMAIN @ |-> IF @[i].key = key THEN Entry(key, elm)
                                              ELSE @[i]],
                          Entry(key, elm))]
  /\ UNCHANGED map_answer

Map_get(key) == /\ map_answer' = <<"get", Elm(buckets[Bucket(key)], key)>>
                /\ UNCHANGED buckets

Map_contains(key) ==
  /\ map_answer' = <<"contains", Places(buckets[Bucket(key)], key) # {}>>
  /\ UNCHANGED buckets

Map_rem(key) == /\ map_answer' = <<"rem", Elm(buckets[Bucket(key)], key)>>
                /\ buckets' = [buckets EXCEPT ![Bucket(key)] = Without(@, key)]

Map_size == /\ map_answer' = <<"size", Len(EntriesOf(buckets, lbuckets))>>
            /\ UNCHANGED buckets

Map_get_keys == /\ map_answer' = <<"keys", KeysOf(EntriesOf(buckets, lbuckets))>>
                /\ UNCHANGED buckets

(* Its entries and lists go; then a new map.                               *)
HashMap_destroy == /\ buckets' = [b \in 0 .. lbuckets - 1 |-> <<>>]
                   /\ UNCHANGED map_answer

MapNext == \/ \E key \in Keys, elm \in Values \cup {NoElm} :
                Len(EntriesOf(buckets, lbuckets)) < MaxEntries /\ Map_put(key, elm)
           \/ \E key \in Keys : Map_get(key) \/ Map_contains(key) \/ Map_rem(key)
           \/ Map_size \/ Map_get_keys \/ HashMap_destroy

MapSpec == HashMap_new /\ [][MapNext]_mapVars
----------------------------------------------------------------------------
(* IntKeyMap                                                               *)

int_hash_fn(key) == (101 * key + 65537) % INT_KEY_MAP_BUCKETS

IntKeyMap_New == /\ ikm_buckets = [b \in 0 .. INT_KEY_MAP_BUCKETS - 1 |-> <<>>]
                 /\ ikm_answer = <<"new", NoElm>>

\* Mutant of IntKeyMap_put: as in a HashMap, one more entry.
IntKeyMap_put_Another(key, elm) ==
  /\ ikm_buckets' = [ikm_buckets EXCEPT ![int_hash_fn(key)] = Append(@, Entry(key, elm))]
  /\ UNCHANGED ikm_answer

IntKeyMap_put(key, elm) ==
  /\ Places(ikm_buckets[int_hash_fn(key)], key) = {}
  /\ ikm_buckets' = [ikm_buckets EXCEPT ![int_hash_fn(key)] = Append(@, Entry(key, elm))]
  /\ UNCHANGED ikm_answer

IntKeyMap_get(key) ==
  /\ ikm_answer' = <<"get", Elm(ikm_buckets[int_hash_fn(key)], key)>>
  /\ UNCHANGED ikm_buckets

(* "get(key) != 0": a key filed with the null pointer is not contained.    *)
IntKeyMap_contains(key) ==
  /\ ikm_answer' = <<"contains", Elm(ikm_buckets[int_hash_fn(key)], key) # NoElm>>
  /\ UNCHANGED ikm_buckets

IntKeyMap_rem(key) ==
  /\ ikm_answer' = <<"rem", Elm(ikm_buckets[int_hash_fn(key)], key)>>
  /\ ikm_buckets' = [ikm_buckets EXCEPT ![int_hash_fn(key)] = Without(@, key)]

IntKeyMap_size ==
  /\ ikm_answer' = <<"size", Len(EntriesOf(ikm_buckets, INT_KEY_MAP_BUCKETS))>>
  /\ UNCHANGED ikm_buckets

IntKeyMap_keys ==
  /\ ikm_answer' = <<"keys", KeysOf(EntriesOf(ikm_buckets, INT_KEY_MAP_BUCKETS))>>
  /\ UNCHANGED ikm_buckets

IntKeyMap_Destroy ==
  /\ ikm_buckets' = [b \in 0 .. INT_KEY_MAP_BUCKETS - 1 |-> <<>>]
  /\ UNCHANGED ikm_answer

IkmNext == \/ \E key \in Keys, elm \in Values \cup {NoElm} : IntKeyMap_put(key, elm)
           \/ \E key \in Keys : IntKeyMap_get(key) \/ IntKeyMap_contains(key)
                                \/ IntKeyMap_rem(key)
           \/ IntKeyMap_size \/ IntKeyMap_keys \/ IntKeyMap_Destroy

IkmSpec == IntKeyMap_New /\ [][IkmNext]_ikmVars
----------------------------------------------------------------------------
FiledIn(bs, hash) == {k \in Keys : Places(bs[hash[k]], k) # {}}
ValueIn(bs, hash) == [k \in Keys |-> Elm(bs[hash[k]], k)]

MapHash == [k \in Keys |-> Bucket(k)]
IkmHash == [k \in Keys |-> int_hash_fn(k)]

Latest == INSTANCE KeyedStore WITH filed <- FiledIn(buckets, MapHash),
                                   value <- ValueIn(buckets, MapHash),
                                   answer <- map_answer, Null <- NoElm
First == INSTANCE KeyedStore WITH filed <- FiledIn(ikm_buckets, IkmHash),
                                  value <- ValueIn(ikm_buckets, IkmHash),
                                  answer <- ikm_answer, Null <- NoElm,
                                  Values <- Values \cup {NoElm}

(* A key that was put while it was in the map is counted twice, and is     *)
(* still there with its value when it was removed.                         *)
Twice(key) == Cardinality(Places(buckets[Bucket(key)], key)) > 1
SameStore(bs, hash) == UNCHANGED <<FiledIn(bs, hash), ValueIn(bs, hash)>>
RemainsAfter(key) == /\ Twice(key)
                     /\ map_answer' = <<"rem", ValueIn(buckets, MapHash)[key]>>
                     /\ SameStore(buckets, MapHash)
CountsTwice ==
  /\ \E key \in Keys : Twice(key)
  /\ SameStore(buckets, MapHash)
  /\ \/ map_answer'[1] = "size" /\ map_answer'[2] > Cardinality(FiledIn(buckets, MapHash))
     \/ /\ map_answer'[1] = "keys"
        /\ {map_answer'[2][i] : i \in DOMAIN map_answer'[2]} = FiledIn(buckets, MapHash)
        /\ Len(map_answer'[2]) > Cardinality(FiledIn(buckets, MapHash))

(* A key whose value is the null pointer, which its map denies to contain. *)
DeniesNull(key) == /\ key \in FiledIn(ikm_buckets, IkmHash)
                   /\ ValueIn(ikm_buckets, IkmHash)[key] = NoElm
                   /\ ikm_answer' = <<"contains", FALSE>>
                   /\ SameStore(ikm_buckets, IkmHash)

(* Whichever keys share a bucket, a hash map does what map.h promises, and *)
(* answers with the value put last, but for keys put twice; an int key map *)
(* does what intkeymap.h promises, with the value put first, but for null  *)
(* pointers.  These are departures from the headers: see RemovedIsGone.    *)
MapsImplementStores ==
  /\ Latest!Init
  /\ [][\/ Latest!NextLatest
        \/ CountsTwice \/ \E key \in Keys : RemainsAfter(key)]_(Latest!storeVars)
  /\ First!Init
  /\ [][First!NextFirst \/ \E key \in Keys : DeniesNull(key)]_(First!storeVars)

(* "The map does not contain any key, value pair with key after invoking   *)
(* {rem}" (map.h:40).                                                      *)
RemovedIsGone ==
  [][\A key \in Keys : Map_rem(key) => key \notin FiledIn(buckets', MapHash)]_mapVars
=============================================================================
