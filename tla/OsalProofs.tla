------------------------------ MODULE OsalProofs ------------------------------
(***************************************************************************)
(* For any users, rounds, numbers and buckets: the descriptor table agrees *)
(* with the operating system, every thread uses what it was started for,   *)
(* and a join waits for the thread that its id was given for.              *)
(*                                                                         *)
(* The invariant follows each user through its rounds: what it owns of the *)
(* system and under which descriptor, which thread its id stands for, and  *)
(* - until somebody's look into the map has met another's - where a thread *)
(* of its can still be.                                                    *)
(*                                                                         *)
(* And for any years from 1970 on: what date the clock of the log shows.   *)
(* The invariant counts the days since 1970 by the calendar; the rest is   *)
(* how the code's walk over the months differs from the calendar's.        *)
(***************************************************************************)
EXTENDS Osal, LogClock, SequenceLemmas, FiniteSetTheorems, FunctionTheorems

(* A user with an open number in the descriptor table.                     *)
Filed(u) ==
  \/ doing[u] \in {"create", "register", "registering", "work", "close"}
  \/ Order[u] = "join_first" /\ doing[u] \in {"find", "join", "rem", "removing"}

(* A user whose thread is in the map.                                      *)
Registered(u) == \/ doing[u] \in {"work", "find", "join", "rem", "removing"}
                 \/ Order[u] = "close_first" /\ doing[u] = "close"

(* A user whose thread may run.                                            *)
Running(u) == \/ doing[u] \in {"register", "registering", "work", "find", "join"}
              \/ Order[u] = "close_first" /\ doing[u] = "close"

(* A user that is through with jointhread.                                 *)
Joined(u) == doing[u] = "open" \/ (Order[u] = "join_first" /\ doing[u] = "close")

Owns(u) == doing[u] = "file" \/ Filed(u)
Owned(u) == IF doing[u] = "file" THEN number[u] ELSE filedescriptors[fd[u]]

TypeOK ==
  /\ doing \in [Users -> {"open", "file", "create", "register", "registering", "work",
                        "find", "join", "rem", "removing", "close"}]
  /\ round \in [Users -> 0 .. Rounds]
  /\ \A u \in Users : doing[u] # "open" => round[u] # 0
  /\ number \in [Users -> Numbers \cup {Null}]
  /\ fd_pool \in Nat /\ fd \in [Users -> 0 .. fd_pool]
  /\ idpool \in Nat /\ tid \in [Users -> 0 .. idpool]
  /\ found \in [Users -> Workers \cup {Null}]
  /\ wrk \in [Workers -> {"none", "loop", "call", "use", "ended"}]
  /\ using \in [Workers -> Numbers \cup {Null}]
  /\ os \in [Numbers -> Workers \cup {Null}]

(* The table has the descriptors of the users that filed a number.  What   *)
(* a user owns stands for its round, and what stands for a user it owns.   *)
NumbersOwned ==
  /\ DOMAIN filedescriptors = {fd[u] : u \in {v \in Users : Filed(v)}}
  /\ \A u \in Users : Owns(u) => Owned(u) \in Numbers /\ os[Owned(u)] = Worker(u)
  /\ \A n \in Numbers : os[n] # Null => Owns(os[n][1]) /\ Owned(os[n][1]) = n

(* Ids below idpool have been given, each for good: the lock is held from  *)
(* the moment an id is taken to the one it is registered.                  *)
ThreadsFiled ==
  /\ DOMAIN threads \subseteq 0 .. idpool - 1
  /\ \A u \in Users : lock = u <=> doing[u] \in {"registering", "removing"}
  /\ \A u \in Users : doing[u] = "registering" => tid[u] = idpool
  /\ \A u \in Users :
       Registered(u) => tid[u] \in DOMAIN threads /\ threads[tid[u]] = Worker(u)
  /\ \A u \in Users : doing[u] \in {"join", "rem", "removing"} => found[u] = Worker(u)

(* Threads of rounds to come have not run; one that was waited for ended.  *)
RoundsKept ==
  /\ \A u \in Users, r \in 1 .. Rounds :
       r > round[u] \/ (r = round[u] /\ doing[u] \in {"file", "create"})
         => wrk[<<u, r>>] = "none"
  /\ \A u \in Users : doing[u] \in {"rem", "removing"} => wrk[Worker(u)] = "ended"

(* While no look into the map has met another's, a thread that runs is     *)
(* that of its user's round, and uses the number filed for it.             *)
WorkersJoined ==
  /\ \A u \in Users : Joined(u) => round[u] = 0 \/ wrk[Worker(u)] = "ended"
  /\ \A u \in Users, r \in 1 .. Rounds :
       wrk[<<u, r>>] \notin {"none", "ended"} => r = round[u] /\ Running(u)
  /\ \A u \in Users :
       Filed(u) /\ wrk[Worker(u)] = "use" =>
         using[Worker(u)] = filedescriptors[fd[u]]

OsalInv == /\ TypeOK /\ NumbersOwned /\ ThreadsFiled /\ RoundsKept
           /\ ~raced => WorkersJoined
----------------------------------------------------------------------------
(* What the assumption says, part by part.                                 *)
LEMMA Given ==
  /\ \A u \in Users : Order[u] \in {"join_first", "close_first"}
  /\ \A u \in Users : Order[u] = "join_first" <=> Order[u] # "close_first"
  /\ Rounds \in Nat /\ Numbers \subseteq Nat
  /\ Null \notin Users /\ Null \notin Workers
BY OsalAssumption DEF Workers

(* The round a user is in names a thread.                                  *)
LEMMA RoundsThread ==
  ASSUME TypeOK, NEW u \in Users, doing[u] # "open"
  PROVE  Worker(u) \in Workers /\ round[u] \in 1 .. Rounds
<1>1. round[u] \in 0 .. Rounds /\ round[u] # 0
  BY DEF TypeOK
<1>2. round[u] \in 1 .. Rounds
  BY <1>1, Given
<1> QED BY <1>2 DEF Worker, Workers

LEMMA InitInv == OsalInit => OsalInv
<1> SUFFICES ASSUME OsalInit PROVE OsalInv
  OBVIOUS
<1>1. TypeOK
  BY Given DEF OsalInit, TypeOK
<1>2. NumbersOwned
  BY Given DEF OsalInit, NumbersOwned, Filed, Owns, Owned
<1>3. ThreadsFiled
  BY Given DEF OsalInit, ThreadsFiled, Registered
<1>4. RoundsKept
  BY Given DEF OsalInit, RoundsKept, Workers
<1>5. WorkersJoined
  BY Given DEF OsalInit, WorkersJoined, Joined, Workers, Filed, Worker
<1> QED BY <1>1, <1>2, <1>3, <1>4, <1>5 DEF OsalInv
----------------------------------------------------------------------------
(* open finds a number: fewer are in use than there are users.             *)
LEMMA FreeNumber ==
  ASSUME TypeOK, NumbersOwned, NEW u \in Users, doing[u] = "open"
  PROVE  LET n == Min({m \in Numbers : os[m] = Null})
         IN  n \in Numbers /\ os[n] = Null
<1> DEFINE Used == {n \in Numbers : os[n] # Null}
           Others == Users \ {u}
           Free == {m \in Numbers : os[m] = Null}
<1>1. IsFiniteSet(Others) /\ Cardinality(Others) = Cardinality(Users) - 1
      /\ Cardinality(Users) \in Nat
  BY OsalAssumption, FS_RemoveElement, FS_CardinalityType
<1>2. IsFiniteSet({Owned(v) : v \in Others})
      /\ Cardinality({Owned(v) : v \in Others}) <= Cardinality(Others)
  <2> HIDE DEF Others
  <2> DEFINE g == [v \in Others |-> Owned(v)]
             I == {Owned(v) : v \in Others}
  <2>1. g \in Surjection(Others, I)
    BY DEF Surjection
  <2> HIDE DEF g, I
  <2>2. IsFiniteSet(I) /\ Cardinality(I) <= Cardinality(Others)
    BY <1>1, <2>1, FS_Surjection
  <2> QED BY <2>2 DEF I
<1>3. Used \subseteq {Owned(v) : v \in Others}
  <2>1. SUFFICES ASSUME NEW n \in Numbers, os[n] # Null
                 PROVE  n \in {Owned(v) : v \in Others}
    OBVIOUS
  <2>2. os[n] \in Workers
    BY <2>1 DEF TypeOK
  <2>3. os[n][1] \in Users
    BY <2>2 DEF Workers
  <2>4. Owns(os[n][1]) /\ Owned(os[n][1]) = n
    BY <2>1 DEF NumbersOwned
  <2>5. os[n][1] # u
    BY <2>4 DEF Owns, Filed
  <2> QED BY <2>3, <2>4, <2>5
<1>4. Cardinality(Used) <= Cardinality(Others) /\ Cardinality(Used) \in Nat
  <2> HIDE DEF Used, Others
  <2> DEFINE I == {Owned(v) : v \in Others}
  <2>1. Used \subseteq I /\ IsFiniteSet(I) /\ Cardinality(I) <= Cardinality(Others)
    BY <1>2, <1>3
  <2> HIDE DEF I
  <2>2. Cardinality(Used) <= Cardinality(I) /\ IsFiniteSet(Used)
    BY <2>1, FS_Subset
  <2>3. Cardinality(Used) \in Nat /\ Cardinality(I) \in Nat
        /\ Cardinality(Others) \in Nat
    BY <1>1, <2>1, <2>2, FS_CardinalityType
  <2> QED BY <2>1, <2>2, <2>3
<1>5. Used # Numbers
  <2> HIDE DEF Used, Others
  <2>1. Cardinality(Numbers) \in Nat /\ Cardinality(Numbers) >= Cardinality(Users)
    BY OsalAssumption, FS_CardinalityType
  <2> QED BY <1>1, <1>4, <2>1
<1>6. Free # {} /\ Free \in SUBSET Nat
  BY <1>5, Given
<1>7. PICK m \in Free : \A k \in Free : m <= k
  <2> HIDE DEF Free
  <2> QED BY <1>6, LeastElement
<1>8. Min(Free) \in Free
  <2> HIDE DEF Free
  <2> QED BY <1>7 DEF Min
<1> QED BY <1>8
----------------------------------------------------------------------------
(* The actions, one lemma each.                                            *)

(* A step that moves nobody into, out of or within what owns numbers.      *)
LEMMA NumbersKept ==
  ASSUME TypeOK, NumbersOwned, round' = round, fdVars' = fdVars,
         \A u \in Users : (doing'[u] = "file" <=> doing[u] = "file") /\ (Filed(u)' <=> Filed(u))
  PROVE  NumbersOwned'
<1>1. /\ os' = os /\ number' = number /\ filedescriptors' = filedescriptors /\ fd' = fd
  BY DEF fdVars
<1>2. \A u \in Users : /\ Owns(u)' <=> Owns(u)
                      /\ Owned(u)' = Owned(u) /\ Worker(u)' = Worker(u)
  BY <1>1 DEF Owns, Owned, Worker
<1>3. \A n \in Numbers : os[n] # Null => os[n][1] \in Users
  BY DEF TypeOK, Workers
<1>4. DOMAIN filedescriptors' = {fd'[u] : u \in {v \in Users : Filed(v)'}}
  BY <1>1 DEF NumbersOwned
<1>5. ASSUME NEW n \in Numbers, os[n] # Null
      PROVE  (Owns(os[n][1]) /\ Owned(os[n][1]) = n)'
  <2>1. PICK v \in Users : v = os[n][1]
    BY <1>3, <1>5
  <2>2. Owns(v) /\ Owned(v) = n
    BY <1>5, <2>1 DEF NumbersOwned
  <2>3. Owns(v)' /\ Owned(v)' = n /\ os'[n][1] = v
    BY <1>1, <1>2, <2>1, <2>2
  <2> QED BY <2>3
<1>6. \A u \in Users : Owns(u)' => Owned(u)' \in Numbers /\ os'[Owned(u)'] = Worker(u)'
  BY <1>1, <1>2 DEF NumbersOwned
<1> QED BY <1>1, <1>4, <1>5, <1>6 DEF NumbersOwned

LEMMA CreateStep ==
  ASSUME OsalInv, NEW u \in Users, Create(u)
  PROVE  OsalInv'
<1> USE Given DEF Create, Goto, fdVars, threadVars
<1>0. TypeOK /\ NumbersOwned /\ ThreadsFiled /\ RoundsKept /\ (~raced => WorkersJoined)
  BY DEF OsalInv
<1>1. TypeOK'
  BY <1>0 DEF TypeOK, Workers
<1>2. NumbersOwned'
  BY <1>0 DEF TypeOK, NumbersOwned, Filed, Owns, Owned, Worker, Workers
<1>3. ThreadsFiled'
  BY <1>0 DEF TypeOK, ThreadsFiled, Registered, Worker
<1>4. RoundsKept'
  BY <1>0 DEF TypeOK, RoundsKept, Worker, Workers
<1>5. ASSUME ~raced' PROVE WorkersJoined'
  BY <1>0, <1>5 DEF TypeOK, WorkersJoined, Joined, Running, Filed, Worker, Workers
<1> QED BY <1>1, <1>2, <1>3, <1>4, <1>5 DEF OsalInv

LEMMA StopStep ==
  ASSUME OsalInv, NEW u \in Users, Stop(u)
  PROVE  OsalInv'
<1> USE Given DEF Stop, Goto, fdVars, threadVars, workVars
<1>0. TypeOK /\ NumbersOwned /\ ThreadsFiled /\ RoundsKept /\ (~raced => WorkersJoined)
  BY DEF OsalInv
<1>1. TypeOK'
  BY <1>0 DEF TypeOK, Workers
<1>2. NumbersOwned'
  BY <1>0 DEF TypeOK, NumbersOwned, Filed, Owns, Owned, Worker, Workers
<1>3. ThreadsFiled'
  BY <1>0 DEF TypeOK, ThreadsFiled, Registered, Worker
<1>4. RoundsKept'
  BY <1>0 DEF TypeOK, RoundsKept, Worker, Workers
<1>5. ASSUME ~raced' PROVE WorkersJoined'
  BY <1>0, <1>5 DEF TypeOK, WorkersJoined, Joined, Running, Filed, Worker, Workers
<1> QED BY <1>1, <1>2, <1>3, <1>4, <1>5 DEF OsalInv

LEMMA TakeIdStep ==
  ASSUME OsalInv, NEW u \in Users, TakeId(u)
  PROVE  OsalInv'
<1> USE Given DEF TakeId, Goto, fdVars, workVars, Unlocked
<1>0. TypeOK /\ NumbersOwned /\ ThreadsFiled /\ RoundsKept /\ (~raced => WorkersJoined)
  BY DEF OsalInv
<1>1. TypeOK'
  BY <1>0 DEF TypeOK, Workers
<1>2. NumbersOwned'
  <2>1. round' = round /\ fdVars' = fdVars
    OBVIOUS
  <2>2. \A v \in Users : (doing'[v] = "file" <=> doing[v] = "file") /\ (Filed(v)' <=> Filed(v))
    BY <1>0 DEF TypeOK, Filed
  <2> QED BY <1>0, <2>1, <2>2, NumbersKept
<1>3. ThreadsFiled'
  BY <1>0 DEF TypeOK, ThreadsFiled, Registered, Worker
<1>4. RoundsKept'
  BY <1>0 DEF TypeOK, RoundsKept, Worker, Workers
<1>5. ASSUME ~raced' PROVE WorkersJoined'
  BY <1>0, <1>5 DEF TypeOK, WorkersJoined, Joined, Running, Filed, Worker, Workers
<1> QED BY <1>1, <1>2, <1>3, <1>4, <1>5 DEF OsalInv

LEMMA RegisterStep ==
  ASSUME OsalInv, NEW u \in Users, Register(u)
  PROVE  OsalInv'
<1> USE Given DEF Register, Goto, fdVars, workVars
<1>0. TypeOK /\ NumbersOwned /\ ThreadsFiled /\ RoundsKept /\ (~raced => WorkersJoined)
  BY DEF OsalInv
<1>1. TypeOK'
  <2>1. tid[u] = idpool /\ idpool' = idpool + 1
    BY <1>0 DEF ThreadsFiled
  <2>2. tid' \in [Users -> 0 .. idpool'] /\ idpool' \in Nat
    BY <1>0, <2>1 DEF TypeOK
  <2> QED BY <1>0, <2>2 DEF TypeOK, Workers
<1>2. NumbersOwned'
  BY <1>0 DEF TypeOK, NumbersOwned, Filed, Owns, Owned, Worker, Workers
<1>3. ThreadsFiled'
  <2>1. /\ tid[u] = idpool /\ idpool' = idpool + 1 /\ idpool \in Nat
        /\ DOMAIN threads \subseteq 0 .. idpool - 1
    BY <1>0 DEF ThreadsFiled, TypeOK
  <2>2. /\ DOMAIN threads' = DOMAIN threads \cup {idpool}
        /\ threads'[idpool] = Worker(u)
        /\ \A i \in DOMAIN threads : threads'[i] = threads[i]
    BY <2>1
  <2>3. DOMAIN threads' \subseteq 0 .. idpool' - 1
    BY <2>1, <2>2
  <2>4. /\ \A v \in Users : lock = v <=> doing[v] \in {"registering", "removing"}
        /\ lock = u /\ lock' = Null /\ doing' = [doing EXCEPT ![u] = "work"]
    BY <1>0 DEF ThreadsFiled
  <2>5. \A v \in Users : /\ lock' = v <=> doing'[v] \in {"registering", "removing"}
                        /\ doing'[v] # "registering"
    BY <1>0, <2>4 DEF TypeOK
  <2>6. ASSUME NEW v \in Users, Registered(v)'
        PROVE  tid'[v] \in DOMAIN threads' /\ threads'[tid'[v]] = Worker(v)'
    <3>1. CASE v = u
      BY <2>1, <2>2, <3>1 DEF Worker
    <3>2. CASE v # u
      BY <1>0, <2>2, <2>4, <2>6, <3>2 DEF TypeOK, ThreadsFiled, Registered, Worker
    <3> QED BY <3>1, <3>2
  <2>7. \A v \in Users : doing'[v] \in {"join", "rem", "removing"} => found'[v] = Worker(v)'
    BY <1>0, <2>4 DEF TypeOK, ThreadsFiled, Worker
  <2> QED BY <2>3, <2>5, <2>6, <2>7 DEF ThreadsFiled
<1>4. RoundsKept'
  BY <1>0 DEF TypeOK, RoundsKept, Worker, Workers
<1>5. ASSUME ~raced' PROVE WorkersJoined'
  BY <1>0, <1>5 DEF TypeOK, WorkersJoined, Joined, Running, Filed, Worker, Workers
<1> QED BY <1>1, <1>2, <1>3, <1>4, <1>5 DEF OsalInv

LEMMA JoinStep ==
  ASSUME OsalInv, NEW u \in Users, Join(u)
  PROVE  OsalInv'
<1> USE Given DEF Join, Goto, fdVars, threadVars, workVars
<1>0. TypeOK /\ NumbersOwned /\ ThreadsFiled /\ RoundsKept /\ (~raced => WorkersJoined)
  BY DEF OsalInv
<1>1. TypeOK'
  BY <1>0 DEF TypeOK, Workers
<1>2. NumbersOwned'
  BY <1>0 DEF TypeOK, NumbersOwned, Filed, Owns, Owned, Worker, Workers
<1>3. ThreadsFiled'
  BY <1>0 DEF TypeOK, ThreadsFiled, Registered, Worker
<1>6. found[u] = Worker(u) /\ wrk[Worker(u)] = "ended"
  BY <1>0 DEF TypeOK, ThreadsFiled
<1>4. RoundsKept'
  BY <1>0, <1>6, ZenonT(30) DEF TypeOK, RoundsKept, Worker, Workers
<1>5. ASSUME ~raced' PROVE WorkersJoined'
  <2>1. WorkersJoined
    BY <1>0, <1>5
  <2>2. \A v \in Users : /\ Joined(v)' => Joined(v) \/ wrk[Worker(v)] = "ended"
                         /\ Running(v) => Running(v)' \/ wrk[Worker(v)] = "ended"
                         /\ Filed(v)' <=> Filed(v)
    BY <1>0, <1>6 DEF TypeOK, Joined, Running, Filed
  <2> HIDE DEF Join, Goto
  <2>3. /\ round' = round /\ wrk' = wrk /\ using' = using
        /\ filedescriptors' = filedescriptors /\ fd' = fd
    BY DEF Join
  <2> QED BY <2>1, <2>2, <2>3 DEF WorkersJoined, Worker
<1> QED BY <1>1, <1>2, <1>3, <1>4, <1>5 DEF OsalInv

LEMMA LockToRemoveStep ==
  ASSUME OsalInv, NEW u \in Users, LockToRemove(u)
  PROVE  OsalInv'
<1> USE Given DEF LockToRemove, Goto, fdVars, workVars, Unlocked
<1>0. TypeOK /\ NumbersOwned /\ ThreadsFiled /\ RoundsKept /\ (~raced => WorkersJoined)
  BY DEF OsalInv
<1>1. TypeOK'
  BY <1>0 DEF TypeOK, Workers
<1>2. NumbersOwned'
  BY <1>0 DEF TypeOK, NumbersOwned, Filed, Owns, Owned, Worker, Workers
<1>3. ThreadsFiled'
  BY <1>0 DEF TypeOK, ThreadsFiled, Registered, Worker
<1>4. RoundsKept'
  BY <1>0 DEF TypeOK, RoundsKept, Worker, Workers
<1>5. ASSUME ~raced' PROVE WorkersJoined'
  BY <1>0, <1>5 DEF TypeOK, WorkersJoined, Joined, Running, Filed, Worker, Workers
<1> QED BY <1>1, <1>2, <1>3, <1>4, <1>5 DEF OsalInv

LEMMA UnregisterStep ==
  ASSUME OsalInv, NEW u \in Users, Unregister(u)
  PROVE  OsalInv'
<1> USE Given DEF Unregister, Goto, AfterJoin, fdVars, workVars
<1>0. TypeOK /\ NumbersOwned /\ ThreadsFiled /\ RoundsKept /\ (~raced => WorkersJoined)
  BY DEF OsalInv
<1>1. TypeOK'
  BY <1>0 DEF TypeOK, Workers
<1>2. NumbersOwned'
  BY <1>0 DEF TypeOK, NumbersOwned, Filed, Owns, Owned, Worker, Workers
<1>3. ThreadsFiled'
  BY <1>0 DEF TypeOK, ThreadsFiled, Registered, Worker
<1>4. RoundsKept'
  BY <1>0 DEF TypeOK, RoundsKept, Worker, Workers
<1>5. ASSUME ~raced' PROVE WorkersJoined'
  <2>1. WorkersJoined /\ wrk[Worker(u)] = "ended"
    BY <1>0, <1>5 DEF RoundsKept
  <2>2. \A v \in Users : /\ Joined(v)' => Joined(v) \/ wrk[Worker(v)] = "ended"
                         /\ Running(v) => Running(v)' \/ wrk[Worker(v)] = "ended"
                         /\ Filed(v)' <=> Filed(v)
    BY <1>0, <2>1 DEF TypeOK, Joined, Running, Filed
  <2> HIDE DEF Unregister, Goto, AfterJoin
  <2>3. /\ round' = round /\ wrk' = wrk /\ using' = using
        /\ filedescriptors' = filedescriptors /\ fd' = fd
    BY DEF Unregister
  <2> QED BY <2>1, <2>2, <2>3 DEF WorkersJoined, Worker
<1> QED BY <1>1, <1>2, <1>3, <1>4, <1>5 DEF OsalInv

LEMMA CheckStopStep ==
  ASSUME OsalInv, NEW w \in Workers, CheckStop(w)
  PROVE  OsalInv'
<1> USE Given DEF CheckStop, Work, fdVars, threadVars
<1>0. TypeOK /\ NumbersOwned /\ ThreadsFiled /\ RoundsKept /\ (~raced => WorkersJoined)
  BY DEF OsalInv
<1>1. TypeOK'
  BY <1>0 DEF TypeOK, Workers
<1>2. NumbersOwned'
  BY <1>0 DEF TypeOK, NumbersOwned, Filed, Owns, Owned, Worker, Workers
<1>3. ThreadsFiled'
  BY <1>0 DEF TypeOK, ThreadsFiled, Registered, Worker
<1>4. RoundsKept'
  BY <1>0, SMTT(30) DEF TypeOK, RoundsKept, Worker, Workers
<1>5. ASSUME ~raced' PROVE WorkersJoined'
  BY <1>0, <1>5 DEF TypeOK, WorkersJoined, Joined, Running, Filed, Worker, Workers
<1> QED BY <1>1, <1>2, <1>3, <1>4, <1>5 DEF OsalInv

LEMMA NumbersStay ==
  ASSUME NumbersOwned, UNCHANGED <<doing, round, number, fd, os, filedescriptors>>
  PROVE  NumbersOwned'
<1>1. /\ doing' = doing /\ round' = round /\ number' = number /\ fd' = fd
      /\ os' = os /\ filedescriptors' = filedescriptors
  OBVIOUS
<1>2. (DOMAIN filedescriptors = {fd[u] : u \in {v \in Users : Filed(v)}})'
  BY <1>1 DEF NumbersOwned, Filed
<1>3. (\A u \in Users : Owns(u) => Owned(u) \in Numbers /\ os[Owned(u)] = Worker(u))'
  BY <1>1 DEF NumbersOwned, Filed, Owns, Owned, Worker
<1>4. (\A n \in Numbers : os[n] # Null => Owns(os[n][1]) /\ Owned(os[n][1]) = n)'
  BY <1>1 DEF NumbersOwned, Filed, Owns, Owned
<1> QED BY <1>2, <1>3, <1>4 DEF NumbersOwned

LEMMA LookupStep ==
  ASSUME OsalInv, NEW w \in Workers, Lookup(w)
  PROVE  OsalInv'
<1> USE Given DEF Lookup, Work, fdVars, threadVars
<1>0. TypeOK /\ NumbersOwned /\ ThreadsFiled /\ RoundsKept /\ (~raced => WorkersJoined)
  BY DEF OsalInv
<1>1. TypeOK'
  <2>1. PICK v \in Users : Filed(v) /\ fd[v] = fd[w[1]]
    BY <1>0 DEF NumbersOwned
  <2>2. filedescriptors[fd[w[1]]] \in Numbers
    BY <1>0, <2>1 DEF NumbersOwned, Owns, Owned, Filed
  <2> QED BY <1>0, <2>2 DEF TypeOK, Workers
<1>2. NumbersOwned'
  BY <1>0, NumbersStay
<1>3. ThreadsFiled'
  BY <1>0 DEF TypeOK, ThreadsFiled, Registered, Worker
<1>4. RoundsKept'
  BY <1>0 DEF TypeOK, RoundsKept, Worker, Workers
<1>5. ASSUME ~raced' PROVE WorkersJoined'
  BY <1>0, <1>5 DEF TypeOK, WorkersJoined, Joined, Running, Filed, Worker, Workers
<1> QED BY <1>1, <1>2, <1>3, <1>4, <1>5 DEF OsalInv

LEMMA LookupFailsStep ==
  ASSUME OsalInv, NEW w \in Workers, LookupFails(w)
  PROVE  OsalInv'
<1> USE Given DEF LookupFails, Work, fdVars, threadVars
<1>0. TypeOK /\ NumbersOwned /\ ThreadsFiled /\ RoundsKept /\ (~raced => WorkersJoined)
  BY DEF OsalInv
<1>1. TypeOK'
  BY <1>0 DEF TypeOK, Workers
<1>2. NumbersOwned'
  BY <1>0 DEF TypeOK, NumbersOwned, Filed, Owns, Owned, Worker, Workers
<1>3. ThreadsFiled'
  BY <1>0 DEF TypeOK, ThreadsFiled, Registered, Worker
<1>4. RoundsKept'
  BY <1>0 DEF TypeOK, RoundsKept, Worker, Workers
<1>5. ASSUME ~raced' PROVE WorkersJoined'
  BY <1>0, <1>5 DEF TypeOK, WorkersJoined, Joined, Running, Filed, Worker, Workers
<1> QED BY <1>1, <1>2, <1>3, <1>4, <1>5 DEF OsalInv

LEMMA ReturnStep ==
  ASSUME OsalInv, NEW w \in Workers, Return(w)
  PROVE  OsalInv'
<1> USE Given DEF Return, Work, fdVars, threadVars
<1>0. TypeOK /\ NumbersOwned /\ ThreadsFiled /\ RoundsKept /\ (~raced => WorkersJoined)
  BY DEF OsalInv
<1>1. TypeOK'
  BY <1>0 DEF TypeOK, Workers
<1>2. NumbersOwned'
  BY <1>0 DEF TypeOK, NumbersOwned, Filed, Owns, Owned, Worker, Workers
<1>3. ThreadsFiled'
  BY <1>0 DEF TypeOK, ThreadsFiled, Registered, Worker
<1>4. RoundsKept'
  BY <1>0 DEF TypeOK, RoundsKept, Worker, Workers
<1>5. ASSUME ~raced' PROVE WorkersJoined'
  BY <1>0, <1>5, SMTT(30) DEF TypeOK, WorkersJoined, Joined, Running, Filed, Worker, Workers
<1> QED BY <1>1, <1>2, <1>3, <1>4, <1>5 DEF OsalInv

LEMMA FailStep ==
  ASSUME OsalInv, NEW w \in Workers, Fail(w)
  PROVE  OsalInv'
<1> USE Given DEF Fail, Work, fdVars, threadVars
<1>0. TypeOK /\ NumbersOwned /\ ThreadsFiled /\ RoundsKept /\ (~raced => WorkersJoined)
  BY DEF OsalInv
<1>1. TypeOK'
  BY <1>0 DEF TypeOK, Workers
<1>2. NumbersOwned'
  BY <1>0 DEF TypeOK, NumbersOwned, Filed, Owns, Owned, Worker, Workers
<1>3. ThreadsFiled'
  BY <1>0 DEF TypeOK, ThreadsFiled, Registered, Worker
<1>4. RoundsKept'
  BY <1>0 DEF TypeOK, RoundsKept, Worker, Workers
<1>5. ASSUME ~raced' PROVE WorkersJoined'
  BY <1>0, <1>5 DEF TypeOK, WorkersJoined, Joined, Running, Filed, Worker, Workers
<1> QED BY <1>1, <1>2, <1>3, <1>4, <1>5 DEF OsalInv

LEMMA OpenNumberStep ==
  ASSUME OsalInv, NEW u \in Users, OpenNumber(u)
  PROVE  OsalInv'
<1> USE Given DEF Goto, threadVars, workVars
<1>0. TypeOK /\ NumbersOwned /\ ThreadsFiled /\ RoundsKept /\ (~raced => WorkersJoined)
  BY DEF OsalInv
<1>6. PICK n \in Numbers : /\ os[n] = Null
                             /\ os' = [os EXCEPT ![n] = <<u, round[u] + 1>>]
                             /\ number' = [number EXCEPT ![u] = n]
  BY <1>0, FreeNumber DEF TypeOK, OpenNumber
<1>7. /\ round[u] < Rounds /\ doing[u] = "open" /\ doing' = [doing EXCEPT ![u] = "file"]
      /\ round' = [round EXCEPT ![u] = @ + 1]
      /\ UNCHANGED <<fd, filedescriptors, fd_pool, threadVars, workVars>>
  BY DEF OpenNumber
<1>1. TypeOK'
  <2>1. round[u] + 1 \in 1 .. Rounds /\ round[u] + 1 \in 0 .. Rounds
    BY <1>0, <1>7 DEF TypeOK
  <2>2. <<u, round[u] + 1>> \in Workers
    BY <2>1 DEF Workers
  <2> QED BY <1>0, <1>6, <1>7, <2>1, <2>2 DEF TypeOK
<1>2. NumbersOwned'
  <2>1. \A v \in Users \ {u} : /\ Owns(v)' <=> Owns(v)
                               /\ Filed(v)' <=> Filed(v)
                               /\ Owned(v)' = Owned(v) /\ Worker(v)' = Worker(v)
    BY <1>0, <1>6, <1>7 DEF TypeOK, Owns, Owned, Filed, Worker
  <2>2. ~Filed(u) /\ ~Filed(u)' /\ Owns(u)' /\ Owned(u)' = n /\ os'[n] = Worker(u)'
    BY <1>0, <1>6, <1>7 DEF TypeOK, Owns, Owned, Filed, Worker
  <2>3. DOMAIN filedescriptors' = {fd'[v] : v \in {w \in Users : Filed(w)'}}
    <3>1. fd' = fd /\ filedescriptors' = filedescriptors
      BY <1>7
    <3>2. \A v \in Users : Filed(v)' <=> Filed(v)
      BY <2>1, <2>2
    <3> QED BY <1>0, <3>1, <3>2 DEF NumbersOwned
  <2>4. ASSUME NEW v \in Users, Owns(v)'
        PROVE  Owned(v)' \in Numbers /\ os'[Owned(v)'] = Worker(v)'
    <3>1. CASE v = u
      BY <2>2, <3>1
    <3>2. CASE v # u
      <4>1. Owns(v) /\ Owned(v)' = Owned(v) /\ Worker(v)' = Worker(v)
        BY <2>1, <2>4, <3>2
      <4>2. Owned(v) \in Numbers /\ os[Owned(v)] = Worker(v)
        BY <1>0, <4>1 DEF NumbersOwned
      <4>3. doing[v] # "open"
        BY <4>1 DEF Owns, Filed
      <4>4. Worker(v) # Null
        BY <1>0, <4>3, RoundsThread
      <4>5. os'[Owned(v)] = os[Owned(v)]
        BY <1>0, <1>6, <4>2, <4>4 DEF TypeOK
      <4> QED BY <4>1, <4>2, <4>5
    <3> QED BY <3>1, <3>2
  <2>5. ASSUME NEW k \in Numbers, os'[k] # Null
        PROVE  (Owns(os[k][1]) /\ Owned(os[k][1]) = k)'
    <3>1. CASE k = n
      <4>1. os'[k][1] = u
        BY <1>0, <1>6, <3>1 DEF TypeOK
      <4> QED BY <2>2, <3>1, <4>1
    <3>2. CASE k # n
      <4>1. os'[k] = os[k] /\ os[k] \in Workers
        BY <1>0, <1>6, <2>5, <3>2 DEF TypeOK
      <4>2. PICK v \in Users : v = os[k][1]
        BY <4>1 DEF Workers
      <4>3. Owns(v) /\ Owned(v) = k /\ v # u
        BY <1>0, <1>7, <2>5, <4>1, <4>2 DEF NumbersOwned, Owns, Filed
      <4>4. v \in Users \ {u} /\ os'[k][1] = v
        BY <4>1, <4>2, <4>3
      <4>5. Owns(v)' /\ Owned(v)' = k
        BY <2>1, <4>3, <4>4
      <4> QED BY <4>4, <4>5
    <3> QED BY <3>1, <3>2
  <2> QED BY <2>3, <2>4, <2>5 DEF NumbersOwned
<1>3. ThreadsFiled'
  BY <1>0, <1>7 DEF TypeOK, ThreadsFiled, Registered, Worker
<1>4. RoundsKept'
  BY <1>0, <1>7 DEF TypeOK, RoundsKept, Worker, Workers
<1>5. ASSUME ~raced' PROVE WorkersJoined'
  BY <1>0, <1>5, <1>7 DEF TypeOK, WorkersJoined, RoundsKept, Joined, Running, Filed,
                         Worker, Workers
<1> QED BY <1>1, <1>2, <1>3, <1>4, <1>5 DEF OsalInv

LEMMA FileNumberStep ==
  ASSUME OsalInv, NEW u \in Users, FileNumber(u)
  PROVE  OsalInv'
<1> USE Given DEF FileNumber, Goto, threadVars, workVars
<1>0. TypeOK /\ NumbersOwned /\ ThreadsFiled /\ RoundsKept /\ (~raced => WorkersJoined)
  BY DEF OsalInv
<1>1. TypeOK'
  BY <1>0 DEF TypeOK, Workers
<1>2. NumbersOwned'
  <2> DEFINE f == fd_pool + 1
  <2>1. Owns(u) /\ Owned(u) = number[u] /\ Filed(u)' /\ Owns(u)'
    BY <1>0 DEF TypeOK, Owns, Owned, Filed
  <2>2. \A v \in Users : Filed(v) => fd[v] \in DOMAIN filedescriptors
    BY <1>0 DEF NumbersOwned
  <2>3. f \notin DOMAIN filedescriptors /\ \A v \in Users \ {u} : fd'[v] = fd[v]
    <3>1. \A v \in Users : fd[v] \in 0 .. fd_pool /\ fd_pool \in Nat
      BY <1>0 DEF TypeOK
    <3>2. \A v \in Users : fd[v] # f
      BY <3>1
    <3>3. f \notin DOMAIN filedescriptors
      BY <1>0, <3>2 DEF NumbersOwned
    <3> QED BY <1>0, <3>3 DEF TypeOK
  <2>4. fd'[u] = f /\ filedescriptors'[f] = number[u] /\ doing'[u] = "create"
    BY <1>0 DEF TypeOK
  <2>5. Owned(u)' = Owned(u)
    BY <2>1, <2>4 DEF Owned
  <2>6. ASSUME NEW v \in Users \ {u}
        PROVE  /\ Filed(v)' <=> Filed(v)
               /\ Owns(v)' <=> Owns(v)
               /\ Owns(v) => Owned(v)' = Owned(v)
    <3>1. doing'[v] = doing[v]
      BY <1>0 DEF TypeOK
    <3>2. Filed(v) => filedescriptors'[fd'[v]] = filedescriptors[fd[v]]
      BY <2>2, <2>3
    <3>3. number'[v] = number[v]
      BY <1>0 DEF TypeOK
    <3> QED BY <3>1, <3>2, <3>3 DEF Filed, Owns, Owned
  <2>7. os' = os /\ round' = round /\ DOMAIN filedescriptors' = DOMAIN filedescriptors \cup {f}
    OBVIOUS
  <2>8. \A v \in Users : (Owns(v)' <=> Owns(v)) /\ (Owns(v) => Owned(v)' = Owned(v))
    BY <2>1, <2>5, <2>6
  <2>9. DOMAIN filedescriptors' = {fd'[v] : v \in {w \in Users : Filed(w)'}}
    <3>1. ~Filed(u)
      BY <1>0 DEF TypeOK, Filed
    <3> QED BY <1>0, <2>1, <2>3, <2>4, <2>6, <2>7, <3>1 DEF NumbersOwned
  <2> HIDE DEF FileNumber, f
  <2>10. \A n \in Numbers : os[n] # Null => os[n][1] \in Users
    BY <1>0 DEF TypeOK, Workers
  <2> QED BY <1>0, <2>7, <2>8, <2>9, <2>10 DEF NumbersOwned, Worker
<1>3. ThreadsFiled'
  BY <1>0 DEF TypeOK, ThreadsFiled, Registered, Worker
<1>4. RoundsKept'
  BY <1>0 DEF TypeOK, RoundsKept, Worker, Workers
<1>5. ASSUME ~raced' PROVE WorkersJoined'
  <2>1. WorkersJoined
    BY <1>0, <1>5
  <2>2. \A v \in Users \ {u} : /\ Joined(v)' <=> Joined(v)
                               /\ Running(v)' <=> Running(v)
                               /\ Filed(v)' <=> Filed(v)
    BY <1>0 DEF TypeOK, Joined, Running, Filed
  <2>3. ~Joined(u)' /\ ~Running(u)
    BY <1>0 DEF TypeOK, Joined, Running
  <2>4. ASSUME NEW v \in Users, Filed(v)', wrk'[Worker(v)'] = "use"
        PROVE  (using[Worker(v)] = filedescriptors[fd[v]])'
    <3>1. wrk[<<v, round[v]>>] = "use" /\ round[v] \in 1 .. Rounds
      BY <1>0, <2>4, RoundsThread DEF Worker, Filed, TypeOK
    <3>2. v # u
      BY <2>1, <2>3, <3>1 DEF WorkersJoined
    <3>3. fd'[v] = fd[v] /\ fd[v] \in DOMAIN filedescriptors /\ fd[v] # fd_pool + 1
      BY <1>0, <2>2, <2>4, <3>2 DEF TypeOK, NumbersOwned
    <3>4. filedescriptors'[fd[v]] = filedescriptors[fd[v]]
      BY <3>3
    <3> QED BY <2>1, <2>2, <2>4, <3>2, <3>3, <3>4 DEF WorkersJoined, Worker
  <2> QED BY <2>1, <2>2, <2>3, <2>4 DEF WorkersJoined, Worker
<1> QED BY <1>1, <1>2, <1>3, <1>4, <1>5 DEF OsalInv

LEMMA CloseStep ==
  ASSUME OsalInv, NEW u \in Users, Close(u)
  PROVE  OsalInv'
<1> USE Given DEF Goto, threadVars, workVars
<1>0. TypeOK /\ NumbersOwned /\ ThreadsFiled /\ RoundsKept /\ (~raced => WorkersJoined)
  BY DEF OsalInv
<1>6. /\ doing[u] = "close" /\ doing' = [doing EXCEPT ![u] = AfterClose(u)]
      /\ os' = [os EXCEPT ![filedescriptors[fd[u]]] = Null]
      /\ DOMAIN filedescriptors' = DOMAIN filedescriptors \ {fd[u]}
      /\ \A f \in DOMAIN filedescriptors' : filedescriptors'[f] = filedescriptors[f]
      /\ UNCHANGED <<round, number, fd, fd_pool, threadVars, workVars>>
  BY DEF Close
<1>7. /\ AfterClose(u) \in {"open", "find"}
      /\ AfterClose(u) = "open" <=> Order[u] = "join_first"
  BY DEF AfterClose
<1>8. /\ filedescriptors[fd[u]] = Owned(u) /\ Owned(u) \in Numbers
      /\ os[Owned(u)] = Worker(u)
  BY <1>0, <1>6 DEF NumbersOwned, Owns, Owned, Filed
<1>9. \A v \in Users \ {u} : Owns(v) => Owned(v) # Owned(u) /\ (Filed(v) => fd[v] # fd[u])
  <2>1. Filed(u) /\ doing[u] # "file"
    BY <1>6 DEF Filed
  <2>2. ASSUME NEW v \in Users \ {u}, Owns(v) PROVE Owned(v) # Owned(u)
    <3>1. os[Owned(v)] = Worker(v)
      BY <1>0, <2>2 DEF NumbersOwned
    <3> QED BY <1>8, <3>1 DEF Worker
  <2>3. \A v \in Users \ {u} : Filed(v) => Owned(v) = filedescriptors[fd[v]]
    BY DEF Owned, Filed
  <2> QED BY <1>8, <2>2, <2>3 DEF Owns
<1>1. TypeOK'
  BY <1>0, <1>6, <1>7 DEF TypeOK
<1>10. \A v \in Users \ {u} : /\ Owns(v)' <=> Owns(v)
                              /\ Filed(v)' <=> Filed(v)
                              /\ Worker(v)' = Worker(v)
  BY <1>0, <1>6 DEF TypeOK, Owns, Filed, Worker
<1>11. ~Filed(u)' /\ ~Owns(u)' /\ Filed(u)
  BY <1>0, <1>6, <1>7 DEF TypeOK, Owns, Filed
<1>12. DOMAIN filedescriptors' = {fd'[v] : v \in {w \in Users : Filed(w)'}}
  <2>1. fd' = fd
    BY <1>6
  <2>2. \A v \in Users : Filed(v)' <=> v # u /\ Filed(v)
    BY <1>10, <1>11
  <2>3. \A v \in Users : Filed(v) /\ v # u => fd[v] # fd[u]
    BY <1>9 DEF Owns
  <2> QED BY <1>0, <1>6, <1>11, <2>1, <2>2, <2>3 DEF NumbersOwned
<1>13. \A v \in Users \ {u} : Owns(v) => Owned(v)' = Owned(v)
  BY <1>0, <1>6, <1>9, <1>10, <1>12 DEF TypeOK, Owned, Owns
<1>2. NumbersOwned'
  <2>1. ASSUME NEW v \in Users, Owns(v)'
        PROVE  Owned(v)' \in Numbers /\ os'[Owned(v)'] = Worker(v)'
    <3>1. v # u /\ Owns(v)
      BY <1>10, <1>11, <2>1
    <3>2. Owned(v)' = Owned(v) /\ Owned(v) # Owned(u) /\ Worker(v)' = Worker(v)
      BY <1>9, <1>10, <1>13, <3>1
    <3>3. Owned(v) \in Numbers /\ os[Owned(v)] = Worker(v)
      BY <1>0, <3>1 DEF NumbersOwned
    <3>4. os'[Owned(v)] = os[Owned(v)]
      BY <1>0, <1>6, <1>8, <3>2, <3>3 DEF TypeOK
    <3> QED BY <3>2, <3>3, <3>4
  <2>2. ASSUME NEW k \in Numbers, os'[k] # Null
        PROVE  (Owns(os[k][1]) /\ Owned(os[k][1]) = k)'
    <3>1. os'[k] = os[k] /\ os[k] \in Workers /\ k # Owned(u)
      BY <1>0, <1>6, <1>8, <2>2 DEF TypeOK
    <3>2. PICK v \in Users : v = os[k][1]
      BY <3>1 DEF Workers
    <3>3. Owns(v) /\ Owned(v) = k /\ v # u
      BY <1>0, <2>2, <3>1, <3>2 DEF NumbersOwned
    <3>4. Owns(v)' /\ Owned(v)' = k /\ os'[k][1] = v
      BY <1>10, <1>13, <3>1, <3>2, <3>3
    <3> QED BY <3>4
  <2> QED BY <1>12, <2>1, <2>2 DEF NumbersOwned
<1>3. ThreadsFiled'
  BY <1>0, <1>6, <1>7 DEF TypeOK, ThreadsFiled, Registered, Worker
<1>4. RoundsKept'
  BY <1>0, <1>6, <1>7 DEF TypeOK, RoundsKept, Worker, Workers
<1>5. ASSUME ~raced' PROVE WorkersJoined'
  <2>1. WorkersJoined /\ wrk' = wrk /\ using' = using /\ round' = round
    BY <1>0, <1>5, <1>6
  <2>2. \A v \in Users : (Joined(v)' => Joined(v)) /\ (Running(v) => Running(v)')
    BY <1>0, <1>6, <1>7 DEF TypeOK, Joined, Running
  <2>3. ASSUME NEW v \in Users, Filed(v)'
        PROVE  filedescriptors'[fd'[v]] = filedescriptors[fd[v]] /\ Filed(v)
    BY <1>6, <1>10, <1>11, <1>12, <2>3
  <2> QED BY <2>1, <2>2, <2>3 DEF WorkersJoined, Worker
<1> QED BY <1>1, <1>2, <1>3, <1>4, <1>5 DEF OsalInv

LEMMA FindStep ==
  ASSUME OsalInv, NEW u \in Users, Find(u)
  PROVE  OsalInv'
<1> USE Given DEF Find, Found, AfterJoin, fdVars, workVars
<1>0. TypeOK /\ NumbersOwned /\ ThreadsFiled /\ RoundsKept /\ (~raced => WorkersJoined)
  BY DEF OsalInv
<1>6. /\ doing[u] = "find" /\ round' = round
      /\ tid[u] \in DOMAIN threads /\ threads[tid[u]] = Worker(u)
      /\ Worker(u) \in Workers /\ Worker(u) # Null
  BY <1>0, RoundsThread DEF ThreadsFiled, Registered
<1>1. TypeOK'
  BY <1>0, <1>6 DEF TypeOK
<1>2. NumbersOwned'
  BY <1>0, SMTT(30) DEF TypeOK, NumbersOwned, Filed, Owns, Owned, Worker, Workers
<1>3. ThreadsFiled'
  BY <1>0 DEF TypeOK, ThreadsFiled, Registered, Worker
<1>4. RoundsKept'
  BY <1>0 DEF TypeOK, RoundsKept, Worker, Workers
<1>5. ASSUME ~raced' PROVE WorkersJoined'
  <2>1. WorkersJoined /\ doing' = [doing EXCEPT ![u] = "join"]
    BY <1>0, <1>5, <1>6 DEF TypeOK
  <2> QED BY <1>0, <1>6, <2>1
          DEF TypeOK, WorkersJoined, Joined, Running, Filed, Worker, Workers
<1> QED BY <1>1, <1>2, <1>3, <1>4, <1>5 DEF OsalInv

(* Nothing the invariant is about changes.                                 *)
LEMMA StutterStep ==
  ASSUME OsalInv, UNCHANGED osalVars
  PROVE  OsalInv'
<1>1. /\ doing' = doing /\ round' = round /\ number' = number /\ fd' = fd /\ os' = os
      /\ filedescriptors' = filedescriptors /\ fd_pool' = fd_pool /\ tid' = tid
      /\ found' = found /\ threads' = threads /\ idpool' = idpool /\ lock' = lock
      /\ raced' = raced /\ wrk' = wrk /\ using' = using
  BY DEF osalVars, fdVars, threadVars, workVars
<1> QED
  BY <1>1 DEF OsalInv, TypeOK, NumbersOwned, ThreadsFiled, RoundsKept, WorkersJoined,
              Filed, Registered, Running, Joined, Owns, Owned, Worker

LEMMA InvStep == OsalInv /\ [OsalNext]_osalVars => OsalInv'
<1> SUFFICES ASSUME OsalInv, [OsalNext]_osalVars PROVE OsalInv'
  OBVIOUS
<1>1. ASSUME NEW u \in Users, OsalUser(u) \/ Stop(u) PROVE OsalInv'
  BY <1>1, OpenNumberStep, FileNumberStep, CreateStep, TakeIdStep, RegisterStep, FindStep,
     JoinStep, LockToRemoveStep, UnregisterStep, CloseStep, StopStep DEF OsalUser
<1>2. ASSUME NEW w \in Workers, Thread(w) \/ Return(w) PROVE OsalInv'
  BY <1>2, CheckStopStep, LookupStep, LookupFailsStep, FailStep, ReturnStep DEF Thread
<1> QED BY <1>1, <1>2, StutterStep DEF OsalNext

----------------------------------------------------------------------------
(* The tables follow their users through every round.                      *)
THEOREM TablesFollowUsers == OsalSpec => []OsalInv
BY InitInv, InvStep, PTL DEF OsalSpec

LEMMA InvTable == OsalInv => TableMatchesSystem
<1> SUFFICES ASSUME OsalInv PROVE TableMatchesSystem
  OBVIOUS
<1> USE Given
<1>0. TypeOK /\ NumbersOwned
  BY DEF OsalInv
<1> DEFINE table == {filedescriptors[f] : f \in DOMAIN filedescriptors}
<1>1. \A u \in Users : Filed(u) => Owns(u) /\ Owned(u) = filedescriptors[fd[u]]
  BY DEF Filed, Owns, Owned
<1>2. \A f \in DOMAIN filedescriptors :
        \E u \in Users : Owns(u) /\ Filed(u) /\ fd[u] = f /\ Owned(u) = filedescriptors[f]
  BY <1>0, <1>1 DEF NumbersOwned
<1>3. ASSUME NEW u \in Users, NEW v \in Users, Owns(u), Owns(v), Owned(u) = Owned(v)
      PROVE  u = v
  BY <1>0, <1>3 DEF NumbersOwned, Worker
<1>4. ASSUME NEW f \in DOMAIN filedescriptors, NEW g \in DOMAIN filedescriptors,
             filedescriptors[f] = filedescriptors[g]
      PROVE  f = g
  <2>1. PICK u \in Users : Owns(u) /\ fd[u] = f /\ Owned(u) = filedescriptors[f]
    BY <1>2
  <2>2. PICK v \in Users : Owns(v) /\ fd[v] = g /\ Owned(v) = filedescriptors[g]
    BY <1>2
  <2> QED BY <1>3, <1>4, <2>1, <2>2
<1>8. \A u \in Pending :
        u \in Users /\ Owns(u) /\ ~Filed(u) /\ Owned(u) = number[u]
  BY DEF Pending, Owns, Owned, Filed
<1>5. ASSUME NEW u \in Pending, NEW f \in DOMAIN filedescriptors,
             number[u] = filedescriptors[f]
      PROVE  FALSE
  <2>1. PICK v \in Users : Owns(v) /\ Filed(v) /\ Owned(v) = filedescriptors[f]
    BY <1>2
  <2> QED BY <1>3, <1>5, <1>8, <2>1
<1>6. ASSUME NEW n \in Numbers, os[n] # Null
      PROVE  n \in table \cup {number[u] : u \in Pending}
  <2>1. PICK u \in Users : Owns(u) /\ Owned(u) = n
    BY <1>0, <1>6 DEF TypeOK, NumbersOwned, Workers
  <2>2. CASE Filed(u)
    <3>1. fd[u] \in DOMAIN filedescriptors /\ filedescriptors[fd[u]] = n
      BY <1>0, <1>1, <2>1, <2>2 DEF NumbersOwned
    <3> QED BY <3>1
  <2>3. CASE doing[u] = "file"
    <3>1. u \in Pending
      BY <2>3 DEF Pending
    <3> QED BY <1>8, <2>1, <3>1
  <2> QED BY <2>1, <2>2, <2>3 DEF Owns
<1>7. ASSUME NEW n, n \in table \cup {number[u] : u \in Pending}
      PROVE  n \in Numbers /\ os[n] # Null
  <2>1. PICK u \in Users : Owns(u) /\ Owned(u) = n
    <3>1. CASE n \in table
      BY <1>2, <3>1
    <3>2. CASE n \in {number[u] : u \in Pending}
      BY <1>8, <3>2
    <3> QED BY <1>7, <3>1, <3>2
  <2>2. Worker(u) \in Workers
    <3>1. doing[u] # "open"
      BY <2>1 DEF Owns, Filed
    <3> QED BY <1>0, <3>1, RoundsThread
  <2> QED BY <1>0, <2>1, <2>2 DEF NumbersOwned
<1> QED BY <1>4, <1>5, <1>6, <1>7 DEF TableMatchesSystem

(* At every moment the numbers the system has open are those the table     *)
(* files, each once, and those of the users between open and FDEntry_new.  *)
THEOREM TableIsRight == OsalSpec => []TableMatchesSystem
BY TablesFollowUsers, InvTable, PTL

LEMMA InvUses == OsalInv => UsesItsOwn
<1> SUFFICES ASSUME OsalInv, NEW u \in Users, NEW r \in 1 .. Rounds,
                    wrk[<<u, r>>] = "use", os[using[<<u, r>>]] # <<u, r>>, ~raced
             PROVE  /\ Order[u] = "close_first" /\ r = round[u]
                    /\ doing[u] \in {"find", "join"}
  BY DEF UsesItsOwn
<1>1. TypeOK /\ NumbersOwned /\ WorkersJoined
  BY DEF OsalInv
<1>2. r = round[u] /\ Running(u) /\ Worker(u) = <<u, r>>
  BY <1>1 DEF WorkersJoined, Worker
<1>3. ~Filed(u)
  BY <1>1, <1>2 DEF WorkersJoined, NumbersOwned, Owns, Owned, Filed
<1> QED BY <1>2, <1>3, Given DEF Running, Filed

(* A thread reads, writes and accepts on the number opened for it, whoever *)
(* else opens and closes numbers: always when its user joins it before the *)
(* close, and up to the close when the user closes first.                  *)
THEOREM NumbersAreOwn == OsalSpec => []UsesItsOwn
BY TablesFollowUsers, InvUses, PTL

LEMMA InvJoin == OsalInv => JoinWaits
BY Given DEF OsalInv, RoundsKept, WorkersJoined, Joined, JoinWaits

(* jointhread comes back when the thread of that id has ended, and no      *)
(* sooner, unless its look into the map has met another's.                 *)
THEOREM JoinsWait == OsalSpec => []JoinWaits
BY TablesFollowUsers, InvJoin, PTL
-----------------------------------------------------------------------------
(* Years, months and days.                                                 *)
LeapDay(year) == IF is_leap_year(year) THEN 1 ELSE 0
Month == 0 .. 11
Sums == <<0, 31, 59, 90, 120, 151, 181, 212, 243, 273, 304, 334>>

(* The days before a month, by the calendar and by the code's months.      *)
DaysUpto(month, leap) == Sums[month + 1] + IF month >= 2 THEN leap ELSE 0
TakenUpto(month, leap) == Sums[month + 1] + IF month >= 3 THEN leap ELSE 0

LEMMA MonthLengths ==
  /\ \A m \in Month : days_per_month[m + 1] \in 28 .. 31 /\ Sums[m + 1] \in Nat
  /\ \A m \in 1 .. 11 : Sums[m + 1] = Sums[m] + days_per_month[m]
  /\ Sums[1] = 0 /\ Sums[3] = 59 /\ Sums[4] = 90
  /\ days_per_month[2] = 28 /\ days_per_month[3] = 31
  /\ \A m \in Month : /\ Sums[m + 1] + days_per_month[m + 1] <= 365
                      /\ m >= 3 => Sums[m + 1] >= 90
                      /\ m >= 4 => Sums[m + 1] >= 120
  /\ Sums[2] = 31 /\ Sums[12] + days_per_month[12] = 365
<1>1. ASSUME NEW m \in Month
      PROVE  /\ days_per_month[m + 1] \in 28 .. 31 /\ Sums[m + 1] \in Nat
             /\ Sums[m + 1] + days_per_month[m + 1] <= 365 /\ (m >= 3 => Sums[m + 1] >= 90)
             /\ (m >= 4 => Sums[m + 1] >= 120)
  <2>1. m \in 0 .. 5 \/ m \in 6 .. 11
    BY DEF Month
  <2>2. CASE m \in 0 .. 5
    BY <2>2 DEF days_per_month, Sums
  <2>3. CASE m \in 6 .. 11
    BY <2>3 DEF days_per_month, Sums
  <2> QED BY <2>1, <2>2, <2>3
<1>2. ASSUME NEW m \in 1 .. 11 PROVE Sums[m + 1] = Sums[m] + days_per_month[m]
  <2>1. m \in 1 .. 5 \/ m \in 6 .. 11
    OBVIOUS
  <2>2. CASE m \in 1 .. 5
    BY <2>2 DEF days_per_month, Sums
  <2>3. CASE m \in 6 .. 11
    BY <2>3 DEF days_per_month, Sums
  <2> QED BY <2>1, <2>2, <2>3
<1>3. /\ Sums[1] = 0 /\ Sums[3] = 59 /\ Sums[4] = 90
      /\ days_per_month[2] = 28 /\ days_per_month[3] = 31
      /\ Sums[2] = 31 /\ Sums[12] + days_per_month[12] = 365
  BY DEF days_per_month, Sums
<1> QED BY <1>1, <1>2, <1>3

LEMMA DayHas == SECONDS_PER_DAY = 86400 /\ SECONDS_PER_HOUR = 3600 /\ SECONDS_PER_MINUTE = 60
BY DEF SECONDS_PER_DAY, SECONDS_PER_HOUR, SECONDS_PER_MINUTE

LEMMA LeapDayIs == \A year : LeapDay(year) \in {0, 1} /\ (LeapDay(year) = 1 <=> is_leap_year(year))
BY DEF LeapDay

(* What the walk over the months takes away.                               *)
LEMMA LeftIs ==
  ASSUME NEW ut \in Int, NEW year, NEW month \in Month
  PROVE  Left(ut, year)[month] = ut - SECONDS_PER_DAY * TakenUpto(month, LeapDay(year))
<1> DEFINE Walked(left) ==
             left = [m \in 0 .. 11 |->
                       IF m = 0 THEN ut ELSE left[m - 1] - SecondsPerMonth(m - 1, year)]
           u(m) == ut - SECONDS_PER_DAY * TakenUpto(m, LeapDay(year))
           f == [m \in 0 .. 11 |-> u(m)]
           h == CHOOSE left : Walked(left)
<1>1. ASSUME NEW m \in 1 .. 11 PROVE u(m) = u(m - 1) - SecondsPerMonth(m - 1, year)
  <2>1. LeapDay(year) \in {0, 1} /\ SECONDS_PER_DAY = 86400
    BY LeapDayIs, DayHas
  <2>2. SecondsPerMonth(m - 1, year)
          = 86400 * (days_per_month[m] + IF m = 3 THEN LeapDay(year) ELSE 0)
    BY <2>1 DEF SecondsPerMonth, LeapDay
  <2>3. /\ Sums[m + 1] = Sums[m] + days_per_month[m]
        /\ days_per_month[m] \in Nat /\ Sums[m] \in Nat
    <3>1. m - 1 \in Month /\ (m - 1) + 1 = m
      BY DEF Month
    <3> QED BY <3>1, MonthLengths
  <2> HIDE DEF LeapDay
  <2> QED BY <2>1, <2>2, <2>3 DEF TakenUpto
<1>2. u(0) = ut
  BY MonthLengths, LeapDayIs, DayHas DEF TakenUpto
<1>3. Walked(f)
  <2> HIDE DEF u
  <2>1. ASSUME NEW m \in 0 .. 11
        PROVE  f[m] = IF m = 0 THEN ut ELSE f[m - 1] - SecondsPerMonth(m - 1, year)
    <3>1. CASE m = 0
      BY <1>2, <3>1
    <3>2. CASE m # 0
      <4>1. m \in 1 .. 11 /\ m - 1 \in 0 .. 11
        BY <3>2
      <4> QED BY <1>1, <3>2, <4>1
    <3> QED BY <3>1, <3>2
  <2> QED BY <2>1
<1>4. Left(ut, year) = h
  BY DEF Left
<1>5. Walked(h)
  <2> HIDE DEF Walked, f
  <2> QED BY <1>3
<1> HIDE DEF h
<1>6. \A m \in 0 .. 11 : h[m] = IF m = 0 THEN ut ELSE h[m - 1] - SecondsPerMonth(m - 1, year)
  BY <1>5
<1> HIDE DEF Walked, u, f
<1> DEFINE P == {m \in Nat : m <= 11 => h[m] = u(m)}
<1>7. 0 \in P
  BY <1>2, <1>6
<1>8. ASSUME NEW m \in Nat, m \in P PROVE m + 1 \in P
  <2> SUFFICES ASSUME m + 1 <= 11 PROVE h[m + 1] = u(m + 1)
    OBVIOUS
  <2>1. m + 1 \in 1 .. 11 /\ m + 1 \in 0 .. 11 /\ (m + 1) - 1 = m
    OBVIOUS
  <2>2. h[m] = u(m)
    BY <1>8, <2>1
  <2>3. h[m + 1] = h[m] - SecondsPerMonth(m, year)
    BY <1>6, <2>1
  <2>4. u(m + 1) = u(m) - SecondsPerMonth(m, year)
    BY <1>1, <2>1
  <2> QED BY <2>2, <2>3, <2>4
<1>9. \A m \in Nat : m \in P
  <2> HIDE DEF P
  <2> QED BY <1>7, <1>8, SetInduction
<1> QED BY <1>4, <1>9 DEF u, Month

(* The days of the calendar before a month.                                *)
LEMMA DaysBeforeIs ==
  ASSUME NEW year, NEW month \in Month
  PROVE  DaysBefore(month, year) = DaysUpto(month, LeapDay(year))
<1> DEFINE Walked(before) ==
             before = [m \in 0 .. 11 |->
                         IF m = 0 THEN 0 ELSE before[m - 1] + DaysIn(m - 1, year)]
           u(m) == DaysUpto(m, LeapDay(year))
           f == [m \in 0 .. 11 |-> u(m)]
           h == CHOOSE before : Walked(before)
<1>1. ASSUME NEW m \in 1 .. 11 PROVE u(m) = u(m - 1) + DaysIn(m - 1, year)
  <2>1. LeapDay(year) \in {0, 1}
    BY LeapDayIs
  <2>2. DaysIn(m - 1, year) = days_per_month[m] + IF m = 2 THEN LeapDay(year) ELSE 0
    BY <2>1 DEF DaysIn, LeapDay
  <2>3. /\ Sums[m + 1] = Sums[m] + days_per_month[m]
        /\ days_per_month[m] \in Nat /\ Sums[m] \in Nat
    <3>1. m - 1 \in Month /\ (m - 1) + 1 = m
      BY DEF Month
    <3> QED BY <3>1, MonthLengths
  <2> HIDE DEF LeapDay
  <2> QED BY <2>1, <2>2, <2>3 DEF DaysUpto
<1>2. u(0) = 0
  BY MonthLengths, LeapDayIs DEF DaysUpto
<1>3. Walked(f)
  <2> HIDE DEF u
  <2>1. ASSUME NEW m \in 0 .. 11
        PROVE  f[m] = IF m = 0 THEN 0 ELSE f[m - 1] + DaysIn(m - 1, year)
    <3>1. CASE m = 0
      BY <1>2, <3>1
    <3>2. CASE m # 0
      <4>1. m \in 1 .. 11 /\ m - 1 \in 0 .. 11
        BY <3>2
      <4> QED BY <1>1, <3>2, <4>1
    <3> QED BY <3>1, <3>2
  <2> QED BY <2>1
<1>4. DaysBefore(month, year) = h[month]
  BY DEF DaysBefore
<1>5. Walked(h)
  <2> HIDE DEF Walked, f
  <2> QED BY <1>3
<1> HIDE DEF h
<1>6. \A m \in 0 .. 11 : h[m] = IF m = 0 THEN 0 ELSE h[m - 1] + DaysIn(m - 1, year)
  BY <1>5
<1> HIDE DEF Walked, u, f
<1> DEFINE P == {m \in Nat : m <= 11 => h[m] = u(m)}
<1>7. 0 \in P
  BY <1>2, <1>6
<1>8. ASSUME NEW m \in Nat, m \in P PROVE m + 1 \in P
  <2> SUFFICES ASSUME m + 1 <= 11 PROVE h[m + 1] = u(m + 1)
    OBVIOUS
  <2>1. m + 1 \in 1 .. 11 /\ m + 1 \in 0 .. 11 /\ (m + 1) - 1 = m
    OBVIOUS
  <2>2. h[m] = u(m)
    BY <1>8, <2>1
  <2>3. h[m + 1] = h[m] + DaysIn(m, year)
    BY <1>6, <2>1
  <2>4. u(m + 1) = u(m) + DaysIn(m, year)
    BY <1>1, <2>1
  <2> QED BY <2>2, <2>3, <2>4
<1>9. \A m \in Nat : m \in P
  <2> HIDE DEF P
  <2> QED BY <1>7, <1>8, SetInduction
<1> QED BY <1>4, <1>9 DEF u, Month

-----------------------------------------------------------------------------
(* The years.                                                              *)
LEMMA YearsNumbers ==
  /\ FirstYear \in Nat /\ LastYear \in Nat /\ 1970 <= FirstYear /\ FirstYear <= LastYear
  /\ \A y : /\ DaysPerYear(y) = 365 + LeapDay(y)
            /\ DaysPerYear(y) \in {365, 366}
BY ClockAssumption DEF DaysPerYear, LeapDay

YearAfter(start, year) == start + DaysPerYear(year) * SECONDS_PER_DAY

LEMMA YearStartsIs ==
  /\ YearStarts[1970] = 0
  /\ \A y \in 1970 .. LastYear :
       YearStarts[y + 1] = YearStarts[y] + DaysPerYear(y) * SECONDS_PER_DAY
<1> DEFINE n == LastYear + 1 - 1970
           V == Int
           zero == 0
           F == [p \in (1 .. n) \X V |-> YearAfter(p[2], 1969 + p[1])]
           Walked(s) ==
             s = [year \in 1970 .. LastYear + 1 |->
                    IF year = 1970 THEN zero ELSE YearAfter(s[year - 1], year - 1)]
<1>1. n \in Nat /\ LastYear \in Nat /\ 1970 <= LastYear + 1 /\ LastYear + 1 = 1970 + n
  BY YearsNumbers
<1> HIDE DEF n
<1>2. ASSUME NEW y, NEW v \in V PROVE YearAfter(v, y) \in V
  <2>1. DaysPerYear(y) \in Int
    BY YearsNumbers
  <2> QED BY <2>1, DayHas DEF YearAfter
<1>3. zero \in V
  OBVIOUS
<1> HIDE DEF V, zero, Walked
<1>4. F \in [(1 .. n) \X V -> V]
  <2>1. \A p \in (1 .. n) \X V : YearAfter(p[2], 1969 + p[1]) \in V
    BY <1>2
  <2> QED BY <2>1
<1>5. \A i \in 1 .. n, v \in V : F[<<i, v>>] = YearAfter(v, 1969 + i)
  OBVIOUS
<1>6. PICK f \in [0 .. n -> V] : f[0] = zero /\ \A i \in 1 .. n : f[i] = F[<<i, f[i - 1]>>]
  <2> HIDE DEF F
  <2>1. n \in Nat
    BY <1>1
  <2>2. \E f \in [0 .. n -> V] : StepByStep(f, n, zero, F)
    BY <1>3, <1>4, <2>1, RecursionExists
  <2> QED BY <2>2 DEF StepByStep
<1> HIDE DEF F
<1>7. ASSUME NEW i \in 1 .. n PROVE f[i] = YearAfter(f[i - 1], 1969 + i)
  <2>1. f[i - 1] \in V
    <3>1. i - 1 \in 0 .. n
      BY <1>1
    <3> QED BY <1>6, <3>1
  <2>2. F[<<i, f[i - 1]>>] = YearAfter(f[i - 1], 1969 + i)
    BY <1>5, <2>1
  <2> QED BY <1>6, <2>2
<1> USE DEF V, zero
<1> DEFINE g == [year \in 1970 .. LastYear + 1 |-> f[year - 1970]]
<1>8. Walked(g)
  <2>1. ASSUME NEW year \in 1970 .. LastYear + 1
        PROVE  g[year] = IF year = 1970 THEN zero ELSE YearAfter(g[year - 1], year - 1)
    <3>1. CASE year = 1970
      BY <1>6, <3>1
    <3>2. CASE year # 1970
      <4>1. /\ year - 1970 \in 1 .. n /\ 1969 + (year - 1970) = year - 1
            /\ year - 1 \in 1970 .. LastYear + 1 /\ (year - 1970) - 1 = (year - 1) - 1970
        BY <1>1, <3>2
      <4>2. f[year - 1970] = YearAfter(f[(year - 1) - 1970], year - 1)
        <5>1. f[year - 1970] = YearAfter(f[(year - 1970) - 1], 1969 + (year - 1970))
          BY <1>7, <4>1
        <5> QED BY <4>1, <5>1
      <4>3. g[year] = f[year - 1970] /\ g[year - 1] = f[(year - 1) - 1970]
        BY <4>1
      <4> QED BY <3>2, <4>2, <4>3
    <3> QED BY <3>1, <3>2
  <2>2. g = [year \in 1970 .. LastYear + 1 |-> g[year]]
    OBVIOUS
  <2> HIDE DEF g
  <2> USE DEF Walked
  <2> QED BY <2>1, <2>2
<1> HIDE DEF g, V, zero
<1>9. Walked(YearStarts)
  <2>1. YearStarts = CHOOSE s : Walked(s)
    BY DEF YearStarts, YearAfter, zero, Walked
  <2> QED BY <1>8, <2>1
<1>10. \A year \in 1970 .. LastYear + 1 :
        YearStarts[year] = IF year = 1970 THEN zero
                           ELSE YearAfter(YearStarts[year - 1], year - 1)
  <2>1. ASSUME NEW s, Walked(s), NEW year \in 1970 .. LastYear + 1
        PROVE  s[year] = IF year = 1970 THEN zero ELSE YearAfter(s[year - 1], year - 1)
    BY <1>1, <2>1 DEF Walked
  <2> QED BY <1>9, <2>1
<1>11. YearStarts[1970] = 0
  BY <1>1, <1>10 DEF zero
<1>12. ASSUME NEW y \in 1970 .. LastYear
       PROVE  YearStarts[y + 1] = YearAfter(YearStarts[y], y)
  <2>1. y + 1 \in 1970 .. LastYear + 1 /\ y + 1 # 1970 /\ (y + 1) - 1 = y
    BY <1>1
  <2> QED BY <1>10, <2>1
<1> QED BY <1>11, <1>12 DEF YearAfter

(* Years begin at midnight, one after the other.                           *)
LEMMA YearsInDays ==
  \A y \in 1970 .. LastYear + 1 : \E k \in Nat : YearStarts[y] = k * SECONDS_PER_DAY
<1> DEFINE P == {m \in Nat : 1970 + m <= LastYear + 1 =>
                   \E k \in Nat : YearStarts[1970 + m] = k * SECONDS_PER_DAY}
<1>1. 0 \in P
  BY YearStartsIs, DayHas
<1>2. ASSUME NEW m \in Nat, m \in P PROVE m + 1 \in P
  <2> SUFFICES ASSUME 1970 + (m + 1) <= LastYear + 1
               PROVE  \E k \in Nat : YearStarts[1970 + (m + 1)] = k * SECONDS_PER_DAY
    OBVIOUS
  <2>1. 1970 + m \in 1970 .. LastYear /\ (1970 + m) + 1 = 1970 + (m + 1) /\ 1970 + m <= LastYear + 1
    BY YearsNumbers
  <2>2. PICK k \in Nat : YearStarts[1970 + m] = k * SECONDS_PER_DAY
    BY <1>2, <2>1
  <2>3. YearStarts[1970 + (m + 1)] = YearStarts[1970 + m] + DaysPerYear(1970 + m) * SECONDS_PER_DAY
    BY <2>1, YearStartsIs
  <2>4. DaysPerYear(1970 + m) \in {365, 366}
    BY YearsNumbers
  <2>5. k + DaysPerYear(1970 + m) \in Nat
    BY <2>4
  <2>6. YearStarts[1970 + (m + 1)] = (k + DaysPerYear(1970 + m)) * SECONDS_PER_DAY
    BY <2>2, <2>3, <2>4, DayHas
  <2> QED BY <2>5, <2>6
<1>3. \A m \in Nat : m \in P
  <2> HIDE DEF P
  <2> QED BY <1>1, <1>2, SetInduction
<1>4. ASSUME NEW y \in 1970 .. LastYear + 1
      PROVE  \E k \in Nat : YearStarts[y] = k * SECONDS_PER_DAY
  <2>1. y - 1970 \in Nat /\ 1970 + (y - 1970) = y /\ y <= LastYear + 1
    BY YearsNumbers
  <2>2. y - 1970 \in P
    <3> HIDE DEF P
    <3> QED BY <1>3, <2>1
  <2> QED BY <2>1, <2>2
<1> QED BY <1>4

LEMMA YearsAscend ==
  ASSUME NEW y \in 1970 .. LastYear + 1, NEW z \in 1970 .. LastYear + 1, y <= z
  PROVE  YearStarts[y] \in Nat /\ YearStarts[y] <= YearStarts[z]
<1>1. \A x \in 1970 .. LastYear + 1 : YearStarts[x] \in Nat
  BY YearsInDays, DayHas
<1> DEFINE P == {m \in Nat : y + m <= LastYear + 1 => YearStarts[y] <= YearStarts[y + m]}
<1>2. 0 \in P
  BY <1>1, YearsNumbers
<1>3. ASSUME NEW m \in Nat, m \in P PROVE m + 1 \in P
  <2> SUFFICES ASSUME y + (m + 1) <= LastYear + 1
               PROVE  YearStarts[y] <= YearStarts[y + (m + 1)]
    OBVIOUS
  <2>1. /\ y + m \in 1970 .. LastYear /\ (y + m) + 1 = y + (m + 1) /\ y + m <= LastYear + 1
        /\ y + m \in 1970 .. LastYear + 1
    BY YearsNumbers
  <2>2. YearStarts[y] <= YearStarts[y + m]
    BY <1>3, <2>1
  <2>3. YearStarts[y + (m + 1)] = YearStarts[y + m] + DaysPerYear(y + m) * SECONDS_PER_DAY
    BY <2>1, YearStartsIs
  <2>4. DaysPerYear(y + m) \in {365, 366}
    BY YearsNumbers
  <2>5. YearStarts[y] \in Nat /\ YearStarts[y + m] \in Nat
    BY <1>1, <2>1
  <2> QED BY <2>2, <2>3, <2>4, <2>5, DayHas
<1>4. \A m \in Nat : m \in P
  <2> HIDE DEF P
  <2> QED BY <1>2, <1>3, SetInduction
<1>5. z - y \in Nat /\ y + (z - y) = z /\ z <= LastYear + 1
  BY YearsNumbers
<1>6. z - y \in P
  <2> HIDE DEF P
  <2> QED BY <1>4, <1>5
<1> QED BY <1>1, <1>5, <1>6

(* The year the code finds is the one there is.                            *)
LEMMA YearFound ==
  ASSUME NEW y \in 1970 .. LastYear, NEW now \in Nat,
         YearStarts[y] <= now, now < YearStarts[y + 1],
         NEW z \in 1970 .. LastYear, YearStarts[z] <= now, now < YearStarts[z + 1]
  PROVE  z = y
<1>1. /\ y \in 1970 .. LastYear + 1 /\ y + 1 \in 1970 .. LastYear + 1
      /\ z \in 1970 .. LastYear + 1 /\ z + 1 \in 1970 .. LastYear + 1
  BY YearsNumbers
<1>2. CASE z < y
  <2>1. YearStarts[z + 1] \in Nat /\ YearStarts[z + 1] <= YearStarts[y] /\ YearStarts[y] \in Nat
    <3>1. z + 1 <= y
      BY <1>2
    <3> QED BY <1>1, <3>1, YearsAscend
  <2> QED BY <2>1
<1>3. CASE y < z
  <2>1. YearStarts[y + 1] \in Nat /\ YearStarts[y + 1] <= YearStarts[z] /\ YearStarts[z] \in Nat
    <3>1. y + 1 <= z
      BY <1>3
    <3> QED BY <1>1, <3>1, YearsAscend
  <2> QED BY <2>1
<1> QED BY <1>2, <1>3

-----------------------------------------------------------------------------
(* The stamp.  For the loop over the months a day counts from its second 1 *)
(* on, in a leap year from its second 2 on.                                *)
Over(sec, leap) == IF sec <= leap THEN 0 ELSE 1

(* Whether n days and sec seconds are gone within length days behind the
   first gone ones, as the loop over the months asks it.                   *)
Within(n, sec, gone, length, leap) ==
  n * 86400 + sec - 86400 * gone <= length * 86400 + leap

LEMMA WithinIs ==
  ASSUME NEW n \in Nat, NEW gone \in Nat, NEW length \in Nat,
         NEW sec \in Nat, sec < SECONDS_PER_DAY, NEW leap \in {0, 1}
  PROVE  Within(n, sec, gone, length, leap) <=> n + Over(sec, leap) <= gone + length
<1>1. PICK over \in {0, 1} : over = Over(sec, leap) /\ (over = 0 <=> sec <= leap)
  BY SMT DEF Over
<1>2. PICK d \in Int : d = n - gone - length
  BY SMT
<1>3. Within(n, sec, gone, length, leap) <=> 86400 * d + sec <= leap
  BY <1>2, SMT DEF Within
<1>4. n + over <= gone + length <=> d + over <= 0
  BY <1>2, SMT
<1>5. 86400 * d + sec <= leap <=> d + over <= 0
  <2> USE DayHas
  <2>1. CASE d <= -1
    BY <1>1, <2>1, SMT
  <2>2. CASE d = 0
    BY <1>1, <2>2, SMT
  <2>3. CASE d >= 1
    BY <1>1, <2>3, SMT
  <2>4. d <= -1 \/ d = 0 \/ d >= 1
    BY SMT
  <2> QED BY <2>1, <2>2, <2>3, <2>4, SMT
<1> QED BY ONLY <1>1, <1>3, <1>4, <1>5, SMT

LEMMA TakenIs ==
  ASSUME NEW k \in Month, NEW leap \in {0, 1}
  PROVE  TakenUpto(k, leap) \in Nat /\ days_per_month[k + 1] \in Nat
<1>1. days_per_month[k + 1] \in 28 .. 31 /\ Sums[k + 1] \in Nat
  BY MonthLengths
<1> QED BY <1>1 DEF TakenUpto

LEMMA EndsIs ==
  ASSUME NEW year, NEW n \in Nat, NEW sec \in Nat, NEW k \in Month
  PROVE  Ends(Left(n * SECONDS_PER_DAY + sec, year), k, year)
           <=> Within(n, sec, TakenUpto(k, LeapDay(year)), days_per_month[k + 1], LeapDay(year))
<1> DEFINE ut == n * SECONDS_PER_DAY + sec
           gone == TakenUpto(k, LeapDay(year))
<1>1. ut \in Int
  BY DayHas, SMT
<1>2. Ends(Left(ut, year), k, year)
        <=> Left(ut, year)[k] <= days_per_month[k + 1] * SECONDS_PER_DAY + LeapDay(year)
  BY DEF Ends, LeapDay
<1>3. Left(ut, year)[k] = ut - SECONDS_PER_DAY * gone
  <2> HIDE DEF ut
  <2> QED BY <1>1, LeftIs
<1>4. ut - SECONDS_PER_DAY * gone <= days_per_month[k + 1] * SECONDS_PER_DAY + LeapDay(year)
        <=> Within(n, sec, gone, days_per_month[k + 1], LeapDay(year))
  <2>1. gone \in Nat /\ days_per_month[k + 1] \in Nat
    BY LeapDayIs, TakenIs
  <2>2. PICK g \in Nat : g = gone
    BY <2>1
  <2>3. SECONDS_PER_DAY = 86400
    BY DayHas
  <2> HIDE DEF gone
  <2>4. ut - SECONDS_PER_DAY * g = n * 86400 + sec - 86400 * g
    BY <2>3, SMT
  <2>5. days_per_month[k + 1] * SECONDS_PER_DAY = days_per_month[k + 1] * 86400
    BY <2>3
  <2> HIDE DEF ut
  <2> QED BY <2>2, <2>4, <2>5 DEF Within
<1> HIDE DEF ut, gone
<1>5. Ends(Left(ut, year), k, year)
        <=> Within(n, sec, gone, days_per_month[k + 1], LeapDay(year))
  BY ONLY <1>2, <1>3, <1>4
<1> QED BY <1>5 DEF ut, gone

LEMMA EndsWhen ==
  ASSUME NEW year, NEW n \in Nat, NEW sec \in Nat, sec < SECONDS_PER_DAY, NEW k \in Month
  PROVE  Ends(Left(n * SECONDS_PER_DAY + sec, year), k, year)
           <=> n + Over(sec, LeapDay(year)) <= TakenUpto(k, LeapDay(year)) + days_per_month[k + 1]
<1>1. LeapDay(year) \in {0, 1}
  BY LeapDayIs
<1>2. TakenUpto(k, LeapDay(year)) \in Nat /\ days_per_month[k + 1] \in Nat
  BY <1>1, TakenIs
<1>3. Within(n, sec, TakenUpto(k, LeapDay(year)), days_per_month[k + 1], LeapDay(year))
        <=> n + Over(sec, LeapDay(year)) <= TakenUpto(k, LeapDay(year)) + days_per_month[k + 1]
  BY <1>1, <1>2, WithinIs, Zenon
<1> QED BY <1>3, EndsIs

(* The month the code finds for the n-th day of a year.                    *)
LEMMA MonthFound ==
  ASSUME NEW year, NEW n \in Nat, n < 365 + LeapDay(year), NEW sec \in Nat, sec < SECONDS_PER_DAY,
         NEW left, left = Left(n * SECONDS_PER_DAY + sec, year)
  PROVE  /\ MonthOf(left, year) \in Month
         /\ n + Over(sec, LeapDay(year))
              <= TakenUpto(MonthOf(left, year), LeapDay(year)) + days_per_month[MonthOf(left, year) + 1]
         /\ \A k \in Month : k < MonthOf(left, year) =>
              n + Over(sec, LeapDay(year)) > TakenUpto(k, LeapDay(year)) + days_per_month[k + 1]
<1> DEFINE leap == LeapDay(year)
           S == {m \in 0 .. 11 : Ends(left, m, year)}
           e == Over(sec, leap)
           upto(k) == TakenUpto(k, leap) + days_per_month[k + 1]
           M == MonthOf(left, year)
<1>1. ASSUME NEW k \in Month PROVE Ends(left, k, year) <=> n + e <= upto(k)
  BY EndsWhen
<1>2. leap \in {0, 1} /\ e \in {0, 1} /\ n < 365 + leap
  BY LeapDayIs DEF Over
<1>3. upto(11) = 365 + leap
  <2>1. Sums[12] + days_per_month[12] = 365 /\ Sums[12] \in Nat /\ days_per_month[12] \in Nat
    <3>1. 11 \in Month /\ 11 + 1 = 12
      BY DEF Month
    <3>2. days_per_month[12] \in 28 .. 31 /\ Sums[12] \in Nat
      BY <3>1, MonthLengths
    <3> QED BY <3>2, MonthLengths
  <2> HIDE DEF leap
  <2> QED BY <1>2, <2>1 DEF TakenUpto
<1>4. 11 \in S
  <2>1. n + e <= upto(11)
    <3> HIDE DEF leap, e, upto
    <3> QED BY <1>2, <1>3
  <2>2. 11 \in Month
    BY DEF Month
  <2>3. Ends(left, 11, year)
    BY <1>1, <2>1, <2>2
  <2> QED BY <2>3
<1>5. S \in SUBSET Nat /\ S # {}
  BY <1>4
<1>6. \E m \in S : \A k \in S : m <= k
  <2> HIDE DEF S
  <2> QED BY <1>5, LeastElement
<1>7. M \in S /\ \A k \in S : M <= k
  <2>1. M = Min(S)
    BY DEF MonthOf
  <2> HIDE DEF S, M
  <2>2. Min(S) \in S /\ \A k \in S : Min(S) <= k
    BY <1>6 DEF Min
  <2> QED BY <2>1, <2>2
<1> HIDE DEF M
<1>8. M \in Month /\ Ends(left, M, year)
  BY <1>7 DEF Month
<1>9. n + e <= upto(M)
  BY <1>1, <1>8
<1>10. ASSUME NEW k \in Month, k < M PROVE n + e > upto(k)
  <2>1. k \notin S
    <3> HIDE DEF S
    <3>1. k \in Int /\ M \in Int
      BY <1>8 DEF Month
    <3> QED BY <1>7, <1>10, <3>1
  <2>2. ~Ends(left, k, year)
    BY <2>1 DEF Month
  <2>3. ~(n + e <= upto(k))
    BY <1>1, <2>2
  <2>4. upto(k) \in Int
    <3>1. TakenUpto(k, leap) \in Nat /\ days_per_month[k + 1] \in Nat
      BY <1>2, TakenIs
    <3> QED BY <3>1
  <2> HIDE DEF upto, e
  <2> QED BY <1>2, <2>3, <2>4
<1> QED BY <1>8, <1>9, <1>10 DEF M

LEMMA TimesIs ==
  ASSUME NEW u \in Nat, NEW unit \in Nat \ {0}
  PROVE  /\ Times(u, unit) \in Nat /\ u - Times(u, unit) * unit \in 0 .. unit
         /\ \A k \in Nat : u <= k * unit => Times(u, unit) <= k - 1 \/ u = 0
         /\ \A k \in Nat : k * unit < u => k <= Times(u, unit)
<1>1. CASE u = 0
  BY <1>1, SMT DEF Times
<1>2. CASE u # 0
  <2>1. PICK q \in Nat : q = (u - 1) \div unit /\ q = Times(u, unit)
    BY <1>2, SMT DEF Times
  <2>2. q * unit <= u - 1 /\ u - 1 < (q + 1) * unit
    BY <1>2, <2>1, SMT
  <2> QED BY <2>1, <2>2, SMT
<1> QED BY <1>1, <1>2

LEMMA TimesAt ==
  ASSUME NEW u \in Nat, NEW unit \in Nat \ {0}, NEW k \in Nat,
         k * unit < u, u <= (k + 1) * unit
  PROVE  Times(u, unit) = k
<1>1. Times(u, unit) \in Nat /\ k <= Times(u, unit)
  BY TimesIs
<1>2. u # 0
  <2>1. k * unit \in Nat
    BY SMT
  <2> QED BY <2>1
<1>3. k + 1 \in Nat
  OBVIOUS
<1>4. Times(u, unit) <= (k + 1) - 1
  BY <1>2, <1>3, TimesIs
<1> QED BY <1>1, <1>4

(* The second sec of a day, k days on: which hour it is shown as.          *)
LEMMA DayAndHour ==
  ASSUME NEW D \in Nat \ {0}, NEW H \in Nat \ {0}, D = 24 * H,
         NEW k \in Nat, NEW sec \in Nat, sec < D,
         NEW rest, rest = k * D + sec
  PROVE  /\ Times(rest, D) <= k
         /\ sec = 0 => Times(rest, D) = 0 \/ Times(rest, D) <= k - 1
         /\ Times(rest - Times(rest, D) * D, H) >= 22
              <=> sec > 22 * H \/ (sec = 0 /\ k # 0)
<1>6. PICK day, ofDay, hour :
        day = Times(rest, D) /\ ofDay = rest - day * D /\ hour = Times(ofDay, H)
  OBVIOUS
<1> SUFFICES /\ day <= k /\ (sec = 0 => day = 0 \/ day <= k - 1)
             /\ hour >= 22 <=> sec > 22 * H \/ (sec = 0 /\ k # 0)
  BY <1>6
<1>1. PICK p \in Nat : p = k * D /\ (k + 1) * D = p + D
  BY SMT
<1>2. rest \in Nat /\ rest = p + sec
  BY <1>1
<1>3. CASE sec # 0
  <2>1. k * D < rest /\ rest <= (k + 1) * D
    BY <1>1, <1>2, <1>3
  <2>2. day = k
    BY <1>6, <1>2, <2>1, TimesAt
  <2>3. ofDay = sec
    BY <1>6, <1>1, <1>2, <2>2
  <2>4. /\ hour \in Nat
        /\ sec <= 22 * H => hour <= 22 - 1
        /\ 22 * H < sec => 22 <= hour
    <3>1. 22 \in Nat
      OBVIOUS
    <3> QED BY <1>3, <1>6, <2>3, <3>1, TimesIs
  <2> QED BY <1>3, <2>2, <2>4
<1>4. CASE sec = 0 /\ k = 0
  <2>1. rest = 0
    BY <1>1, <1>2, <1>4, SMT
  <2>2. day = 0
    BY <1>6, <2>1 DEF Times
  <2>3. ofDay = 0
    BY <1>6, <2>1, <2>2, SMT
  <2>4. hour = 0
    BY <1>6, <2>3 DEF Times
  <2> QED BY <1>4, <2>2, <2>4
<1>5. CASE sec = 0 /\ k # 0
  <2>1. PICK j \in Nat : k = j + 1
    <3>1. k - 1 \in Nat /\ k = (k - 1) + 1
      BY <1>5
    <3> QED BY <3>1
  <2>2. PICK q \in Nat : q = j * D /\ (j + 1) * D = q + D
    BY SMT
  <2>3. rest = q + D
    BY <1>1, <1>2, <1>5, <2>1, <2>2
  <2>4. j * D < rest /\ rest <= (j + 1) * D
    BY <2>2, <2>3
  <2>5. day = j
    BY <1>6, <1>2, <2>4, TimesAt
  <2>6. ofDay = 24 * H /\ ofDay \in Nat
    <3>1. day * D = q /\ rest \in Nat
      BY <1>2, <2>2, <2>5
    <3>2. ofDay = rest - q
      BY <1>6, <3>1
    <3> QED BY <2>2, <2>3, <3>2
  <2>7. hour \in Nat /\ 22 <= hour
    <3>1. 22 \in Nat /\ 22 * H < ofDay
      BY <2>6
    <3> QED BY <1>6, <2>6, <3>1, TimesIs
  <2> QED BY <1>5, <2>1, <2>5, <2>7
<1> QED BY <1>3, <1>4, <1>5

(* A minute of an hour, and what is left of it.                            *)
LEMMA MinuteIs ==
  ASSUME NEW M \in Nat \ {0}, NEW ofHour \in 0 .. 60 * M
  PROVE  Times(ofHour, M) \in 0 .. 59 /\ ofHour - Times(ofHour, M) * M \in 0 .. M
<1>1. /\ Times(ofHour, M) \in Nat /\ ofHour - Times(ofHour, M) * M \in 0 .. M
      /\ Times(ofHour, M) <= 60 - 1 \/ ofHour = 0
  <2>1. ofHour \in Nat /\ 60 \in Nat /\ ofHour <= 60 * M
    OBVIOUS
  <2> QED BY <2>1, TimesIs
<1>2. ofHour = 0 => Times(ofHour, M) = 0
  BY DEF Times
<1> QED BY <1>1, <1>2

(* Days, hours, minutes and seconds taken one after the other add up.      *)
LEMMA HoursAddUp ==
  ASSUME NEW rest \in Nat, NEW day, NEW ofDay, NEW hour, NEW ofHour, NEW minute,
         day = Times(rest, SECONDS_PER_DAY), ofDay = rest - day * SECONDS_PER_DAY,
         hour = Times(ofDay, SECONDS_PER_HOUR), ofHour = ofDay - hour * SECONDS_PER_HOUR,
         minute = Times(ofHour, SECONDS_PER_MINUTE)
  PROVE  /\ day \in Nat /\ hour \in 0 .. 23 /\ minute \in Nat
         /\ ofHour \in 0 .. SECONDS_PER_HOUR
         /\ day * SECONDS_PER_DAY + hour * SECONDS_PER_HOUR + minute * SECONDS_PER_MINUTE
              + (ofHour - minute * SECONDS_PER_MINUTE) = rest
<1>1. /\ SECONDS_PER_DAY \in Nat \ {0} /\ SECONDS_PER_HOUR \in Nat \ {0}
      /\ SECONDS_PER_MINUTE \in Nat \ {0} /\ SECONDS_PER_DAY = 24 * SECONDS_PER_HOUR
  BY DayHas, SMT
<1>2. day \in Nat /\ ofDay \in 0 .. SECONDS_PER_DAY
  BY <1>1, TimesIs
<1>3. hour \in Nat /\ ofHour \in 0 .. SECONDS_PER_HOUR
      /\ \A k \in Nat : ofDay <= k * SECONDS_PER_HOUR => hour <= k - 1 \/ ofDay = 0
  BY <1>1, <1>2, TimesIs
<1>4. minute \in Nat
  BY <1>1, <1>3, TimesIs
<1>5. hour \in 0 .. 23
  <2>1. ofDay <= 24 * SECONDS_PER_HOUR
    BY <1>1, <1>2
  <2>2. CASE ofDay = 0
    BY <2>2 DEF Times
  <2>3. CASE ofDay # 0
    BY <1>3, <2>1, <2>3
  <2> QED BY <2>2, <2>3
<1>6. SECONDS_PER_DAY = 86400 /\ SECONDS_PER_HOUR = 3600 /\ SECONDS_PER_MINUTE = 60
  BY DayHas
<1>7. ofDay = rest - day * 86400 /\ ofHour = ofDay - hour * 3600
  BY <1>6
<1>8. day * 86400 + hour * 3600 + minute * 60 + (ofHour - minute * 60) = rest
  BY ONLY rest \in Nat, <1>2, <1>3, <1>4, <1>7, SMT
<1>9. day * SECONDS_PER_DAY + hour * SECONDS_PER_HOUR + minute * SECONDS_PER_MINUTE
        + (ofHour - minute * SECONDS_PER_MINUTE) = rest
  BY <1>6, <1>8
<1> QED BY <1>2, <1>3, <1>4, <1>5, <1>9

(* What is left behind the months comes back as days and time, the time    *)
(* utcoffset hours on, the day without a carry into the next.              *)
LateDay(k, sec) == IF sec > 22 * SECONDS_PER_HOUR \/ (sec = 0 /\ k # 0) THEN SECONDS_PER_DAY ELSE 0

LEMMA UnitsOfTime ==
  /\ SECONDS_PER_DAY \in Nat \ {0} /\ SECONDS_PER_HOUR \in Nat \ {0}
  /\ SECONDS_PER_MINUTE \in Nat \ {0}
  /\ SECONDS_PER_DAY = 24 * SECONDS_PER_HOUR /\ SECONDS_PER_HOUR = 60 * SECONDS_PER_MINUTE
<1>1. SECONDS_PER_DAY = 24 * SECONDS_PER_HOUR
  BY DEF SECONDS_PER_DAY
<1>2. SECONDS_PER_HOUR = 60 * SECONDS_PER_MINUTE
  BY DEF SECONDS_PER_HOUR
<1>3. SECONDS_PER_MINUTE \in Nat \ {0}
  BY SMT DEF SECONDS_PER_MINUTE
<1>4. SECONDS_PER_HOUR \in Nat \ {0}
  BY <1>2, <1>3, SMT
<1>5. SECONDS_PER_DAY \in Nat \ {0}
  BY <1>1, <1>4, SMT
<1> QED BY <1>1, <1>2, <1>3, <1>4, <1>5

(* The hour moved on without its day.                                      *)
LEMMA HourShifted ==
  ASSUME NEW D \in Nat, NEW H \in Nat, D = 24 * H, NEW hour \in 0 .. 23
  PROVE  /\ (hour + utcoffset) % 24 \in 0 .. 23
         /\ ((hour + utcoffset) % 24) * H
              = hour * H + utcoffset * H - IF hour >= 22 THEN D ELSE 0
<1>1. PICK a \in Nat : a = hour * H
  BY SMT
<1>2. (hour + 2) * H = a + 2 * H /\ (hour - 22) * H = a - 22 * H
  BY <1>1, SMT
<1>3. (hour + 2) % 24 = IF hour >= 22 THEN hour - 22 ELSE hour + 2
  BY SMT
<1>4. CASE hour >= 22
  <2>1. ((hour + 2) % 24) * H = a - 22 * H
    BY <1>2, <1>3, <1>4
  <2>2. (a + 2 * H) - D = a - 22 * H
    BY SMT
  <2> QED BY <1>1, <1>3, <1>4, <2>1, <2>2, SMT DEF utcoffset
<1>5. CASE ~(hour >= 22)
  <2>1. ((hour + 2) % 24) * H = a + 2 * H
    BY <1>2, <1>3, <1>5
  <2> QED BY <1>1, <1>3, <1>5, <2>1, SMT DEF utcoffset
<1> QED BY <1>4, <1>5

LEMMA StampDenotes ==
  ASSUME NEW year, NEW month \in Month, NEW k \in Nat, NEW sec \in Nat, sec < SECONDS_PER_DAY,
         NEW rest, rest = k * SECONDS_PER_DAY + sec, YearStarts[year] \in Nat
  PROVE  /\ Denotes(Stamp(year, month, rest))
              = YearStarts[year] + DaysUpto(month, LeapDay(year)) * SECONDS_PER_DAY + rest
                  + utcoffset * SECONDS_PER_HOUR - LateDay(k, sec)
         /\ DaysIn(month, year) \in Nat \ {0}
              /\ (k < DaysIn(month, year) \/ (sec = 0 /\ k <= DaysIn(month, year)))
            => OnCalendar(Stamp(year, month, rest))
<1>1. PICK day, ofDay, hour, ofHour, minute :
        /\ day = Times(rest, SECONDS_PER_DAY) /\ ofDay = rest - day * SECONDS_PER_DAY
        /\ hour = Times(ofDay, SECONDS_PER_HOUR) /\ ofHour = ofDay - hour * SECONDS_PER_HOUR
        /\ minute = Times(ofHour, SECONDS_PER_MINUTE)
  OBVIOUS
<1>2. rest \in Nat
  BY UnitsOfTime, SMT
<1> DEFINE left == ofHour - minute * SECONDS_PER_MINUTE
<1>3. /\ day \in Nat /\ hour \in 0 .. 23 /\ minute \in Nat /\ ofHour \in 0 .. SECONDS_PER_HOUR
      /\ day * SECONDS_PER_DAY + hour * SECONDS_PER_HOUR + minute * SECONDS_PER_MINUTE + left = rest
  BY <1>1, <1>2, HoursAddUp
<1>4. /\ day <= k /\ (sec = 0 => day = 0 \/ day <= k - 1)
      /\ hour >= 22 <=> sec > 22 * SECONDS_PER_HOUR \/ (sec = 0 /\ k # 0)
  <2>1. /\ SECONDS_PER_DAY \in Nat \ {0} /\ SECONDS_PER_HOUR \in Nat \ {0}
        /\ SECONDS_PER_DAY = 24 * SECONDS_PER_HOUR
    BY UnitsOfTime
  <2>2. hour = Times(ofDay, SECONDS_PER_HOUR) /\ ofDay = rest - day * SECONDS_PER_DAY
        /\ day = Times(rest, SECONDS_PER_DAY)
    BY <1>1
  <2> DEFINE of == Times(rest - Times(rest, SECONDS_PER_DAY) * SECONDS_PER_DAY, SECONDS_PER_HOUR)
  <2>3. /\ Times(rest, SECONDS_PER_DAY) <= k
        /\ sec = 0 => Times(rest, SECONDS_PER_DAY) = 0 \/ Times(rest, SECONDS_PER_DAY) <= k - 1
        /\ of >= 22 <=> sec > 22 * SECONDS_PER_HOUR \/ (sec = 0 /\ k # 0)
    <3>1. /\ k \in Nat /\ sec \in Nat /\ sec < SECONDS_PER_DAY
          /\ rest = k * SECONDS_PER_DAY + sec
      OBVIOUS
    <3>2. PICK D \in Nat \ {0}, H \in Nat \ {0} :
            D = SECONDS_PER_DAY /\ H = SECONDS_PER_HOUR /\ D = 24 * H
      BY <2>1
    <3>4. sec < D /\ rest = k * D + sec
      BY <3>1, <3>2
    <3>3. /\ Times(rest, D) <= k
          /\ sec = 0 => Times(rest, D) = 0 \/ Times(rest, D) <= k - 1
          /\ Times(rest - Times(rest, D) * D, H) >= 22
               <=> sec > 22 * H \/ (sec = 0 /\ k # 0)
      BY ONLY <3>1, <3>2, <3>4, DayAndHour, Zenon
    <3> QED BY <3>2, <3>3
  <2>4. hour = of
    BY <2>2
  <2> QED BY <2>2, <2>3, <2>4
<1>5. minute \in 0 .. 59 /\ left \in 0 .. 60
  <2>1. SECONDS_PER_MINUTE = 60
    BY DEF SECONDS_PER_MINUTE
  <2>2. ofHour \in 0 .. 60 * SECONDS_PER_MINUTE
    BY <1>3, UnitsOfTime
  <2>3. minute \in 0 .. 59 /\ left \in 0 .. SECONDS_PER_MINUTE
    BY <1>1, <2>2, MinuteIs, UnitsOfTime
  <2> QED BY <2>1, <2>3
<1> DEFINE shifted == (hour + utcoffset) % 24
           stamp == <<year, month, day, shifted, minute, left>>
           upto == DaysUpto(month, LeapDay(year))
           late == IF hour >= 22 THEN SECONDS_PER_DAY ELSE 0
<1>6. Stamp(year, month, rest) = stamp
  BY <1>1 DEF Stamp
<1>7. /\ shifted \in 0 .. 23
      /\ shifted * SECONDS_PER_HOUR
           = hour * SECONDS_PER_HOUR + utcoffset * SECONDS_PER_HOUR - late
  <2>1. /\ SECONDS_PER_DAY \in Nat /\ SECONDS_PER_HOUR \in Nat
        /\ SECONDS_PER_DAY = 24 * SECONDS_PER_HOUR
    BY UnitsOfTime
  <2>2. hour \in 0 .. 23
    BY <1>3
  <2> QED BY <2>1, <2>2, HourShifted, Zenon
<1>8. upto \in Nat
  <2>1. Sums[month + 1] \in Nat /\ LeapDay(year) \in {0, 1}
    BY MonthLengths, LeapDayIs
  <2> QED BY <2>1 DEF DaysUpto
<1>9. late = LateDay(k, sec)
  BY <1>4 DEF LateDay
<1> HIDE DEF shifted, left
<1>10. /\ stamp[1] = year /\ stamp[2] = month /\ stamp[3] = day /\ stamp[4] = shifted
       /\ stamp[5] = minute /\ stamp[6] = left
  OBVIOUS
<1> HIDE DEF stamp
<1>11. Denotes(stamp) = YearStarts[year] + (upto + day) * SECONDS_PER_DAY
                         + shifted * SECONDS_PER_HOUR + minute * SECONDS_PER_MINUTE + left
  BY <1>10, DaysBeforeIs DEF Denotes
<1> HIDE DEF upto
<1>12. Denotes(stamp) = YearStarts[year] + upto * SECONDS_PER_DAY + rest
                          + utcoffset * SECONDS_PER_HOUR - late
  <2>1. PICK Y \in Nat, A \in Nat, B \in Nat :
          /\ Y = YearStarts[year] /\ A = upto * SECONDS_PER_DAY /\ B = day * SECONDS_PER_DAY
          /\ (upto + day) * SECONDS_PER_DAY = A + B
    BY <1>3, <1>8, UnitsOfTime, SMT
  <2>2. PICK h \in Nat, m \in Nat, o \in Nat, l \in Nat :
          /\ h = hour * SECONDS_PER_HOUR /\ m = minute * SECONDS_PER_MINUTE
          /\ o = utcoffset * SECONDS_PER_HOUR /\ l = late
    BY <1>3, <1>5, UnitsOfTime, SMT DEF utcoffset
  <2>3. shifted * SECONDS_PER_HOUR = h + o - l
    BY <1>7, <2>2
  <2>4. rest = B + h + m + left
    BY <1>3, <2>1, <2>2
  <2> HIDE DEF late
  <2>5. Denotes(stamp) = Y + (A + B) + (h + o - l) + m + left
    BY <1>11, <2>1, <2>2, <2>3
  <2>6. Y + (A + B) + (h + o - l) + m + left = Y + A + rest + o - l
    BY <1>5, <2>4, SMT
  <2> QED BY <2>1, <2>2, <2>5, <2>6
<1>13. ASSUME DaysIn(month, year) \in Nat \ {0},
              k < DaysIn(month, year) \/ (sec = 0 /\ k <= DaysIn(month, year))
       PROVE  OnCalendar(stamp)
  <2>1. day < DaysIn(month, year)
    BY <1>3, <1>4, <1>13
  <2>2. shifted < 24 /\ minute < 60 /\ left <= 60
    BY <1>5, <1>7
  <2> QED BY <1>10, <2>1, <2>2 DEF OnCalendar
<1> QED BY <1>6, <1>9, <1>12, <1>13 DEF upto

(* The n-th day of a year is the d-th of the calendar's month m.           *)
LEMMA DayOfMonth ==
  ASSUME NEW m \in Month, NEW leap \in {0, 1}, NEW d \in Nat,
         d < days_per_month[m + 1] + (IF m = 1 THEN leap ELSE 0),
         NEW n, n = DaysUpto(m, leap) + d
  PROVE  /\ n \in Nat /\ n < 365 + leap
         /\ n = 59 /\ leap = 1 <=> m = 1 /\ d = 28
         /\ leap = 1 => /\ n \in 60 .. 90 <=> m = 2
                        /\ n = 90 <=> m = 2 /\ d = 30
                        /\ n = 91 <=> m = 3 /\ d = 0
         /\ n = 0 <=> m = 0 /\ d = 0
<1>1. /\ days_per_month[m + 1] \in 28 .. 31 /\ Sums[m + 1] \in Nat
      /\ Sums[m + 1] + days_per_month[m + 1] <= 365 /\ (m >= 3 => Sums[m + 1] >= 90)
      /\ (m >= 4 => Sums[m + 1] >= 120)
  BY MonthLengths
<1>2. /\ Sums[1] = 0 /\ Sums[2] = 31 /\ Sums[3] = 59 /\ Sums[4] = 90
      /\ days_per_month[2] = 28 /\ days_per_month[3] = 31
  BY MonthLengths
<1>3. n = Sums[m + 1] + d + IF m >= 2 THEN leap ELSE 0
  BY <1>1 DEF DaysUpto
<1>4. m = 0 \/ m = 1 \/ m = 2 \/ m = 3 \/ m \in 4 .. 11
  BY DEF Month
<1>9. CASE m = 3
  BY <1>1, <1>2, <1>3, <1>9
<1>5. CASE m = 0
  BY <1>1, <1>2, <1>3, <1>5
<1>6. CASE m = 1
  BY <1>1, <1>2, <1>3, <1>6
<1>7. CASE m = 2
  BY <1>1, <1>2, <1>3, <1>7
<1>8. CASE m \in 4 .. 11
  BY <1>1, <1>3, <1>8
<1> QED BY <1>4, <1>5, <1>6, <1>7, <1>8, <1>9

(* The month the loop ends in, n + e days into the year: in a leap year    *)
(* its March begins a day early and a day too much is taken away for it,   *)
(* so that less than nothing is left on the last day of that month.        *)
LEMMA MonthByWalk ==
  ASSUME NEW n \in Nat, NEW e \in {0, 1}, NEW leap \in {0, 1}, NEW M \in Month,
         n + e <= TakenUpto(M, leap) + days_per_month[M + 1],
         \A k \in Month : k < M => n + e > TakenUpto(k, leap) + days_per_month[k + 1]
  PROVE  /\ n - TakenUpto(M, leap) >= -1
         /\ n - TakenUpto(M, leap) < 0 <=> leap = 1 /\ n = 90 /\ e = 1
         /\ leap = 1 => (M = 2 <=> n + e \in 60 .. 90)
         /\ e = 0 => (n - TakenUpto(M, leap) = 0 <=> n = 0 \/ (leap = 1 /\ n = 91))
<1>1. /\ Sums[1] = 0 /\ Sums[2] = 31 /\ Sums[3] = 59 /\ Sums[4] = 90
      /\ days_per_month[2] = 28 /\ days_per_month[3] = 31
  BY MonthLengths
<1>2. 0 \in Month /\ 1 \in Month /\ 2 \in Month
  BY DEF Month
<1>3. days_per_month[1] = 31
  BY DEF days_per_month
<1>4. /\ TakenUpto(0, leap) + days_per_month[0 + 1] = 31
      /\ TakenUpto(1, leap) + days_per_month[1 + 1] = 59
      /\ TakenUpto(2, leap) + days_per_month[2 + 1] = 90
      /\ TakenUpto(0, leap) = 0 /\ TakenUpto(1, leap) = 31
      /\ TakenUpto(2, leap) = 59 /\ TakenUpto(3, leap) = 90 + leap
  BY <1>1, <1>3 DEF TakenUpto
<1>5. M = 0 \/ M = 1 \/ M = 2 \/ M = 3 \/ M \in 4 .. 11
  BY DEF Month
<1>6. CASE M = 0
  BY <1>4, <1>6
<1>7. CASE M = 1
  <2>1. n + e > 31
    BY <1>2, <1>4, <1>7
  <2> QED BY <1>4, <1>7, <2>1
<1>8. CASE M = 2
  <2>1. n + e > 59
    BY <1>2, <1>4, <1>8
  <2> QED BY <1>4, <1>8, <2>1
<1>9. CASE M = 3
  <2>1. n + e > 90
    BY <1>2, <1>4, <1>9
  <2> QED BY <1>4, <1>9, <2>1
<1>10. CASE M \in 4 .. 11
  <2>1. M - 1 \in Month /\ M - 1 < M /\ (M - 1) + 1 = M /\ M - 1 >= 3
    BY <1>10 DEF Month
  <2>2. n + e > TakenUpto(M - 1, leap) + days_per_month[M]
    BY <2>1
  <2>3. Sums[M + 1] = Sums[M] + days_per_month[M] /\ Sums[M] \in Nat /\ days_per_month[M] \in Nat
    BY <2>1, <1>10, MonthLengths
  <2>4. Sums[M] >= 90
    BY <2>1, MonthLengths
  <2>5. TakenUpto(M - 1, leap) = Sums[M] + leap /\ TakenUpto(M, leap) = Sums[M + 1] + leap
    BY <1>10, <2>1, <2>3 DEF TakenUpto
  <2>6. n + e > TakenUpto(M, leap) /\ TakenUpto(M, leap) \in Nat /\ n + e > 90 + leap
    BY <2>2, <2>3, <2>4, <2>5
  <2> QED BY <1>10, <2>6
<1> QED BY <1>5, <1>6, <1>7, <1>8, <1>9, <1>10

(* The two ways to count the days before a month.                          *)
LEMMA UptoAgainstTaken ==
  ASSUME NEW m \in Month, NEW leap \in {0, 1}
  PROVE  /\ DaysUpto(m, leap) \in Nat /\ TakenUpto(m, leap) \in Nat
         /\ DaysUpto(m, leap) - TakenUpto(m, leap) = IF m = 2 THEN leap ELSE 0
<1>1. Sums[m + 1] \in Nat
  BY MonthLengths
<1>2. m \in Nat
  BY DEF Month
<1> QED BY <1>1, <1>2 DEF DaysUpto, TakenUpto

(* The stamp of the sec-th second of the n-th day of a year.               *)
LEMMA StampIs ==
  ASSUME NEW y \in 1970 .. LastYear, NEW n \in Nat, n < 365 + LeapDay(y),
         NEW sec \in Nat, sec < SECONDS_PER_DAY,
         NEW left, left = Left(n * SECONDS_PER_DAY + sec, y)
  PROVE  UnixtimeToCstr(YearStarts[y] + n * SECONDS_PER_DAY + sec)
           = IF left[MonthOf(left, y)] < 0 THEN NoDate
             ELSE Stamp(y, MonthOf(left, y), left[MonthOf(left, y)])
<1> DEFINE now == YearStarts[y] + n * SECONDS_PER_DAY + sec
<1>1. y \in 1970 .. LastYear + 1
  BY YearsNumbers
<1>2. YearStarts[y] \in Nat
  BY <1>1, YearsAscend
<1>3. YearStarts[y + 1] = YearStarts[y] + DaysPerYear(y) * SECONDS_PER_DAY
  BY YearStartsIs
<1>4. DaysPerYear(y) = 365 + LeapDay(y) /\ LeapDay(y) \in {0, 1}
  BY YearsNumbers, LeapDayIs
<1>5. now \in Nat /\ YearStarts[y] <= now /\ now - YearStarts[y] = n * SECONDS_PER_DAY + sec
  BY <1>2, DayHas, SMT
<1>6. now < YearStarts[y + 1]
  BY <1>2, <1>3, <1>4, DayHas, SMT
<1> HIDE DEF now
<1>7. YearOf(now) = y
  <2>1. \A z \in 1970 .. LastYear : YearStarts[z] <= now /\ now < YearStarts[z + 1] => z = y
    BY <1>5, <1>6, YearFound
  <2> QED BY <1>5, <1>6, <2>1 DEF YearOf
<1>8. UnixtimeToCstr(now)
        = IF left[MonthOf(left, y)] < 0 THEN NoDate
          ELSE Stamp(y, MonthOf(left, y), left[MonthOf(left, y)])
  BY <1>5, <1>7 DEF UnixtimeToCstr
<1> QED BY <1>8 DEF now

(* The errors of a stamp, by the date and the second it is made of.        *)
AheadOn(y, m, d, sec) == \/ m = 1 /\ d = 28 /\ sec >= 2
                         \/ is_leap_year(y) /\ m = 2
NoMonthOn(y, m, d, sec) == is_leap_year(y) /\ m = 2 /\ d = 30 /\ sec >= 2
BehindOn(y, m, d, sec) ==
  \/ sec > (24 - utcoffset) * SECONDS_PER_HOUR
  \/ sec = 0 /\ ~(d = 0 /\ (m = 0 \/ (m = 3 /\ is_leap_year(y))))

(* What the stamp says of the second sec of a date.                        *)
SaysOf(stamp, y, m, d, sec, now) ==
  IF NoMonthOn(y, m, d, sec) THEN stamp = NoDate
  ELSE /\ Denotes(stamp) = now + utcoffset * SECONDS_PER_HOUR
                             + (IF AheadOn(y, m, d, sec) THEN SECONDS_PER_DAY ELSE 0)
                             - (IF BehindOn(y, m, d, sec) THEN SECONDS_PER_DAY ELSE 0)
       /\ (is_leap_year(y) /\ sec = 1) \/ OnCalendar(stamp)

LEMMA StampOnDate ==
  ASSUME NEW y \in 1970 .. LastYear, NEW m \in Month, NEW d \in Nat, d < DaysIn(m, y),
         NEW sec \in Nat, sec < SECONDS_PER_DAY,
         NEW n, n = DaysUpto(m, LeapDay(y)) + d,
         NEW now, now = YearStarts[y] + n * SECONDS_PER_DAY + sec
  PROVE  SaysOf(UnixtimeToCstr(now), y, m, d, sec, now)
<1> DEFINE leap == LeapDay(y)
           e == Over(sec, leap)
           left == Left(n * SECONDS_PER_DAY + sec, y)
           M == MonthOf(left, y)
           c == TakenUpto(M, leap)
           rest == left[M]
           k == n - c
<1>1. leap \in {0, 1} /\ (leap = 1 <=> is_leap_year(y)) /\ e \in {0, 1}
      /\ (e = 0 <=> sec <= leap)
  BY LeapDayIs DEF Over
<1>2. DaysIn(m, y) = days_per_month[m + 1] + IF m = 1 THEN leap ELSE 0
  BY DEF DaysIn, LeapDay
<1>3. /\ n \in Nat /\ n < 365 + leap
      /\ n = 59 /\ leap = 1 <=> m = 1 /\ d = 28
      /\ leap = 1 => /\ n \in 60 .. 90 <=> m = 2
                     /\ n = 90 <=> m = 2 /\ d = 30
                     /\ n = 91 <=> m = 3 /\ d = 0
      /\ n = 0 <=> m = 0 /\ d = 0
  <2> HIDE DEF leap
  <2> QED BY <1>1, <1>2, DayOfMonth DEF leap
<1>4. /\ M \in Month
      /\ n + e <= TakenUpto(M, leap) + days_per_month[M + 1]
      /\ \A i \in Month : i < M => n + e > TakenUpto(i, leap) + days_per_month[i + 1]
  BY <1>3, MonthFound
<1>5. UnixtimeToCstr(now) = IF rest < 0 THEN NoDate ELSE Stamp(y, M, rest)
  BY <1>3, StampIs
<1>6. leap = 1 => (e = 1 <=> sec >= 2)
  BY <1>1
<1>7. n * SECONDS_PER_DAY + sec \in Int
  BY <1>3, UnitsOfTime, SMT
<1>8. YearStarts[y] \in Nat
  <2>1. y \in 1970 .. LastYear + 1
    BY YearsNumbers
  <2> QED BY <2>1, YearsAscend
<1>9. /\ DaysIn(M, y) \in Nat \ {0} /\ days_per_month[M + 1] \in Nat
      /\ days_per_month[M + 1] <= DaysIn(M, y)
  <2>1. days_per_month[M + 1] \in 28 .. 31
    BY <1>4, MonthLengths
  <2>2. DaysIn(M, y) = days_per_month[M + 1] + IF M = 1 THEN leap ELSE 0
    BY DEF DaysIn, LeapDay
  <2> HIDE DEF leap, M
  <2> QED BY <1>1, <2>1, <2>2
<1> HIDE DEF leap, e
<1>10. /\ k >= -1
       /\ k < 0 <=> leap = 1 /\ n = 90 /\ e = 1
       /\ leap = 1 => (M = 2 <=> n + e \in 60 .. 90)
       /\ e = 0 => (k = 0 <=> n = 0 \/ (leap = 1 /\ n = 91))
  <2> HIDE DEF M
  <2> QED BY <1>1, <1>3, <1>4, MonthByWalk
<1>11. DaysUpto(M, leap) \in Nat /\ c \in Nat
       /\ DaysUpto(M, leap) - c = IF M = 2 THEN leap ELSE 0
  <2> HIDE DEF M
  <2> QED BY <1>1, <1>4, UptoAgainstTaken
<1>12. k \in Int /\ n = c + k /\ k + e <= days_per_month[M + 1]
  <2> HIDE DEF M
  <2> QED BY <1>1, <1>3, <1>4, <1>9, <1>11
<1>13. rest = k * SECONDS_PER_DAY + sec
  <2>1. PICK ut \in Int : ut = n * SECONDS_PER_DAY + sec
    BY <1>7
  <2>2. left = Left(ut, y)
    BY <2>1
  <2> HIDE DEF M, left
  <2>3. Left(ut, y)[M] = ut - SECONDS_PER_DAY * c
    BY <1>4, LeftIs DEF leap
  <2>4. rest = ut - SECONDS_PER_DAY * c
    BY <2>2, <2>3
  <2> HIDE DEF rest, c, k
  <2>5. PICK N \in Int, C \in Int, K \in Int :
          /\ N = n * SECONDS_PER_DAY /\ C = SECONDS_PER_DAY * c /\ K = k * SECONDS_PER_DAY
          /\ N = C + K
    BY <1>3, <1>11, <1>12, UnitsOfTime, SMT
  <2> QED BY <2>1, <2>4, <2>5
<1> HIDE DEF k, c, rest, left, M
<1>14. rest \in Int /\ (rest < 0 <=> k < 0) /\ (k >= 0 => k \in Nat)
  <2>1. SECONDS_PER_DAY \in Nat \ {0}
    BY UnitsOfTime
  <2>2. PICK K \in Int : K = k * SECONDS_PER_DAY /\ (k <= -1 => K <= -SECONDS_PER_DAY)
                         /\ (k >= 0 => K >= 0)
    BY <1>12, <2>1, SMT
  <2> QED BY <1>12, <1>13, <2>1, <2>2
<1>15. AheadOn(y, m, d, sec) /\ ~NoMonthOn(y, m, d, sec) <=> M = 2 /\ leap = 1 /\ ~(k < 0)
  <2>1. CASE leap = 0
    BY <1>1, <1>3, <2>1 DEF AheadOn
  <2>2. CASE leap = 1
    <3>1. AheadOn(y, m, d, sec) <=> (n = 59 /\ e = 1) \/ n \in 60 .. 90
      BY <1>1, <1>3, <1>6, <2>2 DEF AheadOn
    <3>2. NoMonthOn(y, m, d, sec) <=> n = 90 /\ e = 1
      BY <1>1, <1>3, <1>6, <2>2 DEF NoMonthOn
    <3>3. (n + e \in 60 .. 90 <=> (n = 59 /\ e = 1) \/ (n \in 60 .. 90 /\ ~(n = 90 /\ e = 1)))
      BY <1>1, <1>3, SMT
    <3> QED BY <1>10, <2>2, <3>1, <3>2, <3>3
  <2> QED BY <1>1, <2>1, <2>2
<1>16. NoMonthOn(y, m, d, sec) <=> k < 0
  BY <1>1, <1>3, <1>6, <1>10 DEF NoMonthOn
<1>17. CASE k < 0
  <2>1. UnixtimeToCstr(now) = NoDate
    BY <1>5, <1>14, <1>17
  <2> QED BY <1>16, <1>17, <2>1 DEF SaysOf
<1>18. CASE ~(k < 0)
  <2> DEFINE stamp == Stamp(y, M, rest)
             ahead == IF AheadOn(y, m, d, sec) THEN SECONDS_PER_DAY ELSE 0
             behind == IF BehindOn(y, m, d, sec) THEN SECONDS_PER_DAY ELSE 0
  <2>1. k \in Nat
    BY <1>12, <1>14, <1>18
  <2>2. UnixtimeToCstr(now) = stamp
    BY <1>5, <1>14, <1>18
  <2>3. /\ Denotes(stamp) = YearStarts[y] + DaysUpto(M, leap) * SECONDS_PER_DAY + rest
                              + utcoffset * SECONDS_PER_HOUR - LateDay(k, sec)
        /\ k < DaysIn(M, y) \/ (sec = 0 /\ k <= DaysIn(M, y)) => OnCalendar(stamp)
    <3>1. /\ Denotes(stamp) = YearStarts[y] + DaysUpto(M, LeapDay(y)) * SECONDS_PER_DAY + rest
                                + utcoffset * SECONDS_PER_HOUR - LateDay(k, sec)
          /\ DaysIn(M, y) \in Nat \ {0}
               /\ (k < DaysIn(M, y) \/ (sec = 0 /\ k <= DaysIn(M, y)))
             => OnCalendar(stamp)
      <4>1. YearStarts[y] \in Nat /\ M \in Month /\ k \in Nat
            /\ rest = k * SECONDS_PER_DAY + sec
        BY <1>4, <1>8, <1>13, <2>1
      <4> HIDE DEF k, rest, M
      <4> QED BY <4>1, StampDenotes DEF stamp
    <3> QED BY <1>9, <3>1 DEF leap
  <2>4. LateDay(k, sec) = behind
    <3>1. 24 - utcoffset = 22
      BY DEF utcoffset
    <3>2. sec = 0 => (k = 0 <=> d = 0 /\ (m = 0 \/ (m = 3 /\ is_leap_year(y))))
      BY <1>1, <1>3, <1>10
    <3> QED BY <3>1, <3>2 DEF LateDay, BehindOn
  <2>5. AheadOn(y, m, d, sec) <=> M = 2 /\ leap = 1
    BY <1>15, <1>16, <1>18
  <2> HIDE DEF behind, stamp
  <2>6. YearStarts[y] + DaysUpto(M, leap) * SECONDS_PER_DAY + rest = now + ahead
    <3>1. PICK Y \in Nat, D \in Nat : Y = YearStarts[y] /\ D = SECONDS_PER_DAY
      BY <1>8, UnitsOfTime
    <3>2. PICK u \in Nat : u = DaysUpto(M, leap)
      BY <1>11
    <3>3. CASE AheadOn(y, m, d, sec)
      <4>1. u = c + 1 /\ ahead = D
        BY <1>1, <1>11, <2>5, <3>1, <3>2, <3>3
      <4>2. u * D + k * D = n * D + D
        <5>1. PICK j \in Int : j = k /\ n = c + j
          BY <1>12
        <5>2. (c + 1) * D + j * D = (c + j) * D + D
          <6>1. c \in Nat
            BY <1>11
          <6> QED BY ONLY <6>1, j \in Int, D \in Nat, SMT
        <5>3. u * D + k * D = (c + 1) * D + j * D /\ n * D + D = (c + j) * D + D
          BY <4>1, <5>1
        <5> QED BY ONLY <5>2, <5>3
      <4>3. PICK p \in Int, q \in Int, r \in Int : p = u * D /\ q = k * D /\ r = n * D
        BY <1>3, <1>12, SMT
      <4>4. Y + p + (q + sec) = (Y + r + sec) + D
        BY <4>2, <4>3
      <4> QED BY <1>13, <3>1, <3>2, <4>1, <4>3, <4>4
    <3>4. CASE ~AheadOn(y, m, d, sec)
      <4>1. u = c /\ ahead = 0
        BY <1>1, <1>11, <2>5, <3>2, <3>4
      <4>2. u * D + k * D = n * D
        BY <1>11, <1>12, <4>1, SMT
      <4>3. PICK p \in Int, q \in Int, r \in Int : p = u * D /\ q = k * D /\ r = n * D
        BY <1>3, <1>12, SMT
      <4>4. Y + p + (q + sec) = (Y + r + sec) + 0
        BY <4>2, <4>3
      <4> QED BY <1>13, <3>1, <3>2, <4>1, <4>3, <4>4
    <3> QED BY <3>3, <3>4
  <2>7. now \in Int /\ ahead \in Int /\ behind \in Int /\ utcoffset * SECONDS_PER_HOUR \in Int
    <3>1. SECONDS_PER_DAY \in Int /\ SECONDS_PER_HOUR \in Int
      BY UnitsOfTime
    <3>2. n * SECONDS_PER_DAY \in Int
      BY <1>3, <3>1, SMT
    <3> QED BY <1>8, <3>1, <3>2 DEF utcoffset, behind
  <2> HIDE DEF ahead
  <2>8. Denotes(stamp) = now + utcoffset * SECONDS_PER_HOUR + ahead - behind
    <3>1. PICK h \in Int : h = utcoffset * SECONDS_PER_HOUR
      BY <2>7
    <3>2. Denotes(stamp) = (now + ahead) + h - behind
      BY <2>3, <2>4, <2>6, <3>1
    <3> QED BY <2>7, <3>1, <3>2
  <2>9. (is_leap_year(y) /\ sec = 1) \/ OnCalendar(stamp)
    <3>1. CASE sec = 0
      BY <1>1, <1>9, <1>12, <2>3, <3>1
    <3>2. CASE sec # 0 /\ e = 1
      BY <1>9, <1>12, <2>3, <3>2
    <3>3. CASE sec # 0 /\ e = 0
      BY <1>1, <3>3
    <3> QED BY <1>1, <3>1, <3>2, <3>3
  <2> QED BY <1>16, <1>18, <2>2, <2>8, <2>9 DEF SaysOf, ahead, behind
<1> QED BY <1>17, <1>18
-----------------------------------------------------------------------------
(* The days counted since 1970 are those of the date, and what is shown is *)
(* the stamp of the second at which the line was logged.                   *)
ClockInv ==
  /\ today \in (FirstYear .. LastYear) \X Month \X Nat
  /\ today[3] < DaysIn(today[2], today[1])
  /\ days \in Nat
  /\ days * SECONDS_PER_DAY
       = YearStarts[today[1]]
           + (DaysUpto(today[2], LeapDay(today[1])) + today[3]) * SECONDS_PER_DAY
  /\ second \in Nat \cup {-1} /\ second < SECONDS_PER_DAY
  /\ second >= 0 => shown = UnixtimeToCstr(days * SECONDS_PER_DAY + second)

LEMMA ClockInvImpliesLocalTime ==
  ASSUME ClockInv
  PROVE  StampIsLocalTime
<1> SUFFICES ASSUME second >= 0 PROVE StampIsLocalTime
  BY DEF StampIsLocalTime
<1> DEFINE y == today[1]
           m == today[2]
           d == today[3]
           n == DaysUpto(m, LeapDay(y)) + d
           now == days * SECONDS_PER_DAY + second
<1>1. y \in 1970 .. LastYear /\ m \in Month /\ d \in Nat /\ d < DaysIn(m, y)
  BY YearsNumbers DEF ClockInv
<1>2. second \in Nat /\ second < SECONDS_PER_DAY
  BY SMT DEF ClockInv
<1>3. now = YearStarts[y] + n * SECONDS_PER_DAY + second
  BY DEF ClockInv
<1>4. shown = UnixtimeToCstr(now)
  BY DEF ClockInv
<1>5. /\ DayAhead <=> AheadOn(y, m, d, second)
      /\ DayBehind <=> BehindOn(y, m, d, second)
      /\ NoMonth <=> NoMonthOn(y, m, d, second)
      /\ SecondOne <=> is_leap_year(y) /\ second = 1
  BY DEF DayAhead, AheadOn, DayBehind, NothingLeft, BehindOn, NoMonth, NoMonthOn, SecondOne
<1> HIDE DEF now, n, y, m, d
<1>6. SaysOf(shown, y, m, d, second, now)
  BY <1>1, <1>2, <1>3, <1>4, StampOnDate DEF n
<1> QED BY <1>5, <1>6 DEF StampIsLocalTime, SaysOf, now

(* Every month has a first day, and the next one begins where it ends.     *)
LEMMA MonthsFollow ==
  ASSUME NEW y, NEW m \in Month
  PROVE  /\ DaysIn(m, y) \in Nat /\ 0 < DaysIn(m, y)
         /\ m < 11 => /\ m + 1 \in Month
                      /\ DaysUpto(m + 1, LeapDay(y)) = DaysUpto(m, LeapDay(y)) + DaysIn(m, y)
         /\ m = 11 => DaysUpto(m, LeapDay(y)) + DaysIn(m, y) = 365 + LeapDay(y)
         /\ 0 \in Month /\ DaysUpto(0, LeapDay(y)) = 0
<1>1. LeapDay(y) \in {0, 1}
  BY LeapDayIs
<1>2. DaysIn(m, y) = days_per_month[m + 1] + IF m = 1 THEN LeapDay(y) ELSE 0
  BY DEF DaysIn, LeapDay
<1>3. /\ days_per_month[m + 1] \in 28 .. 31 /\ Sums[m + 1] \in Nat
      /\ Sums[1] = 0 /\ Sums[12] + days_per_month[12] = 365 /\ m \in 0 .. 11
  BY MonthLengths DEF Month
<1>4. ASSUME m < 11
      PROVE  /\ m + 1 \in Month
             /\ DaysUpto(m + 1, LeapDay(y)) = DaysUpto(m, LeapDay(y)) + DaysIn(m, y)
  <2>1. m + 1 \in 1 .. 11
    BY <1>3, <1>4
  <2>2. Sums[(m + 1) + 1] = Sums[m + 1] + days_per_month[m + 1]
    BY <2>1, MonthLengths
  <2> QED BY <1>1, <1>2, <1>3, <2>1, <2>2 DEF DaysUpto, Month
<1>5. ASSUME m = 11
      PROVE  DaysUpto(m, LeapDay(y)) + DaysIn(m, y) = 365 + LeapDay(y)
  BY <1>1, <1>2, <1>3, <1>5 DEF DaysUpto
<1>6. DaysIn(m, y) \in Nat /\ 0 < DaysIn(m, y)
  BY <1>1, <1>2, <1>3
<1>7. 0 \in Month /\ DaysUpto(0, LeapDay(y)) = 0
  BY <1>1, <1>3 DEF DaysUpto, Month
<1> QED BY <1>4, <1>5, <1>6, <1>7

LEMMA ClockInitInv == ClockInit => ClockInv
<1> SUFFICES ASSUME ClockInit PROVE ClockInv
  OBVIOUS
<1>1. FirstYear \in 1970 .. LastYear + 1 /\ FirstYear \in FirstYear .. LastYear
  BY YearsNumbers
<1>2. PICK k \in Nat : YearStarts[FirstYear] = k * SECONDS_PER_DAY
  BY <1>1, YearsInDays
<1>3. days = k
  BY <1>2, DayHas, SMT DEF ClockInit
<1>4. /\ today \in (FirstYear .. LastYear) \X Month \X Nat
      /\ today[1] = FirstYear /\ today[2] = 0 /\ today[3] = 0
  BY <1>1 DEF ClockInit, Month
<1>5. 0 \in Month /\ 0 < DaysIn(0, FirstYear) /\ DaysUpto(0, LeapDay(FirstYear)) = 0
  <2>1. 0 \in Month
    BY DEF Month
  <2> QED BY <2>1, MonthsFollow
<1>6. days * SECONDS_PER_DAY = YearStarts[FirstYear] + (0 + 0) * SECONDS_PER_DAY
  BY <1>2, <1>3, DayHas, SMT
<1>7. second \in Nat \cup {-1} /\ second < SECONDS_PER_DAY /\ ~(second >= 0)
  BY DayHas, SMT DEF ClockInit
<1> QED BY <1>3, <1>4, <1>5, <1>6, <1>7 DEF ClockInv

LEMMA DayAdded ==
  ASSUME NEW k \in Nat, NEW start \in Nat, NEW before \in Nat, NEW d \in Nat,
         k * SECONDS_PER_DAY = start + (before + d) * SECONDS_PER_DAY
  PROVE  (k + 1) * SECONDS_PER_DAY = start + (before + (d + 1)) * SECONDS_PER_DAY
<1>1. SECONDS_PER_DAY = 86400
  BY DayHas
<1>2. (k + 1) * 86400 = start + (before + (d + 1)) * 86400
  BY <1>1, SMT
<1> QED BY <1>1, <1>2

LEMMA MidnightInv == ClockInv /\ Midnight => ClockInv'
<1> SUFFICES ASSUME ClockInv, Midnight PROVE ClockInv'
  OBVIOUS
<1> DEFINE y == today[1]
           m == today[2]
           d == today[3]
           leap == LeapDay(y)
<1>1. /\ today \in (FirstYear .. LastYear) \X Month \X Nat
      /\ y \in FirstYear .. LastYear /\ y \in 1970 .. LastYear /\ m \in Month /\ d \in Nat
      /\ d < DaysIn(m, y) /\ days \in Nat
      /\ days * SECONDS_PER_DAY = YearStarts[y] + (DaysUpto(m, leap) + d) * SECONDS_PER_DAY
  BY YearsNumbers DEF ClockInv
<1>2. /\ today' = DayAfter(today) /\ days' = days + 1 /\ second' = -1 /\ DayAfter(today)[1] <= LastYear
  BY DEF Midnight
<1>3. second' \in Nat \cup {-1} /\ second' < SECONDS_PER_DAY /\ ~(second' >= 0)
  BY <1>2, DayHas, SMT
<1>4. /\ DaysIn(m, y) \in Nat
      /\ m < 11 => /\ m + 1 \in Month
                   /\ DaysUpto(m + 1, leap) = DaysUpto(m, leap) + DaysIn(m, y)
      /\ m = 11 => DaysUpto(m, leap) + DaysIn(m, y) = 365 + leap
  BY <1>1, MonthsFollow
<1>5. DaysUpto(m, leap) \in Nat /\ leap \in {0, 1}
  BY <1>1, LeapDayIs, UptoAgainstTaken
<1>6. YearStarts[y] \in Nat
  <2>1. y \in 1970 .. LastYear + 1
    BY <1>1, YearsNumbers
  <2> QED BY <2>1, YearsAscend
<1>7. days' \in Nat
  BY <1>1, <1>2
<1>8. DayAfter(today) = IF d + 1 < DaysIn(m, y) THEN <<y, m, d + 1>>
                        ELSE IF m < 11 THEN <<y, m + 1, 0>> ELSE <<y + 1, 0, 0>>
  BY DEF DayAfter
<1> HIDE DEF y, m, d
<1>9. CASE d + 1 < DaysIn(m, y)
  <2>1. today' = <<y, m, d + 1>>
    BY <1>2, <1>8, <1>9
  <2>2. /\ today' \in (FirstYear .. LastYear) \X Month \X Nat
        /\ today'[1] = y /\ today'[2] = m /\ today'[3] = d + 1
    BY <1>1, <2>1
  <2>3. days' * SECONDS_PER_DAY
          = YearStarts[y] + (DaysUpto(m, leap) + (d + 1)) * SECONDS_PER_DAY
    BY <1>1, <1>2, <1>5, <1>6, DayAdded
  <2> QED BY <1>3, <1>7, <1>9, <2>2, <2>3 DEF ClockInv
<1>10. CASE ~(d + 1 < DaysIn(m, y)) /\ m < 11
  <2>1. today' = <<y, m + 1, 0>>
    BY <1>2, <1>8, <1>10
  <2>2. m + 1 \in Month /\ DaysUpto(m + 1, leap) = DaysUpto(m, leap) + (d + 1)
    BY <1>1, <1>4, <1>10
  <2>3. /\ today' \in (FirstYear .. LastYear) \X Month \X Nat
        /\ today'[1] = y /\ today'[2] = m + 1 /\ today'[3] = 0
    BY <1>1, <2>1, <2>2
  <2>4. days' * SECONDS_PER_DAY
          = YearStarts[y] + (DaysUpto(m + 1, leap) + 0) * SECONDS_PER_DAY
    BY <1>1, <1>2, <1>5, <1>6, <2>2, DayHas, SMT
  <2>5. 0 < DaysIn(m + 1, y)
    BY <2>2, MonthsFollow
  <2> QED BY <1>3, <1>7, <2>3, <2>4, <2>5 DEF ClockInv
<1>11. CASE ~(d + 1 < DaysIn(m, y)) /\ ~(m < 11)
  <2>1. today' = <<y + 1, 0, 0>>
    BY <1>2, <1>8, <1>11
  <2>2. m = 11 /\ DaysUpto(m, leap) + (d + 1) = 365 + leap
    <3>1. m = 11
      BY <1>1, <1>11 DEF Month
    <3> QED BY <1>1, <1>4, <1>11, <3>1
  <2>3. y + 1 \in FirstYear .. LastYear
    <3>1. DayAfter(today)[1] = y + 1
      BY <1>2, <2>1
    <3> QED BY <1>1, <1>2, <3>1, YearsNumbers
  <2>4. /\ 0 \in Month /\ DaysUpto(0, LeapDay(y + 1)) = 0 /\ 0 < DaysIn(0, y + 1)
    <3>1. 0 \in Month
      BY DEF Month
    <3> QED BY <3>1, MonthsFollow
  <2>5. /\ today' \in (FirstYear .. LastYear) \X Month \X Nat
        /\ today'[1] = y + 1 /\ today'[2] = 0 /\ today'[3] = 0
    BY <2>1, <2>3, <2>4
  <2>6. YearStarts[y + 1] = YearStarts[y] + (365 + leap) * SECONDS_PER_DAY
    BY <1>1, YearStartsIs, YearsNumbers
  <2>7. days' * SECONDS_PER_DAY = YearStarts[y + 1] + (0 + 0) * SECONDS_PER_DAY
    BY <1>1, <1>2, <1>5, <1>6, <2>2, <2>6, DayHas, SMT
  <2> QED BY <1>3, <1>7, <2>4, <2>5, <2>7 DEF ClockInv
<1> QED BY <1>9, <1>10, <1>11

LEMMA LogInv ==
  ASSUME ClockInv, NEW instant \in Instants, do_sys_log(instant)
  PROVE  ClockInv'
<1>1. instant \in Nat /\ instant < SECONDS_PER_DAY
  BY ClockAssumption DEF ClockAssumption
<1>2. /\ second' = instant /\ UNCHANGED <<days, today>>
      /\ shown' = UnixtimeToCstr(days * SECONDS_PER_DAY + instant)
  BY DEF do_sys_log
<1> QED BY <1>1, <1>2 DEF ClockInv

LEMMA ClockInvIsInvariant == ClockSpec => []ClockInv
<1>1. ClockInit => ClockInv
  BY ClockInitInv
<1>2. ClockInv /\ [ClockNext]_clockVars => ClockInv'
  <2> SUFFICES ASSUME ClockInv, [ClockNext]_clockVars PROVE ClockInv'
    OBVIOUS
  <2>1. CASE Midnight
    BY <2>1, MidnightInv
  <2>2. CASE \E instant \in Instants : do_sys_log(instant)
    BY <2>2, LogInv
  <2>3. CASE UNCHANGED clockVars
    BY <2>3 DEF ClockInv, clockVars
  <2> QED BY <2>1, <2>2, <2>3 DEF ClockNext
<1> QED BY <1>1, <1>2, PTL DEF ClockSpec

(* The stamp of a log line is a date and the local time at which the line  *)
(* was written, in every year from 1970 on, but for the errors DayBehind,  *)
(* DayAhead, NoMonth and SecondOne of unixtime_to_cstr: it is a whole day  *)
(* behind in the last utcoffset hours of a UTC day and in its first        *)
(* second, a day ahead through March of a leap year, and no date on the    *)
(* last day of that month.  There is no other error.                       *)
THEOREM StampsAreLocalTime == ClockSpec => []StampIsLocalTime
<1>1. ClockInv => StampIsLocalTime
  BY ClockInvImpliesLocalTime
<1> QED BY <1>1, ClockInvIsInvariant, PTL
=============================================================================
