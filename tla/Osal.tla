--------------------------------- MODULE Osal ---------------------------------
(***************************************************************************)
(* The tables of platform/osal/posix_src/osal.c, shared by the threads of  *)
(* one program: descriptors and threads.                                   *)
(*                                                                         *)
(* A descriptor stands for a number of the operating system, which gives a *)
(* closed number to the next that opens something.  read, write and accept *)
(* look the number up under the lock and use it without.  Threads are kept *)
(* in an int key map; newthread and the end of jointhread change it under  *)
(* the lock, jointhread looks into it without.                             *)
(*                                                                         *)
(* The users of the tables are those of carena: each opens a connection or *)
(* a server socket, starts a thread that uses it, and tells it to stop.  A *)
(* peer then joins the thread and closes the descriptor, an arena closes   *)
(* first and joins then.                                                   *)
(***************************************************************************)
EXTENDS Naturals, FiniteSets, FiniteSetsExt

CONSTANTS Users,
          Order,        \* of each: "join_first" or "close_first"
          Rounds,       \* how often each opens and closes (a bound)
          Numbers,      \* of the operating system
          Buckets,      \* of the int key map, 17 in the code
          Null

ASSUME OsalAssumption ==
  /\ Order \in [Users -> {"join_first", "close_first"}]
  /\ Rounds \in Nat /\ Numbers \subseteq Nat
  /\ IsFiniteSet(Users) /\ IsFiniteSet(Numbers)
  /\ Cardinality(Numbers) >= Cardinality(Users)
  /\ Null \notin Users /\ Null \notin Users \X (1 .. Rounds)

Workers == Users \X (1 .. Rounds)     \* each also names what it works on

VARIABLES doing, round,     \* where a user is, and in which of its rounds
          number,           \* the number open has just got
          fd, tid,          \* its descriptor and the id of its thread
          found,            \* what jointhread waits for
          stop,             \* the users that told their thread to stop
          wrk, using,       \* where a thread is, and the number it looked up
          os,               \* what each number of the system stands for
          filedescriptors,  \* the table: descriptor to number
          fd_pool,
          threads, idpool,  \* the map: id to thread; ids given so far
          lock,             \* who holds the lock for more than one step
          disturbed,        \* users whose look into the map met another's
          raced,            \* history: there has been such a user
          crashed

fdVars == <<number, fd, os, filedescriptors, fd_pool>>
threadVars == <<tid, found, threads, idpool, lock, disturbed, raced, crashed>>
workVars == <<wrk, using>>
osalVars == <<doing, round, stop, fdVars, threadVars, workVars>>

OsalInit == /\ doing = [u \in Users |-> "open"]
            /\ round = [u \in Users |-> 0]
            /\ number = [u \in Users |-> Null]
            /\ fd = [u \in Users |-> 0]
            /\ tid = [u \in Users |-> 0]
            /\ found = [u \in Users |-> Null]
            /\ stop = {}
            /\ wrk = [w \in Workers |-> "none"]
            /\ using = [w \in Workers |-> Null]
            /\ os = [n \in Numbers |-> Null]
            /\ filedescriptors = <<>>
            /\ fd_pool = 0
            /\ threads = <<>>
            /\ idpool = 0
            /\ lock = Null
            /\ disturbed = {}
            /\ raced = FALSE
            /\ crashed = FALSE

Worker(u) == <<u, round[u]>>

Goto(u, from, to) == ~crashed /\ doing[u] = from /\ doing' = [doing EXCEPT ![u] = to]

Unlocked == lock = Null
----------------------------------------------------------------------------
(* open, accept and close.                                                 *)

(* The system gives the lowest number that is free.                        *)
OpenNumber(u) == /\ round[u] < Rounds
                 /\ Goto(u, "open", "file")
                 /\ round' = [round EXCEPT ![u] = @ + 1]
                 /\ LET n == Min({m \in Numbers : os[m] = Null})
                    IN  /\ os' = [os EXCEPT ![n] = <<u, round[u] + 1>>]
                        /\ number' = [number EXCEPT ![u] = n]
                 /\ UNCHANGED <<stop, fd, filedescriptors, fd_pool, threadVars, workVars>>

(* FDEntry_new: descriptors are never given again.                         *)
FileNumber(u) == /\ Unlocked
                 /\ Goto(u, "file", "create")
                 /\ fd_pool' = fd_pool + 1
                 /\ fd' = [fd EXCEPT ![u] = fd_pool + 1]
                 /\ filedescriptors' = [f \in DOMAIN filedescriptors \cup {fd_pool + 1} |->
                                          IF f = fd_pool + 1 THEN number[u]
                                          ELSE filedescriptors[f]]
                 /\ number' = [number EXCEPT ![u] = Null]
                 /\ UNCHANGED <<round, stop, os, threadVars, workVars>>

\* What comes after jointhread and after close.
AfterJoin(u) == IF Order[u] = "join_first" THEN "close" ELSE "open"
AfterClose(u) == IF Order[u] = "join_first" THEN "open" ELSE "find"

\* Mutant of Close: the number is closed before the entry is removed.
Close_EntryStays(u) == /\ Unlocked
                       /\ Goto(u, "close", AfterClose(u))
                       /\ os' = [os EXCEPT ![filedescriptors[fd[u]]] = Null]
                       /\ UNCHANGED <<round, stop, number, fd, filedescriptors, fd_pool,
                                      threadVars, workVars>>

Close(u) == /\ Unlocked
            /\ Goto(u, "close", AfterClose(u))
            /\ os' = [os EXCEPT ![filedescriptors[fd[u]]] = Null]
            /\ filedescriptors' = [f \in DOMAIN filedescriptors \ {fd[u]} |->
                                     filedescriptors[f]]
            /\ UNCHANGED <<round, stop, number, fd, fd_pool, threadVars, workVars>>
----------------------------------------------------------------------------
(* newthread: the thread runs before it is in the map, and before its      *)
(* creator has been told its id.                                           *)

Create(u) == /\ Goto(u, "create", "register")
             /\ wrk' = [wrk EXCEPT ![Worker(u)] = "loop"]
             /\ UNCHANGED <<round, stop, fdVars, threadVars, using>>

\* Mutant of TakeId: the id is taken without the lock.
TakeId_Unlocked(u) == /\ Goto(u, "register", "registering")
                      /\ lock' = u
                      /\ tid' = [tid EXCEPT ![u] = idpool]
                      /\ UNCHANGED <<round, stop, fdVars, found, threads, idpool, disturbed,
                                     raced, crashed, workVars>>

TakeId(u) == /\ Unlocked
             /\ Goto(u, "register", "registering")
             /\ lock' = u
             /\ tid' = [tid EXCEPT ![u] = idpool]
             /\ UNCHANGED <<round, stop, fdVars, found, threads, idpool, disturbed, raced,
                            crashed, workVars>>

(* An int key map keeps what it has under an id.                           *)
Register(u) == /\ Goto(u, "registering", "work")
               /\ idpool' = tid[u] + 1
               /\ threads' = [i \in DOMAIN threads \cup {tid[u]} |->
                                IF i \in DOMAIN threads THEN threads[i] ELSE Worker(u)]
               /\ lock' = Null
               /\ UNCHANGED <<round, stop, fdVars, tid, found, disturbed, raced, crashed,
                              workVars>>

(* The user is through: die and running.                                   *)
Stop(u) == /\ Goto(u, "work", IF Order[u] = "join_first" THEN "find" ELSE "close")
           /\ stop' = stop \cup {Worker(u)}
           /\ UNCHANGED <<round, fdVars, threadVars, workVars>>
----------------------------------------------------------------------------
(* jointhread                                                              *)

(* Other threads that change, or walk, the bucket while this one walks it; *)
(* walking moves the remembered position of a list, see LinkedList.        *)
SameBucket(u) == {v \in Users \ {u} : tid[v] % Buckets = tid[u] % Buckets}
Changing(u) == {v \in SameBucket(u) : doing[v] \in {"registering", "removing"}}
Walking(u) == {v \in SameBucket(u) : doing[v] = "find"}
Racing(u) == Changing(u) \cup Walking(u) # {} \/ u \in disturbed

Found(u, w) == /\ found' = [found EXCEPT ![u] = w]
               /\ doing' = [doing EXCEPT ![u] = IF w = Null THEN AfterJoin(u) ELSE "join"]

(* Look the thread up.  Walking a bucket at the same time as others may    *)
(* find the entry, miss it - "Auch ! Thread not found" - or follow a null  *)
(* pointer.                                                                *)
Find(u) == /\ ~crashed /\ doing[u] = "find"
           /\ raced' = (raced \/ Racing(u))
           /\ disturbed' = (disturbed \ {u}) \cup Walking(u)
           /\ \/ /\ tid[u] \in DOMAIN threads
                 /\ Found(u, threads[tid[u]]) /\ UNCHANGED crashed
              \/ /\ Racing(u) \/ tid[u] \notin DOMAIN threads
                 /\ Found(u, Null) /\ UNCHANGED crashed
              \/ Racing(u) /\ crashed' = TRUE /\ UNCHANGED <<doing, found>>
           /\ UNCHANGED <<round, stop, fdVars, tid, threads, idpool, lock, workVars>>

\* Mutant of Join: it does not wait.
Join_NoWait(u) == /\ Goto(u, "join", "rem")
                  /\ UNCHANGED <<round, stop, fdVars, threadVars, workVars>>

Join(u) == /\ Goto(u, "join", "rem")
           /\ wrk[found[u]] = "ended"
           /\ UNCHANGED <<round, stop, fdVars, threadVars, workVars>>

LockToRemove(u) == /\ Unlocked
                   /\ Goto(u, "rem", "removing")
                   /\ lock' = u
                   /\ UNCHANGED <<round, stop, fdVars, tid, found, threads, idpool,
                                  disturbed, raced, crashed, workVars>>

\* Mutant of Unregister: the lock is not given back.
Unregister_KeepsLock(u) == /\ Goto(u, "removing", AfterJoin(u))
                       /\ threads' = [i \in DOMAIN threads \ {tid[u]} |-> threads[i]]
                       /\ found' = [found EXCEPT ![u] = Null]
                       /\ UNCHANGED <<round, stop, fdVars, tid, idpool, lock, disturbed,
                                      raced, crashed, workVars>>

Unregister(u) == /\ Goto(u, "removing", AfterJoin(u))
             /\ threads' = [i \in DOMAIN threads \ {tid[u]} |-> threads[i]]
             /\ found' = [found EXCEPT ![u] = Null]
             /\ lock' = Null
             /\ UNCHANGED <<round, stop, fdVars, tid, idpool, disturbed, raced,
                            crashed, workVars>>
----------------------------------------------------------------------------
(* The threads: until told to stop, look a number up and use it.  A        *)
(* descriptor that is gone ends them, and between the look at the stop and *)
(* the look into the table it may go.                                      *)

Work(w, from, to) == ~crashed /\ wrk[w] = from /\ wrk' = [wrk EXCEPT ![w] = to]

CheckStop(w) == /\ Work(w, "loop", IF w \in stop THEN "ended" ELSE "call")
                /\ UNCHANGED <<doing, round, stop, fdVars, threadVars, using>>

Lookup(w) == /\ Unlocked
             /\ fd[w[1]] \in DOMAIN filedescriptors
             /\ Work(w, "call", "use")
             /\ using' = [using EXCEPT ![w] = filedescriptors[fd[w[1]]]]
             /\ UNCHANGED <<doing, round, stop, fdVars, threadVars>>

LookupFails(w) == /\ Unlocked
                  /\ fd[w[1]] \notin DOMAIN filedescriptors
                  /\ Work(w, "call", "ended")
                  /\ UNCHANGED <<doing, round, stop, fdVars, threadVars, using>>

(* The system call: read, write or accept.  It fails on a number that is   *)
(* closed and on one that is a socket of the other kind by now.            *)
SameKind(w) == os[using[w]] # Null /\ Order[os[using[w]][1]] = Order[w[1]]

Return(w) == /\ Work(w, "use", "loop") /\ SameKind(w)
             /\ using' = [using EXCEPT ![w] = Null]
             /\ UNCHANGED <<doing, round, stop, fdVars, threadVars>>

Fail(w) == /\ Work(w, "use", "ended") /\ ~SameKind(w)
           /\ using' = [using EXCEPT ![w] = Null]
           /\ UNCHANGED <<doing, round, stop, fdVars, threadVars>>

OsalUser(u) == \/ OpenNumber(u) \/ FileNumber(u) \/ Create(u) \/ TakeId(u) \/ Register(u)
               \/ Find(u) \/ Join(u) \/ LockToRemove(u) \/ Unregister(u) \/ Close(u)
Thread(w) == CheckStop(w) \/ Lookup(w) \/ LookupFails(w) \/ Fail(w)

OsalNext == \/ \E u \in Users : OsalUser(u) \/ Stop(u)
            \/ \E w \in Workers : Thread(w) \/ Return(w)

OsalSpec == OsalInit /\ [][OsalNext]_osalVars
----------------------------------------------------------------------------
Pending == {u \in Users : doing[u] = "file"}

(* The table and the operating system agree: what is open is filed under   *)
(* one descriptor, or about to be, and what is filed is open.              *)
TableMatchesSystem ==
  /\ {n \in Numbers : os[n] # Null} =
       {filedescriptors[f] : f \in DOMAIN filedescriptors}
         \cup {number[u] : u \in Pending}
  /\ \A f, g \in DOMAIN filedescriptors :
       filedescriptors[f] = filedescriptors[g] => f = g
  /\ \A u \in Pending : number[u] \notin {filedescriptors[f] : f \in DOMAIN filedescriptors}

(* A thread that is about to read or write does so on the connection it    *)
(* was started for, also when the number has meanwhile been closed and     *)
(* opened again: whoever joins before it closes is safe, and an arena,     *)
(* which closes first, is in danger only until its join is over.           *)
UsesItsOwn ==
  \A u \in Users, r \in 1 .. Rounds :
    wrk[<<u, r>>] = "use" /\ os[using[<<u, r>>]] # <<u, r>> =>
      \/ raced
      \/ Order[u] = "close_first" /\ r = round[u] /\ doing[u] \in {"find", "join"}

(* "RC_OK when thread {tid} has terminated" (osal.h:304): the thread that  *)
(* jointhread waited for is the one that was started under the id.         *)
JoinWaits ==
  \A u \in Users :
    doing[u] \in {"rem", "removing"}
      \/ (~raced /\ doing[u] = IF Order[u] = "join_first" THEN "close" ELSE "open")
    => round[u] = 0 \/ wrk[Worker(u)] = "ended"

(* Whoever destroys a peer or an arena comes to the end of it.             *)
DestroyEnds ==
  \A u \in Users :
    doing[u] \in {"find", "join", "rem", "removing", "close"}
      ~> (doing[u] = "open" \/ crashed)
=============================================================================
