-------------------------- MODULE QueueTeardownProofs --------------------------
(***************************************************************************)
(* Destroying a queue under its users is safe if the scheduler does as     *)
(* hoped, for any number of threads and any capacity.  The invariant       *)
(* follows a thread that every yield found waiting, from each yield of     *)
(* destroy to the next: it has less and less left to do.  A second one     *)
(* follows the permits and the elements.                                   *)
(***************************************************************************)
EXTENDS QueueTeardown, FiniteSetTheorems, TLAPS

Spots == {"out", "enter", "spin", "section", "up", "broken"}

(* The steps of destroy, by what its yields have done.                     *)
Early == {"none", "detached"}
Yielded == {"yielded", "unlocked", "open", "told pushes"}
PushesLeft == {"pushes left", "no inserts", "told takes"}
TakesLeft == {"takes left", "no takeouts", "no ring", "no queue", "done"}
Steps == Early \cup Yielded \cup PushesLeft \cup TakesLeft

Types == /\ sem \in [Semaphores -> [count : Int, oe : BOOLEAN]]
         /\ at \in [Users -> Spots]
         /\ step \in Steps

(* What destroy has done to the queue by each of its steps.                *)
Phases == /\ present <=> step = "none"
          /\ locked <=> step \in {"detached", "yielded"}
          /\ step \in Early \cup Yielded \cup {"pushes left"} => freed = {}
          /\ step \in {"no inserts", "told takes", "takes left"} => freed = {"inserts"}
          /\ step \in Early => sem["inserts"].oe /\ sem["takeouts"].oe
          /\ step = "told pushes" => ~sem["inserts"].oe
          /\ step = "told takes" => ~sem["takeouts"].oe

(* Where a thread can be that is not late.                                 *)
InTime(u) == /\ at[u] # "broken"
             /\ step \in Yielded => at[u] \in {"out", "spin", "section"}
             /\ step \in PushesLeft => \/ at[u] = "out"
                                       \/ u \notin Pushers /\ at[u] \in {"spin", "section"}
             /\ step \in TakesLeft => at[u] = "out"

Positions == \A u \in Users \ late : InTime(u)

TeardownInv == Types /\ Phases /\ Positions
----------------------------------------------------------------------------
(* A permit more or less leaves the rest of a semaphore.                   *)
LEMMA CountFacts ==
  ASSUME Types, NEW s \in Semaphores, NEW k \in Int,
         sem' = [sem EXCEPT ![s].count = k]
  PROVE  /\ sem' \in [Semaphores -> [count : Int, oe : BOOLEAN]]
         /\ \A r \in Semaphores : sem'[r].oe = sem[r].oe
BY DEF Types

LEMMA TeardownInit == BlkQueue_newown => TeardownInv
<1> SUFFICES ASSUME BlkQueue_newown PROVE TeardownInv
  OBVIOUS
<1>1. Types
  <2>1. sem \in [Semaphores -> [count : Int, oe : BOOLEAN]]
    BY TeardownAssumption DEF BlkQueue_newown
  <2>2. at \in [Users -> Spots]
    BY DEF BlkQueue_newown, Spots
  <2> QED BY <2>1, <2>2 DEF BlkQueue_newown, Types, Steps, Early
<1>2. Phases
  BY DEF BlkQueue_newown, Phases, Semaphores, Early, Yielded
<1>3. Positions
  BY DEF BlkQueue_newown, Positions, InTime, Yielded, PushesLeft, TakesLeft
<1> QED BY <1>1, <1>2, <1>3 DEF TeardownInv

(* A step of a thread touches neither destroy nor the other threads.       *)
LEMMA UserStep ==
  ASSUME TeardownInv, NEW u \in Users, NEW to \in Spots,
         at' = [at EXCEPT ![u] = to],
         UNCHANGED <<locked, present, freed, step, late>>,
         sem' \in [Semaphores -> [count : Int, oe : BOOLEAN]],
         \A r \in Semaphores : sem'[r].oe = sem[r].oe,
         u \notin late => InTime(u)'
  PROVE  TeardownInv'
<1>1. Types'
  BY DEF TeardownInv, Types
<1>2. Phases'
  BY DEF TeardownInv, Phases, Semaphores
<1>3. Positions'
  <2> SUFFICES ASSUME NEW x \in Users, x \notin late PROVE InTime(x)'
    BY DEF Positions
  <2>1. CASE x = u
    BY <2>1
  <2>2. CASE x # u
    BY <2>2 DEF TeardownInv, Types, Positions, InTime
  <2> QED BY <2>1, <2>2
<1> QED BY <1>1, <1>2, <1>3 DEF TeardownInv
----------------------------------------------------------------------------
(* The threads: where each may be tells which memory is still there.       *)

LEMMA TeardownCallKeeps ==
  ASSUME TeardownInv, NEW u \in Users, TeardownCall(u)
  PROVE  TeardownInv'
<1>1. freed = {} /\ step = "none" /\ at[u] = "out"
  BY DEF TeardownInv, Phases, TeardownCall, Uses, Early
<1>2. at' = [at EXCEPT ![u] = "enter"]
  BY <1>1 DEF TeardownCall, Uses
<1>3. UNCHANGED <<locked, present, freed, step, late>> /\ UNCHANGED sem
  BY DEF TeardownCall, semVars
<1>4. sem' \in [Semaphores -> [count : Int, oe : BOOLEAN]]
  BY <1>3 DEF TeardownInv, Types
<1>5. InTime(u)'
  BY <1>1, <1>2, <1>3 DEF InTime, TeardownInv, Types, Yielded, PushesLeft, TakesLeft
<1>6. "enter" \in Spots
  BY DEF Spots
<1> QED BY <1>2, <1>3, <1>4, <1>5, <1>6, UserStep

(* One permit less, if the thread got one.                                 *)
LEMMA Permit ==
  ASSUME TeardownInv, NEW s \in Semaphores, NEW d \in Int,
         \/ sem' = [sem EXCEPT ![s].count = @ + d]
         \/ sem' = sem
  PROVE  /\ sem' \in [Semaphores -> [count : Int, oe : BOOLEAN]]
         /\ \A r \in Semaphores : sem'[r].oe = sem[r].oe
<1>1. Types /\ sem[s].count + d \in Int
  BY DEF TeardownInv, Types
<1>2. CASE sem' = sem
  BY <1>1, <1>2 DEF Types
<1>3. CASE sem' = [sem EXCEPT ![s].count = sem[s].count + d]
  BY <1>1, <1>3, CountFacts
<1> QED BY <1>2, <1>3

LEMMA DownEnterKeeps ==
  ASSUME TeardownInv, NEW u \in Users, DownEnter(u)
  PROVE  TeardownInv'
<1> DEFINE s == Down(u)
<1>1. s \in Semaphores
  BY DEF Down, Semaphores
<1>2. PICK to \in {"section", "spin", "broken"} :
        at' = [at EXCEPT ![u] = to] /\ (to = "broken" => freed # {})
  BY DEF DownEnter, Uses
<1>3. at[u] = "enter" /\ UNCHANGED <<locked, present, freed, step, late>>
  BY DEF DownEnter, Uses, teardownHistory
<1>4. sem' = [sem EXCEPT ![s].count = @ + (-1)] \/ sem' = sem
  BY <1>1 DEF DownEnter, TeardownInv, Types
<1>5. /\ sem' \in [Semaphores -> [count : Int, oe : BOOLEAN]]
      /\ \A r \in Semaphores : sem'[r].oe = sem[r].oe
  BY <1>1, <1>4, Permit
<1>6. ASSUME u \notin late PROVE InTime(u)'
  <2>1. step \in Early
    BY <1>3, <1>6 DEF TeardownInv, Types, Positions, InTime, Steps
  <2>2. freed = {}
    BY <2>1 DEF TeardownInv, Phases
  <2> QED BY <2>1, <2>2, <1>2, <1>3
          DEF InTime, TeardownInv, Types, Early, Yielded, PushesLeft, TakesLeft
<1>7. {"section", "spin", "broken"} \subseteq Spots
  BY DEF Spots
<1> QED BY <1>2, <1>3, <1>5, <1>6, <1>7, UserStep

LEMMA DownSpinKeeps ==
  ASSUME TeardownInv, NEW u \in Users, DownSpin(u)
  PROVE  TeardownInv'
<1> DEFINE s == Down(u)
<1>1. s \in Semaphores
  BY DEF Down, Semaphores
<1>2. PICK to \in {"section", "broken"} :
        at' = [at EXCEPT ![u] = to] /\ (to = "broken" => s \in freed)
  BY DEF DownSpin, Uses
<1>3. at[u] = "spin" /\ UNCHANGED <<locked, present, freed, step, late>>
  BY DEF DownSpin, Uses, teardownHistory
<1>4. sem' = [sem EXCEPT ![s].count = @ + (-1)] \/ sem' = sem
  BY <1>1 DEF DownSpin, TeardownInv, Types
<1>5. /\ sem' \in [Semaphores -> [count : Int, oe : BOOLEAN]]
      /\ \A r \in Semaphores : sem'[r].oe = sem[r].oe
  BY <1>1, <1>4, Permit
<1>6. ASSUME u \notin late PROVE InTime(u)'
  <2>1. step \notin TakesLeft /\ (step \in PushesLeft => u \notin Pushers)
    BY <1>3, <1>6 DEF TeardownInv, Positions, InTime
  <2>2. CASE step \in Early \cup Yielded
    <3>1. to = "section"
      BY <2>2, <1>2 DEF TeardownInv, Phases
    <3> QED BY <3>1, <2>2, <1>2, <1>3
            DEF InTime, TeardownInv, Types, Early, Yielded, PushesLeft, TakesLeft
  <2>3. CASE step \in PushesLeft
    <3>1. s \notin freed
      BY <2>1, <2>3 DEF Down, TeardownInv, Phases, PushesLeft, Early, Yielded
    <3> QED BY <3>1, <2>1, <2>3, <1>2, <1>3
            DEF InTime, TeardownInv, Types, Yielded, PushesLeft, TakesLeft
  <2> QED BY <2>1, <2>2, <2>3 DEF TeardownInv, Types, Steps
<1>7. {"section", "broken"} \subseteq Spots
  BY DEF Spots
<1> QED BY <1>2, <1>3, <1>5, <1>6, <1>7, UserStep

LEMMA SectionKeeps ==
  ASSUME TeardownInv, NEW u \in Users, Section(u)
  PROVE  TeardownInv'
<1>1. PICK to \in {"up", "out", "broken"} :
        /\ at' = [at EXCEPT ![u] = to]
        /\ to = "broken" => {"queue", "lock"} \cap freed # {}
        /\ to = "up" => present
  BY DEF Section, Uses
<1>2. at[u] = "section" /\ UNCHANGED <<locked, present, freed, step, late>> /\ UNCHANGED sem
  BY DEF Section, Uses, semVars
<1>3. sem' \in [Semaphores -> [count : Int, oe : BOOLEAN]]
  BY <1>2 DEF TeardownInv, Types
<1>4. ASSUME u \notin late PROVE InTime(u)'
  <2>1. step \notin TakesLeft
    BY <1>2, <1>4 DEF TeardownInv, Positions, InTime
  <2>2. {"queue", "lock"} \cap freed = {}
    BY <2>1 DEF TeardownInv, Types, Phases, Steps, PushesLeft, TakesLeft
  <2>3. step \in Yielded \cup PushesLeft => to = "out"
    BY <2>2, <1>1 DEF TeardownInv, Phases, Yielded, PushesLeft
  <2> QED BY <2>1, <2>2, <2>3, <1>1, <1>2 DEF InTime, TeardownInv, Types
<1>5. {"up", "out", "broken"} \subseteq Spots
  BY DEF Spots
<1> QED BY <1>1, <1>2, <1>3, <1>4, <1>5, UserStep

LEMMA UpSemaphoreKeeps ==
  ASSUME TeardownInv, NEW u \in Users, UpSemaphore(u)
  PROVE  TeardownInv'
<1> DEFINE s == Up(u)
<1>1. s \in Semaphores
  BY DEF Up, Semaphores
<1>2. PICK to \in {"out", "broken"} :
        /\ at' = [at EXCEPT ![u] = to]
        /\ to = "broken" => freed # {} \/ ~sem[s].oe
  BY DEF UpSemaphore, Sound
<1>3. at[u] = "up" /\ UNCHANGED <<locked, present, freed, step, late>>
  BY DEF UpSemaphore
<1>4. sem' = [sem EXCEPT ![s].count = @ + 1] \/ sem' = sem
  BY DEF UpSemaphore
<1>5. /\ sem' \in [Semaphores -> [count : Int, oe : BOOLEAN]]
      /\ \A r \in Semaphores : sem'[r].oe = sem[r].oe
  BY <1>1, <1>4, Permit
<1>6. ASSUME u \notin late PROVE InTime(u)'
  <2>1. step \in Early
    BY <1>3, <1>6 DEF TeardownInv, Types, Positions, InTime, Steps
  <2>2. freed = {} /\ sem[s].oe
    BY <2>1, <1>1 DEF TeardownInv, Phases, Semaphores
  <2> QED BY <2>1, <2>2, <1>2, <1>3
          DEF InTime, TeardownInv, Types, Early, Yielded, PushesLeft, TakesLeft
<1>7. {"out", "broken"} \subseteq Spots
  BY DEF Spots
<1> QED BY <1>2, <1>3, <1>5, <1>6, <1>7, UserStep
----------------------------------------------------------------------------
(* The destroying thread.  Between two yields no thread need have moved.   *)

LEMMA DestroyStep ==
  ASSUME TeardownInv,
         UNCHANGED <<at, late>>,
         sem' \in [Semaphores -> [count : Int, oe : BOOLEAN]],
         Phases',
         \/ step \in Early /\ step' \in Early
         \/ step \in Yielded /\ step' \in Yielded
         \/ step \in PushesLeft /\ step' \in PushesLeft
         \/ step \in TakesLeft /\ step' \in TakesLeft
  PROVE  TeardownInv'
<1>1. Types'
  BY DEF TeardownInv, Types, Steps
<1>2. Positions'
  BY DEF TeardownInv, Positions, InTime, Early, Yielded, PushesLeft, TakesLeft
<1> QED BY <1>1, <1>2 DEF TeardownInv

LEMMA DetachKeeps == ASSUME TeardownInv, Detach PROVE TeardownInv'
<1>1. step \in Early /\ step' \in Early /\ UNCHANGED <<at, late>> /\ UNCHANGED sem
  BY DEF Detach, Destroys, Early, semVars
<1>2. Phases'
  BY <1>1 DEF TeardownInv, Phases, Detach, Destroys, Early, Yielded
<1> QED BY <1>1, <1>2, DestroyStep DEF TeardownInv, Types

LEMMA UnlockKeeps == ASSUME TeardownInv, Unlock PROVE TeardownInv'
<1>1. step \in Yielded /\ step' \in Yielded /\ UNCHANGED <<at, late>> /\ UNCHANGED sem
  BY DEF Unlock, Destroys, Yielded, semVars
<1>2. Phases'
  BY <1>1 DEF TeardownInv, Phases, Unlock, Destroys, Early, Yielded
<1> QED BY <1>1, <1>2, DestroyStep DEF TeardownInv, Types

(* A semaphore whose oe is cleared keeps its type.                         *)
LEMMA Told ==
  ASSUME TeardownInv, NEW s \in Semaphores, sem' = [sem EXCEPT ![s].oe = FALSE]
  PROVE  /\ sem' \in [Semaphores -> [count : Int, oe : BOOLEAN]]
         /\ ~sem'[s].oe
BY DEF TeardownInv, Types

LEMMA AnnounceKeeps ==
  ASSUME TeardownInv,
         \/ Announce("inserts", "open", "told pushes")
         \/ Announce("takeouts", "no inserts", "told takes")
  PROVE  TeardownInv'
<1>1. CASE Announce("inserts", "open", "told pushes")
  <2>1. /\ sem' \in [Semaphores -> [count : Int, oe : BOOLEAN]]
        /\ ~sem'["inserts"].oe
    BY <1>1, Told DEF Announce, Semaphores
  <2>2. step \in Yielded /\ step' \in Yielded /\ UNCHANGED <<at, late>>
    BY <1>1 DEF Announce, Destroys, Yielded
  <2>3. Phases'
    BY <1>1, <2>1 DEF TeardownInv, Phases, Announce, Destroys, Early, Yielded
  <2> QED BY <2>1, <2>2, <2>3, DestroyStep
<1>2. CASE Announce("takeouts", "no inserts", "told takes")
  <2>1. /\ sem' \in [Semaphores -> [count : Int, oe : BOOLEAN]]
        /\ ~sem'["takeouts"].oe
    BY <1>2, Told DEF Announce, Semaphores
  <2>2. step \in PushesLeft /\ step' \in PushesLeft /\ UNCHANGED <<at, late>>
    BY <1>2 DEF Announce, Destroys, PushesLeft
  <2>3. Phases'
    BY <1>2, <2>1 DEF TeardownInv, Phases, Announce, Destroys, Early, Yielded
  <2> QED BY <2>1, <2>2, <2>3, DestroyStep
<1> QED BY <1>1, <1>2

LEMMA FreeKeeps ==
  ASSUME TeardownInv,
         \/ Cmaphore_free("inserts", "pushes left", "no inserts")
         \/ Cmaphore_free("takeouts", "takes left", "no takeouts")
         \/ FreeRing \/ FreeQueue \/ FreeLock
  PROVE  TeardownInv'
<1>1. UNCHANGED <<at, late, sem, locked, present>>
  BY DEF Cmaphore_free, FreeRing, FreeQueue, FreeLock, Destroys, semVars
<1>2. /\ \/ step \in PushesLeft /\ step' \in PushesLeft
         \/ step \in TakesLeft /\ step' \in TakesLeft
      /\ step' = "no inserts" \/ step' \in TakesLeft \ {"takes left"}
  BY DEF Cmaphore_free, FreeRing, FreeQueue, FreeLock, Destroys, PushesLeft, TakesLeft
<1>3. step' = "no inserts" => freed' = {"inserts"}
  BY DEF Cmaphore_free, FreeRing, FreeQueue, FreeLock, Destroys, TeardownInv, Phases
<1>4. Phases'
  BY <1>1, <1>2, <1>3 DEF TeardownInv, Phases, Early, Yielded, PushesLeft, TakesLeft
<1> QED BY <1>1, <1>2, <1>4, DestroyStep DEF TeardownInv, Types

(* After a yield the threads that are not late are where they wait, if     *)
(* what they wait for can still come.                                      *)
LEMMA YieldKeeps ==
  ASSUME TeardownInv,
         \/ Yield("detached", "yielded") \/ Yield("unlocked", "open")
         \/ Yield("told pushes", "pushes left") \/ Yield("told takes", "takes left")
  PROVE  TeardownInv'
<1>1. UNCHANGED <<at, sem, locked, present, freed>>
  BY DEF Yield, Destroys, semVars
<1>2. late' = late \cup {u \in Users : ~Waits(u)}
  BY DEF Yield
<1>3. \/ step = "detached" /\ step' = "yielded"
      \/ step = "unlocked" /\ step' = "open"
      \/ step = "told pushes" /\ step' = "pushes left"
      \/ step = "told takes" /\ step' = "takes left"
  BY DEF Yield, Destroys
<1>4. Types'
  BY <1>1, <1>3 DEF TeardownInv, Types, Steps, Early, Yielded, PushesLeft, TakesLeft
<1>5. Phases'
  BY <1>1, <1>3 DEF TeardownInv, Phases, Early, Yielded
<1>6. Positions'
  <2> SUFFICES ASSUME NEW u \in Users, u \notin late' PROVE InTime(u)'
    BY DEF Positions
  <2>1. InTime(u) /\ Waits(u)
    BY <1>2 DEF TeardownInv, Positions
  <2>2. at[u] \in {"out", "spin", "section"}
    BY <2>1 DEF Waits, InTime
  <2>3. CASE step' \in Yielded
    BY <2>2, <2>3, <1>1 DEF InTime, Yielded, PushesLeft, TakesLeft
  <2>4. CASE step = "told pushes" /\ step' = "pushes left"
    <3>1. ~sem["inserts"].oe /\ ~locked
      BY <2>4 DEF TeardownInv, Phases
    <3>2. u \in Pushers => at[u] = "out"
      BY <3>1, <2>1, <2>2 DEF Waits, Down
    <3> QED BY <3>2, <2>2, <2>4, <1>1 DEF InTime, Yielded, PushesLeft, TakesLeft
  <2>5. CASE step = "told takes" /\ step' = "takes left"
    <3>1. ~sem["takeouts"].oe /\ ~locked
      BY <2>5 DEF TeardownInv, Phases
    <3>2. at[u] = "out"
      BY <3>1, <2>1, <2>2, <2>5 DEF Waits, Down, InTime, PushesLeft
    <3> QED BY <3>2, <2>5, <1>1 DEF InTime, Yielded, PushesLeft, TakesLeft
  <2> QED BY <1>3, <2>3, <2>4, <2>5 DEF Yielded
<1> QED BY <1>4, <1>5, <1>6 DEF TeardownInv
----------------------------------------------------------------------------
LEMMA TeardownStep == TeardownInv /\ [TeardownNext]_teardownVars => TeardownInv'
<1> SUFFICES ASSUME TeardownInv, [TeardownNext]_teardownVars PROVE TeardownInv'
  OBVIOUS
<1>1. ASSUME NEW u \in Users,
             TeardownCall(u) \/ DownEnter(u) \/ DownSpin(u) \/ Section(u) \/ UpSemaphore(u)
      PROVE  TeardownInv'
  BY <1>1, TeardownCallKeeps, DownEnterKeeps, DownSpinKeeps, SectionKeeps, UpSemaphoreKeeps
<1>2. CASE BlkQueue_destroy
  BY <1>2, DetachKeeps, UnlockKeeps, AnnounceKeeps, FreeKeeps, YieldKeeps DEF BlkQueue_destroy
<1>3. CASE UNCHANGED teardownVars
  BY <1>3 DEF teardownVars, teardownHistory, semVars, TeardownInv, Types, Phases, Positions, InTime
<1> QED BY <1>1, <1>2, <1>3 DEF TeardownNext

(* For any number of threads and any capacity, a thread that every yield   *)
(* of BlkQueue_destroy found waiting has left the put before "inserts" is  *)
(* freed and the take before "takeouts" is, and never meets freed memory.  *)
THEOREM TeardownInvariant == TeardownSpec => []TeardownInv
<1> QED BY TeardownInit, TeardownStep, PTL DEF TeardownSpec

(* So destroy does what it says it hopefully does: only a thread the       *)
(* scheduler kept from running during some yield can break, and without    *)
(* such a thread all puts and takes have returned when destroy has.        *)
THEOREM TeardownSafe == TeardownSpec => []TeardownIsSafe
<1>1. TeardownInv => TeardownIsSafe
  <2> SUFFICES ASSUME TeardownInv PROVE TeardownIsSafe
    OBVIOUS
  <2>1. OnlyLateOnesBreak
    BY DEF TeardownInv, Positions, InTime, OnlyLateOnesBreak
  <2>2. AllLeave
    BY DEF TeardownInv, Positions, InTime, TakesLeft, AllLeave
  <2> QED BY <2>1, <2>2 DEF TeardownIsSafe
<1> QED BY <1>1, TeardownInvariant, PTL
-----------------------------------------------------------------------------
(* Elements go one way.  That a taker finds an element and a pusher a free *)
(* slot rests on the permits, and these on the ring.                       *)

(* The ring: slots from front up to back are filled.                       *)
Slots == 0 .. Capacity
InRing(i) == IF front <= back THEN front <= i /\ i < back ELSE front <= i \/ i < back
Filled == IF front <= back THEN back - front ELSE back - front + (Capacity + 1)

RingOK == /\ front \in Slots /\ back \in Slots
          /\ slots \in [Slots -> Items \cup {Empty}]
          /\ \A i \in Slots : slots[i] # Empty <=> InRing(i)

(* Until destroy begins every permit is in a semaphore or with a thread    *)
(* that goes from one to the other.                                        *)
There(S, spot) == {u \in S : at[u] = spot}
Passing(S, spot) == Cardinality(There(S, spot))
PermitsOK ==
  present =>
    /\ \A s \in Semaphores : pointer[s] /\ sem[s].oe /\ sem[s].count >= 0
    /\ sem["takeouts"].count + Passing(Takers, "section") + Passing(Pushers, "up") = Filled
    /\ sem["inserts"].count + Passing(Pushers, "section") + Passing(Takers, "up")
         = Capacity - Filled

(* Every element used is in one place: with a thread, in a slot, taken or  *)
(* kept.  Only a thread that breaks loses one.                             *)
Carries(u) == \/ u \in Pushers /\ at[u] \in {"enter", "spin", "section"}
              \/ u \in Takers /\ at[u] = "up"

InOnePlace ==
  /\ \A u \in Users : Carries(u) =>
       /\ holds[u] \in used \ (taken \cup kept)
       /\ \A i \in Slots : slots[i] # holds[u]
       /\ \A v \in Users : Carries(v) /\ holds[v] = holds[u] => v = u
  /\ \A i \in Slots : slots[i] # Empty =>
       /\ slots[i] \in used \ (taken \cup kept)
       /\ \A j \in Slots : slots[j] = slots[i] => j = i
  /\ used \subseteq Items /\ taken \cup kept \subseteq used /\ taken \cap kept = {}

NoneLost ==
  (\A u \in Users : at[u] # "broken") =>
    \A x \in used : \/ x \in taken \cup kept
                    \/ \E u \in Users : Carries(u) /\ holds[u] = x
                    \/ \E i \in Slots : slots[i] = x

(* What ff frees is what was in the ring.                                  *)
FreedByFf == gone = IF owns /\ step \in {"no ring", "no queue", "done"}
                      THEN {slots[i] : i \in Slots} \ {Empty} ELSE {}

ElementsInv == /\ TeardownInv /\ holds \in [Users -> Items \cup {Empty}]
               /\ RingOK /\ PermitsOK /\ InOnePlace /\ NoneLost /\ FreedByFf
-----------------------------------------------------------------------------
(* Counting threads at one place, when one of them moves.                  *)
LEMMA Moved ==
  ASSUME at \in [Users -> Spots], NEW u \in Users, NEW to \in Spots,
         at' = [at EXCEPT ![u] = to], NEW S \in SUBSET Users, NEW spot
  PROVE  /\ Passing(S, spot) \in Nat /\ Passing(S, spot)' \in Nat
         /\ u \notin S => Passing(S, spot)' = Passing(S, spot)
         /\ u \in S /\ at[u] # spot /\ to # spot => Passing(S, spot)' = Passing(S, spot)
         /\ u \in S /\ at[u] = spot /\ to # spot =>
              Passing(S, spot)' = Passing(S, spot) - 1 /\ Passing(S, spot) > 0
         /\ u \in S /\ at[u] # spot /\ to = spot => Passing(S, spot)' = Passing(S, spot) + 1
<1> DEFINE A == {v \in S : at[v] = spot}
           B == {v \in S : at'[v] = spot}
<1>1. Passing(S, spot) = Cardinality(A) /\ Passing(S, spot)' = Cardinality(B)
  BY DEF Passing, There
<1>2. IsFiniteSet(Users)
  BY TeardownAssumption DEF Users
<1>3. IsFiniteSet(A) /\ IsFiniteSet(B)
  <2>1. A \in SUBSET Users /\ B \in SUBSET Users
    OBVIOUS
  <2> HIDE DEF A, B
  <2> QED BY <1>2, <2>1, FS_Subset
<1>4. Cardinality(A) \in Nat /\ Cardinality(B) \in Nat
  <2> HIDE DEF A, B
  <2> QED BY <1>3, FS_CardinalityType
<1>5. \A v \in S : v # u => at'[v] = at[v]
  OBVIOUS
<1>6. at'[u] = to
  OBVIOUS
<1>7. u \notin S \/ (at[u] # spot /\ to # spot) => B = A
  BY <1>5, <1>6
<1>8. ASSUME u \in S, at[u] = spot, to # spot
      PROVE  Cardinality(B) = Cardinality(A) - 1 /\ Cardinality(A) > 0
  <2>1. u \in A /\ B = A \ {u}
    BY <1>5, <1>6, <1>8
  <2> HIDE DEF A, B
  <2>2. Cardinality(A \ {u}) = Cardinality(A) - 1
    BY <1>3, <2>1, FS_RemoveElement
  <2> QED BY <1>4, <2>1, <2>2
<1>9. ASSUME u \in S, at[u] # spot, to = spot
      PROVE  Cardinality(B) = Cardinality(A) + 1
  <2>1. u \notin A /\ B = A \cup {u}
    BY <1>5, <1>6, <1>9
  <2> HIDE DEF A, B
  <2>2. Cardinality(A \cup {u}) = Cardinality(A) + 1
    BY <1>3, <2>1, FS_AddElement
  <2> QED BY <2>1, <2>2
<1> HIDE DEF A, B
<1> QED BY <1>1, <1>4, <1>7, <1>8, <1>9

(* A thread that comes and goes elsewhere.                                 *)
LEMMA Elsewhere ==
  ASSUME at \in [Users -> Spots], NEW u \in Users, NEW to \in Spots,
         at' = [at EXCEPT ![u] = to], NEW S \in SUBSET Users, NEW spot,
         at[u] # spot, to # spot
  PROVE  Passing(S, spot)' = Passing(S, spot)
<1>1. CASE u \in S
  BY <1>1, Moved
<1>2. CASE u \notin S
  BY <1>2, Moved
<1> QED BY <1>1, <1>2

(* A thread that comes to be where the count is taken.                     *)
LEMMA Arrives ==
  ASSUME at \in [Users -> Spots], NEW u \in Users, NEW to \in Spots,
         at' = [at EXCEPT ![u] = to], NEW S \in SUBSET Users, at[u] # to
  PROVE  /\ Passing(S, to) \in Nat
         /\ u \notin S => Passing(S, to)' = Passing(S, to)
         /\ u \in S => Passing(S, to)' = Passing(S, to) + 1
BY Moved

LEMMA Kinds ==
  /\ Pushers \in SUBSET Users /\ Takers \in SUBSET Users
  /\ \A u \in Users : (u \in Pushers /\ u \notin Takers) \/ (u \notin Pushers /\ u \in Takers)
BY TeardownAssumption DEF Users

(* A step that moves no index.                                             *)
LEMMA RingStays ==
  ASSUME RingOK, UNCHANGED ringVars
  PROVE  RingOK' /\ Filled' = Filled
BY DEF RingOK, InRing, Filled, ringVars, Slots

LEMMA FilledBounds ==
  ASSUME RingOK
  PROVE  /\ Filled \in 0 .. Capacity /\ Capacity \in Nat \ {0}
         /\ front \in 0 .. Capacity /\ back \in 0 .. Capacity
<1>1. Capacity \in Nat \ {0}
  BY TeardownAssumption
<1>2. front \in 0 .. Capacity /\ back \in 0 .. Capacity
  BY DEF RingOK, Slots
<1> QED BY <1>1, <1>2 DEF Filled

(* The index after i.                                                      *)
LEMMA NextIndex ==
  ASSUME NEW i \in Slots
  PROVE  (i + 1) % (Capacity + 1) = IF i = Capacity THEN 0 ELSE i + 1
<1>1. Capacity \in Nat \ {0} /\ i \in 0 .. Capacity
  BY TeardownAssumption DEF Slots
<1>2. CASE i = Capacity
  BY <1>1, <1>2
<1>3. CASE i # Capacity
  <2>1. i + 1 \in 0 .. Capacity
    BY <1>1, <1>3
  <2> QED BY <1>1, <1>3, <2>1
<1> QED BY <1>2, <1>3

(* A push fills the slot at back, which is empty unless the ring is full.  *)
LEMMA PushFills ==
  ASSUME RingOK, NEW u, PushSection(u), holds[u] \in Items, Filled < Capacity
  PROVE  RingOK' /\ Filled' = Filled + 1 /\ slots[back] = Empty
<1>1. /\ Capacity \in Nat \ {0} /\ front \in 0 .. Capacity /\ back \in 0 .. Capacity
      /\ back \in Slots
  BY FilledBounds DEF RingOK
<1>2. /\ back' = IF back = Capacity THEN 0 ELSE back + 1
      /\ front' = front /\ slots' = [slots EXCEPT ![back] = holds[u]]
  BY <1>1, NextIndex DEF PushSection
<1>3. Filled = IF front <= back THEN back - front ELSE back - front + (Capacity + 1)
  BY DEF Filled
<1>4. Filled' = IF front' <= back' THEN back' - front' ELSE back' - front' + (Capacity + 1)
  BY DEF Filled
<1>5. Filled' = Filled + 1
  BY <1>1, <1>2, <1>3, <1>4
<1>6. ~InRing(back)
  BY <1>1 DEF InRing
<1>7. slots[back] = Empty
  BY <1>1, <1>6 DEF RingOK
<1>8. front' \in Slots /\ back' \in Slots
  BY <1>1, <1>2 DEF Slots
<1>9. slots' \in [Slots -> Items \cup {Empty}]
  BY <1>1, <1>2 DEF RingOK
<1>10. ASSUME NEW i \in Slots PROVE slots'[i] # Empty <=> InRing(i)'
  <2>1. i \in 0 .. Capacity
    BY DEF Slots
  <2>2. InRing(i)' <=> IF front' <= back' THEN front' <= i /\ i < back'
                       ELSE front' <= i \/ i < back'
    BY DEF InRing
  <2>3. InRing(i) <=> IF front <= back THEN front <= i /\ i < back
                      ELSE front <= i \/ i < back
    BY DEF InRing
  <2>4. CASE i = back
    <3>1. InRing(i)'
      BY <1>1, <1>2, <1>3, <2>1, <2>2, <2>4
    <3>2. slots'[i] = holds[u]
      BY <1>1, <1>2, <2>4 DEF RingOK
    <3> QED BY <3>1, <3>2, TeardownAssumption
  <2>5. CASE i # back
    <3>1. InRing(i)' <=> InRing(i)
      BY <1>1, <1>2, <1>3, <2>1, <2>2, <2>3, <2>5
    <3>2. slots'[i] = slots[i]
      BY <1>1, <1>2, <2>5 DEF RingOK
    <3> QED BY <3>1, <3>2 DEF RingOK
  <2> QED BY <2>4, <2>5
<1> QED BY <1>5, <1>7, <1>8, <1>9, <1>10 DEF RingOK

(* A take empties the slot at front, which is filled unless the ring is    *)
(* empty.                                                                  *)
LEMMA TakeEmpties ==
  ASSUME RingOK, NEW u, TakeSection(u), Filled > 0
  PROVE  RingOK' /\ Filled' = Filled - 1 /\ slots[front] # Empty
<1>1. /\ Capacity \in Nat \ {0} /\ front \in 0 .. Capacity /\ back \in 0 .. Capacity
      /\ front \in Slots
  BY FilledBounds DEF RingOK
<1>2. /\ front' = IF front = Capacity THEN 0 ELSE front + 1
      /\ back' = back /\ slots' = [slots EXCEPT ![front] = Empty]
  BY <1>1, NextIndex DEF TakeSection
<1>3. Filled = IF front <= back THEN back - front ELSE back - front + (Capacity + 1)
  BY DEF Filled
<1>4. Filled' = IF front' <= back' THEN back' - front' ELSE back' - front' + (Capacity + 1)
  BY DEF Filled
<1>5. Filled' = Filled - 1
  BY <1>1, <1>2, <1>3, <1>4
<1>6. InRing(front)
  BY <1>1, <1>3 DEF InRing
<1>7. slots[front] # Empty
  BY <1>1, <1>6 DEF RingOK
<1>8. front' \in Slots /\ back' \in Slots
  BY <1>1, <1>2 DEF Slots
<1>9. slots' \in [Slots -> Items \cup {Empty}]
  BY <1>1, <1>2 DEF RingOK
<1>10. ASSUME NEW i \in Slots PROVE slots'[i] # Empty <=> InRing(i)'
  <2>1. i \in 0 .. Capacity
    BY DEF Slots
  <2>2. InRing(i)' <=> IF front' <= back' THEN front' <= i /\ i < back'
                       ELSE front' <= i \/ i < back'
    BY DEF InRing
  <2>3. InRing(i) <=> IF front <= back THEN front <= i /\ i < back
                      ELSE front <= i \/ i < back
    BY DEF InRing
  <2>4. CASE i = front
    <3>1. ~InRing(i)'
      BY <1>1, <1>2, <1>3, <2>1, <2>2, <2>4
    <3>2. slots'[i] = Empty
      BY <1>1, <1>2, <2>4 DEF RingOK
    <3> QED BY <3>1, <3>2
  <2>5. CASE i # front
    <3>1. InRing(i)' <=> InRing(i)
      BY <1>1, <1>2, <1>3, <2>1, <2>2, <2>3, <2>5
    <3>2. slots'[i] = slots[i]
      BY <1>1, <1>2, <2>5 DEF RingOK
    <3> QED BY <3>1, <3>2 DEF RingOK
  <2> QED BY <2>4, <2>5
<1> QED BY <1>5, <1>7, <1>8, <1>9, <1>10 DEF RingOK
-----------------------------------------------------------------------------
(* The permits, until destroy begins.                                      *)

LEMMA Uncalled ==
  ASSUME ElementsInv, present
  PROVE  /\ step = "none" /\ freed = {} /\ ~locked
         /\ \A s \in Semaphores : pointer[s] /\ sem[s].oe /\ sem[s].count \in Nat
         /\ "inserts" \in Semaphores /\ "takeouts" \in Semaphores
BY DEF ElementsInv, TeardownInv, Types, Phases, PermitsOK, Early, Semaphores

Balanced(f) ==
  /\ \A s \in Semaphores : pointer[s] /\ sem[s].oe /\ sem[s].count >= 0
  /\ sem["takeouts"].count + Passing(Takers, "section") + Passing(Pushers, "up") = f
  /\ sem["inserts"].count + Passing(Pushers, "section") + Passing(Takers, "up")
       = Capacity - f

LEMMA Balance == PermitsOK <=> (present => Balanced(Filled))
BY DEF PermitsOK, Balanced

LEMMA Recount ==
  ASSUME sem \in [Semaphores -> [count : Int, oe : BOOLEAN]], NEW s \in Semaphores,
         NEW k \in Int, sem' = [sem EXCEPT ![s].count = k]
  PROVE  /\ sem'[s].count = k
         /\ \A r \in Semaphores : sem'[r].oe = sem[r].oe
         /\ \A r \in Semaphores : r # s => sem'[r].count = sem[r].count
OBVIOUS

LEMMA DownPermits ==
  ASSUME ElementsInv, NEW u \in Users, DownEnter(u) \/ DownSpin(u)
  PROVE  PermitsOK'
<1> SUFFICES ASSUME present PROVE Balanced(Filled)'
  BY Balance DEF DownEnter, DownSpin, PermitsOK, Balanced
<1> DEFINE s == Down(u)
           k == sem[s].count - 1
<1>1. /\ freed = {} /\ "inserts" \in Semaphores /\ "takeouts" \in Semaphores
      /\ \A r \in Semaphores : pointer[r] /\ sem[r].oe /\ sem[r].count \in Nat
  BY Uncalled
<1>2. s \in Semaphores /\ "inserts" # "takeouts"
  BY DEF Down, Semaphores
<1>3. /\ sem \in [Semaphores -> [count : Int, oe : BOOLEAN]] /\ at \in [Users -> Spots]
      /\ RingOK
  BY DEF ElementsInv, TeardownInv, Types
<1>4. pointer' = pointer /\ Filled' = Filled
  BY <1>3, RingStays DEF DownEnter, DownSpin
<1>5. Balanced(Filled)
  BY Balance DEF ElementsInv
<1>6. \/ /\ sem[s].count > 0 /\ sem' = [sem EXCEPT ![s].count = k]
         /\ at' = [at EXCEPT ![u] = "section"]
      \/ sem' = sem /\ at' = [at EXCEPT ![u] = "spin"]
  BY <1>1, <1>2 DEF DownEnter, DownSpin, Uses, Sound
<1>7. at[u] \in {"enter", "spin"}
  BY DEF DownEnter, DownSpin, Uses
<1>8. "section" \in Spots /\ "spin" \in Spots
  BY DEF Spots
<1>9. CASE sem' = sem /\ at' = [at EXCEPT ![u] = "spin"]
  <2>1. ASSUME NEW S \in SUBSET Users
        PROVE  /\ Passing(S, "section")' = Passing(S, "section")
               /\ Passing(S, "up")' = Passing(S, "up")
    <3>1. at' = [at EXCEPT ![u] = "spin"] /\ at \in [Users -> Spots]
      BY <1>3, <1>9
    <3>2. "spin" # "up" /\ "spin" # "section" /\ at[u] # "up" /\ at[u] # "section"
      BY <1>7
    <3> QED BY <1>8, <3>1, <3>2, Elsewhere
  <2> QED BY <1>4, <1>5, <1>9, <2>1, Kinds DEF Balanced
<1>10. CASE /\ sem[s].count > 0 /\ sem' = [sem EXCEPT ![s].count = k]
            /\ at' = [at EXCEPT ![u] = "section"]
  <2>1. k \in Nat
    BY <1>1, <1>2, <1>10
  <2>2. /\ sem'[s].count = k
        /\ \A r \in Semaphores : sem'[r].oe = sem[r].oe
        /\ \A r \in Semaphores : r # s => sem'[r].count = sem[r].count
    <3> HIDE DEF k, s
    <3> QED BY <1>2, <1>3, <1>10, <2>1, Recount
  <2>3. /\ at[u] # "section" /\ at[u] # "up" /\ "section" # "up"
    BY <1>7
  <2>4. ASSUME NEW S \in SUBSET Users
        PROVE  /\ Passing(S, "section") \in Nat /\ Passing(S, "up") \in Nat
               /\ Passing(S, "up")' = Passing(S, "up")
               /\ u \notin S => Passing(S, "section")' = Passing(S, "section")
               /\ u \in S => Passing(S, "section")' = Passing(S, "section") + 1
    <3>1. at' = [at EXCEPT ![u] = "section"] /\ at \in [Users -> Spots]
      BY <1>3, <1>10
    <3>2. Passing(S, "up")' = Passing(S, "up")
      BY <1>8, <2>3, <3>1, Elsewhere
    <3>3. Passing(S, "up") \in Nat
      BY <1>8, <3>1, Moved
    <3>4. /\ Passing(S, "section") \in Nat
          /\ u \notin S => Passing(S, "section")' = Passing(S, "section")
          /\ u \in S => Passing(S, "section")' = Passing(S, "section") + 1
      BY <1>8, <2>3, <3>1, Arrives
    <3> QED BY <3>2, <3>3, <3>4
  <2>5. CASE u \in Pushers
    <3>1. s = "inserts" /\ u \notin Takers
      BY <2>5, Kinds DEF Down
    <3>2. /\ Passing(Pushers, "section")' = Passing(Pushers, "section") + 1
          /\ Passing(Takers, "section")' = Passing(Takers, "section")
          /\ Passing(Pushers, "up")' = Passing(Pushers, "up")
          /\ Passing(Takers, "up")' = Passing(Takers, "up")
          /\ Passing(Pushers, "section") \in Nat /\ Passing(Takers, "up") \in Nat
      BY <2>4, <2>5, <3>1, Kinds
    <3>3. /\ sem'["inserts"].count = sem["inserts"].count - 1
          /\ sem'["takeouts"].count = sem["takeouts"].count
      BY <1>1, <2>2, <3>1
    <3>4. \A r \in Semaphores : pointer'[r] /\ sem'[r].oe /\ sem'[r].count >= 0
      BY <1>1, <1>4, <2>1, <2>2
    <3> QED BY <1>1, <1>4, <1>5, <3>2, <3>3, <3>4 DEF Balanced
  <2>6. CASE u \notin Pushers
    <3>1. s = "takeouts" /\ u \in Takers
      BY <2>6, Kinds DEF Down
    <3>2. /\ Passing(Takers, "section")' = Passing(Takers, "section") + 1
          /\ Passing(Pushers, "section")' = Passing(Pushers, "section")
          /\ Passing(Pushers, "up")' = Passing(Pushers, "up")
          /\ Passing(Takers, "up")' = Passing(Takers, "up")
          /\ Passing(Takers, "section") \in Nat /\ Passing(Pushers, "up") \in Nat
      BY <2>4, <2>6, <3>1, Kinds
    <3>3. /\ sem'["takeouts"].count = sem["takeouts"].count - 1
          /\ sem'["inserts"].count = sem["inserts"].count
      BY <1>1, <2>2, <3>1
    <3>4. \A r \in Semaphores : pointer'[r] /\ sem'[r].oe /\ sem'[r].count >= 0
      BY <1>1, <1>4, <2>1, <2>2
    <3> QED BY <1>1, <1>4, <1>5, <3>2, <3>3, <3>4 DEF Balanced
  <2> QED BY <2>5, <2>6
<1> QED BY <1>6, <1>9, <1>10

LEMMA SectionPermits ==
  ASSUME ElementsInv, NEW u \in Users, Section(u), present
  PROVE  /\ PermitsOK' /\ RingOK'
         /\ u \in Pushers => PushSection(u) /\ slots[back] = Empty
         /\ u \notin Pushers => TakeSection(u) /\ slots[front] # Empty
<1>1. /\ freed = {} /\ "inserts" \in Semaphores /\ "takeouts" \in Semaphores
      /\ \A r \in Semaphores : pointer[r] /\ sem[r].oe /\ sem[r].count \in Nat
  BY Uncalled
<1>2. at \in [Users -> Spots] /\ RingOK
  BY DEF ElementsInv, TeardownInv, Types
<1>3. /\ at[u] = "section" /\ at' = [at EXCEPT ![u] = "up"]
      /\ sem' = sem /\ pointer' = pointer /\ present' = present
      /\ IF u \in Pushers THEN PushSection(u) ELSE TakeSection(u)
  BY <1>1 DEF Section, Uses, Sound, semVars
<1>4. Balanced(Filled)
  BY Balance DEF ElementsInv
<1>5. ASSUME NEW S \in SUBSET Users
      PROVE  /\ Passing(S, "section") \in Nat /\ Passing(S, "up") \in Nat
             /\ u \notin S => /\ Passing(S, "section")' = Passing(S, "section")
                              /\ Passing(S, "up")' = Passing(S, "up")
             /\ u \in S => /\ Passing(S, "section")' = Passing(S, "section") - 1
                           /\ Passing(S, "section") > 0
                           /\ Passing(S, "up")' = Passing(S, "up") + 1
  <2>1. "up" \in Spots /\ at[u] # "up" /\ "up" # "section"
    BY <1>3 DEF Spots
  <2>2. /\ Passing(S, "up") \in Nat
        /\ u \notin S => Passing(S, "up")' = Passing(S, "up")
        /\ u \in S => Passing(S, "up")' = Passing(S, "up") + 1
    BY <1>2, <1>3, <2>1, Arrives
  <2>3. /\ Passing(S, "section") \in Nat
        /\ u \notin S => Passing(S, "section")' = Passing(S, "section")
        /\ u \in S => /\ Passing(S, "section")' = Passing(S, "section") - 1
                      /\ Passing(S, "section") > 0
    BY <1>2, <1>3, <2>1, Moved
  <2> QED BY <2>2, <2>3
<1>6. Filled \in 0 .. Capacity /\ Capacity \in Nat
  BY <1>2, FilledBounds
<1>7. CASE u \in Pushers
  <2>1. u \notin Takers
    BY <1>7, Kinds
  <2>2. /\ Passing(Pushers, "section")' = Passing(Pushers, "section") - 1
        /\ Passing(Pushers, "section") > 0
        /\ Passing(Pushers, "up")' = Passing(Pushers, "up") + 1
        /\ Passing(Takers, "section")' = Passing(Takers, "section")
        /\ Passing(Takers, "up")' = Passing(Takers, "up")
        /\ Passing(Pushers, "section") \in Nat /\ Passing(Pushers, "up") \in Nat
        /\ Passing(Takers, "section") \in Nat /\ Passing(Takers, "up") \in Nat
    BY <1>5, <1>7, <2>1, Kinds
  <2>3. Filled < Capacity
    BY <1>1, <1>4, <1>6, <2>2 DEF Balanced
  <2>4. holds[u] \in Items
    BY <1>3, <1>7 DEF ElementsInv, InOnePlace, Carries
  <2>5. RingOK' /\ Filled' = Filled + 1 /\ slots[back] = Empty
    BY <1>2, <1>3, <1>7, <2>3, <2>4, PushFills
  <2>6. Balanced(Filled)'
    BY <1>1, <1>3, <1>4, <1>6, <2>2, <2>5 DEF Balanced
  <2> QED BY <1>3, <1>7, <2>5, <2>6 DEF PermitsOK, Balanced
<1>8. CASE u \notin Pushers
  <2>1. u \in Takers
    BY <1>8, Kinds
  <2>2. /\ Passing(Takers, "section")' = Passing(Takers, "section") - 1
        /\ Passing(Takers, "section") > 0
        /\ Passing(Takers, "up")' = Passing(Takers, "up") + 1
        /\ Passing(Pushers, "section")' = Passing(Pushers, "section")
        /\ Passing(Pushers, "up")' = Passing(Pushers, "up")
        /\ Passing(Pushers, "section") \in Nat /\ Passing(Pushers, "up") \in Nat
        /\ Passing(Takers, "section") \in Nat /\ Passing(Takers, "up") \in Nat
    BY <1>5, <1>8, <2>1, Kinds
  <2>3. Filled > 0
    BY <1>1, <1>4, <1>6, <2>2 DEF Balanced
  <2>4. RingOK' /\ Filled' = Filled - 1 /\ slots[front] # Empty
    BY <1>2, <1>3, <1>8, <2>3, TakeEmpties
  <2>5. /\ sem["takeouts"].count + Passing(Takers, "section") + Passing(Pushers, "up") = Filled
        /\ sem["inserts"].count + Passing(Pushers, "section") + Passing(Takers, "up")
             = Capacity - Filled
    BY <1>4 DEF Balanced
  <2>6. /\ sem'["takeouts"].count + Passing(Takers, "section")' + Passing(Pushers, "up")' = Filled'
        /\ sem'["inserts"].count + Passing(Pushers, "section")' + Passing(Takers, "up")'
             = Capacity - Filled'
    BY <1>1, <1>3, <1>6, <2>2, <2>4, <2>5
  <2>7. Balanced(Filled)'
    BY <1>3, <1>4, <2>6 DEF Balanced
  <2> QED BY <1>3, <1>8, <2>4, <2>7 DEF PermitsOK, Balanced
<1> QED BY <1>7, <1>8

LEMMA UpPermits ==
  ASSUME ElementsInv, NEW u \in Users, UpSemaphore(u)
  PROVE  PermitsOK'
<1> SUFFICES ASSUME present PROVE Balanced(Filled)'
  BY Balance DEF UpSemaphore, PermitsOK, Balanced
<1> DEFINE s == Up(u)
           k == sem[s].count + 1
<1>1. /\ freed = {} /\ "inserts" \in Semaphores /\ "takeouts" \in Semaphores
      /\ \A r \in Semaphores : pointer[r] /\ sem[r].oe /\ sem[r].count \in Nat
  BY Uncalled
<1>2. s \in Semaphores /\ "inserts" # "takeouts"
  BY DEF Up, Semaphores
<1>3. /\ sem \in [Semaphores -> [count : Int, oe : BOOLEAN]] /\ at \in [Users -> Spots]
      /\ RingOK
  BY DEF ElementsInv, TeardownInv, Types
<1>4. pointer' = pointer /\ Filled' = Filled
  BY <1>3, RingStays DEF UpSemaphore
<1>5. Balanced(Filled)
  BY Balance DEF ElementsInv
<1>6. /\ sem' = [sem EXCEPT ![s].count = k] /\ at[u] = "up"
      /\ at' = [at EXCEPT ![u] = "out"]
  BY <1>1, <1>2 DEF UpSemaphore, Sound
<1>7. k \in Nat
  BY <1>1, <1>2
<1>8. /\ sem'[s].count = k
      /\ \A r \in Semaphores : sem'[r].oe = sem[r].oe
      /\ \A r \in Semaphores : r # s => sem'[r].count = sem[r].count
  <2> HIDE DEF k, s
  <2> QED BY <1>2, <1>3, <1>6, <1>7, Recount
<1>9. ASSUME NEW S \in SUBSET Users
      PROVE  /\ Passing(S, "section") \in Nat /\ Passing(S, "up") \in Nat
             /\ Passing(S, "section")' = Passing(S, "section")
             /\ u \notin S => Passing(S, "up")' = Passing(S, "up")
             /\ u \in S => Passing(S, "up")' = Passing(S, "up") - 1
  <2>1. "out" \in Spots /\ "out" # "up" /\ "out" # "section" /\ at[u] # "section"
    BY <1>6 DEF Spots
  <2>2. /\ Passing(S, "up") \in Nat
        /\ u \notin S => Passing(S, "up")' = Passing(S, "up")
        /\ u \in S /\ at[u] = "up" /\ "out" # "up" =>
             Passing(S, "up")' = Passing(S, "up") - 1
    BY <1>3, <1>6, <2>1, Moved
  <2>3. /\ Passing(S, "section") \in Nat
        /\ u \notin S => Passing(S, "section")' = Passing(S, "section")
        /\ u \in S /\ at[u] # "section" /\ "out" # "section" =>
             Passing(S, "section")' = Passing(S, "section")
    BY <1>3, <1>6, <2>1, Moved
  <2> QED BY <1>6, <2>1, <2>2, <2>3
<1>10. \A r \in Semaphores : pointer'[r] /\ sem'[r].oe /\ sem'[r].count >= 0
  BY <1>1, <1>4, <1>7, <1>8
<1>11. CASE u \in Pushers
  <2>1. s = "takeouts" /\ u \notin Takers
    BY <1>11, Kinds DEF Up
  <2>2. /\ Passing(Takers, "section")' = Passing(Takers, "section")
        /\ Passing(Pushers, "section")' = Passing(Pushers, "section")
        /\ Passing(Pushers, "up")' = Passing(Pushers, "up") - 1
        /\ Passing(Takers, "up")' = Passing(Takers, "up")
        /\ Passing(Takers, "section") \in Nat /\ Passing(Pushers, "up") \in Nat
    BY <1>9, <1>11, <2>1, Kinds
  <2>3. /\ sem'["takeouts"].count = sem["takeouts"].count + 1
        /\ sem'["inserts"].count = sem["inserts"].count
    BY <1>1, <1>8, <2>1
  <2> QED BY <1>1, <1>4, <1>5, <1>10, <2>2, <2>3 DEF Balanced
<1>12. CASE u \notin Pushers
  <2>1. s = "inserts" /\ u \in Takers
    BY <1>12, Kinds DEF Up
  <2>2. /\ Passing(Takers, "section")' = Passing(Takers, "section")
        /\ Passing(Pushers, "section")' = Passing(Pushers, "section")
        /\ Passing(Takers, "up")' = Passing(Takers, "up") - 1
        /\ Passing(Pushers, "up")' = Passing(Pushers, "up")
        /\ Passing(Pushers, "section") \in Nat /\ Passing(Takers, "up") \in Nat
    BY <1>9, <1>12, <2>1, Kinds
  <2>3. /\ sem'["inserts"].count = sem["inserts"].count + 1
        /\ sem'["takeouts"].count = sem["takeouts"].count
    BY <1>1, <1>8, <2>1
  <2> QED BY <1>1, <1>4, <1>5, <1>10, <2>2, <2>3 DEF Balanced
<1> QED BY <1>11, <1>12
-----------------------------------------------------------------------------
LEMMA ElementsInit == BlkQueue_newown => ElementsInv
<1> SUFFICES ASSUME BlkQueue_newown PROVE ElementsInv
  OBVIOUS
<1>1. TeardownInv /\ Capacity \in Nat \ {0}
  BY TeardownInit, TeardownAssumption
<1>2. /\ \A u \in Users : at[u] = "out" /\ holds[u] = Empty
      /\ \A i \in Slots : slots[i] = Empty
      /\ holds \in [Users -> Items \cup {Empty}]
  BY DEF BlkQueue_newown, Slots
<1>3. RingOK
  BY <1>1, <1>2 DEF BlkQueue_newown, RingOK, InRing, Slots
<1>4. PermitsOK
  <2>1. ASSUME NEW S \in SUBSET Users, NEW spot, spot # "out" PROVE Passing(S, spot) = 0
    <3>1. There(S, spot) = {}
      BY <1>2, <2>1 DEF There
    <3> QED BY <3>1, FS_EmptySet DEF Passing
  <2>2. /\ Passing(Pushers, "section") = 0 /\ Passing(Pushers, "up") = 0
        /\ Passing(Takers, "section") = 0 /\ Passing(Takers, "up") = 0
    BY <2>1, Kinds
  <2>3. Filled = 0
    BY DEF Filled, BlkQueue_newown
  <2>4. /\ sem["inserts"].count = Capacity /\ sem["takeouts"].count = 0
        /\ \A s \in Semaphores : pointer[s] /\ sem[s].oe
        /\ Semaphores = {"inserts", "takeouts"}
    BY DEF BlkQueue_newown, Semaphores
  <2> QED BY <1>1, <2>2, <2>3, <2>4 DEF PermitsOK
<1>5. InOnePlace /\ NoneLost
  BY <1>2 DEF BlkQueue_newown, InOnePlace, NoneLost, Carries
<1>6. FreedByFf
  BY DEF BlkQueue_newown, FreedByFf
<1> QED BY <1>1, <1>2, <1>3, <1>4, <1>5, <1>6 DEF ElementsInv

(* No element moves.                                                       *)
LEMMA PlacesKept ==
  ASSUME InOnePlace, NoneLost, UNCHANGED <<holds, slots, used, kept, taken>>,
         \A v \in Users : Carries(v)' => Carries(v),
         \A v \in Users : at'[v] # "broken" =>
           at[v] # "broken" /\ (Carries(v) => Carries(v)')
  PROVE  InOnePlace' /\ NoneLost'
<1>1. InOnePlace'
  BY DEF InOnePlace, Slots
<1>2. NoneLost'
  <2> SUFFICES ASSUME \A u \in Users : at'[u] # "broken", NEW x \in used'
               PROVE  \/ x \in taken \cup kept
                      \/ \E u \in Users : Carries(u)' /\ holds[u] = x
                      \/ \E i \in Slots : slots[i] = x
    BY DEF NoneLost, Slots
  <2>1. \/ x \in taken \cup kept
        \/ \E u \in Users : Carries(u) /\ holds[u] = x
        \/ \E i \in Slots : slots[i] = x
    BY DEF NoneLost
  <2> QED BY <2>1
<1> QED BY <1>1, <1>2

LEMMA FreedKept ==
  ASSUME TeardownInv, FreedByFf, UNCHANGED <<gone, owns, step>>,
         slots' = slots \/ present
  PROVE  FreedByFf'
<1>1. CASE present
  BY <1>1 DEF TeardownInv, Phases, FreedByFf
<1>2. CASE slots' = slots
  BY <1>2 DEF FreedByFf, Slots
<1> QED BY <1>1, <1>2

(* A step of one thread.                                                   *)
LEMMA OthersStay ==
  ASSUME ElementsInv, NEW u \in Users, NEW to, NEW h,
         at' = [at EXCEPT ![u] = to], holds' = [holds EXCEPT ![u] = h]
  PROVE  /\ at'[u] = to /\ holds'[u] = h
         /\ \A v \in Users : v # u =>
              /\ at'[v] = at[v] /\ holds'[v] = holds[v]
              /\ Carries(v)' <=> Carries(v)
BY DEF ElementsInv, TeardownInv, Types, Carries
-----------------------------------------------------------------------------
LEMMA CallElements ==
  ASSUME ElementsInv, NEW u \in Users, TeardownCall(u)
  PROVE  /\ PermitsOK' /\ RingOK' /\ InOnePlace' /\ NoneLost' /\ FreedByFf'
         /\ holds' \in [Users -> Items \cup {Empty}]
<1>1. /\ TeardownInv /\ RingOK /\ InOnePlace /\ NoneLost /\ FreedByFf
      /\ holds \in [Users -> Items \cup {Empty}] /\ at \in [Users -> Spots]
  BY DEF ElementsInv, TeardownInv, Types
<1>2. /\ at[u] = "out" /\ at' = [at EXCEPT ![u] = "enter"] /\ "enter" \in Spots
      /\ UNCHANGED <<slots, kept, taken, gone, owns, step, sem, pointer, present>>
      /\ UNCHANGED ringVars
  BY <1>1 DEF TeardownCall, Uses, TeardownInv, Phases, Early, ringVars, semVars, Spots
<1>3. RingOK' /\ Filled' = Filled /\ FreedByFf'
  BY <1>1, <1>2, RingStays, FreedKept
<1>4. PermitsOK'
  <2>1. ASSUME NEW S \in SUBSET Users
        PROVE  /\ Passing(S, "section")' = Passing(S, "section")
               /\ Passing(S, "up")' = Passing(S, "up")
    <3>1. /\ u \notin S => Passing(S, "up")' = Passing(S, "up")
          /\ u \in S /\ at[u] # "up" => Passing(S, "up")' = Passing(S, "up")
      BY <1>1, <1>2, Moved
    <3>2. /\ u \notin S => Passing(S, "section")' = Passing(S, "section")
          /\ u \in S /\ at[u] # "section" =>
               Passing(S, "section")' = Passing(S, "section")
      BY <1>1, <1>2, Moved
    <3> QED BY <1>2, <3>1, <3>2
  <2> QED BY <1>2, <1>3, <2>1, Kinds DEF ElementsInv, PermitsOK
<1>5. CASE u \in Takers
  <2>1. UNCHANGED <<holds, used>> /\ u \notin Pushers
    BY <1>5, Kinds DEF TeardownCall
  <2>2. \A v \in Users : /\ Carries(v)' <=> Carries(v)
                         /\ at'[v] # "broken" => at[v] # "broken"
    BY <1>1, <1>2, <2>1 DEF Carries
  <2> QED BY <1>1, <1>2, <1>3, <1>4, <2>1, <2>2, PlacesKept
<1>6. CASE u \notin Takers
  <2>1. PICK x \in Items \ used : /\ holds' = [holds EXCEPT ![u] = x]
                                  /\ used' = used \cup {x}
    BY <1>6 DEF TeardownCall
  <2>2. /\ at'[u] = "enter" /\ holds'[u] = x
        /\ \A v \in Users : v # u =>
             /\ at'[v] = at[v] /\ holds'[v] = holds[v]
             /\ Carries(v)' <=> Carries(v)
    BY <1>2, <2>1, OthersStay
  <2>3. x # Empty /\ Carries(u)' /\ ~Carries(u)
    BY <1>2, <1>6, <2>2, Kinds, TeardownAssumption DEF Carries
  <2>4. ASSUME NEW v \in Users, Carries(v)'
        PROVE  /\ holds'[v] \in used' \ (taken' \cup kept')
               /\ \A i \in Slots : slots'[i] # holds'[v]
               /\ \A w \in Users : Carries(w)' /\ holds'[w] = holds'[v] => w = v
    <3>1. ASSUME NEW w \in Users, Carries(w)', w # u
          PROVE  holds'[w] = holds[w] /\ holds[w] \in used /\ Carries(w)
      BY <1>1, <2>2, <3>1 DEF InOnePlace
    <3>2. CASE v = u
      <4>1. x \notin taken \cup kept
        BY <1>1 DEF InOnePlace
      <4>2. \A i \in Slots : slots[i] # x
        BY <1>1, <2>3 DEF InOnePlace
      <4> QED BY <1>2, <2>1, <2>2, <3>1, <3>2, <4>1, <4>2
    <3>3. CASE v # u
      <4>1. /\ holds[v] \in used \ (taken \cup kept)
            /\ \A i \in Slots : slots[i] # holds[v]
            /\ \A w \in Users : Carries(w) /\ holds[w] = holds[v] => w = v
        BY <1>1, <2>4, <3>1, <3>3 DEF InOnePlace
      <4>2. holds'[v] = holds[v] /\ holds[v] # x
        BY <2>4, <3>1, <3>3
      <4> QED BY <1>2, <2>1, <2>2, <3>1, <3>3, <4>1, <4>2
    <3> QED BY <3>2, <3>3
  <2>5. InOnePlace'
    <3>1. /\ \A i \in Slots : slots'[i] # Empty =>
               /\ slots'[i] \in used' \ (taken' \cup kept')
               /\ \A j \in Slots : slots'[j] = slots'[i] => j = i
          /\ used' \subseteq Items /\ taken' \cup kept' \subseteq used'
          /\ taken' \cap kept' = {}
      BY <1>1, <1>2, <2>1 DEF InOnePlace
    <3> QED BY <2>4, <3>1 DEF InOnePlace, Slots
  <2>6. NoneLost'
    <3> SUFFICES ASSUME \A v \in Users : at'[v] # "broken", NEW y \in used'
                 PROVE  \/ y \in taken \cup kept
                        \/ \E v \in Users : Carries(v)' /\ holds'[v] = y
                        \/ \E i \in Slots : slots[i] = y
      BY <1>2 DEF NoneLost, Slots
    <3>1. CASE y = x
      BY <2>2, <2>3, <3>1
    <3>2. CASE y \in used
      <4>1. \A v \in Users : at[v] # "broken"
        BY <1>2, <2>2
      <4>2. \/ y \in taken \cup kept
            \/ \E v \in Users : Carries(v) /\ holds[v] = y
            \/ \E i \in Slots : slots[i] = y
        BY <1>1, <3>2, <4>1 DEF NoneLost
      <4> QED BY <2>2, <2>3, <4>2
    <3> QED BY <2>1, <3>1, <3>2
  <2> QED BY <1>1, <1>3, <1>4, <2>1, <2>5, <2>6
<1> QED BY <1>5, <1>6

LEMMA DownElements ==
  ASSUME ElementsInv, NEW u \in Users, DownEnter(u) \/ DownSpin(u)
  PROVE  /\ PermitsOK' /\ RingOK' /\ InOnePlace' /\ NoneLost' /\ FreedByFf'
         /\ holds' \in [Users -> Items \cup {Empty}]
<1>1. /\ TeardownInv /\ RingOK /\ InOnePlace /\ NoneLost /\ FreedByFf
      /\ holds \in [Users -> Items \cup {Empty}] /\ at \in [Users -> Spots]
  BY DEF ElementsInv, TeardownInv, Types
<1>2. PICK to \in {"spin", "section", "broken"} : at' = [at EXCEPT ![u] = to]
  BY DEF DownEnter, DownSpin, Uses
<1>3. /\ at[u] \in {"enter", "spin"} /\ UNCHANGED ringVars
      /\ UNCHANGED <<holds, slots, used, kept, taken, gone, owns, step>>
  BY DEF DownEnter, DownSpin, Uses, ringVars, teardownHistory
<1>4. RingOK' /\ FreedByFf' /\ PermitsOK'
  BY <1>1, <1>3, RingStays, FreedKept, DownPermits
<1>5. at'[u] = to /\ \A v \in Users : v # u => at'[v] = at[v]
  BY <1>1, <1>2
<1>6. \A v \in Users : Carries(v)' => Carries(v)
  BY <1>3, <1>5, Kinds DEF Carries
<1>7. \A v \in Users : at'[v] # "broken" => at[v] # "broken" /\ (Carries(v) => Carries(v)')
  BY <1>3, <1>5, Kinds DEF Carries
<1> QED BY <1>1, <1>3, <1>4, <1>6, <1>7, PlacesKept

(* Under the lock, and the ring is there.                                  *)
LEMMA SectionMoves ==
  ASSUME ElementsInv, NEW u \in Users, Section(u), present
  PROVE  /\ PermitsOK' /\ RingOK' /\ InOnePlace' /\ NoneLost' /\ FreedByFf'
         /\ holds' \in [Users -> Items \cup {Empty}]
<1>1. /\ TeardownInv /\ RingOK /\ InOnePlace /\ NoneLost /\ FreedByFf
      /\ holds \in [Users -> Items \cup {Empty}] /\ at \in [Users -> Spots]
  BY DEF ElementsInv, TeardownInv, Types
<1>2. freed = {}
  BY Uncalled
<1>3. /\ at[u] = "section" /\ at' = [at EXCEPT ![u] = "up"]
      /\ UNCHANGED <<used, kept, taken, gone, owns, step>>
  BY <1>2 DEF Section, Uses, Sound
<1>4. /\ PermitsOK' /\ RingOK'
      /\ u \in Pushers => PushSection(u) /\ slots[back] = Empty
      /\ u \notin Pushers => TakeSection(u) /\ slots[front] # Empty
  BY SectionPermits
<1>5. FreedByFf'
  BY <1>1, <1>3, FreedKept
<1>6. /\ slots \in [Slots -> Items \cup {Empty}] /\ front \in Slots /\ back \in Slots
  BY <1>1 DEF RingOK
<1>7. CASE u \in Pushers
  <2>1. /\ holds' = [holds EXCEPT ![u] = Empty]
        /\ slots' = [slots EXCEPT ![back] = holds[u]]
    BY <1>4, <1>7 DEF PushSection
  <2>2. /\ at'[u] = "up" /\ holds'[u] = Empty
        /\ \A v \in Users : v # u =>
             /\ at'[v] = at[v] /\ holds'[v] = holds[v]
             /\ Carries(v)' <=> Carries(v)
    BY <1>3, <2>1, OthersStay
  <2>3. Carries(u) /\ ~Carries(u)'
    BY <1>3, <1>7, <2>2, Kinds DEF Carries
  <2>4. /\ slots'[back] = holds[u] /\ slots[back] = Empty
        /\ \A i \in Slots : i # back => slots'[i] = slots[i]
    BY <1>4, <1>6, <1>7, <2>1
  <2>5. /\ holds[u] \in used \ (taken \cup kept)
        /\ \A i \in Slots : slots[i] # holds[u]
        /\ \A v \in Users : Carries(v) /\ holds[v] = holds[u] => v = u
    BY <1>1, <2>3 DEF InOnePlace
  <2>6. ASSUME NEW v \in Users, Carries(v)'
        PROVE  /\ holds'[v] \in used \ (taken \cup kept)
               /\ \A i \in Slots : slots'[i] # holds'[v]
               /\ \A w \in Users : Carries(w)' /\ holds'[w] = holds'[v] => w = v
    <3>1. v # u /\ Carries(v) /\ holds'[v] = holds[v]
      BY <2>2, <2>3, <2>6
    <3>2. /\ holds[v] \in used \ (taken \cup kept)
          /\ \A i \in Slots : slots[i] # holds[v]
          /\ \A w \in Users : Carries(w) /\ holds[w] = holds[v] => w = v
      BY <1>1, <3>1 DEF InOnePlace
    <3>3. holds[v] # holds[u]
      BY <2>5, <3>1
    <3> QED BY <2>2, <2>3, <2>4, <3>1, <3>2, <3>3
  <2>7. ASSUME NEW i \in Slots, slots'[i] # Empty
        PROVE  /\ slots'[i] \in used \ (taken \cup kept)
               /\ \A j \in Slots : slots'[j] = slots'[i] => j = i
    <3>1. slots[i] # Empty => /\ slots[i] \in used \ (taken \cup kept)
                              /\ \A j \in Slots : slots[j] = slots[i] => j = i
      BY <1>1 DEF InOnePlace
    <3> QED BY <2>4, <2>5, <2>7, <3>1
  <2>8. used \subseteq Items /\ taken \cup kept \subseteq used /\ taken \cap kept = {}
    BY <1>1 DEF InOnePlace
  <2>9. InOnePlace'
    BY <1>3, <2>6, <2>7, <2>8 DEF InOnePlace, Slots
  <2>10. NoneLost'
    <3> SUFFICES ASSUME \A v \in Users : at'[v] # "broken", NEW y \in used
                 PROVE  \/ y \in taken \cup kept
                        \/ \E v \in Users : Carries(v)' /\ holds'[v] = y
                        \/ \E i \in Slots : slots'[i] = y
      BY <1>3 DEF NoneLost, Slots
    <3>1. \A v \in Users : at[v] # "broken"
      BY <1>3, <2>2
    <3>2. \/ y \in taken \cup kept
          \/ \E v \in Users : Carries(v) /\ holds[v] = y
          \/ \E i \in Slots : slots[i] = y
      BY <1>1, <3>1 DEF NoneLost
    <3>3. CASE \E v \in Users : Carries(v) /\ holds[v] = y
      BY <1>6, <2>2, <2>4, <3>3
    <3>4. CASE \E i \in Slots : slots[i] = y
      <4>1. y # Empty
        BY <2>8, TeardownAssumption
      <4> QED BY <2>4, <3>4, <4>1
    <3> QED BY <3>2, <3>3, <3>4
  <2>11. holds' \in [Users -> Items \cup {Empty}]
    BY <1>1, <2>1
  <2> QED BY <1>4, <1>5, <2>9, <2>10, <2>11
<1>8. CASE u \notin Pushers
  <2>1. /\ holds' = [holds EXCEPT ![u] = slots[front]]
        /\ slots' = [slots EXCEPT ![front] = Empty]
    BY <1>4, <1>8 DEF TakeSection
  <2>2. /\ at'[u] = "up" /\ holds'[u] = slots[front]
        /\ \A v \in Users : v # u =>
             /\ at'[v] = at[v] /\ holds'[v] = holds[v]
             /\ Carries(v)' <=> Carries(v)
    BY <1>3, <2>1, OthersStay
  <2>3. Carries(u)' /\ ~Carries(u)
    BY <1>3, <1>8, <2>2, Kinds DEF Carries
  <2>4. /\ slots'[front] = Empty /\ slots[front] # Empty
        /\ \A i \in Slots : i # front => slots'[i] = slots[i]
    BY <1>4, <1>6, <1>8, <2>1
  <2>5. /\ slots[front] \in used \ (taken \cup kept)
        /\ \A j \in Slots : slots[j] = slots[front] => j = front
    BY <1>1, <1>6, <2>4 DEF InOnePlace
  <2>6. \A v \in Users : Carries(v) =>
          /\ holds[v] \in used \ (taken \cup kept)
          /\ \A i \in Slots : slots[i] # holds[v]
          /\ \A w \in Users : Carries(w) /\ holds[w] = holds[v] => w = v
    BY <1>1 DEF InOnePlace
  <2>7. used \subseteq Items /\ taken \cup kept \subseteq used /\ taken \cap kept = {}
    BY <1>1 DEF InOnePlace
  <2>8. ASSUME NEW v \in Users, Carries(v)'
        PROVE  /\ holds'[v] \in used \ (taken \cup kept)
               /\ \A i \in Slots : slots'[i] # holds'[v]
               /\ \A w \in Users : Carries(w)' /\ holds'[w] = holds'[v] => w = v
    <3>1. Empty \notin used
      BY <2>7, TeardownAssumption
    <3>2. CASE v = u
      BY <1>6, <2>2, <2>4, <2>5, <2>6, <3>2
    <3>3. CASE v # u
      <4>1. Carries(v) /\ holds'[v] = holds[v]
        BY <2>2, <2>8, <3>3
      <4>2. \A w \in Users : Carries(w)' /\ holds'[w] = holds'[v] => w = v
        BY <1>6, <2>2, <2>6, <3>3, <4>1
      <4>3. \A i \in Slots : slots'[i] # holds[v]
        BY <2>4, <2>6, <3>1, <4>1
      <4> QED BY <2>6, <4>1, <4>2, <4>3
    <3> QED BY <3>2, <3>3
  <2>9. ASSUME NEW i \in Slots, slots'[i] # Empty
        PROVE  /\ slots'[i] \in used \ (taken \cup kept)
               /\ \A j \in Slots : slots'[j] = slots'[i] => j = i
    <3>1. i # front /\ slots'[i] = slots[i] /\ slots[i] # Empty
      BY <2>4, <2>9
    <3>2. /\ slots[i] \in used \ (taken \cup kept)
          /\ \A j \in Slots : slots[j] = slots[i] => j = i
      BY <1>1, <3>1 DEF InOnePlace
    <3> QED BY <2>4, <3>1, <3>2
  <2>10. InOnePlace'
    BY <1>3, <2>7, <2>8, <2>9 DEF InOnePlace, Slots
  <2>11. NoneLost'
    <3> SUFFICES ASSUME \A v \in Users : at'[v] # "broken", NEW y \in used
                 PROVE  \/ y \in taken \cup kept
                        \/ \E v \in Users : Carries(v)' /\ holds'[v] = y
                        \/ \E i \in Slots : slots'[i] = y
      BY <1>3 DEF NoneLost, Slots
    <3>1. \A v \in Users : at[v] # "broken"
      BY <1>3, <2>2
    <3>2. \/ y \in taken \cup kept
          \/ \E v \in Users : Carries(v) /\ holds[v] = y
          \/ \E i \in Slots : slots[i] = y
      BY <1>1, <3>1 DEF NoneLost
    <3> QED BY <2>2, <2>3, <2>4, <3>2
  <2>12. holds' \in [Users -> Items \cup {Empty}]
    BY <1>1, <1>6, <2>1
  <2> QED BY <1>4, <1>5, <2>10, <2>11, <2>12
<1> QED BY <1>7, <1>8

(* A thread lets go of what it carries: to those it leaves it with, or, as *)
(* it breaks, to nobody.                                                   *)
LEMMA LetsGo ==
  ASSUME ElementsInv, NEW u \in Users, NEW to, at[u] # "broken",
         at' = [at EXCEPT ![u] = to], holds' = [holds EXCEPT ![u] = Empty],
         UNCHANGED <<slots, used>>, to \in {"out", "broken"},
         \/ Carries(u) /\ kept' = kept \cup {holds[u]} /\ taken' = taken
         \/ Carries(u) /\ taken' = taken \cup {holds[u]} /\ kept' = kept
         \/ kept' = kept /\ taken' = taken /\ (Carries(u) => to = "broken")
  PROVE  /\ InOnePlace' /\ NoneLost'
         /\ holds' \in [Users -> Items \cup {Empty}]
<1>1. /\ InOnePlace /\ NoneLost /\ holds \in [Users -> Items \cup {Empty}]
      /\ at \in [Users -> Spots]
  BY DEF ElementsInv, TeardownInv, Types
<1>2. /\ at'[u] = to /\ holds'[u] = Empty
      /\ \A v \in Users : v # u =>
           /\ at'[v] = at[v] /\ holds'[v] = holds[v]
           /\ Carries(v)' <=> Carries(v)
  BY OthersStay
<1>3. ~Carries(u)'
  BY <1>2 DEF Carries
<1>4. /\ taken \subseteq taken' /\ kept \subseteq kept'
      /\ taken' \cup kept' \subseteq taken \cup kept \cup {holds[u]}
      /\ Carries(u) \/ (taken' = taken /\ kept' = kept)
      /\ Carries(u) => to = "broken" \/ holds[u] \in taken' \cup kept'
  OBVIOUS
<1>5. \A v \in Users : Carries(v) =>
        /\ holds[v] \in used \ (taken \cup kept)
        /\ \A i \in Slots : slots[i] # holds[v]
        /\ \A w \in Users : Carries(w) /\ holds[w] = holds[v] => w = v
  BY <1>1 DEF InOnePlace
<1>6. ASSUME NEW v \in Users, Carries(v)'
      PROVE  /\ holds'[v] \in used \ (taken' \cup kept')
             /\ \A i \in Slots : slots[i] # holds'[v]
             /\ \A w \in Users : Carries(w)' /\ holds'[w] = holds'[v] => w = v
  <2>1. v # u /\ Carries(v) /\ holds'[v] = holds[v]
    BY <1>2, <1>3, <1>6
  <2>2. holds[v] \notin taken' \cup kept'
    BY <1>4, <1>5, <2>1
  <2> QED BY <1>2, <1>3, <1>5, <2>1, <2>2
<1>7. ASSUME NEW i \in Slots, slots[i] # Empty
      PROVE  /\ slots[i] \in used \ (taken' \cup kept')
             /\ \A j \in Slots : slots[j] = slots[i] => j = i
  <2>1. /\ slots[i] \in used \ (taken \cup kept)
        /\ \A j \in Slots : slots[j] = slots[i] => j = i
    BY <1>1, <1>7 DEF InOnePlace
  <2> QED BY <1>4, <1>5, <2>1
<1>8. used \subseteq Items /\ taken' \cup kept' \subseteq used /\ taken' \cap kept' = {}
  <2>1. used \subseteq Items /\ taken \cup kept \subseteq used /\ taken \cap kept = {}
    BY <1>1 DEF InOnePlace
  <2>2. Carries(u) => holds[u] \in used \ (taken \cup kept)
    BY <1>5
  <2> QED BY <2>1, <2>2
<1>9. InOnePlace'
  BY <1>6, <1>7, <1>8 DEF InOnePlace, Slots
<1>10. NoneLost'
  <2> SUFFICES ASSUME \A v \in Users : at'[v] # "broken", NEW x \in used
               PROVE  \/ x \in taken' \cup kept'
                      \/ \E v \in Users : Carries(v)' /\ holds'[v] = x
                      \/ \E i \in Slots : slots[i] = x
    BY DEF NoneLost, Slots
  <2>1. (\A v \in Users : at[v] # "broken") /\ to # "broken"
    BY <1>2
  <2>2. \/ x \in taken \cup kept
        \/ \E v \in Users : Carries(v) /\ holds[v] = x
        \/ \E i \in Slots : slots[i] = x
    BY <1>1, <2>1 DEF NoneLost
  <2> QED BY <1>2, <1>4, <2>1, <2>2
<1>11. holds' \in [Users -> Items \cup {Empty}]
  BY <1>1
<1> QED BY <1>9, <1>10, <1>11

LEMMA SectionElements ==
  ASSUME ElementsInv, NEW u \in Users, Section(u)
  PROVE  /\ PermitsOK' /\ RingOK' /\ InOnePlace' /\ NoneLost' /\ FreedByFf'
         /\ holds' \in [Users -> Items \cup {Empty}]
<1>1. CASE present
  BY <1>1, SectionMoves
<1>2. CASE ~present
  <2> DEFINE sound == Sound({"queue", "lock"})
             to == IF sound THEN "out" ELSE "broken"
  <2>1. /\ TeardownInv /\ RingOK /\ FreedByFf /\ present' = present
    BY DEF ElementsInv, Section
  <2>2. /\ at[u] = "section" /\ at' = [at EXCEPT ![u] = to]
        /\ holds' = [holds EXCEPT ![u] = Empty] /\ UNCHANGED ringVars
        /\ UNCHANGED <<used, taken, gone, owns, step>>
        /\ kept' = IF sound /\ u \in Pushers THEN kept \cup {holds[u]} ELSE kept
    BY <1>2 DEF Section, Uses, Sound
  <2>3. Carries(u) <=> u \in Pushers
    BY <2>2 DEF Carries
  <2>4. \/ Carries(u) /\ kept' = kept \cup {holds[u]} /\ taken' = taken
        \/ kept' = kept /\ taken' = taken /\ (Carries(u) => to = "broken")
    BY <2>2, <2>3
  <2>5. to \in {"out", "broken"} /\ at[u] # "broken" /\ UNCHANGED <<slots, used>>
    BY <2>2 DEF ringVars
  <2>6. InOnePlace' /\ NoneLost' /\ holds' \in [Users -> Items \cup {Empty}]
    <3> HIDE DEF to, sound
    <3> QED BY <2>2, <2>4, <2>5, LetsGo
  <2>7. RingOK' /\ FreedByFf' /\ PermitsOK'
    BY <1>2, <2>1, <2>2, <2>5, RingStays, FreedKept DEF PermitsOK
  <2> QED BY <2>6, <2>7
<1> QED BY <1>1, <1>2

LEMMA UpElements ==
  ASSUME ElementsInv, NEW u \in Users, UpSemaphore(u)
  PROVE  /\ PermitsOK' /\ RingOK' /\ InOnePlace' /\ NoneLost' /\ FreedByFf'
         /\ holds' \in [Users -> Items \cup {Empty}]
<1>1. TeardownInv /\ RingOK /\ FreedByFf
  BY DEF ElementsInv
<1>2. PICK to \in {"out", "broken"} :
        /\ at' = [at EXCEPT ![u] = to]
        /\ taken' = IF to = "out" /\ u \in Takers THEN taken \cup {holds[u]} ELSE taken
  BY DEF UpSemaphore
<1>3. /\ at[u] = "up" /\ holds' = [holds EXCEPT ![u] = Empty] /\ UNCHANGED ringVars
      /\ UNCHANGED <<slots, used, kept, gone, owns, step>>
  BY DEF UpSemaphore, ringVars
<1>4. Carries(u) <=> u \in Takers
  BY <1>3 DEF Carries
<1>5. \/ Carries(u) /\ taken' = taken \cup {holds[u]} /\ kept' = kept
      \/ kept' = kept /\ taken' = taken /\ (Carries(u) => to = "broken")
  BY <1>2, <1>3, <1>4
<1>6. InOnePlace' /\ NoneLost' /\ holds' \in [Users -> Items \cup {Empty}]
  BY <1>2, <1>3, <1>5, LetsGo
<1>7. RingOK' /\ FreedByFf' /\ PermitsOK'
  BY <1>1, <1>3, RingStays, FreedKept, UpPermits
<1> QED BY <1>6, <1>7

(* The destroying thread moves no element, and frees those in the ring.    *)
LEMMA DestroyElements ==
  ASSUME ElementsInv, BlkQueue_destroy
  PROVE  /\ PermitsOK' /\ RingOK' /\ InOnePlace' /\ NoneLost' /\ FreedByFf'
         /\ holds' \in [Users -> Items \cup {Empty}]
<1>1. /\ TeardownInv /\ RingOK /\ InOnePlace /\ NoneLost /\ FreedByFf
      /\ holds \in [Users -> Items \cup {Empty}]
  BY DEF ElementsInv
<1>2. UNCHANGED <<owns, at, holds, used, kept, taken, front, back, slots>>
  BY DEF BlkQueue_destroy, Detach, Unlock, Yield, Announce, Cmaphore_free, FreeRing,
         FreeQueue, FreeLock, Destroys, ringVars, semVars
<1>3. ~present'
  <2>1. ~present \/ step = "none"
    BY <1>1 DEF TeardownInv, Phases
  <2> QED
    BY <2>1 DEF BlkQueue_destroy, Detach, Unlock, Yield, Announce, Cmaphore_free, FreeRing,
                FreeQueue, FreeLock, Destroys, ringVars, semVars
<1>4. InOnePlace' /\ NoneLost'
  <2>1. \A v \in Users : at'[v] = at[v] /\ (Carries(v)' <=> Carries(v))
    BY <1>2 DEF Carries
  <2> QED BY <1>1, <1>2, <2>1, PlacesKept
<1>5. RingOK' /\ PermitsOK'
  <2>1. UNCHANGED ringVars
    BY <1>2 DEF ringVars
  <2> QED BY <1>1, <1>3, <2>1, RingStays DEF PermitsOK
<1>6. FreedByFf'
  <2> DEFINE Ended == {"no ring", "no queue", "done"}
  <2>1. CASE FreeRing
    <3>1. DOMAIN slots = Slots /\ step' = "no ring"
      BY <1>1, <2>1 DEF RingOK, FreeRing, Destroys
    <3> QED BY <1>2, <2>1, <3>1 DEF FreeRing, FreedByFf, Slots
  <2>2. CASE ~FreeRing
    <3>1. gone' = gone /\ (step' \in Ended <=> step \in Ended)
      BY <2>2 DEF BlkQueue_destroy, Detach, Unlock, Yield, Announce, Cmaphore_free,
                  FreeQueue, FreeLock, Destroys, ringVars, semVars
    <3> QED BY <1>1, <1>2, <3>1 DEF FreedByFf, Slots
  <2> QED BY <2>1, <2>2
<1>7. holds' \in [Users -> Items \cup {Empty}]
  BY <1>1, <1>2
<1> QED BY <1>3, <1>4, <1>5, <1>6, <1>7
-----------------------------------------------------------------------------
LEMMA ElementsNext == ElementsInv /\ [TeardownNext]_teardownVars => ElementsInv'
<1> SUFFICES ASSUME ElementsInv, [TeardownNext]_teardownVars PROVE ElementsInv'
  OBVIOUS
<1>1. TeardownInv'
  BY TeardownStep DEF ElementsInv
<1>2. ASSUME NEW u \in Users, TeardownCall(u) PROVE ElementsInv'
  BY <1>1, <1>2, CallElements DEF ElementsInv
<1>3. ASSUME NEW u \in Users, DownEnter(u) \/ DownSpin(u) PROVE ElementsInv'
  BY <1>1, <1>3, DownElements DEF ElementsInv
<1>4. ASSUME NEW u \in Users, Section(u) PROVE ElementsInv'
  BY <1>1, <1>4, SectionElements DEF ElementsInv
<1>5. ASSUME NEW u \in Users, UpSemaphore(u) PROVE ElementsInv'
  BY <1>1, <1>5, UpElements DEF ElementsInv
<1>6. CASE BlkQueue_destroy
  BY <1>1, <1>6, DestroyElements DEF ElementsInv
<1>7. CASE UNCHANGED teardownVars
  <2>1. UNCHANGED <<at, holds, slots, front, back, used, kept, taken, gone, owns, step,
                    sem, pointer, present>>
    BY <1>7 DEF teardownVars, teardownHistory, ringVars, semVars
  <2>2. InOnePlace' /\ NoneLost'
    <3>1. \A v \in Users : at'[v] = at[v] /\ (Carries(v)' <=> Carries(v))
      BY <2>1 DEF Carries
    <3> QED BY <2>1, <3>1, PlacesKept DEF ElementsInv
  <2>3. FreedByFf' /\ RingOK' /\ Filled' = Filled
    BY <2>1, FreedKept, RingStays DEF ElementsInv, ringVars
  <2>4. PermitsOK'
    BY <2>1, <2>3 DEF ElementsInv, PermitsOK, Passing, There
  <2> QED BY <1>1, <2>1, <2>2, <2>3, <2>4 DEF ElementsInv
<1> QED BY <1>2, <1>3, <1>4, <1>5, <1>6, <1>7 DEF TeardownNext

(* For any number of threads, elements and slots: until destroy begins     *)
(* every permit of the two semaphores is in one of them or with a thread   *)
(* between them, so nobody puts into a full ring or takes from an empty    *)
(* one, and each element stays in one place for good.                      *)
THEOREM ElementsInvariant == TeardownSpec => []ElementsInv
<1> QED BY ElementsInit, ElementsNext, PTL DEF TeardownSpec

(* So whatever destroy interrupts, no element is both freed by ff and with *)
(* a taker or its pusher, no take answers null as an element, and once all *)
(* have left a queue with ff forgets none.                                 *)
THEOREM ElementsGo == TeardownSpec => []ElementsGoOneWay
<1>1. ElementsInv => ElementsGoOneWay
  <2> SUFFICES ASSUME ElementsInv PROVE ElementsGoOneWay
    OBVIOUS
  <2>1. /\ InOnePlace /\ NoneLost /\ FreedByFf /\ Empty \notin Items
    BY TeardownAssumption DEF ElementsInv
  <2>2. gone \cap (taken \cup kept) = {} /\ gone \subseteq used
    <3>1. \A i \in Slots : slots[i] # Empty => slots[i] \in used \ (taken \cup kept)
      BY <2>1 DEF InOnePlace
    <3>2. \A x \in gone : x # Empty /\ \E i \in Slots : slots[i] = x
      BY <2>1 DEF FreedByFf
    <3> QED BY <3>1, <3>2
  <2>3. taken \cap kept = {} /\ Empty \notin taken /\ taken \cup kept \subseteq used
    BY <2>1 DEF InOnePlace
  <2>4. ASSUME step = "done", \A u \in Users : at[u] = "out", owns
        PROVE  used \subseteq gone \cup taken \cup kept
    <3> SUFFICES ASSUME NEW x \in used PROVE x \in gone \cup taken \cup kept
      OBVIOUS
    <3>1. x \in taken \cup kept \/ \E i \in Slots : slots[i] = x
      BY <2>1, <2>4 DEF NoneLost, Carries
    <3>2. x # Empty
      BY <2>1 DEF InOnePlace
    <3>3. gone = {slots[i] : i \in Slots} \ {Empty}
      BY <2>1, <2>4 DEF FreedByFf
    <3> QED BY <3>1, <3>2, <3>3
  <2> QED BY <2>2, <2>3, <2>4 DEF ElementsGoOneWay
<1> QED BY <1>1, ElementsInvariant, PTL
=============================================================================
