----------------------------- MODULE QueueTeardown -----------------------------
(***************************************************************************)
(* BlkQueue_destroy of common/ds/src/blockingqueue.c with threads still    *)
(* inside BlkQueue_push and BlkQueue_take, and Cmaphore_destroy of the     *)
(* posix osal.c with threads waiting in Cmaphore_down.  Nobody calls the   *)
(* queue any more once destroy has begun.                                  *)
(*                                                                         *)
(* The ring is used under the queue's lock only, as BlkQueue shows, so     *)
(* that section is one step here; destroy itself holds the lock longer.    *)
(* What sched_yield lets run is up to the scheduler: the destroying thread *)
(* may go on at any time.                                                  *)
(***************************************************************************)
EXTENDS Integers, FiniteSets

CONSTANTS Pushers, Takers,
          Items,        \* the pointers pushed, none of them null
          Empty,        \* a null pointer
          Capacity      \* the size given to BlkQueue_new

ASSUME TeardownAssumption == /\ Pushers \cap Takers = {}
                             /\ IsFiniteSet(Pushers \cup Takers)
                             /\ Empty \notin Items
                             /\ Capacity \in Nat \ {0}

VARIABLES owns,         \* the queue was made by BlkQueue_newown
          sem,          \* the semaphores: [count, oe], oe FALSE when cleared
          pointer,      \* the queue's pointers to them: FALSE when cleared
          locked,       \* destroy holds the queue's lock
          slots, front, back,
          present,      \* q->elements is set
          freed,        \* the memory given back
          at,           \* where each thread is
          holds,        \* what each thread pushes or has taken
          step,         \* where destroy is
          gone,         \* history: elements that ff freed
          used,         \* history: elements some thread pushed or tried to
          kept,         \* history: elements a push of which answered 0
          taken,        \* history: elements takes have answered
          late          \* history: threads that were not waiting as a yield ended

semVars == <<sem, pointer>>
ringVars == <<slots, front, back>>
teardownHistory == <<gone, used, kept, taken, late>>
teardownVars == <<owns, semVars, locked, ringVars, present, freed, at, holds, step, teardownHistory>>

Semaphores == {"inserts", "takeouts"}
Users == Pushers \cup Takers
Down(u) == IF u \in Pushers THEN "inserts" ELSE "takeouts"
Up(u) == IF u \in Pushers THEN "takeouts" ELSE "inserts"

BlkQueue_newown ==
  /\ owns \in BOOLEAN
  /\ sem = [s \in Semaphores |-> [count |-> IF s = "inserts" THEN Capacity ELSE 0, oe |-> TRUE]]
  /\ pointer = [s \in Semaphores |-> TRUE]
  /\ locked = FALSE
  /\ slots = [i \in 0 .. Capacity |-> Empty] /\ front = 0 /\ back = 0
  /\ present = TRUE
  /\ freed = {}
  /\ at = [u \in Users |-> "out"]
  /\ holds = [u \in Users |-> Empty]
  /\ step = "none"
  /\ gone = {} /\ used = {} /\ kept = {} /\ taken = {} /\ late = {}
----------------------------------------------------------------------------
(* The threads.  One that uses memory that was freed, or an oe that was    *)
(* cleared, breaks: what happens then is undefined.                        *)

Uses(u, memory, from, to) ==
  /\ at[u] = from
  /\ at' = [at EXCEPT ![u] = IF memory \cap freed = {} THEN to ELSE "broken"]

Sound(memory) == memory \cap freed = {}

TeardownCall(u) == /\ step = "none"
                   /\ Uses(u, {"queue"}, "out", "enter")
                   /\ IF u \in Takers THEN UNCHANGED <<holds, used>>
                      ELSE \E x \in Items \ used : /\ holds' = [holds EXCEPT ![u] = x]
                                                   /\ used' = used \cup {x}
                   /\ UNCHANGED <<owns, semVars, locked, ringVars, present, freed, step,
                                  gone, kept, taken, late>>

(* Cmaphore_down up to its first test.  A semaphore that is gone already   *)
(* does not keep the thread.                                               *)
DownEnter(u) ==
  LET s == Down(u)
      memory == {"queue"} \cup IF Sound({"queue"}) /\ pointer[s] THEN {s} ELSE {}
      passes == ~pointer[s] \/ ~sem[s].oe \/ sem[s].count > 0
  IN  /\ Uses(u, memory, "enter", IF passes THEN "section" ELSE "spin")
      /\ sem' = IF Sound(memory) /\ pointer[s] /\ sem[s].oe /\ sem[s].count > 0
                  THEN [sem EXCEPT ![s].count = @ - 1] ELSE sem
      /\ UNCHANGED <<owns, pointer, locked, ringVars, present, freed, holds, step, teardownHistory>>

(* The loop, which the thread leaves with a permit or when the semaphore   *)
(* is being destroyed.                                                     *)
DownSpin(u) ==
  LET s == Down(u)
  IN  /\ Uses(u, {s}, "spin", "section")
      /\ s \in freed \/ ~sem[s].oe \/ sem[s].count > 0
      /\ sem' = IF Sound({s}) /\ sem[s].oe THEN [sem EXCEPT ![s].count = @ - 1] ELSE sem
      /\ UNCHANGED <<owns, pointer, locked, ringVars, present, freed, holds, step, teardownHistory>>

\* Mutant of TakeSection: the slot keeps what was taken.
TakeSection_Keeps(u) ==
  /\ holds' = [holds EXCEPT ![u] = slots[front]]
  /\ front' = (front + 1) % (Capacity + 1)
  /\ UNCHANGED <<slots, back>>

PushSection(u) == /\ slots' = [slots EXCEPT ![back] = holds[u]]
                  /\ back' = (back + 1) % (Capacity + 1)
                  /\ holds' = [holds EXCEPT ![u] = Empty]
                  /\ UNCHANGED front
TakeSection(u) == /\ holds' = [holds EXCEPT ![u] = slots[front]]
                  /\ slots' = [slots EXCEPT ![front] = Empty]
                  /\ front' = (front + 1) % (Capacity + 1)
                  /\ UNCHANGED back

(* Under the queue's lock; without a ring push answers 0 and take nothing. *)
Section(u) ==
  LET memory == {"queue", "lock"}
  IN  /\ Uses(u, memory, "section", IF present THEN "up" ELSE "out")
      /\ Sound(memory) => ~locked
      /\ IF Sound(memory) /\ present
           THEN IF u \in Pushers THEN PushSection(u) ELSE TakeSection(u)
           ELSE UNCHANGED ringVars /\ holds' = [holds EXCEPT ![u] = Empty]
      /\ kept' = IF Sound(memory) /\ ~present /\ u \in Pushers THEN kept \cup {holds[u]} ELSE kept
      /\ UNCHANGED <<owns, semVars, locked, present, freed, step, gone, used, taken, late>>

(* Cmaphore_up, which takes the lock by way of the semaphore's oe.         *)
UpSemaphore(u) ==
  LET s == Up(u)
      memory == {"queue"} \cup IF Sound({"queue"}) /\ pointer[s] THEN {s} ELSE {}
      answers == Sound(memory) /\ (pointer[s] => sem[s].oe)
  IN  /\ at[u] = "up"
      /\ at' = [at EXCEPT ![u] = IF answers THEN "out" ELSE "broken"]
      /\ sem' = IF answers /\ pointer[s] THEN [sem EXCEPT ![s].count = @ + 1] ELSE sem
      /\ taken' = IF answers /\ u \in Takers THEN taken \cup {holds[u]} ELSE taken
      /\ holds' = [holds EXCEPT ![u] = Empty]
      /\ UNCHANGED <<owns, pointer, locked, ringVars, present, freed, step, gone, used, kept, late>>
----------------------------------------------------------------------------
(* The destroying thread.                                                  *)

Destroys(from, to) == /\ step = from
                      /\ step' = to
                      /\ UNCHANGED <<owns, front, back, at, holds, used, kept, taken>>

Waits(u) == \/ at[u] \in {"out", "broken"}
            \/ at[u] = "section" /\ locked
            \/ at[u] = "spin" /\ Down(u) \notin freed
                 /\ sem[Down(u)].oe /\ sem[Down(u)].count = 0

(* sched_yield has returned.                                               *)
Yield(from, to) == /\ Destroys(from, to)
                   /\ late' = late \cup {u \in Users : ~Waits(u)}
                   /\ UNCHANGED <<semVars, locked, slots, present, freed, gone>>

Detach == /\ Destroys("none", "detached")
          /\ locked' = TRUE
          /\ present' = FALSE
          /\ UNCHANGED <<semVars, slots, freed, gone, late>>

Unlock == /\ Destroys("yielded", "unlocked")
          /\ locked' = FALSE
          /\ UNCHANGED <<semVars, slots, present, freed, gone, late>>

\* Mutant of Announce: the threads in Cmaphore_down are not told.
Announce_Silent(s, from, to) ==
  /\ Destroys(from, to)
  /\ UNCHANGED <<semVars, locked, slots, present, freed, gone, late>>

Announce(s, from, to) ==
  /\ Destroys(from, to)
  /\ sem' = [sem EXCEPT ![s].oe = FALSE]
  /\ UNCHANGED <<pointer, locked, slots, present, freed, gone, late>>

Cmaphore_free(s, from, to) ==
  /\ Destroys(from, to)
  /\ pointer' = [pointer EXCEPT ![s] = FALSE]
  /\ freed' = freed \cup {s}
  /\ UNCHANGED <<sem, locked, slots, present, gone, late>>

(* ff gets every slot of the ring, the empty ones too.                     *)
FreeRing == /\ Destroys("no takeouts", "no ring")
            /\ gone' = IF owns THEN {slots[i] : i \in DOMAIN slots} \ {Empty} ELSE {}
            /\ freed' = freed \cup {"ring"}
            /\ UNCHANGED <<semVars, locked, slots, present, late>>

FreeQueue == /\ Destroys("no ring", "no queue")
             /\ freed' = freed \cup {"queue"}
             /\ UNCHANGED <<semVars, locked, slots, present, gone, late>>

FreeLock == /\ Destroys("no queue", "done")
            /\ freed' = freed \cup {"lock"}
            /\ UNCHANGED <<semVars, locked, slots, present, gone, late>>

BlkQueue_destroy ==
  \/ Detach \/ Yield("detached", "yielded")
  \/ Unlock \/ Yield("unlocked", "open")
  \/ Announce("inserts", "open", "told pushes") \/ Yield("told pushes", "pushes left")
  \/ Cmaphore_free("inserts", "pushes left", "no inserts")
  \/ Announce("takeouts", "no inserts", "told takes") \/ Yield("told takes", "takes left")
  \/ Cmaphore_free("takeouts", "takes left", "no takeouts")
  \/ FreeRing \/ FreeQueue \/ FreeLock

TeardownNext == /\ \A u \in Users : at[u] # "broken"
                /\ \/ \E u \in Users : \/ TeardownCall(u)
                                       \/ DownEnter(u) \/ DownSpin(u)
                                       \/ Section(u) \/ UpSemaphore(u)
                   \/ BlkQueue_destroy

TeardownSpec == BlkQueue_newown /\ [][TeardownNext]_teardownVars
----------------------------------------------------------------------------
OnlyLateOnesBreak == \A u \in Users : at[u] = "broken" => u \in late

AllLeave == step = "done" /\ late = {} => \A u \in Users : at[u] = "out"

(* "Hopefully this will unlock all takes and pushes" it says in destroy.   *)
(* A thread uses what is freed only if some yield returned while it still  *)
(* had steps to take: if sched_yield lets every other thread run until it  *)
(* waits or has left, destroy is safe at any moment, and all calls return. *)
TeardownIsSafe == OnlyLateOnesBreak /\ AllLeave

(* And if nobody breaks, every element is with its pusher, with a taker or *)
(* freed, and with one of them only; a queue without ff forgets those left *)
(* in it.                                                                  *)
ElementsGoOneWay ==
  /\ gone \cap (taken \cup kept) = {} /\ taken \cap kept = {} /\ Empty \notin taken
  /\ step = "done" /\ (\A u \in Users : at[u] = "out") /\ owns
       => used = gone \cup taken \cup kept
=============================================================================
