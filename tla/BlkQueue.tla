------------------------------ MODULE BlkQueue ------------------------------
(***************************************************************************)
(* The blocking queue of common/ds/src/blockingqueue.c: a ring of Size + 1 *)
(* slots, a semaphore counting the free places (inserts), one counting the *)
(* elements (takeouts), and a spin lock around each update of the ring.    *)
(* Every access to shared memory is a step of its own, so the steps of the *)
(* threads interleave as the machine lets them.  The model covers the life *)
(* of a queue from BlkQueue_new to the call of BlkQueue_destroy.           *)
(*                                                                         *)
(* Cmaphore_down's test-and-decrement and Cmaphore_up's increment run with *)
(* the semaphore's own lock held, so each is one step here; the loop that  *)
(* spins while the count is zero is the step's guard.                      *)
(***************************************************************************)
EXTENDS Integers, FiniteSets

CONSTANTS Producers,  \* threads that call q->put
          Consumers,  \* threads that call q->get and q->size
          Elements,   \* the pointers pushed
          Null,       \* the null pointer
          Size        \* the capacity BlkQueue_new was given

ASSUME SizeAssumption == Size \in Nat \ {0}
ASSUME NullAssumption == Null \notin Elements
ASSUME ThreadAssumption == /\ IsFiniteSet(Producers)
                           /\ IsFiniteSet(Consumers)
                           /\ Producers \cap Consumers = {}

VARIABLES inserts,    \* count of the semaphore of free places
          takeouts,   \* count of the semaphore of elements
          lock,       \* the queue's mutex: TRUE when taken
          elements,   \* the ring
          front,      \* index of the oldest element
          back,       \* index of the next free slot
          pc,         \* where each thread is
          reg,        \* per thread: push's argument, take's res
          sawFront,   \* per consumer: front as size() read it
          sawSize     \* per consumer: what its last size() returned

permits == <<inserts, takeouts>>
ring == <<elements, front, back>>
saw == <<sawFront, sawSize>>
vars == <<permits, lock, ring, pc, reg, saw>>

Threads == Producers \cup Consumers
lelements == Size + 1
Slots == 0 .. Size

PushSteps == {"push_down", "push_lock", "push_store", "push_advance",
              "push_unlock", "push_up"}
TakeSteps == {"take_down", "take_lock", "take_read", "take_clear",
              "take_advance", "take_unlock", "take_up"}
Labels == {"idle", "size_back"} \cup PushSteps \cup TakeSteps

Init == /\ inserts = Size
        /\ takeouts = 0
        /\ lock = FALSE
        /\ elements = [i \in Slots |-> Null]
        /\ front = 0
        /\ back = 0
        /\ pc = [t \in Threads |-> "idle"]
        /\ reg = [t \in Threads |-> Null]
        /\ sawFront = [c \in Consumers |-> 0]
        /\ sawSize = [c \in Consumers |-> 0]

Goto(t, from, to) == /\ pc[t] = from
                     /\ pc' = [pc EXCEPT ![t] = to]

\* Mutant of Succ: the index is not wrapped.
Succ_NoWrap(i) == i + 1

Succ(i) == (i + 1) % lelements
----------------------------------------------------------------------------
(* BlkQueue_push *)

CallPush(p, e) == /\ Goto(p, "idle", "push_down")
                  /\ reg' = [reg EXCEPT ![p] = e]
                  /\ UNCHANGED <<permits, lock, ring, saw>>

\* Mutant of PushDown: it does not wait for a free place.
PushDown_NoWait(p) == /\ Goto(p, "push_down", "push_lock")
                      /\ inserts' = IF inserts > 0 THEN inserts - 1 ELSE 0
                      /\ UNCHANGED <<takeouts, lock, ring, reg, saw>>

PushDown(p) == /\ Goto(p, "push_down", "push_lock")
               /\ inserts > 0
               /\ inserts' = inserts - 1
               /\ UNCHANGED <<takeouts, lock, ring, reg, saw>>

PushLock(p) == /\ Goto(p, "push_lock", "push_store")
               /\ ~lock
               /\ lock' = TRUE
               /\ UNCHANGED <<permits, ring, reg, saw>>

PushStore(p) == /\ Goto(p, "push_store", "push_advance")
                /\ elements' = [elements EXCEPT ![back] = reg[p]]
                /\ UNCHANGED <<permits, lock, front, back, reg, saw>>

PushAdvance(p) == /\ Goto(p, "push_advance", "push_unlock")
                  /\ back' = Succ(back)
                  /\ UNCHANGED <<permits, lock, elements, front, reg, saw>>

PushUnlock(p) == /\ Goto(p, "push_unlock", "push_up")
                 /\ lock' = FALSE
                 /\ UNCHANGED <<permits, ring, reg, saw>>

\* Mutant of PushUp: the permit goes to the wrong semaphore.
PushUp_Swapped(p) == /\ Goto(p, "push_up", "idle")
                     /\ inserts' = inserts + 1
                     /\ reg' = [reg EXCEPT ![p] = Null]
                     /\ UNCHANGED <<takeouts, lock, ring, saw>>

\* Mutant of PushUp: nobody is told of the element.
PushUp_Silent(p) == /\ Goto(p, "push_up", "idle")
                    /\ reg' = [reg EXCEPT ![p] = Null]
                    /\ UNCHANGED <<permits, lock, ring, saw>>

PushUp(p) == /\ Goto(p, "push_up", "idle")
             /\ takeouts' = takeouts + 1
             /\ reg' = [reg EXCEPT ![p] = Null]
             /\ UNCHANGED <<inserts, lock, ring, saw>>

Push(p) == \/ \E e \in Elements : CallPush(p, e)
           \/ PushDown(p) \/ PushLock(p) \/ PushStore(p)
           \/ PushAdvance(p) \/ PushUnlock(p) \/ PushUp(p)
----------------------------------------------------------------------------
(* BlkQueue_take *)

CallTake(c) == /\ Goto(c, "idle", "take_down")
               /\ sawSize' = [sawSize EXCEPT ![c] = 0]
               /\ UNCHANGED <<permits, lock, ring, reg, sawFront>>

TakeDown(c) == /\ Goto(c, "take_down", "take_lock")
               /\ takeouts > 0
               /\ takeouts' = takeouts - 1
               /\ UNCHANGED <<inserts, lock, ring, reg, saw>>

\* Mutant of TakeLock: take does not lock.
TakeLock_Unlocked(c) == /\ Goto(c, "take_lock", "take_read")
                        /\ lock' = TRUE
                        /\ UNCHANGED <<permits, ring, reg, saw>>

TakeLock(c) == /\ Goto(c, "take_lock", "take_read")
               /\ ~lock
               /\ lock' = TRUE
               /\ UNCHANGED <<permits, ring, reg, saw>>

\* Mutant of TakeRead: the wrong end of the ring.
TakeRead_AtBack(c) == /\ Goto(c, "take_read", "take_clear")
                      /\ reg' = [reg EXCEPT ![c] = elements[back]]
                      /\ UNCHANGED <<permits, lock, ring, saw>>

TakeRead(c) == /\ Goto(c, "take_read", "take_clear")
               /\ reg' = [reg EXCEPT ![c] = elements[front]]
               /\ UNCHANGED <<permits, lock, ring, saw>>

\* Mutant of TakeClear: the slot keeps its pointer.
TakeClear_Forgotten(c) == /\ Goto(c, "take_clear", "take_advance")
                          /\ UNCHANGED <<permits, lock, ring, reg, saw>>

TakeClear(c) == /\ Goto(c, "take_clear", "take_advance")
                /\ elements' = [elements EXCEPT ![front] = Null]
                /\ UNCHANGED <<permits, lock, front, back, reg, saw>>

TakeAdvance(c) == /\ Goto(c, "take_advance", "take_unlock")
                  /\ front' = Succ(front)
                  /\ UNCHANGED <<permits, lock, elements, back, reg, saw>>

TakeUnlock(c) == /\ Goto(c, "take_unlock", "take_up")
                 /\ lock' = FALSE
                 /\ UNCHANGED <<permits, ring, reg, saw>>

TakeUp(c) == /\ Goto(c, "take_up", "idle")
             /\ inserts' = inserts + 1
             /\ reg' = [reg EXCEPT ![c] = Null]
             /\ UNCHANGED <<takeouts, lock, ring, saw>>

Take(c) == \/ CallTake(c) \/ TakeDown(c) \/ TakeLock(c) \/ TakeRead(c)
           \/ TakeClear(c) \/ TakeAdvance(c) \/ TakeUnlock(c) \/ TakeUp(c)
----------------------------------------------------------------------------
(* BlkQueue_size takes no lock: front and back are read one after the      *)
(* other.  carena's has_data calls it on the consumer's side.              *)

SizeFront(c) == /\ Goto(c, "idle", "size_back")
                /\ sawFront' = [sawFront EXCEPT ![c] = front]
                /\ UNCHANGED <<permits, lock, ring, reg, sawSize>>

Distance(b, f) == (b - f + lelements) % lelements

\* Mutant of SizeBack: the indices are swapped.
SizeBack_Swapped(c) ==
  /\ Goto(c, "size_back", "idle")
  /\ sawSize' = [sawSize EXCEPT ![c] = Distance(sawFront[c], back)]
  /\ UNCHANGED <<permits, lock, ring, reg, sawFront>>

SizeBack(c) == /\ Goto(c, "size_back", "idle")
               /\ sawSize' = [sawSize EXCEPT ![c] = Distance(back, sawFront[c])]
               /\ UNCHANGED <<permits, lock, ring, reg, sawFront>>

SizeCall(c) == SizeFront(c) \/ SizeBack(c)
----------------------------------------------------------------------------
Next == \/ \E p \in Producers : Push(p)
        \/ \E c \in Consumers : Take(c) \/ SizeCall(c)

Spec == Init /\ [][Next]_vars
----------------------------------------------------------------------------
(* How far each call has come, for the properties.                         *)

Count == Distance(back, front)

Where(f, S) == {t \in Threads : f[t] \in S}
At(S) == Where(pc, S)

ReservedSteps == {"push_lock", "push_store", "push_advance"}
StoredSteps == {"push_unlock", "push_up"}
ClaimedSteps == {"take_lock", "take_read", "take_clear", "take_advance"}
EmptiedSteps == {"take_unlock", "take_up"}
CriticalSteps == {"push_store", "push_advance", "push_unlock",
                  "take_read", "take_clear", "take_advance", "take_unlock"}

Reserved == At(ReservedSteps)   \* pushes that own a free place
Stored == At(StoredSteps)       \* pushes that have yet to announce theirs
Claimed == At(ClaimedSteps)     \* takes that own an element
Emptied == At(EmptiedSteps)     \* takes that have yet to give the place back
Critical == At(CriticalSteps)   \* threads inside the lock

(* The slot at offset k from front. *)
Slot(k) == (front + k) % lelements
----------------------------------------------------------------------------
(* Every variable keeps its type: the indices stay inside the ring and the *)
(* semaphore counts never fall below zero.                                 *)
TypeOK == /\ inserts \in 0 .. Size
          /\ takeouts \in 0 .. Size
          /\ lock \in BOOLEAN
          /\ elements \in [Slots -> Elements \cup {Null}]
          /\ front \in Slots
          /\ back \in Slots
          /\ pc \in [Threads -> Labels]
          /\ \A p \in Producers : pc[p] \in {"idle"} \cup PushSteps
          /\ \A c \in Consumers : pc[c] \in {"idle", "size_back"} \cup TakeSteps
          /\ reg \in [Threads -> Elements \cup {Null}]
          /\ sawFront \in [Consumers -> Slots]
          /\ sawSize \in [Consumers -> Slots]

(* The spin lock keeps the ring to one thread at a time, and is free       *)
(* whenever no thread is between its lock and its unlock.                  *)
MutualExclusion == /\ lock <=> Critical # {}
                   /\ \A t, u \in Critical : t = u

(* No permit is ever lost or made up: a place of the ring is free, holds   *)
(* an element, or belongs to exactly one call on its way in or out, and an *)
(* element is announced by takeouts or belongs to exactly one call.        *)
PermitsBalance ==
  /\ inserts + Cardinality(Reserved) + Count + Cardinality(Emptied) = Size
  /\ takeouts + Cardinality(Claimed) + Cardinality(Stored) = Count

(* The slots from front to back hold elements and the others are null,     *)
(* except for the slot the thread inside the lock is working on.  So push  *)
(* never writes over an element and take never finds an empty slot.        *)
SlotsMatchIndices ==
  \A k \in Slots :
     elements[Slot(k)] # Null
       <=> \/ k < Count /\ ~(k = 0 /\ At({"take_advance"}) # {})
           \/ k = Count /\ At({"push_advance"}) # {}

(* A push brings an element and a take that has read its slot carries one. *)
(* Until it advances front, what a take carries is the oldest element;     *)
(* until it advances back, what a push wrote is in the slot back names.    *)
RegistersMatch ==
  /\ \A t \in Threads :
        pc[t] \in PushSteps \cup {"take_clear", "take_advance"} \cup EmptiedSteps
          => reg[t] \in Elements
  /\ \A c \in Consumers : pc[c] = "take_clear" => reg[c] = elements[front]
  /\ \A p \in Producers : pc[p] = "push_advance" => elements[back] = reg[p]

(* size() reads two indices without the lock.  While there is one consumer *)
(* the answer it got is a lower bound of what the queue holds for as long  *)
(* as that consumer has not taken: has_data never promises a chunk that is *)
(* not there.                                                              *)
SoleConsumerSeesData ==
  \A c \in Consumers :
     Consumers = {c} /\ pc[c] \in {"idle", "size_back"} => sawSize[c] <= Count

(* A consumer waiting in take gets an element once the queue has one, even *)
(* though the producer keeps competing for the lock; a producer blocked on *)
(* a full queue gets in while the consumer keeps taking.                   *)
CallsReturn ==
  /\ \A c \in Consumers : (pc[c] = "take_down" /\ Count > 0) ~> pc[c] = "idle"
  /\ \A p \in Producers : pc[p] = "push_down" ~> pc[p] = "idle"
----------------------------------------------------------------------------
(* The ring implements the bounded FIFO.  Between the write of null into   *)
(* the front slot and the advance of front the oldest element is still in  *)
(* the queue: the thread inside the lock holds it.  A push takes effect    *)
(* when back advances, a take when front does.                             *)
Content(k) == LET busy == At({"take_advance"})
              IN  IF k = 0 /\ busy # {} THEN reg[CHOOSE c \in busy : TRUE]
                                       ELSE elements[Slot(k)]

Queue == [k \in 1 .. Count |-> Content(k - 1)]

Phase(label) == IF label \in {"idle", "size_back"} THEN "idle"
                ELSE IF label \in StoredSteps \cup EmptiedSteps THEN "done"
                ELSE "open"

Statuses == [t \in Threads |-> Phase(pc[t])]

Holdings == [t \in Threads |-> IF t \in Producers \/ pc[t] \in EmptiedSteps
                                 THEN reg[t] ELSE Null]

Fifo == INSTANCE BoundedFifo WITH
          None <- Null, queue <- Queue, status <- Statuses, held <- Holdings

(* Whatever the interleaving, the calls behave as pushes and takes on one  *)
(* first-in first-out sequence of at most Size elements.                   *)
ImplementsFifo == Fifo!Spec
=============================================================================
