--------------------------- MODULE BlkQueueProofs ---------------------------
(***************************************************************************)
(* The blocking queue's invariant, for any number of producers, consumers  *)
(* and slots.  IndInv is the conjunction of the five invariants of         *)
(* BlkQueue: none of them is inductive alone.  The counts of the           *)
(* semaphores stay in range because the permits balance; the permits       *)
(* balance because an index moves only inside the lock; a push never       *)
(* overwrites because the permits bound Count and the slots follow Count.  *)
(*                                                                         *)
(* On top of it the queue implements the bounded FIFO: its initial state   *)
(* maps to the FIFO's, and each of its steps maps to a step of the FIFO or *)
(* leaves the mapped state alone.                                          *)
(***************************************************************************)
EXTENDS BlkQueue, FiniteSetTheorems, SequenceTheorems, TLAPS

(* The ring's arithmetic without the remainder.                            *)
LEMMA RingStep ==
  ASSUME NEW x \in 0 .. 2 * Size + 1
  PROVE  x % lelements = IF x <= Size THEN x ELSE x - lelements
<1>1. CASE x <= Size
  BY <1>1, SizeAssumption, SMT DEF lelements
<1>2. CASE x > Size
  BY <1>2, SizeAssumption, SMT DEF lelements
<1> QED BY <1>1, <1>2, SizeAssumption

(* What Succ, Distance and the offset of a slot come to inside the ring.   *)
LEMMA RingFacts ==
  ASSUME NEW b \in Slots, NEW f \in Slots
  PROVE  /\ Succ(b) = IF b = Size THEN 0 ELSE b + 1
         /\ Distance(b, f) = IF f <= b THEN b - f ELSE (b - f) + (Size + 1)
         /\ (f + b) % lelements = IF f + b <= Size THEN f + b
                                                    ELSE (f + b) - (Size + 1)
         /\ Succ(b) \in Slots
         /\ Distance(b, f) \in 0 .. Size
<1>1. /\ b + 1 \in 0 .. 2 * Size + 1
      /\ (b - f) + lelements \in 0 .. 2 * Size + 1
      /\ f + b \in 0 .. 2 * Size + 1
  BY SizeAssumption DEF Slots, lelements
<1>2. Succ(b) = IF b + 1 <= Size THEN b + 1 ELSE (b + 1) - lelements
  BY <1>1, RingStep DEF Succ
<1>3. Distance(b, f) = IF (b - f) + lelements <= Size
                         THEN (b - f) + lelements
                         ELSE ((b - f) + lelements) - lelements
  BY <1>1, RingStep DEF Distance
<1>4. (f + b) % lelements = IF f + b <= Size THEN f + b ELSE (f + b) - lelements
  BY <1>1, RingStep
<1> QED BY <1>2, <1>3, <1>4, SizeAssumption DEF Slots, lelements

(* The threads at given labels are finitely many, so they can be counted.  *)
LEMMA WhereFinite ==
  ASSUME NEW f, NEW S
  PROVE  IsFiniteSet(Where(f, S)) /\ Cardinality(Where(f, S)) \in Nat
<1>1. IsFiniteSet(Threads)
  BY ThreadAssumption, FS_Union DEF Threads
<1> QED BY <1>1, FS_Subset, FS_CardinalityType DEF Where

----------------------------------------------------------------------------
(* When one thread moves from one label to another, the number of threads  *)
(* at the labels of S changes by one or not at all.                        *)
Change(S, from, to) == IF to \in S THEN IF from \in S THEN 0 ELSE 1
                                   ELSE IF from \in S THEN -1 ELSE 0

(* A thread that moves changes how many threads are at the labels S by     *)
(* one, or not at all.                                                     *)
LEMMA CallCount ==
  ASSUME TypeOK, NEW t \in Threads, NEW from, NEW to, Goto(t, from, to), NEW S
  PROVE  /\ Cardinality(Where(pc, S)) \in Nat
         /\ Cardinality(Where(pc', S)) \in Nat
         /\ Cardinality(Where(pc', S))
              = Cardinality(Where(pc, S)) + Change(S, from, to)
<1>1. /\ pc \in [Threads -> Labels]
      /\ pc[t] = from
      /\ pc' = [pc EXCEPT ![t] = to]
  BY DEF TypeOK, Goto
<1>2. /\ IsFiniteSet(Where(pc, S))
      /\ Cardinality(Where(pc, S)) \in Nat
      /\ Cardinality(Where(pc', S)) \in Nat
  BY WhereFinite
<1>3. t \in Where(pc, S) <=> from \in S
  BY <1>1 DEF Where
<1>4. ASSUME to \in S
      PROVE  Cardinality(Where(pc', S))
               = Cardinality(Where(pc, S)) + Change(S, from, to)
  <2>1. Where(pc', S) = Where(pc, S) \cup {t}
    BY <1>1, <1>4 DEF Where
  <2>2. Cardinality(Where(pc', S))
          = IF t \in Where(pc, S) THEN Cardinality(Where(pc, S))
                                  ELSE Cardinality(Where(pc, S)) + 1
    BY <1>2, <2>1, FS_AddElement
  <2> QED BY <1>2, <1>3, <1>4, <2>2 DEF Change
<1>5. ASSUME to \notin S
      PROVE  Cardinality(Where(pc', S))
               = Cardinality(Where(pc, S)) + Change(S, from, to)
  <2>1. Where(pc', S) = Where(pc, S) \ {t}
    BY <1>1, <1>5 DEF Where
  <2>2. Cardinality(Where(pc', S))
          = IF t \in Where(pc, S) THEN Cardinality(Where(pc, S)) - 1
                                  ELSE Cardinality(Where(pc, S))
    BY <1>2, <2>1, FS_RemoveElement
  <2> QED BY <1>2, <1>3, <1>5, <2>2 DEF Change
<1> QED BY <1>2, <1>4, <1>5

(* The same for the four groups of calls the permits are balanced over.    *)
LEMMA CallCounts ==
  ASSUME TypeOK, NEW t \in Threads, NEW from, NEW to, Goto(t, from, to)
  PROVE  /\ Cardinality(Reserved) \in Nat /\ Cardinality(Reserved') \in Nat
         /\ Cardinality(Stored) \in Nat /\ Cardinality(Stored') \in Nat
         /\ Cardinality(Claimed) \in Nat /\ Cardinality(Claimed') \in Nat
         /\ Cardinality(Emptied) \in Nat /\ Cardinality(Emptied') \in Nat
         /\ Cardinality(Reserved') = Cardinality(Reserved) + Change(ReservedSteps, from, to)
         /\ Cardinality(Stored') = Cardinality(Stored) + Change(StoredSteps, from, to)
         /\ Cardinality(Claimed') = Cardinality(Claimed) + Change(ClaimedSteps, from, to)
         /\ Cardinality(Emptied') = Cardinality(Emptied) + Change(EmptiedSteps, from, to)
  BY CallCount DEF Reserved, Stored, Claimed, Emptied, At
----------------------------------------------------------------------------
(* The inductive invariant.                                                *)
IndInv == /\ TypeOK
          /\ MutualExclusion
          /\ PermitsBalance
          /\ SlotsMatchIndices
          /\ RegistersMatch

(* How many elements front and back enclose, without the remainder.        *)
LEMMA CountFacts ==
  ASSUME front \in Slots, back \in Slots
  PROVE  /\ Count = IF front <= back THEN back - front
                                    ELSE (back - front) + (Size + 1)
         /\ Count \in 0 .. Size
         /\ Count \in Int
<1>1. Count = IF front <= back THEN back - front
                               ELSE (back - front) + (Size + 1)
  BY RingFacts DEF Count
<1> QED BY <1>1, SizeAssumption DEF Slots

(* Which slot lies k places after front, without the remainder.            *)
LEMMA SlotFacts ==
  ASSUME front \in Slots, NEW k \in Slots
  PROVE  /\ Slot(k) = IF front + k <= Size THEN front + k
                                          ELSE (front + k) - (Size + 1)
         /\ Slot(k) \in Slots
<1>1. Slot(k) = IF front + k <= Size THEN front + k
                                     ELSE (front + k) - (Size + 1)
  BY RingFacts DEF Slot
<1> QED BY <1>1, SizeAssumption DEF Slots

(* A thread inside the lock is there alone, and has it.                    *)
LEMMA Alone ==
  ASSUME TypeOK, MutualExclusion, NEW t \in Threads, pc[t] \in CriticalSteps
  PROVE  /\ lock
         /\ \A u \in Threads : pc[u] \in CriticalSteps => u = t
  BY DEF MutualExclusion, Critical, At, Where

(* BlkQueue_new leaves a queue in which the invariant holds.               *)
LEMMA InitIndInv == Init => IndInv
<1> SUFFICES ASSUME Init PROVE IndInv
  OBVIOUS
<1>1. TypeOK
  <2>1. 0 \in Slots /\ 0 \in 0 .. Size /\ Size \in 0 .. Size
    BY SizeAssumption DEF Slots
  <2>2. "idle" \in Labels
    BY DEF Labels
  <2> QED BY <2>1, <2>2 DEF Init, TypeOK, Threads
<1>2. ASSUME NEW S, "idle" \notin S
      PROVE  At(S) = {}
  BY <1>2 DEF Init, At, Where
<1>3. Reserved = {} /\ Stored = {} /\ Claimed = {} /\ Emptied = {} /\ Critical = {}
  BY <1>2 DEF Reserved, Stored, Claimed, Emptied, Critical, ReservedSteps,
              StoredSteps, ClaimedSteps, EmptiedSteps, CriticalSteps
<1>4. Count = 0
  BY <1>1, RingFacts DEF Count, Init, TypeOK
<1>5. MutualExclusion
  BY <1>3 DEF Init, MutualExclusion
<1>6. PermitsBalance
  BY <1>3, <1>4, FS_EmptySet, SizeAssumption DEF Init, PermitsBalance
<1>7. At({"take_advance"}) = {} /\ At({"push_advance"}) = {}
  BY <1>2
<1>8. SlotsMatchIndices
  <2>1. \A k \in Slots : Slot(k) \in Slots
    BY <1>1, SlotFacts DEF TypeOK
  <2> QED BY <1>4, <1>7, <2>1, SizeAssumption DEF SlotsMatchIndices, Init, Slots
<1>9. RegistersMatch
  BY DEF RegistersMatch, Init, Threads, PushSteps, EmptiedSteps
<1> QED BY <1>1, <1>5, <1>6, <1>8, <1>9 DEF IndInv
----------------------------------------------------------------------------
(* How a step must move the counts for the permits to stay balanced.       *)
LEMMA BalanceStep ==
  ASSUME TypeOK, PermitsBalance, NEW t \in Threads, NEW from, NEW to,
         Goto(t, from, to), inserts' \in Int, takeouts' \in Int, Count' \in Int,
         (inserts' - inserts) + (Count' - Count)
           + Change(ReservedSteps, from, to) + Change(EmptiedSteps, from, to) = 0,
         (takeouts' - takeouts)
           + Change(ClaimedSteps, from, to) + Change(StoredSteps, from, to)
           = Count' - Count
  PROVE  PermitsBalance'
<1>1. /\ Cardinality(Reserved') = Cardinality(Reserved) + Change(ReservedSteps, from, to)
      /\ Cardinality(Stored') = Cardinality(Stored) + Change(StoredSteps, from, to)
      /\ Cardinality(Claimed') = Cardinality(Claimed) + Change(ClaimedSteps, from, to)
      /\ Cardinality(Emptied') = Cardinality(Emptied) + Change(EmptiedSteps, from, to)
      /\ Cardinality(Reserved) \in Nat
      /\ Cardinality(Stored) \in Nat
      /\ Cardinality(Claimed) \in Nat
      /\ Cardinality(Emptied) \in Nat
  BY CallCounts
<1>2. /\ \A S : Change(S, from, to) \in Int
      /\ inserts \in Int /\ takeouts \in Int /\ Count \in Int
  <2>1. Count \in Int
    BY CountFacts DEF TypeOK
  <2> QED BY <2>1 DEF Change, TypeOK
<1> QED BY <1>1, <1>2 DEF PermitsBalance

(* The two steps that move an index move Count by one.                     *)
LEMMA AdvanceCount ==
  ASSUME IndInv
  PROVE  /\ \A p \in Producers : PushAdvance(p) => Count < Size /\ Count' = Count + 1
         /\ \A c \in Consumers : TakeAdvance(c) => Count > 0 /\ Count' = Count - 1
<1>1. TypeOK /\ PermitsBalance
  BY DEF IndInv
<1>2. front \in Slots /\ back \in Slots /\ inserts \in Nat /\ takeouts \in Nat
  BY <1>1 DEF TypeOK
<1>3. Count \in 0 .. Size /\ Count = IF front <= back THEN back - front
                                  ELSE (back - front) + (Size + 1)
  BY <1>2, CountFacts
<1>4. ASSUME NEW p \in Producers, PushAdvance(p)
      PROVE  Count < Size /\ Count' = Count + 1
  <2>1. /\ p \in Threads
        /\ Goto(p, "push_advance", "push_unlock")
        /\ back' = Succ(back) /\ front' = front
    BY <1>4 DEF PushAdvance, Threads
  <2>2. /\ Cardinality(Reserved') = Cardinality(Reserved) - 1
        /\ Cardinality(Reserved) \in Nat /\ Cardinality(Reserved') \in Nat
        /\ Cardinality(Emptied) \in Nat
    BY <1>1, <2>1, CallCounts DEF Change, ReservedSteps
  <2>3. Count < Size
    BY <1>1, <1>2, <1>3, <2>2, SizeAssumption DEF PermitsBalance
  <2>4. back' = IF back = Size THEN 0 ELSE back + 1
    BY <1>2, <2>1, RingFacts
  <2>5. back' \in Slots /\ front' \in Slots
    BY <1>2, <2>1, <2>4, SizeAssumption DEF Slots
  <2>6. Count' = IF front' <= back' THEN back' - front'
                                    ELSE (back' - front') + (Size + 1)
    BY <2>5, RingFacts DEF Count
  <2> QED BY <1>2, <1>3, <2>1, <2>3, <2>4, <2>6, SizeAssumption DEF Slots
<1>5. ASSUME NEW c \in Consumers, TakeAdvance(c)
      PROVE  Count > 0 /\ Count' = Count - 1
  <2>1. /\ c \in Threads
        /\ Goto(c, "take_advance", "take_unlock")
        /\ front' = Succ(front) /\ back' = back
    BY <1>5 DEF TakeAdvance, Threads
  <2>2. /\ Cardinality(Claimed') = Cardinality(Claimed) - 1
        /\ Cardinality(Claimed) \in Nat /\ Cardinality(Claimed') \in Nat
        /\ Cardinality(Stored) \in Nat
    BY <1>1, <2>1, CallCounts DEF Change, ClaimedSteps
  <2>3. Count > 0
    BY <1>1, <1>2, <1>3, <2>2, SizeAssumption DEF PermitsBalance
  <2>4. front' = IF front = Size THEN 0 ELSE front + 1
    BY <1>2, <2>1, RingFacts
  <2>5. back' \in Slots /\ front' \in Slots
    BY <1>2, <2>1, <2>4, SizeAssumption DEF Slots
  <2>6. Count' = IF front' <= back' THEN back' - front'
                                    ELSE (back' - front') + (Size + 1)
    BY <2>5, RingFacts DEF Count
  <2> QED BY <1>2, <1>3, <2>1, <2>3, <2>4, <2>6, SizeAssumption DEF Slots
<1> QED BY <1>4, <1>5

(* Every step keeps the permits balanced.                                  *)
LEMMA PermitsStep == IndInv /\ Next => PermitsBalance'
<1> SUFFICES ASSUME IndInv, Next PROVE PermitsBalance'
  OBVIOUS
<1> USE DEF Change, ReservedSteps, StoredSteps, ClaimedSteps, EmptiedSteps
<1>1. TypeOK /\ PermitsBalance
  BY DEF IndInv
<1>2. inserts \in Int /\ takeouts \in Int /\ Count \in Int
  BY <1>1, CountFacts DEF TypeOK
<1>3. front' = front /\ back' = back => Count' = Count
  BY DEF Count
<1>4. ASSUME NEW p \in Producers, NEW e \in Elements, CallPush(p, e)
     PROVE  PermitsBalance'
  <2>1. p \in Threads /\ Goto(p, "idle", "push_down")
    BY <1>4 DEF CallPush, Threads
  <2> QED BY <1>1, <1>2, <1>3, <1>4, <2>1, BalanceStep DEF CallPush, ring, permits
<1>5. ASSUME NEW p \in Producers, PushDown(p)
     PROVE  PermitsBalance'
  <2>1. p \in Threads /\ Goto(p, "push_down", "push_lock")
    BY <1>5 DEF PushDown, Threads
  <2> QED BY <1>1, <1>2, <1>3, <1>5, <2>1, BalanceStep DEF PushDown, ring, permits
<1>6. ASSUME NEW p \in Producers, PushLock(p)
     PROVE  PermitsBalance'
  <2>1. p \in Threads /\ Goto(p, "push_lock", "push_store")
    BY <1>6 DEF PushLock, Threads
  <2> QED BY <1>1, <1>2, <1>3, <1>6, <2>1, BalanceStep DEF PushLock, ring, permits
<1>7. ASSUME NEW p \in Producers, PushStore(p)
     PROVE  PermitsBalance'
  <2>1. p \in Threads /\ Goto(p, "push_store", "push_advance")
    BY <1>7 DEF PushStore, Threads
  <2> QED BY <1>1, <1>2, <1>3, <1>7, <2>1, BalanceStep DEF PushStore, ring, permits
<1>8. ASSUME NEW p \in Producers, PushAdvance(p)
     PROVE  PermitsBalance'
  <2>1. p \in Threads /\ Goto(p, "push_advance", "push_unlock")
    BY <1>8 DEF PushAdvance, Threads
  <2> QED BY <1>1, <1>2, <1>3, <1>8, <2>1, BalanceStep, AdvanceCount DEF PushAdvance, ring, permits
<1>9. ASSUME NEW p \in Producers, PushUnlock(p)
     PROVE  PermitsBalance'
  <2>1. p \in Threads /\ Goto(p, "push_unlock", "push_up")
    BY <1>9 DEF PushUnlock, Threads
  <2> QED BY <1>1, <1>2, <1>3, <1>9, <2>1, BalanceStep DEF PushUnlock, ring, permits
<1>10. ASSUME NEW p \in Producers, PushUp(p)
     PROVE  PermitsBalance'
  <2>1. p \in Threads /\ Goto(p, "push_up", "idle")
    BY <1>10 DEF PushUp, Threads
  <2> QED BY <1>1, <1>2, <1>3, <1>10, <2>1, BalanceStep DEF PushUp, ring, permits
<1>11. ASSUME NEW c \in Consumers, CallTake(c)
     PROVE  PermitsBalance'
  <2>1. c \in Threads /\ Goto(c, "idle", "take_down")
    BY <1>11 DEF CallTake, Threads
  <2> QED BY <1>1, <1>2, <1>3, <1>11, <2>1, BalanceStep DEF CallTake, ring, permits
<1>12. ASSUME NEW c \in Consumers, TakeDown(c)
     PROVE  PermitsBalance'
  <2>1. c \in Threads /\ Goto(c, "take_down", "take_lock")
    BY <1>12 DEF TakeDown, Threads
  <2> QED BY <1>1, <1>2, <1>3, <1>12, <2>1, BalanceStep DEF TakeDown, ring, permits
<1>13. ASSUME NEW c \in Consumers, TakeLock(c)
     PROVE  PermitsBalance'
  <2>1. c \in Threads /\ Goto(c, "take_lock", "take_read")
    BY <1>13 DEF TakeLock, Threads
  <2> QED BY <1>1, <1>2, <1>3, <1>13, <2>1, BalanceStep DEF TakeLock, ring, permits
<1>14. ASSUME NEW c \in Consumers, TakeRead(c)
     PROVE  PermitsBalance'
  <2>1. c \in Threads /\ Goto(c, "take_read", "take_clear")
    BY <1>14 DEF TakeRead, Threads
  <2> QED BY <1>1, <1>2, <1>3, <1>14, <2>1, BalanceStep DEF TakeRead, ring, permits
<1>15. ASSUME NEW c \in Consumers, TakeClear(c)
     PROVE  PermitsBalance'
  <2>1. c \in Threads /\ Goto(c, "take_clear", "take_advance")
    BY <1>15 DEF TakeClear, Threads
  <2> QED BY <1>1, <1>2, <1>3, <1>15, <2>1, BalanceStep DEF TakeClear, ring, permits
<1>16. ASSUME NEW c \in Consumers, TakeAdvance(c)
     PROVE  PermitsBalance'
  <2>1. c \in Threads /\ Goto(c, "take_advance", "take_unlock")
    BY <1>16 DEF TakeAdvance, Threads
  <2> QED BY <1>1, <1>2, <1>3, <1>16, <2>1, BalanceStep, AdvanceCount DEF TakeAdvance, ring, permits
<1>17. ASSUME NEW c \in Consumers, TakeUnlock(c)
     PROVE  PermitsBalance'
  <2>1. c \in Threads /\ Goto(c, "take_unlock", "take_up")
    BY <1>17 DEF TakeUnlock, Threads
  <2> QED BY <1>1, <1>2, <1>3, <1>17, <2>1, BalanceStep DEF TakeUnlock, ring, permits
<1>18. ASSUME NEW c \in Consumers, TakeUp(c)
     PROVE  PermitsBalance'
  <2>1. c \in Threads /\ Goto(c, "take_up", "idle")
    BY <1>18 DEF TakeUp, Threads
  <2> QED BY <1>1, <1>2, <1>3, <1>18, <2>1, BalanceStep DEF TakeUp, ring, permits
<1>19. ASSUME NEW c \in Consumers, SizeFront(c)
     PROVE  PermitsBalance'
  <2>1. c \in Threads /\ Goto(c, "idle", "size_back")
    BY <1>19 DEF SizeFront, Threads
  <2> QED BY <1>1, <1>2, <1>3, <1>19, <2>1, BalanceStep DEF SizeFront, ring, permits
<1>20. ASSUME NEW c \in Consumers, SizeBack(c)
     PROVE  PermitsBalance'
  <2>1. c \in Threads /\ Goto(c, "size_back", "idle")
    BY <1>20 DEF SizeBack, Threads
  <2> QED BY <1>1, <1>2, <1>3, <1>20, <2>1, BalanceStep DEF SizeBack, ring, permits
<1> QED BY <1>4, <1>5, <1>6, <1>7, <1>8, <1>9, <1>10, <1>11, <1>12, <1>13, <1>14, <1>15, <1>16, <1>17, <1>18, <1>19, <1>20 DEF Next, Push, Take, SizeCall

(* A thread's move keeps the program counters in their types.              *)
LEMMA PcStep ==
  ASSUME TypeOK, NEW t \in Threads, NEW from, NEW to, Goto(t, from, to),
         t \in Producers => to \in {"idle"} \cup PushSteps,
         t \in Consumers => to \in {"idle", "size_back"} \cup TakeSteps
  PROVE  /\ pc' \in [Threads -> Labels]
         /\ \A p \in Producers : pc'[p] \in {"idle"} \cup PushSteps
         /\ \A c \in Consumers : pc'[c] \in {"idle", "size_back"} \cup TakeSteps
<1>1. /\ pc \in [Threads -> Labels]
      /\ \A p \in Producers : pc[p] \in {"idle"} \cup PushSteps
      /\ \A c \in Consumers : pc[c] \in {"idle", "size_back"} \cup TakeSteps
      /\ pc' = [pc EXCEPT ![t] = to]
  BY DEF TypeOK, Goto
<1>2. to \in Labels
  BY DEF Threads, Labels
<1> QED BY <1>1, <1>2 DEF Threads

(* What TypeOK says, with the counts only known to be natural numbers.     *)
WeakTypeOK == /\ inserts \in Nat
              /\ takeouts \in Nat
              /\ lock \in BOOLEAN
              /\ elements \in [Slots -> Elements \cup {Null}]
              /\ front \in Slots
              /\ back \in Slots
              /\ reg \in [Threads -> Elements \cup {Null}]
              /\ sawFront \in [Consumers -> Slots]
              /\ sawSize \in [Consumers -> Slots]

(* Every step keeps the types; the semaphore counts stay in range because  *)
(* the permits are balanced.                                               *)
LEMMA TypeStep == IndInv /\ Next => TypeOK'
<1> SUFFICES ASSUME IndInv, Next PROVE TypeOK'
  OBVIOUS
<1>1. TypeOK /\ WeakTypeOK /\ PermitsBalance
  BY SizeAssumption DEF IndInv, TypeOK, WeakTypeOK
<1>2. 0 \in Slots /\ Succ(back) \in Slots /\ Succ(front) \in Slots
      /\ \A f \in Slots : Distance(back, f) \in Slots
  <2>1. front \in Slots /\ back \in Slots
    BY <1>1 DEF WeakTypeOK
  <2>2. 0 \in Slots
    BY SizeAssumption DEF Slots
  <2>3. \A f \in Slots : Distance(back, f) \in Slots
    BY <2>1, RingFacts DEF Slots
  <2> QED BY <2>1, <2>2, <2>3, RingFacts
<1> DEFINE Pcs == /\ pc' \in [Threads -> Labels]
                  /\ \A p \in Producers : pc'[p] \in {"idle"} \cup PushSteps
                  /\ \A c \in Consumers :
                       pc'[c] \in {"idle", "size_back"} \cup TakeSteps
<1> USE ThreadAssumption
<1>3. ASSUME NEW p \in Producers, NEW e \in Elements, CallPush(p, e)
     PROVE  WeakTypeOK' /\ Pcs
  <2>1. p \in Threads /\ p \notin Consumers /\ Goto(p, "idle", "push_down")
    BY <1>3 DEF CallPush, Threads
  <2>2. Pcs
    BY <1>1, <2>1, PcStep DEF PushSteps
  <2> QED BY <1>1, <1>3, <2>2 DEF CallPush, permits, ring, saw, WeakTypeOK, Threads
<1>4. ASSUME NEW p \in Producers, PushDown(p)
     PROVE  WeakTypeOK' /\ Pcs
  <2>1. p \in Threads /\ p \notin Consumers /\ Goto(p, "push_down", "push_lock")
    BY <1>4 DEF PushDown, Threads
  <2>2. Pcs
    BY <1>1, <2>1, PcStep DEF PushSteps
  <2> QED BY <1>1, <1>2, <1>4, <2>2 DEF PushDown, permits, ring, saw, WeakTypeOK, Threads
<1>5. ASSUME NEW p \in Producers, PushLock(p)
     PROVE  WeakTypeOK' /\ Pcs
  <2>1. p \in Threads /\ p \notin Consumers /\ Goto(p, "push_lock", "push_store")
    BY <1>5 DEF PushLock, Threads
  <2>2. Pcs
    BY <1>1, <2>1, PcStep DEF PushSteps
  <2> QED BY <1>1, <1>2, <1>5, <2>2 DEF PushLock, permits, ring, saw, WeakTypeOK, Threads
<1>6. ASSUME NEW p \in Producers, PushStore(p)
     PROVE  WeakTypeOK' /\ Pcs
  <2>1. p \in Threads /\ p \notin Consumers /\ Goto(p, "push_store", "push_advance")
    BY <1>6 DEF PushStore, Threads
  <2>2. Pcs
    BY <1>1, <2>1, PcStep DEF PushSteps
  <2> QED BY <1>1, <1>2, <1>6, <2>2 DEF PushStore, permits, ring, saw, WeakTypeOK, Threads
<1>7. ASSUME NEW p \in Producers, PushAdvance(p)
     PROVE  WeakTypeOK' /\ Pcs
  <2>1. p \in Threads /\ p \notin Consumers /\ Goto(p, "push_advance", "push_unlock")
    BY <1>7 DEF PushAdvance, Threads
  <2>2. Pcs
    BY <1>1, <2>1, PcStep DEF PushSteps
  <2> QED BY <1>1, <1>2, <1>7, <2>2 DEF PushAdvance, permits, ring, saw, WeakTypeOK, Threads
<1>8. ASSUME NEW p \in Producers, PushUnlock(p)
     PROVE  WeakTypeOK' /\ Pcs
  <2>1. p \in Threads /\ p \notin Consumers /\ Goto(p, "push_unlock", "push_up")
    BY <1>8 DEF PushUnlock, Threads
  <2>2. Pcs
    BY <1>1, <2>1, PcStep DEF PushSteps
  <2> QED BY <1>1, <1>2, <1>8, <2>2 DEF PushUnlock, permits, ring, saw, WeakTypeOK, Threads
<1>9. ASSUME NEW p \in Producers, PushUp(p)
     PROVE  WeakTypeOK' /\ Pcs
  <2>1. p \in Threads /\ p \notin Consumers /\ Goto(p, "push_up", "idle")
    BY <1>9 DEF PushUp, Threads
  <2>2. Pcs
    BY <1>1, <2>1, PcStep DEF PushSteps
  <2> QED BY <1>1, <1>2, <1>9, <2>2 DEF PushUp, permits, ring, saw, WeakTypeOK, Threads
<1>10. ASSUME NEW c \in Consumers, CallTake(c)
     PROVE  WeakTypeOK' /\ Pcs
  <2>1. c \in Threads /\ c \notin Producers /\ Goto(c, "idle", "take_down")
    BY <1>10 DEF CallTake, Threads
  <2>2. Pcs
    BY <1>1, <2>1, PcStep DEF TakeSteps
  <2> QED BY <1>1, <1>2, <1>10, <2>2 DEF CallTake, permits, ring, saw, WeakTypeOK, Threads
<1>11. ASSUME NEW c \in Consumers, TakeDown(c)
     PROVE  WeakTypeOK' /\ Pcs
  <2>1. c \in Threads /\ c \notin Producers /\ Goto(c, "take_down", "take_lock")
    BY <1>11 DEF TakeDown, Threads
  <2>2. Pcs
    BY <1>1, <2>1, PcStep DEF TakeSteps
  <2> QED BY <1>1, <1>2, <1>11, <2>2 DEF TakeDown, permits, ring, saw, WeakTypeOK, Threads
<1>12. ASSUME NEW c \in Consumers, TakeLock(c)
     PROVE  WeakTypeOK' /\ Pcs
  <2>1. c \in Threads /\ c \notin Producers /\ Goto(c, "take_lock", "take_read")
    BY <1>12 DEF TakeLock, Threads
  <2>2. Pcs
    BY <1>1, <2>1, PcStep DEF TakeSteps
  <2> QED BY <1>1, <1>2, <1>12, <2>2 DEF TakeLock, permits, ring, saw, WeakTypeOK, Threads
<1>13. ASSUME NEW c \in Consumers, TakeRead(c)
     PROVE  WeakTypeOK' /\ Pcs
  <2>1. c \in Threads /\ c \notin Producers /\ Goto(c, "take_read", "take_clear")
    BY <1>13 DEF TakeRead, Threads
  <2>2. Pcs
    BY <1>1, <2>1, PcStep DEF TakeSteps
  <2> QED BY <1>1, <1>2, <1>13, <2>2 DEF TakeRead, permits, ring, saw, WeakTypeOK, Threads
<1>14. ASSUME NEW c \in Consumers, TakeClear(c)
     PROVE  WeakTypeOK' /\ Pcs
  <2>1. c \in Threads /\ c \notin Producers /\ Goto(c, "take_clear", "take_advance")
    BY <1>14 DEF TakeClear, Threads
  <2>2. Pcs
    BY <1>1, <2>1, PcStep DEF TakeSteps
  <2> QED BY <1>1, <1>2, <1>14, <2>2 DEF TakeClear, permits, ring, saw, WeakTypeOK, Threads
<1>15. ASSUME NEW c \in Consumers, TakeAdvance(c)
     PROVE  WeakTypeOK' /\ Pcs
  <2>1. c \in Threads /\ c \notin Producers /\ Goto(c, "take_advance", "take_unlock")
    BY <1>15 DEF TakeAdvance, Threads
  <2>2. Pcs
    BY <1>1, <2>1, PcStep DEF TakeSteps
  <2> QED BY <1>1, <1>2, <1>15, <2>2 DEF TakeAdvance, permits, ring, saw, WeakTypeOK, Threads
<1>16. ASSUME NEW c \in Consumers, TakeUnlock(c)
     PROVE  WeakTypeOK' /\ Pcs
  <2>1. c \in Threads /\ c \notin Producers /\ Goto(c, "take_unlock", "take_up")
    BY <1>16 DEF TakeUnlock, Threads
  <2>2. Pcs
    BY <1>1, <2>1, PcStep DEF TakeSteps
  <2> QED BY <1>1, <1>2, <1>16, <2>2 DEF TakeUnlock, permits, ring, saw, WeakTypeOK, Threads
<1>17. ASSUME NEW c \in Consumers, TakeUp(c)
     PROVE  WeakTypeOK' /\ Pcs
  <2>1. c \in Threads /\ c \notin Producers /\ Goto(c, "take_up", "idle")
    BY <1>17 DEF TakeUp, Threads
  <2>2. Pcs
    BY <1>1, <2>1, PcStep DEF TakeSteps
  <2> QED BY <1>1, <1>2, <1>17, <2>2 DEF TakeUp, permits, ring, saw, WeakTypeOK, Threads
<1>18. ASSUME NEW c \in Consumers, SizeFront(c)
     PROVE  WeakTypeOK' /\ Pcs
  <2>1. c \in Threads /\ c \notin Producers /\ Goto(c, "idle", "size_back")
    BY <1>18 DEF SizeFront, Threads
  <2>2. Pcs
    BY <1>1, <2>1, PcStep DEF TakeSteps
  <2> QED BY <1>1, <1>2, <1>18, <2>2 DEF SizeFront, permits, ring, saw, WeakTypeOK, Threads
<1>19. ASSUME NEW c \in Consumers, SizeBack(c)
     PROVE  WeakTypeOK' /\ Pcs
  <2>1. c \in Threads /\ c \notin Producers /\ Goto(c, "size_back", "idle")
    BY <1>19 DEF SizeBack, Threads
  <2>2. Pcs
    BY <1>1, <2>1, PcStep DEF TakeSteps
  <2> QED BY <1>1, <1>2, <1>19, <2>2 DEF SizeBack, permits, ring, saw, WeakTypeOK, Threads
<1>20. WeakTypeOK' /\ Pcs
  BY <1>3, <1>4, <1>5, <1>6, <1>7, <1>8, <1>9, <1>10, <1>11, <1>12, <1>13, <1>14, <1>15, <1>16, <1>17, <1>18, <1>19 DEF Next, Push, Take, SizeCall
<1>21. Count' \in 0 .. Size
  <2>1. front' \in Slots /\ back' \in Slots
    BY <1>20 DEF WeakTypeOK
  <2> QED BY <2>1, RingFacts DEF Count
<1>22. /\ Cardinality(Reserved') \in Nat /\ Cardinality(Emptied') \in Nat
      /\ Cardinality(Claimed') \in Nat /\ Cardinality(Stored') \in Nat
  BY WhereFinite DEF Reserved, Emptied, Claimed, Stored, At
<1>23. inserts' \in 0 .. Size /\ takeouts' \in 0 .. Size
  <2>1. PermitsBalance' /\ inserts' \in Nat /\ takeouts' \in Nat
    BY <1>20, PermitsStep DEF WeakTypeOK
  <2> QED BY <1>21, <1>22, <2>1, SizeAssumption DEF PermitsBalance
<1> QED BY <1>20, <1>23 DEF TypeOK, WeakTypeOK

(* Every step keeps the ring to one thread at a time.                      *)
LEMMA MutexStep == IndInv /\ Next => MutualExclusion'
<1> SUFFICES ASSUME IndInv, Next PROVE MutualExclusion'
  OBVIOUS
<1>1. TypeOK /\ MutualExclusion
  BY DEF IndInv
<1>2. pc \in [Threads -> Labels] /\ lock \in BOOLEAN
  BY <1>1 DEF TypeOK
<1> USE DEF MutualExclusion, Critical, At, Where, CriticalSteps, Goto, Threads
<1>3. ASSUME NEW p \in Producers, NEW e \in Elements, CallPush(p, e)
     PROVE  MutualExclusion'
  BY <1>1, <1>2, <1>3 DEF CallPush
<1>4. ASSUME NEW p \in Producers, PushDown(p)
     PROVE  MutualExclusion'
  BY <1>1, <1>2, <1>4 DEF PushDown
<1>5. ASSUME NEW p \in Producers, PushLock(p)
     PROVE  MutualExclusion'
  BY <1>1, <1>2, <1>5 DEF PushLock
<1>6. ASSUME NEW p \in Producers, PushStore(p)
     PROVE  MutualExclusion'
  BY <1>1, <1>2, <1>6 DEF PushStore
<1>7. ASSUME NEW p \in Producers, PushAdvance(p)
     PROVE  MutualExclusion'
  BY <1>1, <1>2, <1>7 DEF PushAdvance
<1>8. ASSUME NEW p \in Producers, PushUnlock(p)
     PROVE  MutualExclusion'
  BY <1>1, <1>2, <1>8 DEF PushUnlock
<1>9. ASSUME NEW p \in Producers, PushUp(p)
     PROVE  MutualExclusion'
  BY <1>1, <1>2, <1>9 DEF PushUp
<1>10. ASSUME NEW c \in Consumers, CallTake(c)
     PROVE  MutualExclusion'
  BY <1>1, <1>2, <1>10 DEF CallTake
<1>11. ASSUME NEW c \in Consumers, TakeDown(c)
     PROVE  MutualExclusion'
  BY <1>1, <1>2, <1>11 DEF TakeDown
<1>12. ASSUME NEW c \in Consumers, TakeLock(c)
     PROVE  MutualExclusion'
  BY <1>1, <1>2, <1>12 DEF TakeLock
<1>13. ASSUME NEW c \in Consumers, TakeRead(c)
     PROVE  MutualExclusion'
  BY <1>1, <1>2, <1>13 DEF TakeRead
<1>14. ASSUME NEW c \in Consumers, TakeClear(c)
     PROVE  MutualExclusion'
  BY <1>1, <1>2, <1>14 DEF TakeClear
<1>15. ASSUME NEW c \in Consumers, TakeAdvance(c)
     PROVE  MutualExclusion'
  BY <1>1, <1>2, <1>15 DEF TakeAdvance
<1>16. ASSUME NEW c \in Consumers, TakeUnlock(c)
     PROVE  MutualExclusion'
  BY <1>1, <1>2, <1>16 DEF TakeUnlock
<1>17. ASSUME NEW c \in Consumers, TakeUp(c)
     PROVE  MutualExclusion'
  BY <1>1, <1>2, <1>17 DEF TakeUp
<1>18. ASSUME NEW c \in Consumers, SizeFront(c)
     PROVE  MutualExclusion'
  BY <1>1, <1>2, <1>18 DEF SizeFront
<1>19. ASSUME NEW c \in Consumers, SizeBack(c)
     PROVE  MutualExclusion'
  BY <1>1, <1>2, <1>19 DEF SizeBack
<1> QED BY <1>3, <1>4, <1>5, <1>6, <1>7, <1>8, <1>9, <1>10, <1>11, <1>12, <1>13, <1>14, <1>15, <1>16, <1>17, <1>18, <1>19 DEF Next, Push, Take, SizeCall

(* Slots are counted from front: offset 0 is front, offset Count is back,  *)
(* and no two offsets share a slot.                                        *)
LEMMA SlotOrder ==
  ASSUME front \in Slots, back \in Slots
  PROVE  /\ Slot(0) = front
         /\ Slot(Count) = back
         /\ \A j, k \in Slots : Slot(j) = Slot(k) => j = k
<1>1. Count \in Slots /\ 0 \in Slots
  BY CountFacts, SizeAssumption DEF Slots
<1>2. \A k \in Slots : Slot(k) = IF front + k <= Size THEN front + k
                                             ELSE (front + k) - (Size + 1)
  BY SlotFacts
<1>3. Count = IF front <= back THEN back - front
                               ELSE (back - front) + (Size + 1)
  BY CountFacts
<1> QED BY <1>1, <1>2, <1>3, SizeAssumption DEF Slots

(* At most one thread is inside the lock, so what a label of the critical  *)
(* section says of one thread it says of the ring.                         *)
LEMMA OneInside ==
  ASSUME TypeOK, MutualExclusion, NEW t \in Threads, pc[t] \in CriticalSteps,
         NEW S \in SUBSET CriticalSteps
  PROVE  At(S) = IF pc[t] \in S THEN {t} ELSE {}
  BY Alone DEF At, Where

(* A step that leaves the ring alone and enters or leaves neither half-    *)
(* done update keeps the slots right.                                      *)
LEMMA QuietSlots ==
  ASSUME TypeOK, SlotsMatchIndices, NEW t \in Threads, NEW from, NEW to,
         Goto(t, from, to), UNCHANGED ring,
         from \notin {"take_advance", "push_advance"},
         to \notin {"take_advance", "push_advance"}
  PROVE  SlotsMatchIndices'
<1>1. pc \in [Threads -> Labels] /\ pc[t] = from /\ pc' = [pc EXCEPT ![t] = to]
  BY DEF TypeOK, Goto
<1>2. /\ At({"take_advance"})' = At({"take_advance"})
      /\ At({"push_advance"})' = At({"push_advance"})
  BY <1>1 DEF At, Where
<1>3. Count' = Count /\ elements' = elements /\ \A k : Slot(k)' = Slot(k)
  BY DEF Count, Slot, ring
<1> QED BY <1>2, <1>3 DEF SlotsMatchIndices

(* When front advances every offset moves up by one slot.                  *)
LEMMA SlotShift ==
  ASSUME front \in Slots, front' = Succ(front), NEW k \in Slots
  PROVE  Slot(k)' = IF k = Size THEN Slot(0) ELSE Slot(k + 1)
<1>1. front' = IF front = Size THEN 0 ELSE front + 1
  BY RingFacts
<1>2. front' \in Slots
  BY RingFacts
<1>3. Slot(k)' = IF front' + k <= Size THEN front' + k
                                       ELSE (front' + k) - (Size + 1)
  BY <1>2, RingFacts DEF Slot
<1>4. \A j \in Slots : Slot(j) = IF front + j <= Size THEN front + j
                                             ELSE (front + j) - (Size + 1)
  BY SlotFacts
<1>5. 0 \in Slots /\ (k # Size => k + 1 \in Slots)
  BY SizeAssumption DEF Slots
<1> QED BY <1>1, <1>3, <1>4, <1>5, SizeAssumption DEF Slots

(* Every step keeps null where the indices say, and only there.            *)
LEMMA SlotsStep == IndInv /\ Next => SlotsMatchIndices'
<1> SUFFICES ASSUME IndInv, Next PROVE SlotsMatchIndices'
  OBVIOUS
<1>1. TypeOK /\ MutualExclusion /\ SlotsMatchIndices /\ TypeOK' /\ MutualExclusion'
  BY TypeStep, MutexStep DEF IndInv
<1>2. front \in Slots /\ back \in Slots /\ front' \in Slots /\ back' \in Slots
      /\ elements \in [Slots -> Elements \cup {Null}]
  BY <1>1 DEF TypeOK
<1>3. Count \in 0 .. Size /\ 0 \in Slots /\ Count \in Slots
  BY <1>2, CountFacts, SizeAssumption DEF Slots
<1>4. /\ Slot(0) = front /\ Slot(Count) = back
      /\ \A j, k \in Slots : Slot(j) = Slot(k) => j = k
      /\ \A k \in Slots : Slot(k) \in Slots
  BY <1>2, SlotOrder, SlotFacts
<1>5. {"take_advance"} \in SUBSET CriticalSteps
      /\ {"push_advance"} \in SUBSET CriticalSteps
  BY DEF CriticalSteps
<1>6. ASSUME NEW t \in Threads, pc[t] \in CriticalSteps
      PROVE  /\ At({"take_advance"}) # {} <=> pc[t] = "take_advance"
             /\ At({"push_advance"}) # {} <=> pc[t] = "push_advance"
  BY <1>1, <1>5, <1>6, OneInside
<1>7. ASSUME NEW t \in Threads, pc'[t] \in CriticalSteps
      PROVE  /\ At({"take_advance"})' # {} <=> pc'[t] = "take_advance"
             /\ At({"push_advance"})' # {} <=> pc'[t] = "push_advance"
  <2>1. \A u \in Threads : pc'[u] \in CriticalSteps => u = t
    BY <1>1, <1>7 DEF MutualExclusion, Critical, At, Where
  <2> QED BY <1>5, <1>7, <2>1 DEF At, Where
<1>8. ASSUME NEW p \in Producers, NEW e \in Elements, CallPush(p, e)
      PROVE  SlotsMatchIndices'
  <2>1. p \in Threads /\ Goto(p, "idle", "push_down") /\ UNCHANGED ring
    BY <1>8 DEF CallPush, Threads
  <2> QED BY <1>1, <2>1, QuietSlots
<1>9. ASSUME NEW p \in Producers, PushDown(p)
      PROVE  SlotsMatchIndices'
  <2>1. p \in Threads /\ Goto(p, "push_down", "push_lock") /\ UNCHANGED ring
    BY <1>9 DEF PushDown, Threads, ring
  <2> QED BY <1>1, <2>1, QuietSlots
<1>10. ASSUME NEW p \in Producers, PushLock(p)
      PROVE  SlotsMatchIndices'
  <2>1. p \in Threads /\ Goto(p, "push_lock", "push_store") /\ UNCHANGED ring
    BY <1>10 DEF PushLock, Threads, ring
  <2> QED BY <1>1, <2>1, QuietSlots
<1>11. ASSUME NEW p \in Producers, PushStore(p)
      PROVE  SlotsMatchIndices'
  <2>1. p \in Threads /\ Goto(p, "push_store", "push_advance")
    BY <1>11 DEF PushStore, Threads
  <2>2. pc[p] = "push_store" /\ pc'[p] = "push_advance"
    BY <1>1, <2>1 DEF TypeOK, Goto
  <2>3. /\ elements' = [elements EXCEPT ![back] = reg[p]]
        /\ reg[p] # Null
        /\ Count' = Count /\ \A k : Slot(k)' = Slot(k)
    BY <1>11, <2>1, <2>2, NullAssumption
       DEF PushStore, IndInv, RegistersMatch, PushSteps, Count, Slot
  <2>4. At({"take_advance"}) = {} /\ At({"push_advance"}) = {}
    BY <1>6, <2>1, <2>2 DEF CriticalSteps
  <2>5. At({"take_advance"})' = {} /\ At({"push_advance"})' # {}
    BY <1>7, <2>1, <2>2 DEF CriticalSteps
  <2>6. ASSUME NEW k \in Slots
        PROVE  elements'[Slot(k)] # Null <=> k < Count \/ k = Count
    <3>1. elements[Slot(k)] # Null <=> k < Count
      BY <1>1, <2>4 DEF SlotsMatchIndices
    <3> QED BY <1>2, <1>3, <1>4, <2>3, <3>1
  <2> QED BY <2>3, <2>5, <2>6 DEF SlotsMatchIndices
<1>12. ASSUME NEW p \in Producers, PushAdvance(p)
      PROVE  SlotsMatchIndices'
  <2>1. p \in Threads /\ Goto(p, "push_advance", "push_unlock")
    BY <1>12 DEF PushAdvance, Threads
  <2>2. pc[p] = "push_advance" /\ pc'[p] = "push_unlock"
    BY <1>1, <2>1 DEF TypeOK, Goto
  <2>3. /\ elements' = elements /\ Count' = Count + 1
        /\ \A k : Slot(k)' = Slot(k)
    BY <1>12, AdvanceCount DEF PushAdvance, Slot
  <2>4. At({"take_advance"}) = {} /\ At({"push_advance"}) # {}
    BY <1>6, <2>1, <2>2 DEF CriticalSteps
  <2>5. At({"take_advance"})' = {} /\ At({"push_advance"})' = {}
    BY <1>7, <2>1, <2>2 DEF CriticalSteps
  <2>6. ASSUME NEW k \in Slots
        PROVE  elements[Slot(k)] # Null <=> k < Count + 1
    <3>1. elements[Slot(k)] # Null <=> k < Count \/ k = Count
      BY <1>1, <2>4 DEF SlotsMatchIndices
    <3> QED BY <1>3, <3>1, SizeAssumption DEF Slots
  <2> QED BY <2>3, <2>5, <2>6 DEF SlotsMatchIndices
<1>13. ASSUME NEW p \in Producers, PushUnlock(p)
      PROVE  SlotsMatchIndices'
  <2>1. p \in Threads /\ Goto(p, "push_unlock", "push_up") /\ UNCHANGED ring
    BY <1>13 DEF PushUnlock, Threads, ring
  <2> QED BY <1>1, <2>1, QuietSlots
<1>14. ASSUME NEW p \in Producers, PushUp(p)
      PROVE  SlotsMatchIndices'
  <2>1. p \in Threads /\ Goto(p, "push_up", "idle") /\ UNCHANGED ring
    BY <1>14 DEF PushUp, Threads, ring
  <2> QED BY <1>1, <2>1, QuietSlots
<1>15. ASSUME NEW c \in Consumers, CallTake(c)
      PROVE  SlotsMatchIndices'
  <2>1. c \in Threads /\ Goto(c, "idle", "take_down") /\ UNCHANGED ring
    BY <1>15 DEF CallTake, Threads, ring
  <2> QED BY <1>1, <2>1, QuietSlots
<1>16. ASSUME NEW c \in Consumers, TakeDown(c)
      PROVE  SlotsMatchIndices'
  <2>1. c \in Threads /\ Goto(c, "take_down", "take_lock") /\ UNCHANGED ring
    BY <1>16 DEF TakeDown, Threads, ring
  <2> QED BY <1>1, <2>1, QuietSlots
<1>17. ASSUME NEW c \in Consumers, TakeLock(c)
      PROVE  SlotsMatchIndices'
  <2>1. c \in Threads /\ Goto(c, "take_lock", "take_read") /\ UNCHANGED ring
    BY <1>17 DEF TakeLock, Threads, ring
  <2> QED BY <1>1, <2>1, QuietSlots
<1>18. ASSUME NEW c \in Consumers, TakeRead(c)
      PROVE  SlotsMatchIndices'
  <2>1. c \in Threads /\ Goto(c, "take_read", "take_clear") /\ UNCHANGED ring
    BY <1>18 DEF TakeRead, Threads, ring
  <2> QED BY <1>1, <2>1, QuietSlots
<1>19. ASSUME NEW c \in Consumers, TakeClear(c)
      PROVE  SlotsMatchIndices'
  <2>1. c \in Threads /\ Goto(c, "take_clear", "take_advance")
    BY <1>19 DEF TakeClear, Threads
  <2>2. pc[c] = "take_clear" /\ pc'[c] = "take_advance"
    BY <1>1, <2>1 DEF TypeOK, Goto
  <2>3. /\ elements' = [elements EXCEPT ![front] = Null]
        /\ Count' = Count /\ \A k : Slot(k)' = Slot(k)
    BY <1>19 DEF TakeClear, Count, Slot
  <2>4. At({"take_advance"}) = {} /\ At({"push_advance"}) = {}
    BY <1>6, <2>1, <2>2 DEF CriticalSteps
  <2>5. At({"take_advance"})' # {} /\ At({"push_advance"})' = {}
    BY <1>7, <2>1, <2>2 DEF CriticalSteps
  <2>6. ASSUME NEW k \in Slots
        PROVE  elements'[Slot(k)] # Null <=> k < Count /\ k # 0
    <3>1. elements[Slot(k)] # Null <=> k < Count
      BY <1>1, <2>4 DEF SlotsMatchIndices
    <3> QED BY <1>2, <1>3, <1>4, <2>3, <3>1
  <2> QED BY <2>3, <2>5, <2>6 DEF SlotsMatchIndices
<1>20. ASSUME NEW c \in Consumers, TakeAdvance(c)
      PROVE  SlotsMatchIndices'
  <2>1. c \in Threads /\ Goto(c, "take_advance", "take_unlock")
    BY <1>20 DEF TakeAdvance, Threads
  <2>2. pc[c] = "take_advance" /\ pc'[c] = "take_unlock"
    BY <1>1, <2>1 DEF TypeOK, Goto
  <2>3. elements' = elements /\ Count' = Count - 1 /\ Count > 0
    BY <1>20, AdvanceCount DEF TakeAdvance
  <2>4. At({"take_advance"}) # {} /\ At({"push_advance"}) = {}
    BY <1>6, <2>1, <2>2 DEF CriticalSteps
  <2>5. At({"take_advance"})' = {} /\ At({"push_advance"})' = {}
    BY <1>7, <2>1, <2>2 DEF CriticalSteps
  <2>6. ASSUME NEW k \in Slots
        PROVE  Slot(k)' = IF k = Size THEN Slot(0) ELSE Slot(k + 1)
    <3>1. front' = Succ(front)
      BY <1>20 DEF TakeAdvance
    <3> QED BY <1>2, <3>1, SlotShift
  <2>7. ASSUME NEW k \in Slots
        PROVE  elements[Slot(k)'] # Null <=> k < Count - 1
    <3>1. \A j \in Slots : elements[Slot(j)] # Null <=> j < Count /\ j # 0
      BY <1>1, <2>4 DEF SlotsMatchIndices
    <3>2. CASE k = Size
      BY <1>3, <2>6, <3>1, <3>2, SizeAssumption
    <3>3. CASE k # Size
      <4>1. k + 1 \in Slots /\ (k + 1 < Count <=> k < Count - 1) /\ k + 1 # 0
        BY <1>3, <3>3, SizeAssumption DEF Slots
      <4> QED BY <2>6, <3>1, <3>3, <4>1
    <3> QED BY <3>2, <3>3
  <2> QED BY <2>3, <2>5, <2>7 DEF SlotsMatchIndices
<1>21. ASSUME NEW c \in Consumers, TakeUnlock(c)
      PROVE  SlotsMatchIndices'
  <2>1. c \in Threads /\ Goto(c, "take_unlock", "take_up") /\ UNCHANGED ring
    BY <1>21 DEF TakeUnlock, Threads, ring
  <2> QED BY <1>1, <2>1, QuietSlots
<1>22. ASSUME NEW c \in Consumers, TakeUp(c)
      PROVE  SlotsMatchIndices'
  <2>1. c \in Threads /\ Goto(c, "take_up", "idle") /\ UNCHANGED ring
    BY <1>22 DEF TakeUp, Threads, ring
  <2> QED BY <1>1, <2>1, QuietSlots
<1>23. ASSUME NEW c \in Consumers, SizeFront(c)
      PROVE  SlotsMatchIndices'
  <2>1. c \in Threads /\ Goto(c, "idle", "size_back") /\ UNCHANGED ring
    BY <1>23 DEF SizeFront, Threads, ring
  <2> QED BY <1>1, <2>1, QuietSlots
<1>24. ASSUME NEW c \in Consumers, SizeBack(c)
      PROVE  SlotsMatchIndices'
  <2>1. c \in Threads /\ Goto(c, "size_back", "idle") /\ UNCHANGED ring
    BY <1>24 DEF SizeBack, Threads, ring
  <2> QED BY <1>1, <2>1, QuietSlots
<1> QED BY <1>8, <1>9, <1>10, <1>11, <1>12, <1>13, <1>14, <1>15, <1>16, <1>17, <1>18, <1>19, <1>20, <1>21, <1>22, <1>23, <1>24 DEF Next, Push, Take, SizeCall

(* A take that got past the semaphore finds an element.                    *)
LEMMA ClaimedMeansFilled ==
  ASSUME IndInv, NEW c \in Threads, pc[c] \in ClaimedSteps
  PROVE  Count > 0
<1>1. TypeOK /\ PermitsBalance
  BY DEF IndInv
<1>2. IsFiniteSet(Claimed) /\ c \in Claimed /\ Cardinality(Claimed) \in Nat
      /\ Cardinality(Stored) \in Nat
  BY WhereFinite DEF Claimed, Stored, At, Where
<1>3. Cardinality(Claimed) # 0
  BY <1>2, FS_EmptySet
<1>4. takeouts \in Nat /\ Count \in Int
  BY <1>1, CountFacts DEF TypeOK
<1> QED BY <1>1, <1>2, <1>3, <1>4 DEF PermitsBalance

(* Every step keeps what the calls carry right.                            *)
LEMMA RegistersStep == IndInv /\ Next => RegistersMatch'
<1> SUFFICES ASSUME IndInv, Next PROVE RegistersMatch'
  OBVIOUS
<1>1. TypeOK /\ MutualExclusion /\ SlotsMatchIndices /\ RegistersMatch
  BY DEF IndInv
<1>2. /\ pc \in [Threads -> Labels]
      /\ reg \in [Threads -> Elements \cup {Null}]
      /\ elements \in [Slots -> Elements \cup {Null}]
      /\ front \in Slots /\ back \in Slots
  BY <1>1 DEF TypeOK
<1>3. ASSUME NEW t \in Threads, pc[t] \in CriticalSteps
      PROVE  \A u \in Threads : pc[u] \in {"take_clear", "push_advance"} => u = t
  BY <1>1, <1>3, Alone DEF CriticalSteps
<1> USE DEF RegistersMatch, Threads, Goto, PushSteps, EmptiedSteps, ring
<1>4. ASSUME NEW p \in Producers, NEW e \in Elements, CallPush(p, e)
      PROVE  RegistersMatch'
  BY <1>1, <1>2, <1>4 DEF CallPush
<1>5. ASSUME NEW p \in Producers, PushDown(p)
      PROVE  RegistersMatch'
  BY <1>1, <1>2, <1>5 DEF PushDown
<1>6. ASSUME NEW p \in Producers, PushLock(p)
      PROVE  RegistersMatch'
  BY <1>1, <1>2, <1>6 DEF PushLock
<1>7. ASSUME NEW p \in Producers, PushStore(p)
      PROVE  RegistersMatch'
  <2>1. \A u \in Threads : pc[u] \in {"take_clear", "push_advance"} => u = p
    BY <1>3, <1>7 DEF PushStore, CriticalSteps
  <2> QED BY <1>1, <1>2, <1>7, <2>1 DEF PushStore
<1>8. ASSUME NEW p \in Producers, PushAdvance(p)
      PROVE  RegistersMatch'
  <2>1. \A u \in Threads : pc[u] \in {"take_clear", "push_advance"} => u = p
    BY <1>3, <1>8 DEF PushAdvance, CriticalSteps
  <2> QED BY <1>1, <1>2, <1>8, <2>1 DEF PushAdvance
<1>9. ASSUME NEW p \in Producers, PushUnlock(p)
      PROVE  RegistersMatch'
  BY <1>1, <1>2, <1>9 DEF PushUnlock
<1>10. ASSUME NEW p \in Producers, PushUp(p)
      PROVE  RegistersMatch'
  BY <1>1, <1>2, <1>10 DEF PushUp
<1>11. ASSUME NEW c \in Consumers, CallTake(c)
      PROVE  RegistersMatch'
  BY <1>1, <1>2, <1>11 DEF CallTake
<1>12. ASSUME NEW c \in Consumers, TakeDown(c)
      PROVE  RegistersMatch'
  BY <1>1, <1>2, <1>12 DEF TakeDown
<1>13. ASSUME NEW c \in Consumers, TakeLock(c)
      PROVE  RegistersMatch'
  BY <1>1, <1>2, <1>13 DEF TakeLock
<1>14. ASSUME NEW c \in Consumers, TakeRead(c)
      PROVE  RegistersMatch'
  <2>1. c \in Threads /\ pc[c] = "take_read"
    BY <1>14 DEF TakeRead
  <2>2. elements[front] \in Elements
    <3>1. pc[c] \in ClaimedSteps
      BY <2>1 DEF ClaimedSteps
    <3>2. Count > 0
      BY <1>1, <2>1, <3>1, ClaimedMeansFilled DEF IndInv
    <3>3. At({"take_advance"}) = {}
      BY <1>1, <2>1, Alone DEF At, Where, CriticalSteps
    <3>4. 0 \in Slots /\ Slot(0) = front
      BY <1>2, SlotOrder, SizeAssumption DEF Slots
    <3> QED BY <1>1, <1>2, <3>2, <3>3, <3>4 DEF SlotsMatchIndices
  <2> QED BY <1>1, <1>2, <1>14, <2>2 DEF TakeRead
<1>15. ASSUME NEW c \in Consumers, TakeClear(c)
      PROVE  RegistersMatch'
  <2>1. \A u \in Threads : pc[u] \in {"take_clear", "push_advance"} => u = c
    BY <1>3, <1>15 DEF TakeClear, CriticalSteps
  <2> QED BY <1>1, <1>2, <1>15, <2>1 DEF TakeClear
<1>16. ASSUME NEW c \in Consumers, TakeAdvance(c)
      PROVE  RegistersMatch'
  <2>1. \A u \in Threads : pc[u] \in {"take_clear", "push_advance"} => u = c
    BY <1>3, <1>16 DEF TakeAdvance, CriticalSteps
  <2> QED BY <1>1, <1>2, <1>16, <2>1 DEF TakeAdvance
<1>17. ASSUME NEW c \in Consumers, TakeUnlock(c)
      PROVE  RegistersMatch'
  BY <1>1, <1>2, <1>17 DEF TakeUnlock
<1>18. ASSUME NEW c \in Consumers, TakeUp(c)
      PROVE  RegistersMatch'
  BY <1>1, <1>2, <1>18 DEF TakeUp
<1>19. ASSUME NEW c \in Consumers, SizeFront(c)
      PROVE  RegistersMatch'
  BY <1>1, <1>2, <1>19 DEF SizeFront
<1>20. ASSUME NEW c \in Consumers, SizeBack(c)
      PROVE  RegistersMatch'
  BY <1>1, <1>2, <1>20 DEF SizeBack
<1> QED BY <1>4, <1>5, <1>6, <1>7, <1>8, <1>9, <1>10, <1>11, <1>12, <1>13, <1>14, <1>15, <1>16, <1>17, <1>18, <1>19, <1>20 DEF Next, Push, Take, SizeCall
----------------------------------------------------------------------------
(* For every number of producers, consumers and slots, the five parts of   *)
(* the invariant hold in every reachable state of the blocking queue.      *)
THEOREM Invariant == Spec => []IndInv
<1>1. IndInv /\ [Next]_vars => IndInv'
  <2> SUFFICES ASSUME IndInv, [Next]_vars PROVE IndInv'
    OBVIOUS
  <2>1. CASE Next
    BY <2>1, TypeStep, MutexStep, PermitsStep, SlotsStep, RegistersStep DEF IndInv
  <2>2. CASE UNCHANGED vars
    BY <2>2 DEF vars, permits, ring, saw, IndInv, TypeOK, MutualExclusion,
                PermitsBalance, SlotsMatchIndices, RegistersMatch, Reserved,
                Stored, Claimed, Emptied, Critical, At, Count, Slot
  <2> QED BY <2>1, <2>2
<1> QED BY <1>1, InitIndInv, PTL DEF Spec

(* Indices, counts, program counters and registers keep their types.       *)
THEOREM TypeCorrect == Spec => []TypeOK
  BY Invariant, PTL DEF IndInv

(* The ring is never touched by two threads at once.                       *)
THEOREM Exclusive == Spec => []MutualExclusion
  BY Invariant, PTL DEF IndInv

(* No permit is lost or made up, whatever calls are in flight.             *)
THEOREM Balanced == Spec => []PermitsBalance
  BY Invariant, PTL DEF IndInv

(* Push never overwrites an element and take never finds a null slot.      *)
THEOREM SlotsCorrect == Spec => []SlotsMatchIndices
  BY Invariant, PTL DEF IndInv

(* A take returns an element, and until it lets go of the slot the oldest. *)
THEOREM RegistersCorrect == Spec => []RegistersMatch
  BY Invariant, PTL DEF IndInv
----------------------------------------------------------------------------
(* What makes size() safe for a lone consumer: only that consumer advances *)
(* front, so the front it read is still front when it reads back; and a    *)
(* take forgets the size seen before it.                                   *)
SoleInv ==
  \A c \in Consumers : Consumers = {c} =>
     /\ pc[c] = "size_back" => sawFront[c] = front
     /\ pc[c] \in {"idle", "size_back"} => sawSize[c] <= Count
     /\ pc[c] \in TakeSteps => sawSize[c] = 0

(* Every step keeps the lone consumer's view of the queue right.           *)
LEMMA SoleStep == IndInv /\ SoleInv /\ Next => SoleInv'
<1> SUFFICES ASSUME IndInv, SoleInv, Next,
                    NEW c \in Consumers, Consumers = {c}
             PROVE  /\ pc'[c] = "size_back" => sawFront'[c] = front'
                    /\ pc'[c] \in {"idle", "size_back"} => sawSize'[c] <= Count'
                    /\ pc'[c] \in TakeSteps => sawSize'[c] = 0
  BY DEF SoleInv
<1>1. /\ pc \in [Threads -> Labels]
      /\ front \in Slots /\ back \in Slots
      /\ sawFront \in [Consumers -> Slots]
      /\ sawSize \in [Consumers -> Slots]
  BY DEF IndInv, TypeOK
<1>2. Count \in Nat /\ sawSize[c] \in Nat
  BY <1>1, CountFacts, SizeAssumption DEF Slots
<1>3. c \in Threads /\ c \notin Producers
  BY ThreadAssumption DEF Threads
<1>4. /\ pc[c] = "size_back" => sawFront[c] = front
      /\ pc[c] \in {"idle", "size_back"} => sawSize[c] <= Count
      /\ pc[c] \in TakeSteps => sawSize[c] = 0
  BY DEF SoleInv
<1>5. ASSUME NEW p \in Producers, Push(p)
      PROVE  /\ pc'[c] = pc[c] /\ front' = front /\ UNCHANGED saw
             /\ Count' \in Nat /\ Count <= Count'
  <2>1. p # c
    BY <1>3
  <2>2. pc'[c] = pc[c] /\ front' = front /\ UNCHANGED saw
    BY <1>1, <1>3, <1>5, <2>1
    DEF Push, CallPush, PushDown, PushLock, PushStore, PushAdvance,
        PushUnlock, PushUp, Goto, ring, permits
  <2>3. CASE PushAdvance(p)
    BY <2>2, <2>3, <1>2, AdvanceCount
  <2>4. CASE ~PushAdvance(p)
    <3>1. back' = back
      BY <1>5, <2>4
      DEF Push, CallPush, PushDown, PushLock, PushStore, PushUnlock, PushUp, ring
    <3> QED BY <3>1, <2>2, <1>2 DEF Count, Distance
  <2> QED BY <2>2, <2>3, <2>4
<1>6. CASE \E p \in Producers : Push(p)
  BY <1>6, <1>5, <1>4, <1>2 DEF saw
<1>7. CASE CallTake(c)
  BY <1>7, <1>1, <1>3 DEF CallTake, Goto, TakeSteps
<1>8. CASE TakeDown(c) \/ TakeLock(c) \/ TakeRead(c) \/ TakeClear(c)
           \/ TakeAdvance(c) \/ TakeUnlock(c)
  BY <1>8, <1>1, <1>3, <1>4
  DEF TakeDown, TakeLock, TakeRead, TakeClear, TakeAdvance, TakeUnlock, Goto,
      TakeSteps, saw
<1>9. CASE TakeUp(c)
  <2>1. Count' = Count /\ sawSize'[c] = 0 /\ pc'[c] = "idle"
    BY <1>9, <1>1, <1>3, <1>4
    DEF TakeUp, Goto, TakeSteps, saw, ring, Count, Distance
  <2> QED BY <2>1, <1>2 DEF TakeSteps
<1>10. CASE SizeFront(c)
  <2>1. Count' = Count /\ front' = front /\ sawSize'[c] = sawSize[c]
    BY <1>10 DEF SizeFront, ring, Count, Distance
  <2>2. pc[c] = "idle" /\ pc'[c] = "size_back" /\ sawFront'[c] = front
    BY <1>10, <1>1, <1>3 DEF SizeFront, Goto
  <2> QED BY <2>1, <2>2, <1>4 DEF TakeSteps
<1>11. CASE SizeBack(c)
  <2>1. Count' = Count /\ pc[c] = "size_back" /\ pc'[c] = "idle"
    BY <1>11, <1>1, <1>3 DEF SizeBack, Goto, ring, Count, Distance
  <2>2. sawSize'[c] = Count
    BY <1>11, <1>1, <1>4, <2>1 DEF SizeBack, Count
  <2> QED BY <2>1, <2>2, <1>2 DEF TakeSteps
<1> QED BY <1>6, <1>7, <1>8, <1>9, <1>10, <1>11 DEF Next, Take, SizeCall

(* has_data never promises a lone consumer a chunk that is not there,      *)
(* though size() takes no lock.                                            *)
THEOREM SizeIsSafe == Spec => []SoleConsumerSeesData
<1>1. Init => SoleInv
  <2> SUFFICES ASSUME Init, NEW c \in Consumers
               PROVE  /\ pc[c] = "idle" /\ sawSize[c] = 0 /\ 0 <= Count
    BY DEF SoleInv, TakeSteps
  <2>1. front \in Slots /\ back \in Slots
    BY InitIndInv DEF IndInv, TypeOK
  <2> QED BY <2>1, CountFacts, SizeAssumption DEF Init, Threads
<1>2. IndInv /\ SoleInv /\ [Next]_vars => SoleInv'
  <2>1. UNCHANGED vars /\ SoleInv => SoleInv'
    BY DEF vars, ring, saw, SoleInv, Count, Distance
  <2> QED BY <2>1, SoleStep
<1>3. SoleInv => SoleConsumerSeesData
  BY DEF SoleInv, SoleConsumerSeesData
<1> QED BY <1>1, <1>2, <1>3, Invariant, PTL DEF Spec
-----------------------------------------------------------------------------
(* A sequence that has one element more is an Append.                      *)
LEMMA AppendAs ==
  ASSUME NEW T, NEW n \in Nat, NEW s \in [1 .. n -> T], NEW e \in T,
         NEW r \in [1 .. n + 1 -> T], \A k \in 1 .. n : r[k] = s[k], r[n + 1] = e
  PROVE  r = Append(s, e) /\ Len(s) = n
<1>1. s \in Seq(T) /\ Len(s) = n
  OBVIOUS
<1>2. r \in Seq(T) /\ Len(r) = n + 1
  OBVIOUS
<1>3. Append(s, e) \in Seq(T) /\ Len(Append(s, e)) = n + 1
  BY <1>1
<1>4. \A k \in 1 .. n + 1 : Append(s, e)[k] = r[k]
  BY <1>1, <1>3
<1> QED BY <1>1, <1>2, <1>3, <1>4, SeqEqual

(* A sequence whose elements move down by one place is a Tail.             *)
LEMMA TailAs ==
  ASSUME NEW T, NEW n \in Nat, NEW s \in [1 .. n + 1 -> T],
         NEW r \in [1 .. n -> T], \A k \in 1 .. n : r[k] = s[k + 1]
  PROVE  r = Tail(s) /\ Head(s) = s[1] /\ s # <<>>
<1>1. s \in Seq(T) /\ Len(s) = n + 1
  OBVIOUS
<1>2. r \in Seq(T) /\ Len(r) = n
  OBVIOUS
<1>3. Tail(s) \in Seq(T) /\ Len(Tail(s)) = n /\ s # <<>>
  BY <1>1
<1>4. \A k \in 1 .. n : Tail(s)[k] = r[k]
  BY <1>1, <1>3
<1> QED BY <1>1, <1>2, <1>3, <1>4, SeqEqual
----------------------------------------------------------------------------
(* What the mapped queue holds, with and without a take between its write  *)
(* of null and its advance of front.                                       *)
LEMMA ContentQuiet ==
  ASSUME At({"take_advance"}) = {}, NEW k
  PROVE  Content(k) = elements[Slot(k)]
  BY DEF Content

(* While a take is between the two, it carries the oldest element.         *)
LEMMA ContentBusy ==
  ASSUME NEW c, At({"take_advance"}) = {c}, NEW k
  PROVE  Content(k) = IF k = 0 THEN reg[c] ELSE elements[Slot(k)]
  BY DEF Content

(* At most one take is between the two.                                    *)
LEMMA BusyCases ==
  ASSUME TypeOK, MutualExclusion
  PROVE  \/ At({"take_advance"}) = {}
         \/ \E c \in Consumers : pc[c] = "take_advance" /\ At({"take_advance"}) = {c}
<1>1. ASSUME NEW t \in Threads, pc[t] = "take_advance"
      PROVE  t \in Consumers /\ At({"take_advance"}) = {t}
  <2>1. t \in Consumers
    BY <1>1 DEF TypeOK, Threads, PushSteps
  <2>2. pc[t] \in CriticalSteps /\ {"take_advance"} \in SUBSET CriticalSteps
    BY <1>1 DEF CriticalSteps
  <2> QED BY <1>1, <2>1, <2>2, OneInside
<1> QED BY <1>1 DEF At, Where

(* Every place of the mapped queue holds an element.                       *)
LEMMA ContentType ==
  ASSUME IndInv, NEW k \in 0 .. Count - 1
  PROVE  Content(k) \in Elements
<1>1. TypeOK /\ MutualExclusion /\ SlotsMatchIndices /\ RegistersMatch
  BY DEF IndInv
<1>2. /\ elements \in [Slots -> Elements \cup {Null}]
      /\ front \in Slots /\ back \in Slots
  BY <1>1 DEF TypeOK
<1>3. Count \in 0 .. Size
  BY <1>2, CountFacts
<1>4. k \in Slots /\ k < Count
  BY <1>3, SizeAssumption DEF Slots
<1>5. Slot(k) \in Slots
  BY <1>2, <1>4, SlotFacts
<1>6. CASE At({"take_advance"}) = {}
  BY <1>1, <1>2, <1>4, <1>5, <1>6, ContentQuiet DEF SlotsMatchIndices
<1>7. ASSUME NEW c \in Consumers, pc[c] = "take_advance", At({"take_advance"}) = {c}
      PROVE  Content(k) \in Elements
  <2>1. reg[c] \in Elements
    BY <1>1, <1>7 DEF RegistersMatch, Threads
  <2>2. k # 0 => elements[Slot(k)] # Null
    BY <1>1, <1>4, <1>7 DEF SlotsMatchIndices
  <2> QED BY <1>2, <1>5, <1>7, <2>1, <2>2, ContentBusy
<1> QED BY <1>1, <1>6, <1>7, BusyCases

(* The same as one formula, to be primed.                                  *)
LEMMA ContentTypes == IndInv => \A k \in 0 .. Count - 1 : Content(k) \in Elements
  BY ContentType

(* The same in the next state.                                             *)
LEMMA ContentNextType ==
  IndInv' => (\A k \in 0 .. Count - 1 : Content(k) \in Elements)'
  BY ContentTypes, PTL

(* The mapped queue changes only with its length or its contents.          *)
LEMMA SameQueue ==
  ASSUME Count' = Count, \A k \in 0 .. Count - 1 : Content(k)' = Content(k),
         Count \in Int
  PROVE  Queue' = Queue
<1>1. \A k \in 1 .. Count : k - 1 \in 0 .. Count - 1
  OBVIOUS
<1> QED BY <1>1 DEF Queue

(* A step that leaves the ring alone leaves the mapped queue alone.        *)
LEMMA QuietQueue ==
  ASSUME TypeOK, NEW t \in Threads, NEW from, NEW to, Goto(t, from, to),
         UNCHANGED ring, from # "take_advance", to # "take_advance",
         \A u \in Threads : pc[u] = "take_advance" => reg'[u] = reg[u]
  PROVE  Queue' = Queue
<1>1. pc \in [Threads -> Labels] /\ pc[t] = from /\ pc' = [pc EXCEPT ![t] = to]
  BY DEF TypeOK, Goto
<1>2. At({"take_advance"})' = At({"take_advance"})
  BY <1>1 DEF At, Where
<1>3. Count' = Count /\ elements' = elements /\ \A k : Slot(k)' = Slot(k)
  BY DEF Count, Slot, ring
<1>4. Count \in Int
  BY CountFacts DEF TypeOK
<1>5. \A u \in At({"take_advance"}) : reg'[u] = reg[u]
  BY DEF At, Where
<1>6. ASSUME NEW k PROVE Content(k)' = Content(k)
  BY <1>2, <1>3, <1>5 DEF Content
<1> QED BY <1>3, <1>4, <1>6, SameQueue

(* A thread that moves changes its own status and no other.                *)
LEMMA PhaseStep ==
  ASSUME TypeOK, NEW t \in Threads, NEW from, NEW to, Goto(t, from, to)
  PROVE  /\ Statuses[t] = Phase(from)
         /\ Statuses' = [Statuses EXCEPT ![t] = Phase(to)]
         /\ Phase(from) = Phase(to) => Statuses' = Statuses
  BY DEF TypeOK, Goto, Statuses

(* The new queue maps to the empty FIFO.                                   *)
LEMMA InitMaps == Init => Fifo!Init
<1> SUFFICES ASSUME Init PROVE Fifo!Init
  OBVIOUS
<1>1. Count = 0
  BY InitIndInv, RingFacts DEF Init, Count, IndInv, TypeOK
<1>2. Queue = <<>>
  BY <1>1 DEF Queue
<1>3. Statuses = [t \in Threads |-> "idle"] /\ Holdings = [t \in Threads |-> Null]
  BY DEF Init, Statuses, Phase, Holdings, Threads
<1> QED BY <1>2, <1>3 DEF Fifo!Init, Fifo!Threads, Threads

(* Every step of the queue maps to a step of the FIFO or to none.          *)
LEMMA StepMaps == IndInv /\ IndInv' /\ Next => [Fifo!Next]_Fifo!vars
<1> SUFFICES ASSUME IndInv, IndInv', Next PROVE [Fifo!Next]_Fifo!vars
  OBVIOUS
<1>1. TypeOK /\ MutualExclusion /\ SlotsMatchIndices /\ RegistersMatch
  BY DEF IndInv
<1>2. /\ pc \in [Threads -> Labels]
      /\ reg \in [Threads -> Elements \cup {Null}]
      /\ elements \in [Slots -> Elements \cup {Null}]
      /\ front \in Slots /\ back \in Slots
      /\ Producers \cap Consumers = {}
  BY <1>1, ThreadAssumption DEF TypeOK
<1>3. Count \in 0 .. Size /\ Count \in Slots /\ 0 \in Slots
  BY <1>2, CountFacts, SizeAssumption DEF Slots
<1>4. Queue \in [1 .. Count -> Elements] /\ Len(Queue) = Count
  <2>1. \A k \in 1 .. Count : Content(k - 1) \in Elements
    BY <1>3, ContentType
  <2> QED BY <1>3, <2>1 DEF Queue
<1> DEFINE Stutter == Queue' = Queue /\ Statuses' = Statuses /\ Holdings' = Holdings
<1>5. Stutter => UNCHANGED Fifo!vars
  BY DEF Fifo!vars
<1> USE DEF Phase, StoredSteps, EmptiedSteps
<1>6. ASSUME NEW p \in Producers, NEW e \in Elements, CallPush(p, e)
      PROVE  Fifo!InvokePush(p, e)
  <2>1. p \in Threads /\ Goto(p, "idle", "push_down") /\ UNCHANGED ring
        /\ reg' = [reg EXCEPT ![p] = e]
    BY <1>6 DEF CallPush, Threads, ring
  <2>2. pc' = [pc EXCEPT ![p] = "push_down"] /\ pc[p] = "idle"
    BY <2>1 DEF Goto
  <2>3. Queue' = Queue
    BY <1>1, <1>2, <2>1, <2>2, QuietQueue
  <2>4. Statuses[p] = "idle" /\ Statuses' = [Statuses EXCEPT ![p] = "open"]
    BY <1>1, <2>1, PhaseStep
  <2>5. Holdings' = [Holdings EXCEPT ![p] = e]
    BY <1>2, <2>1, <2>2 DEF Holdings
  <2> QED BY <2>3, <2>4, <2>5 DEF Fifo!InvokePush
<1>7. ASSUME NEW p \in Producers, PushDown(p)
      PROVE  Stutter
  <2>1. p \in Threads /\ p \in Producers /\ Goto(p, "push_down", "push_lock") /\ UNCHANGED ring
        /\ reg' = reg
    BY <1>7 DEF PushDown, Threads, ring
  <2>2. pc' = [pc EXCEPT ![p] = "push_lock"] /\ pc[p] = "push_down"
    BY <2>1 DEF Goto
  <2>3. Queue' = Queue
    BY <1>1, <1>2, <2>1, <2>2, QuietQueue
  <2>4. Statuses' = Statuses
    BY <1>1, <2>1, PhaseStep
  <2>5. Holdings' = Holdings
    BY <1>2, <2>1, <2>2 DEF Holdings
  <2> QED BY <2>3, <2>4, <2>5
<1>8. ASSUME NEW p \in Producers, PushLock(p)
      PROVE  Stutter
  <2>1. p \in Threads /\ p \in Producers /\ Goto(p, "push_lock", "push_store") /\ UNCHANGED ring
        /\ reg' = reg
    BY <1>8 DEF PushLock, Threads, ring
  <2>2. pc' = [pc EXCEPT ![p] = "push_store"] /\ pc[p] = "push_lock"
    BY <2>1 DEF Goto
  <2>3. Queue' = Queue
    BY <1>1, <1>2, <2>1, <2>2, QuietQueue
  <2>4. Statuses' = Statuses
    BY <1>1, <2>1, PhaseStep
  <2>5. Holdings' = Holdings
    BY <1>2, <2>1, <2>2 DEF Holdings
  <2> QED BY <2>3, <2>4, <2>5
<1>9. ASSUME NEW p \in Producers, PushStore(p)
      PROVE  Stutter
  <2>1. p \in Threads /\ p \in Producers /\ Goto(p, "push_store", "push_advance")
        /\ elements' = [elements EXCEPT ![back] = reg[p]]
        /\ reg' = reg /\ front' = front /\ back' = back
    BY <1>9 DEF PushStore, Threads, ring
  <2>2. pc' = [pc EXCEPT ![p] = "push_advance"] /\ pc[p] = "push_store"
    BY <2>1 DEF Goto
  <2>3. At({"take_advance"}) = {} /\ At({"take_advance"})' = {}
    BY <1>1, <1>2, <2>1, <2>2, Alone DEF At, Where, CriticalSteps
  <2>4. Count' = Count /\ \A k : Slot(k)' = Slot(k)
    BY <2>1 DEF Count, Slot
  <2>5. ASSUME NEW k \in 0 .. Count - 1
        PROVE  Content(k)' = Content(k)
    <3>1. k \in Slots /\ k # Count
      BY <1>3, SizeAssumption DEF Slots
    <3>2. Slot(k) # back /\ Slot(k) \in Slots
      BY <1>2, <1>3, <3>1, SlotOrder, SlotFacts
    <3>3. elements'[Slot(k)'] = elements[Slot(k)]
      BY <1>2, <2>1, <2>4, <3>2
    <3> QED BY <2>3, <3>3 DEF Content
  <2>6. Queue' = Queue
    BY <1>3, <2>4, <2>5, SameQueue
  <2>7. Statuses' = Statuses
    BY <1>1, <2>1, PhaseStep
  <2>8. Holdings' = Holdings
    BY <1>2, <2>1, <2>2 DEF Holdings
  <2> QED BY <2>6, <2>7, <2>8
<1>10. ASSUME NEW p \in Producers, PushAdvance(p)
      PROVE  Fifo!CommitPush(p)
  <2>1. p \in Threads /\ p \in Producers /\ Goto(p, "push_advance", "push_unlock")
        /\ elements' = elements /\ reg' = reg /\ front' = front
    BY <1>10 DEF PushAdvance, Threads, ring
  <2>2. pc' = [pc EXCEPT ![p] = "push_unlock"] /\ pc[p] = "push_advance"
    BY <2>1 DEF Goto
  <2>3. At({"take_advance"}) = {} /\ At({"take_advance"})' = {}
    BY <1>1, <1>2, <2>1, <2>2, Alone DEF At, Where, CriticalSteps
  <2>4. Count < Size /\ Count' = Count + 1 /\ \A k : Slot(k)' = Slot(k)
    BY <1>10, <2>1, AdvanceCount DEF Slot
  <2>5. \A k : Content(k)' = elements[Slot(k)] /\ Content(k) = elements[Slot(k)]
    BY <2>1, <2>3, <2>4 DEF Content
  <2>6. Queue' \in [1 .. Count + 1 -> Elements]
    <3>1. \A k \in 0 .. Count' - 1 : Content(k)' \in Elements
      BY ContentNextType
    <3>2. \A k \in 1 .. Count + 1 : Content(k - 1)' \in Elements
      BY <1>3, <2>4, <3>1
    <3> QED BY <2>4, <3>2 DEF Queue
  <2>7. \A k \in 1 .. Count : Queue'[k] = Queue[k]
    BY <1>3, <2>4, <2>5 DEF Queue
  <2>8. Queue'[Count + 1] = reg[p] /\ reg[p] \in Elements
    <3>1. reg[p] \in Elements
      BY <1>1, <2>1, <2>2 DEF RegistersMatch, PushSteps
    <3>2. elements[back] = reg[p]
      BY <1>1, <2>1, <2>2 DEF RegistersMatch
    <3>3. Queue'[Count + 1] = elements[Slot(Count)]
      <4>1. \A k \in 1 .. Count + 1 : Queue'[k] = elements[Slot(k - 1)]
        BY <1>3, <2>4, <2>5 DEF Queue
      <4>2. Count + 1 \in 1 .. Count + 1 /\ (Count + 1) - 1 = Count
        BY <1>3
      <4> QED BY <4>1, <4>2
    <3>4. Slot(Count) = back
      BY <1>2, SlotOrder
    <3> QED BY <3>1, <3>2, <3>3, <3>4
  <2>9. Queue' = Append(Queue, reg[p])
    BY <1>3, <1>4, <2>6, <2>7, <2>8, AppendAs
  <2>10. Statuses[p] = "open" /\ Statuses' = [Statuses EXCEPT ![p] = "done"]
    BY <1>1, <2>1, PhaseStep
  <2>11. Holdings' = Holdings /\ Holdings[p] = reg[p]
    BY <1>2, <2>1, <2>2 DEF Holdings
  <2> QED BY <1>4, <2>4, <2>9, <2>10, <2>11 DEF Fifo!CommitPush
<1>11. ASSUME NEW p \in Producers, PushUnlock(p)
      PROVE  Stutter
  <2>1. p \in Threads /\ p \in Producers /\ Goto(p, "push_unlock", "push_up") /\ UNCHANGED ring
        /\ reg' = reg
    BY <1>11 DEF PushUnlock, Threads, ring
  <2>2. pc' = [pc EXCEPT ![p] = "push_up"] /\ pc[p] = "push_unlock"
    BY <2>1 DEF Goto
  <2>3. Queue' = Queue
    BY <1>1, <1>2, <2>1, <2>2, QuietQueue
  <2>4. Statuses' = Statuses
    BY <1>1, <2>1, PhaseStep
  <2>5. Holdings' = Holdings
    BY <1>2, <2>1, <2>2 DEF Holdings
  <2> QED BY <2>3, <2>4, <2>5
<1>12. ASSUME NEW p \in Producers, PushUp(p)
      PROVE  Fifo!Return(p)
  <2>1. p \in Threads /\ p \in Producers /\ Goto(p, "push_up", "idle") /\ UNCHANGED ring
        /\ reg' = [reg EXCEPT ![p] = Null]
    BY <1>12 DEF PushUp, Threads, ring
  <2>2. pc' = [pc EXCEPT ![p] = "idle"] /\ pc[p] = "push_up"
    BY <2>1 DEF Goto
  <2>3. Queue' = Queue
    BY <1>1, <1>2, <2>1, <2>2, QuietQueue
  <2>4. Statuses[p] = "done" /\ Statuses' = [Statuses EXCEPT ![p] = "idle"]
    BY <1>1, <2>1, PhaseStep
  <2>5. Holdings' = [Holdings EXCEPT ![p] = Null]
    BY <1>2, <2>1, <2>2 DEF Holdings
  <2> QED BY <2>3, <2>4, <2>5 DEF Fifo!Return
<1>13. ASSUME NEW c \in Consumers, CallTake(c)
      PROVE  Fifo!InvokeTake(c)
  <2>1. c \in Threads /\ c \in Consumers /\ Goto(c, "idle", "take_down") /\ UNCHANGED ring
        /\ reg' = reg
    BY <1>13 DEF CallTake, Threads, ring
  <2>2. pc' = [pc EXCEPT ![c] = "take_down"] /\ pc[c] = "idle"
    BY <2>1 DEF Goto
  <2>3. Queue' = Queue
    BY <1>1, <1>2, <2>1, <2>2, QuietQueue
  <2>4. Statuses[c] = "idle" /\ Statuses' = [Statuses EXCEPT ![c] = "open"]
    BY <1>1, <2>1, PhaseStep
  <2>5. Holdings' = Holdings
    BY <1>2, <2>1, <2>2 DEF Holdings
  <2> QED BY <2>3, <2>4, <2>5 DEF Fifo!InvokeTake
<1>14. ASSUME NEW c \in Consumers, TakeDown(c)
      PROVE  Stutter
  <2>1. c \in Threads /\ c \in Consumers /\ Goto(c, "take_down", "take_lock") /\ UNCHANGED ring
        /\ reg' = reg
    BY <1>14 DEF TakeDown, Threads, ring
  <2>2. pc' = [pc EXCEPT ![c] = "take_lock"] /\ pc[c] = "take_down"
    BY <2>1 DEF Goto
  <2>3. Queue' = Queue
    BY <1>1, <1>2, <2>1, <2>2, QuietQueue
  <2>4. Statuses' = Statuses
    BY <1>1, <2>1, PhaseStep
  <2>5. Holdings' = Holdings
    BY <1>2, <2>1, <2>2 DEF Holdings
  <2> QED BY <2>3, <2>4, <2>5
<1>15. ASSUME NEW c \in Consumers, TakeLock(c)
      PROVE  Stutter
  <2>1. c \in Threads /\ c \in Consumers /\ Goto(c, "take_lock", "take_read") /\ UNCHANGED ring
        /\ reg' = reg
    BY <1>15 DEF TakeLock, Threads, ring
  <2>2. pc' = [pc EXCEPT ![c] = "take_read"] /\ pc[c] = "take_lock"
    BY <2>1 DEF Goto
  <2>3. Queue' = Queue
    BY <1>1, <1>2, <2>1, <2>2, QuietQueue
  <2>4. Statuses' = Statuses
    BY <1>1, <2>1, PhaseStep
  <2>5. Holdings' = Holdings
    BY <1>2, <2>1, <2>2 DEF Holdings
  <2> QED BY <2>3, <2>4, <2>5
<1>16. ASSUME NEW c \in Consumers, TakeRead(c)
      PROVE  Stutter
  <2>1. c \in Threads /\ c \in Consumers /\ Goto(c, "take_read", "take_clear") /\ UNCHANGED ring
        /\ reg' = [reg EXCEPT ![c] = elements[front]]
    BY <1>16 DEF TakeRead, Threads, ring
  <2>2. pc' = [pc EXCEPT ![c] = "take_clear"] /\ pc[c] = "take_read"
    BY <2>1 DEF Goto
  <2>3. Queue' = Queue
    BY <1>1, <1>2, <2>1, <2>2, QuietQueue
  <2>4. Statuses' = Statuses
    BY <1>1, <2>1, PhaseStep
  <2>5. Holdings' = Holdings
    BY <1>2, <2>1, <2>2 DEF Holdings
  <2> QED BY <2>3, <2>4, <2>5
<1>17. ASSUME NEW c \in Consumers, TakeClear(c)
      PROVE  Stutter
  <2>1. c \in Threads /\ c \in Consumers /\ Goto(c, "take_clear", "take_advance")
        /\ elements' = [elements EXCEPT ![front] = Null]
        /\ reg' = reg /\ front' = front /\ back' = back
    BY <1>17 DEF TakeClear, Threads, ring
  <2>2. pc' = [pc EXCEPT ![c] = "take_advance"] /\ pc[c] = "take_clear"
    BY <2>1 DEF Goto
  <2>3. At({"take_advance"}) = {} /\ At({"take_advance"})' = {c}
    BY <1>1, <1>2, <2>1, <2>2, Alone DEF At, Where, CriticalSteps
  <2>4. Count' = Count /\ \A k : Slot(k)' = Slot(k)
    BY <2>1 DEF Count, Slot
  <2>5. ASSUME NEW k \in 0 .. Count - 1
        PROVE  Content(k)' = Content(k)
    <3>1. k \in Slots
      BY <1>3, SizeAssumption DEF Slots
    <3>2. Slot(0) = front /\ Slot(k) \in Slots /\ (k # 0 => Slot(k) # front)
      BY <1>2, <1>3, <3>1, SlotOrder, SlotFacts
    <3>3. reg[c] = elements[front]
      BY <1>1, <2>1, <2>2 DEF RegistersMatch
    <3>4. Content(k) = elements[Slot(k)]
      BY <2>3 DEF Content
    <3>5. Content(k)' = IF k = 0 THEN reg'[c] ELSE elements'[Slot(k)']
      BY <2>3 DEF Content
    <3> QED BY <1>2, <2>1, <2>4, <3>2, <3>3, <3>4, <3>5
  <2>6. Queue' = Queue
    BY <1>3, <2>4, <2>5, SameQueue
  <2>7. Statuses' = Statuses
    BY <1>1, <2>1, PhaseStep
  <2>8. Holdings' = Holdings
    BY <1>2, <2>1, <2>2 DEF Holdings
  <2> QED BY <2>6, <2>7, <2>8
<1>18. ASSUME NEW c \in Consumers, TakeAdvance(c)
      PROVE  Fifo!CommitTake(c)
  <2>1. c \in Threads /\ c \in Consumers /\ Goto(c, "take_advance", "take_unlock")
        /\ elements' = elements /\ reg' = reg /\ front' = Succ(front)
    BY <1>18 DEF TakeAdvance, Threads, ring
  <2>2. pc' = [pc EXCEPT ![c] = "take_unlock"] /\ pc[c] = "take_advance"
    BY <2>1 DEF Goto
  <2>3. At({"take_advance"}) = {c} /\ At({"take_advance"})' = {}
    BY <1>1, <1>2, <2>1, <2>2, Alone DEF At, Where, CriticalSteps
  <2>4. Count > 0 /\ Count' = Count - 1
    BY <1>18, AdvanceCount
  <2>5. Count - 1 \in Nat
    BY <1>3, <2>4
  <2>6. ASSUME NEW k \in 1 .. Count - 1
        PROVE  Queue'[k] = Queue[k + 1]
    <3>1. k - 1 \in Slots /\ k - 1 # Size /\ k \in 1 .. Count' /\ k + 1 \in 1 .. Count
      BY <1>3, <2>4, SizeAssumption DEF Slots
    <3>2. Slot(k - 1)' = Slot((k - 1) + 1)
      BY <1>2, <2>1, <3>1, SlotShift
    <3>3. Content(k - 1)' = elements[Slot(k - 1)']
      BY <2>1, <2>3 DEF Content
    <3>4. Content((k + 1) - 1) = elements[Slot((k + 1) - 1)]
      BY <2>3, ContentBusy
    <3>5. (k - 1) + 1 = k /\ (k + 1) - 1 = k
      OBVIOUS
    <3> QED BY <3>1, <3>2, <3>3, <3>4, <3>5 DEF Queue
  <2>7. Queue' \in [1 .. Count - 1 -> Elements]
    <3>1. \A k \in 0 .. Count' - 1 : Content(k)' \in Elements
      BY ContentNextType
    <3>2. \A k \in 1 .. Count - 1 : Content(k - 1)' \in Elements
      BY <1>3, <2>4, <3>1
    <3> QED BY <2>4, <3>2 DEF Queue
  <2>8. Queue \in [1 .. (Count - 1) + 1 -> Elements]
    BY <1>3, <1>4
  <2>9. Queue' = Tail(Queue) /\ Head(Queue) = Queue[1] /\ Queue # <<>>
    BY <2>5, <2>6, <2>7, <2>8, TailAs
  <2>10. Queue[1] = reg[c]
    BY <1>3, <2>3, <2>4, ContentBusy DEF Queue
  <2>11. Statuses[c] = "open" /\ Statuses' = [Statuses EXCEPT ![c] = "done"]
    BY <1>1, <2>1, PhaseStep
  <2>12. Holdings' = [Holdings EXCEPT ![c] = reg[c]]
    BY <1>2, <2>1, <2>2 DEF Holdings
  <2> QED BY <2>9, <2>10, <2>11, <2>12 DEF Fifo!CommitTake
<1>19. ASSUME NEW c \in Consumers, TakeUnlock(c)
      PROVE  Stutter
  <2>1. c \in Threads /\ c \in Consumers /\ Goto(c, "take_unlock", "take_up") /\ UNCHANGED ring
        /\ reg' = reg
    BY <1>19 DEF TakeUnlock, Threads, ring
  <2>2. pc' = [pc EXCEPT ![c] = "take_up"] /\ pc[c] = "take_unlock"
    BY <2>1 DEF Goto
  <2>3. Queue' = Queue
    BY <1>1, <1>2, <2>1, <2>2, QuietQueue
  <2>4. Statuses' = Statuses
    BY <1>1, <2>1, PhaseStep
  <2>5. Holdings' = Holdings
    BY <1>2, <2>1, <2>2 DEF Holdings
  <2> QED BY <2>3, <2>4, <2>5
<1>20. ASSUME NEW c \in Consumers, TakeUp(c)
      PROVE  Fifo!Return(c)
  <2>1. c \in Threads /\ c \in Consumers /\ Goto(c, "take_up", "idle") /\ UNCHANGED ring
        /\ reg' = [reg EXCEPT ![c] = Null]
    BY <1>20 DEF TakeUp, Threads, ring
  <2>2. pc' = [pc EXCEPT ![c] = "idle"] /\ pc[c] = "take_up"
    BY <2>1 DEF Goto
  <2>3. Queue' = Queue
    BY <1>1, <1>2, <2>1, <2>2, QuietQueue
  <2>4. Statuses[c] = "done" /\ Statuses' = [Statuses EXCEPT ![c] = "idle"]
    BY <1>1, <2>1, PhaseStep
  <2>5. Holdings' = [Holdings EXCEPT ![c] = Null]
    BY <1>2, <2>1, <2>2 DEF Holdings
  <2> QED BY <2>3, <2>4, <2>5 DEF Fifo!Return
<1>21. ASSUME NEW c \in Consumers, SizeFront(c)
      PROVE  Stutter
  <2>1. c \in Threads /\ c \in Consumers /\ Goto(c, "idle", "size_back") /\ UNCHANGED ring
        /\ reg' = reg
    BY <1>21 DEF SizeFront, Threads, ring
  <2>2. pc' = [pc EXCEPT ![c] = "size_back"] /\ pc[c] = "idle"
    BY <2>1 DEF Goto
  <2>3. Queue' = Queue
    BY <1>1, <1>2, <2>1, <2>2, QuietQueue
  <2>4. Statuses' = Statuses
    BY <1>1, <2>1, PhaseStep
  <2>5. Holdings' = Holdings
    BY <1>2, <2>1, <2>2 DEF Holdings
  <2> QED BY <2>3, <2>4, <2>5
<1>22. ASSUME NEW c \in Consumers, SizeBack(c)
      PROVE  Stutter
  <2>1. c \in Threads /\ c \in Consumers /\ Goto(c, "size_back", "idle") /\ UNCHANGED ring
        /\ reg' = reg
    BY <1>22 DEF SizeBack, Threads, ring
  <2>2. pc' = [pc EXCEPT ![c] = "idle"] /\ pc[c] = "size_back"
    BY <2>1 DEF Goto
  <2>3. Queue' = Queue
    BY <1>1, <1>2, <2>1, <2>2, QuietQueue
  <2>4. Statuses' = Statuses
    BY <1>1, <2>1, PhaseStep
  <2>5. Holdings' = Holdings
    BY <1>2, <2>1, <2>2 DEF Holdings
  <2> QED BY <2>3, <2>4, <2>5
<1> QED BY <1>5, <1>6, <1>7, <1>8, <1>9, <1>10, <1>11, <1>12, <1>13, <1>14, <1>15, <1>16, <1>17, <1>18, <1>19, <1>20, <1>21, <1>22
       DEF Next, Push, Take, SizeCall, Fifo!Next
----------------------------------------------------------------------------
(* Whatever the interleaving and however many threads and slots, the calls *)
(* of push and take behave as those of one bounded first-in first-out      *)
(* queue, each taking effect between its call and its return.              *)
THEOREM Refinement == Spec => ImplementsFifo
<1>1. IndInv /\ IndInv' /\ [Next]_vars => [Fifo!Next]_Fifo!vars
  <2> SUFFICES ASSUME IndInv, IndInv', [Next]_vars PROVE [Fifo!Next]_Fifo!vars
    OBVIOUS
  <2>1. CASE Next
    BY <2>1, StepMaps
  <2>2. CASE UNCHANGED vars
    <3>1. Queue' = Queue /\ Statuses' = Statuses /\ Holdings' = Holdings
      BY <2>2 DEF vars, permits, ring, saw, Queue, Statuses, Holdings, Content,
                  Count, Slot, At
    <3> QED BY <3>1 DEF Fifo!vars
  <2> QED BY <2>1, <2>2
<1> QED BY <1>1, InitMaps, Invariant, PTL DEF Spec, ImplementsFifo, Fifo!Spec
=============================================================================
