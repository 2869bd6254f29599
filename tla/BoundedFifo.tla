---------------------------- MODULE BoundedFifo ----------------------------
(***************************************************************************)
(* What common/ds promises of a blocking queue, with no ring buffer, no    *)
(* semaphore and no lock: a first-in first-out sequence of at most Size    *)
(* elements, and operations that take effect in one step somewhere between *)
(* their call and their return.                                            *)
(***************************************************************************)
EXTENDS Naturals, Sequences

CONSTANTS Producers,  \* threads that push
          Consumers,  \* threads that take
          Elements,   \* what is pushed
          None,       \* the register of a thread that holds no element
          Size        \* how many elements the queue holds

VARIABLES queue,      \* the elements pushed and not yet taken, oldest first
          status,     \* per thread: outside a call, waiting in it, or done
          held        \* per thread: the element it brings or carries away

vars == <<queue, status, held>>

Threads == Producers \cup Consumers

Init == /\ queue = <<>>
        /\ status = [t \in Threads |-> "idle"]
        /\ held = [t \in Threads |-> None]

InvokePush(p, e) == /\ status[p] = "idle"
                    /\ status' = [status EXCEPT ![p] = "open"]
                    /\ held' = [held EXCEPT ![p] = e]
                    /\ UNCHANGED queue

CommitPush(p) == /\ status[p] = "open"
                 /\ Len(queue) < Size
                 /\ queue' = Append(queue, held[p])
                 /\ status' = [status EXCEPT ![p] = "done"]
                 /\ UNCHANGED held

InvokeTake(c) == /\ status[c] = "idle"
                 /\ status' = [status EXCEPT ![c] = "open"]
                 /\ UNCHANGED <<queue, held>>

CommitTake(c) == /\ status[c] = "open"
                 /\ queue # <<>>
                 /\ held' = [held EXCEPT ![c] = Head(queue)]
                 /\ queue' = Tail(queue)
                 /\ status' = [status EXCEPT ![c] = "done"]

Return(t) == /\ status[t] = "done"
             /\ status' = [status EXCEPT ![t] = "idle"]
             /\ held' = [held EXCEPT ![t] = None]
             /\ UNCHANGED queue

Next == \/ \E p \in Producers : \/ \E e \in Elements : InvokePush(p, e)
                                \/ CommitPush(p)
                                \/ Return(p)
        \/ \E c \in Consumers : InvokeTake(c) \/ CommitTake(c) \/ Return(c)

Spec == Init /\ [][Next]_vars
=============================================================================
