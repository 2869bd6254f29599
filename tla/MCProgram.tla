------------------------------- MODULE MCProgram -------------------------------
(* What a program does beside its connections, for the model checker: a    *)
(* proof (see MCRtz14), a queue between two threads, and the tables of     *)
(* descriptors and threads with a peer and an arena as their users.  A     *)
(* behaviour is that of one of the three.                                  *)
EXTENDS MCRtz14, Osal, TLC

CONSTANTS Parts,               \* those that are used
          producer, consumer,  \* the threads of the queue
          peer, arena

VARIABLES part,
          inserts, takeouts, qlock, elements, front, back, pc, reg, sawFront, sawSize

Pair == INSTANCE BlkQueue WITH Producers <- {producer}, Consumers <- {consumer},
                               Elements <- {1, 2}, Size <- 2, lock <- qlock
pairVars == <<inserts, takeouts, qlock, elements, front, back, pc, reg, sawFront, sawSize>>

PeerAndArena == {peer, arena}
AsInCarena == peer :> "join_first" @@ arena :> "close_first"

NoProof == /\ circuit = PatchOne(XorChain(1), address_of_one)
           /\ \A i \in DOMAIN witness : witness[i] = 0

ProgramInit == /\ part \in Parts
               /\ Init /\ Pair!Init /\ OsalInit
               /\ part # "proof" => NoProof

ProgramNext == /\ UNCHANGED part
               /\ \/ part = "proof" /\ Next
                  \/ part # "proof" /\ UNCHANGED vars
               /\ \/ part = "queue" /\ Pair!Next
                  \/ part # "queue" /\ UNCHANGED pairVars
               /\ \/ part = "osal" /\ OsalNext
                  \/ part # "osal" /\ UNCHANGED osalVars

(* Both programs of a proof run, and what is sent arrives.                 *)
ProofFairness == /\ WF_vars(part = "proof" /\ Prover)
                 /\ WF_vars(part = "proof" /\ Verifier)

(* The scheduler runs every thread.  Of a queue: a consumer always comes   *)
(* back for more, however often it asks for the size in between; the       *)
(* producer need not push again.                                           *)
QueueFairness == /\ WF_pairVars(part = "queue" /\ Pair!Push(producer) /\ pc[producer] # "idle")
                 /\ WF_pairVars(part = "queue" /\ Pair!Take(consumer) /\ pc[consumer] # "idle")
                 /\ WF_pairVars(part = "queue" /\ Pair!SizeBack(consumer))
                 /\ SF_pairVars(part = "queue" /\ Pair!CallTake(consumer))

(* Of the tables: nobody has to stop; read and write return, accept only   *)
(* when a client comes.                                                    *)
OsalFairness ==
  /\ \A u \in Users : WF_osalVars(part = "osal" /\ OsalUser(u))
  /\ \A w \in Workers : WF_osalVars(part = "osal" /\ Thread(w))
  /\ \A r \in 1 .. Rounds : WF_osalVars(part = "osal" /\ Return(<<peer, r>>))

ProgramSpec == /\ ProgramInit /\ [][ProgramNext]_<<part, vars, pairVars, osalVars>>
               /\ ProofFairness /\ QueueFairness /\ OsalFairness

(* What BlkQueue says of a queue with one consumer, which carena asks for  *)
(* its size: size() promises it no element that is missing.                *)
SoleConsumerSeesData == Pair!SoleConsumerSeesData

(* No call of the queue waits for ever on a queue that can serve it.       *)
CallsReturn == Pair!CallsReturn
===============================================================================
