-------------------------------- MODULE Arena --------------------------------
(***************************************************************************)
(* The arena of common/carena/src/carena.c: how programs find each other.  *)
(* A program may wait for peers with listen_wait and then connects to      *)
(* others; a client reaches a server over two connections, the second of   *)
(* which names the peer that the first one made:                           *)
(*                                                                         *)
(*   client                        listener thread of the server           *)
(*   open 1, send 1024        -->  a new peer, in = 1; send its id         *)
(*   read the id, open 2, send it  -->  that peer's out = 2, notify        *)
(*                                                                         *)
(* The sections under the arena's lock wait for nothing and are one step   *)
(* each.  What peers then do is PeerChannel's.                             *)
(***************************************************************************)
EXTENDS IntEncoding, FiniteSets

CONSTANTS Nodes,      \* the programs
          Scenarios,  \* what they are to do: [expected, targets]
          MayCrash,   \* the programs that may be killed
          Cuts,       \* where a read of four bytes may be cut; 0: nowhere
          Null

(* A connection is named by its ends, so nobody connects to the same       *)
(* program twice or to itself.  An id is less than 1024, the number that   *)
(* asks for a new peer: each program has at most two peers of another.     *)
ASSUME ArenaAssumption ==
  /\ IsFiniteSet(Nodes) /\ 2 * Cardinality(Nodes) <= 1024
  /\ \A s \in Scenarios :
       /\ s.expected \in [Nodes -> Nat]
       /\ s.targets \in [Nodes -> Seq(Nodes)]
       /\ \A n \in Nodes : \A i, j \in DOMAIN s.targets[n] :
            /\ s.targets[n][i] # n
            /\ s.targets[n][i] = s.targets[n][j] => i = j
  /\ Cuts \subseteq 0 .. 3
  /\ Null \notin Nodes \X Nodes \X {1, 2}

Connections == Nodes \X Nodes \X {1, 2}   \* from, to, which of the two

VARIABLES scenario,
          usr,           \* where each program's user thread is
          next,          \* how many of its targets it is through with
          myid,          \* the id its connect was given
          server,        \* whether its server socket is open
          running,
          listen_ready,  \* the mutex: TRUE when taken
          conn_obs,      \* whether its connection listener is in the list
          observer,      \* that listener: "none", "alive" or "freed"
          count, hold,   \* its fields; hold is a mutex
          lst,           \* where the listener thread is
          client,        \* the connection in its hands
          peers,         \* the arena's list: fd_in and fd_out of each peer
          backlog,       \* connections not yet accepted
          dropped,       \* connections the server has closed
          up, down,      \* integers sent and not yet read, per connection
          garbled        \* history: a program read what nobody had sent

listenVars == <<server, running, lst, client, backlog, dropped>>
waitVars == <<listen_ready, conn_obs, observer, count, hold>>
connectVars == <<next, myid>>
vars == <<scenario, usr, connectVars, listenVars, waitVars, peers, up, down, garbled>>

expected == scenario.expected
targets == scenario.targets
Target(n) == targets[n][next[n] + 1]

Init == /\ scenario \in Scenarios
        /\ usr = [n \in Nodes |-> "start"]
        /\ next = [n \in Nodes |-> 0]
        /\ myid = [n \in Nodes |-> 0]
        /\ server = [n \in Nodes |-> FALSE]
        /\ running = [n \in Nodes |-> TRUE]
        /\ listen_ready = [n \in Nodes |-> FALSE]
        /\ conn_obs = [n \in Nodes |-> FALSE]
        /\ observer = [n \in Nodes |-> "none"]
        /\ count = [n \in Nodes |-> 0]
        /\ hold = [n \in Nodes |-> FALSE]
        /\ lst = [n \in Nodes |-> "none"]
        /\ client = [n \in Nodes |-> Null]
        /\ peers = [n \in Nodes |-> <<>>]
        /\ backlog = [n \in Nodes |-> <<>>]
        /\ dropped = {}
        /\ up = [c \in Connections |-> <<>>]
        /\ down = [c \in Connections |-> <<>>]
        /\ garbled = FALSE

Goto(n, from, to) == usr[n] = from /\ usr' = [usr EXCEPT ![n] = to]
GotoL(n, from, to) == lst[n] = from /\ lst' = [lst EXCEPT ![n] = to]

Gone(n) == usr[n] \in {"failed", "destroyed"}
----------------------------------------------------------------------------
(* read_int: when the four bytes come in two reads, the second read starts *)
(* at the front of the buffer again.                                       *)
Reassembled(b, k) == IF k = 0 THEN b
                     ELSE [j \in 1 .. 4 |-> IF j <= 4 - k THEN b[k + j]
                                            ELSE IF j <= k THEN b[j] ELSE 0]

(* What read_int may return: the integer sent, as the cuts leave it, or    *)
(* zero once the other end has closed; nothing while it waits.             *)
Reads(stream, closed) ==
  IF stream # <<>> THEN {B2I(Reassembled(I2B(Head(stream)), k)) : k \in Cuts}
  ELSE IF closed THEN {0} ELSE {}

Misread(stream, id) == stream = <<>> \/ id # Head(stream)
Rest(stream) == IF stream = <<>> THEN <<>> ELSE Tail(stream)
----------------------------------------------------------------------------
(* The user thread: listen_wait.                                           *)

(* "if (no == 0) goto failure": the default listener comes and goes.       *)
ListenForNobody(n) == /\ expected[n] = 0
                      /\ Goto(n, "start", "connect")
                      /\ UNCHANGED <<scenario, connectVars, listenVars, waitVars,
                                     peers, up, down, garbled>>

\* Mutant of Listen: the default listener is made without its hold taken.
Listen_HoldFree(n) ==
  /\ expected[n] > 0
  /\ Goto(n, "start", "listening")
  /\ observer' = [observer EXCEPT ![n] = "alive"]
  /\ count' = [count EXCEPT ![n] = expected[n]]
  /\ conn_obs' = [conn_obs EXCEPT ![n] = TRUE]
  /\ server' = [server EXCEPT ![n] = TRUE]
  /\ listen_ready' = [listen_ready EXCEPT ![n] = TRUE]
  /\ lst' = [lst EXCEPT ![n] = "loop"]
  /\ UNCHANGED <<scenario, connectVars, running, client, backlog, dropped, hold,
                 peers, up, down, garbled>>

(* Make the default listener, with its hold taken, add it, open the server *)
(* socket, take listen_ready and start the thread.                         *)
Listen(n) == /\ expected[n] > 0
             /\ Goto(n, "start", "listening")
             /\ observer' = [observer EXCEPT ![n] = "alive"]
             /\ count' = [count EXCEPT ![n] = expected[n]]
             /\ hold' = [hold EXCEPT ![n] = TRUE]
             /\ conn_obs' = [conn_obs EXCEPT ![n] = TRUE]
             /\ server' = [server EXCEPT ![n] = TRUE]
             /\ listen_ready' = [listen_ready EXCEPT ![n] = TRUE]
             /\ lst' = [lst EXCEPT ![n] = "loop"]
             /\ UNCHANGED <<scenario, connectVars, running, client, backlog, dropped,
                            peers, up, down, garbled>>

(* The port cannot be had: the listener is freed but stays in the list,    *)
(* and the program gives up.                                               *)
ListenFails(n) == /\ expected[n] > 0
                  /\ Goto(n, "start", "failed")
                  /\ observer' = [observer EXCEPT ![n] = "freed"]
                  /\ conn_obs' = [conn_obs EXCEPT ![n] = TRUE]
                  /\ UNCHANGED <<scenario, connectVars, listenVars, listen_ready, count,
                                 hold, peers, up, down, garbled>>

(* Taking listen_ready a second time waits for the thread to run.          *)
ListenReady(n) == /\ Goto(n, "listening", "wait")
                  /\ ~listen_ready[n]
                  /\ listen_ready' = [listen_ready EXCEPT ![n] = TRUE]
                  /\ UNCHANGED <<scenario, connectVars, listenVars, conn_obs, observer,
                                 count, hold, peers, up, down, garbled>>

Wait(n) == /\ Goto(n, "wait", "remove")
           /\ ~hold[n]
           /\ hold' = [hold EXCEPT ![n] = TRUE]
           /\ UNCHANGED <<scenario, connectVars, listenVars, listen_ready, conn_obs,
                          observer, count, peers, up, down, garbled>>

RemoveListener(n) == /\ Goto(n, "remove", "free")
                     /\ conn_obs' = [conn_obs EXCEPT ![n] = FALSE]
                     /\ UNCHANGED <<scenario, connectVars, listenVars, listen_ready,
                                    observer, count, hold, peers, up, down, garbled>>

FreeListener(n) == /\ Goto(n, "free", "connect")
                   /\ observer' = [observer EXCEPT ![n] = "freed"]
                   /\ UNCHANGED <<scenario, connectVars, listenVars, listen_ready,
                                  conn_obs, count, hold, peers, up, down, garbled>>
----------------------------------------------------------------------------
(* The user thread: connect, once for each target.                         *)

SetOf(s) == {s[i] : i \in DOMAIN s}

(* The server socket goes, and with it the connections nobody accepted.    *)
StopListening(n) == /\ server' = [server EXCEPT ![n] = FALSE]
                    /\ dropped' = dropped \cup SetOf(backlog[n])
                    /\ backlog' = [backlog EXCEPT ![n] = <<>>]

(* The program ends, and its threads and sockets with it.                  *)
Exit(n) == /\ StopListening(n)
           /\ lst' = [lst EXCEPT ![n] = "ended"]
           /\ UNCHANGED <<scenario, connectVars, running, client, waitVars, peers,
                          up, down, garbled>>

Enqueue(c) == /\ server[c[2]]
              /\ backlog' = [backlog EXCEPT ![c[2]] = Append(@, c)]
              /\ UNCHANGED <<server, running, lst, client, dropped>>

OpenOut(n) == /\ next[n] < Len(targets[n])
              /\ Goto(n, "connect", "hello")
              /\ Enqueue(<<n, Target(n), 1>>)
              /\ UNCHANGED <<scenario, connectVars, waitVars, peers, up, down, garbled>>

(* "Could not connect.": nobody listens there, for the first connection or *)
(* for the second; the program gives up.                                   *)
OpenFails(n) == /\ next[n] < Len(targets[n])
                /\ ~server[Target(n)]
                /\ Goto(n, "connect", "failed") \/ Goto(n, "open_in", "failed")
                /\ Exit(n)

Hello(n) == /\ Goto(n, "hello", "await_id")
            /\ up' = [up EXCEPT ![<<n, Target(n), 1>>] = Append(@, 1024)]
            /\ UNCHANGED <<scenario, connectVars, listenVars, waitVars, peers, down,
                           garbled>>

(* A connection is closed at the server's end when the server is gone,     *)
(* when it has dropped it or when it stopped listening before accepting it.*)
ClosedByServer(c) == Gone(c[2]) \/ c \in dropped

ReadMyId(n) == LET c == <<n, Target(n), 1>>
               IN  /\ Goto(n, "await_id", "open_in")
                   /\ \E id \in Reads(down[c], ClosedByServer(c)) :
                        /\ myid' = [myid EXCEPT ![n] = id]
                        /\ garbled' = (garbled \/ Misread(down[c], id))
                   /\ down' = [down EXCEPT ![c] = Rest(@)]
                   /\ UNCHANGED <<scenario, next, listenVars, waitVars, peers, up>>

OpenIn(n) == /\ Goto(n, "open_in", "send_id")
             /\ Enqueue(<<n, Target(n), 2>>)
             /\ UNCHANGED <<scenario, connectVars, waitVars, peers, up, down, garbled>>

SendMyId(n) == /\ Goto(n, "send_id", "add_peer")
               /\ up' = [up EXCEPT ![<<n, Target(n), 2>>] = Append(@, myid[n])]
               /\ UNCHANGED <<scenario, connectVars, listenVars, waitVars, peers,
                              down, garbled>>

(* The connection listeners are told too; by now the program has removed   *)
(* the only one there was.                                                 *)
AddPeer(n) == /\ Goto(n, "add_peer", "connect")
              /\ peers' = [peers EXCEPT ![n] =
                             Append(@, [in |-> <<n, Target(n), 2>>,
                                        out |-> <<n, Target(n), 1>>])]
              /\ next' = [next EXCEPT ![n] = @ + 1]
              /\ UNCHANGED <<scenario, myid, listenVars, waitVars, up, down, garbled>>

(* All peers are there; the program goes on to use them.                   *)
Ready(n) == /\ next[n] = Len(targets[n])
            /\ Goto(n, "connect", "ready")
            /\ UNCHANGED <<scenario, connectVars, listenVars, waitVars, peers, up, down,
                           garbled>>
----------------------------------------------------------------------------
(* CArena_destroy: stop the listener thread, close the server socket, join *)
(* the thread, destroy the peers.                                          *)

\* Mutant of Destroy: the server socket stays open until the join.
Destroy_NotClosed(n) == /\ Goto(n, "ready", "joining")
                        /\ running' = [running EXCEPT ![n] = FALSE]
                        /\ UNCHANGED <<scenario, connectVars, server, lst, client,
                                       backlog, dropped, waitVars, peers, up, down,
                                       garbled>>

Destroy(n) == /\ Goto(n, "ready", "joining")
              /\ running' = [running EXCEPT ![n] = FALSE]
              /\ StopListening(n)
              /\ UNCHANGED <<scenario, connectVars, lst, client, waitVars, peers, up,
                             down, garbled>>

JoinListener(n) == /\ Goto(n, "joining", "destroyed")
                   /\ lst[n] \in {"none", "ended"}
                   /\ UNCHANGED <<scenario, connectVars, listenVars, waitVars, peers,
                                  up, down, garbled>>

Crash(n) == /\ n \in MayCrash
            /\ ~Gone(n)
            /\ usr' = [usr EXCEPT ![n] = "failed"]
            /\ Exit(n)

ListenWait(n) == \/ ListenForNobody(n) \/ Listen(n) \/ ListenFails(n)
                 \/ ListenReady(n) \/ Wait(n) \/ RemoveListener(n) \/ FreeListener(n)
Connect(n) == \/ OpenOut(n) \/ OpenFails(n) \/ Hello(n) \/ ReadMyId(n)
              \/ OpenIn(n) \/ SendMyId(n) \/ AddPeer(n)
User(n) == ListenWait(n) \/ Connect(n) \/ Ready(n) \/ JoinListener(n)
----------------------------------------------------------------------------
(* carena_listener_thread                                                  *)

\* Mutant of Loop: listen_ready is left taken.
Loop_NotReady(n) == /\ lst[n] = "loop"
                    /\ lst' = [lst EXCEPT ![n] = IF running[n] THEN "accept" ELSE "ended"]
                    /\ UNCHANGED <<scenario, usr, connectVars, server, running, client,
                                   backlog, dropped, waitVars, peers, up, down, garbled>>

Loop(n) == /\ lst[n] = "loop"
           /\ lst' = [lst EXCEPT ![n] = IF running[n] THEN "accept" ELSE "ended"]
           /\ listen_ready' = [listen_ready EXCEPT ![n] = @ /\ ~running[n]]
           /\ UNCHANGED <<scenario, usr, connectVars, server, running, client,
                          backlog, dropped, conn_obs, observer, count, hold, peers,
                          up, down, garbled>>

Accept(n) == /\ GotoL(n, "accept", "id")
             /\ backlog[n] # <<>>
             /\ client' = [client EXCEPT ![n] = Head(backlog[n])]
             /\ backlog' = [backlog EXCEPT ![n] = Tail(@)]
             /\ UNCHANGED <<scenario, usr, connectVars, server, running, dropped,
                            waitVars, peers, up, down, garbled>>

(* "Listening for clients failed": the socket has been closed.             *)
AcceptFails(n) == /\ GotoL(n, "accept", "ended")
                  /\ ~server[n]
                  /\ running' = [running EXCEPT ![n] = FALSE]
                  /\ UNCHANGED <<scenario, usr, connectVars, server, client, backlog,
                                 dropped, waitVars, peers, up, down, garbled>>

(* What the listener may read from the connection in its hands, and what   *)
(* reading id does to the stream.                                          *)
Ids(n) == LET c == client[n] IN Reads(up[c], Gone(c[1]))
ReadId(n, id) == LET c == client[n]
                 IN  /\ up' = [up EXCEPT ![c] = Rest(@)]
                     /\ garbled' = (garbled \/ Misread(up[c], id))

\* Mutant of Register: the id is the number of peers after adding.
Register_IdTooHigh(n) ==
  /\ GotoL(n, "id", "loop")
  /\ \E id \in Ids(n) : id = 1024 /\ ReadId(n, id)
  /\ down' = [down EXCEPT ![client[n]] = Append(@, Len(peers[n]) + 1)]
  /\ peers' = [peers EXCEPT ![n] = Append(@, [in |-> client[n], out |-> Null])]
  /\ UNCHANGED <<scenario, usr, connectVars, server, running, client, backlog,
                 dropped, waitVars>>

(* 1024 asks for a new peer, whose id is its place in the list.            *)
Register(n) ==
  /\ GotoL(n, "id", "loop")
  /\ \E id \in Ids(n) : id = 1024 /\ ReadId(n, id)
  /\ down' = [down EXCEPT ![client[n]] = Append(@, Len(peers[n]))]
  /\ peers' = [peers EXCEPT ![n] = Append(@, [in |-> client[n], out |-> Null])]
  /\ UNCHANGED <<scenario, usr, connectVars, server, running, client, backlog,
                 dropped, waitVars>>

\* Mutant of SetOut: it is the newest peer's fd_out.
SetOut_NewestPeer(n) ==
  /\ GotoL(n, "id", "notify")
  /\ \E id \in Ids(n) : id < 1024 /\ id < Len(peers[n]) /\ ReadId(n, id)
  /\ peers' = [peers EXCEPT ![n][Len(peers[n])].out = client[n]]
  /\ UNCHANGED <<scenario, usr, connectVars, server, running, client,
                 backlog, dropped, waitVars, down>>

(* A smaller number names the peer whose fd_out this connection becomes.   *)
SetOut(n) == /\ GotoL(n, "id", "notify")
             /\ \E id \in Ids(n) :
                  /\ id < 1024 /\ id < Len(peers[n])
                  /\ ReadId(n, id)
                  /\ peers' = [peers EXCEPT ![n][id + 1].out = client[n]]
             /\ UNCHANGED <<scenario, usr, connectVars, server, running, client,
                            backlog, dropped, waitVars, down>>

(* "Out Stream from client not registered..."                              *)
DropClient(n) == /\ GotoL(n, "id", "loop")
                 /\ \E id \in Ids(n) :
                      id < 1024 /\ id >= Len(peers[n]) /\ ReadId(n, id)
                 /\ dropped' = dropped \cup {client[n]}
                 /\ UNCHANGED <<scenario, usr, connectVars, server, running, client,
                                backlog, waitVars, peers, down>>

(* Any other number is passed over, and the connection left open.          *)
IgnoreClient(n) == /\ GotoL(n, "id", "loop")
                   /\ \E id \in Ids(n) : id > 1024 /\ ReadId(n, id)
                   /\ UNCHANGED <<scenario, usr, connectVars, server, running, client,
                                  backlog, dropped, waitVars, peers, down>>

(* Look for a connection listener, with no lock held...                    *)
FindListener(n) == /\ lst[n] = "notify"
                   /\ lst' = [lst EXCEPT ![n] = IF conn_obs[n] THEN "call" ELSE "loop"]
                   /\ UNCHANGED <<scenario, usr, connectVars, server, running, client,
                                  backlog, dropped, waitVars, peers, up, down, garbled>>

\* Mutant of ClientConnected: one client short of the number is enough.
ClientConnected_OneEarly(n) ==
  /\ lst[n] = "call"
  /\ count' = [count EXCEPT ![n] = @ - 1]
  /\ lst' = [lst EXCEPT ![n] = IF count'[n] \in {0, 1} THEN "release" ELSE "loop"]
  /\ UNCHANGED <<scenario, usr, connectVars, server, running, client, backlog, dropped,
                 listen_ready, conn_obs, observer, hold, peers, up, down, garbled>>

(* ... and call it: count down.  c is unsigned, so "c <= 0" is c = 0.       *)
ClientConnected(n) ==
  /\ lst[n] = "call"
  /\ count' = [count EXCEPT ![n] = @ - 1]
  /\ lst' = [lst EXCEPT ![n] = IF count'[n] = 0 THEN "release" ELSE "loop"]
  /\ UNCHANGED <<scenario, usr, connectVars, server, running, client, backlog, dropped,
                 listen_ready, conn_obs, observer, hold, peers, up, down, garbled>>

ReleaseHold(n) == /\ GotoL(n, "release", "loop")
                  /\ hold' = [hold EXCEPT ![n] = FALSE]
                  /\ UNCHANGED <<scenario, usr, connectVars, server, running, client,
                                 backlog, dropped, listen_ready, conn_obs, observer,
                                 count, peers, up, down, garbled>>

Listener(n) == \/ Loop(n) \/ Accept(n) \/ AcceptFails(n) \/ Register(n)
               \/ SetOut(n) \/ DropClient(n) \/ IgnoreClient(n)
               \/ FindListener(n) \/ ClientConnected(n) \/ ReleaseHold(n)
----------------------------------------------------------------------------
Next == \E n \in Nodes : User(n) \/ Destroy(n) \/ Crash(n) \/ Listener(n)

Spec == Init /\ [][Next]_vars

(* Threads run; nobody has to destroy an arena, and nobody has to crash.   *)
Fairness == \A n \in Nodes : WF_vars(User(n)) /\ WF_vars(Listener(n))

FairSpec == Spec /\ Fairness
----------------------------------------------------------------------------
Clients(n) == {m \in Nodes : \E i \in DOMAIN targets[m] : targets[m][i] = n}

(* Everybody waits for exactly those who will come, and reads what was     *)
(* sent.                                                                   *)
Exact == \A n \in Nodes : expected[n] = Cardinality(Clients(n))

(* A peer's two streams lead to one and the same program, which has its    *)
(* own two crossed with them.                                              *)
StreamsPaired ==
  ~garbled =>
    \A n \in Nodes : \A i \in DOMAIN peers[n] :
      LET p == peers[n][i]
      IN  \/ p.in[2] = n /\ p.in[3] = 1 /\ p.out \in {Null, <<p.in[1], n, 2>>}
          \/ p.in[1] = n /\ p.in[3] = 2 /\ p.out = <<n, p.in[2], 1>>

Served(n) == {i \in DOMAIN peers[n] : peers[n][i].in[2] = n /\ peers[n][i].out # Null}

(* listen_wait does not come back before as many clients as it was told    *)
(* have both their connections.                                            *)
WaitsForClients ==
  \A n \in Nodes :
    ~garbled /\ usr[n] \notin {"start", "listening", "wait", "failed"} =>
      Cardinality(Served(n)) >= expected[n]

(* When everybody who comes was waited for, every peer get_peer may hand   *)
(* out can be sent to.                                                     *)
PeersUsable ==
  \A n \in Nodes :
    Exact /\ ~garbled /\ usr[n] = "ready" =>
      \A i \in DOMAIN peers[n] : peers[n][i].out # Null

(* Nor is a connection listener called once it has been freed.             *)
ListenerAlive ==
  \A n \in Nodes :
    Exact /\ ~garbled /\ lst[n] \in {"call", "release"} => observer[n] = "alive"

(* Everybody finds everybody, unless a program failed or a number was      *)
(* garbled.                                                                *)
EverybodyReady ==
  Exact => <>(\/ \A n \in Nodes : usr[n] \in {"ready", "joining", "destroyed"}
              \/ garbled
              \/ \E n \in Nodes : usr[n] = "failed")

(* Destroying an arena ends, whatever its clients are doing: the join of    *)
(* the listener thread comes back.  What its peers do then is PeerChannel. *)
DestroyReturns == \A n \in Nodes : usr[n] = "joining" ~> usr[n] # "joining"

(* "Start listening for incoming peers on {port} until {no} peers has      *)
(* connected.  Then stop listening and return." (carena.h:118)             *)
StopsListening ==
  \A n \in Nodes :
    ~garbled /\ usr[n] \in {"connect", "ready"} => Cardinality(Served(n)) <= expected[n]
=============================================================================
