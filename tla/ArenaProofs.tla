----------------------------- MODULE ArenaProofs -----------------------------
(***************************************************************************)
(* For any programs, scenarios, kills and cuts: as long as nobody has read *)
(* a number that was not sent, the two streams of a peer belong together,  *)
(* listen_wait returns when as many clients as expected have both, and - if *)
(* everybody expects exactly those who come - all peers can be used and no *)
(* connection listener is called after it was freed.                       *)
(*                                                                         *)
(* The invariant says of every connection where it can be: opened by a     *)
(* client that came so far, then at one place of the server at most, in    *)
(* the backlog, in the listener's hands or a stream of one peer; and of    *)
(* every id on its way which peer it names.                                *)
(***************************************************************************)
EXTENDS Arena, FiniteSetTheorems, TLAPS

Peer == [in : Connections, out : Connections \cup {Null}]

TypeOK ==
  /\ scenario \in Scenarios
  /\ usr \in [Nodes -> {"start", "listening", "wait", "remove", "free", "connect", "hello",
                        "await_id", "open_in", "send_id", "add_peer", "ready", "joining",
                        "destroyed", "failed"}]
  /\ next \in [Nodes -> Nat] /\ \A n \in Nodes : next[n] <= Len(targets[n])
  /\ myid \in [Nodes -> Nat]
  /\ observer \in [Nodes -> {"none", "alive", "freed"}]
  /\ conn_obs \in [Nodes -> BOOLEAN]
  /\ count \in [Nodes -> Int] /\ hold \in [Nodes -> BOOLEAN]
  /\ lst \in [Nodes -> {"none", "loop", "accept", "id", "notify", "call", "release",
                        "ended"}]
  /\ client \in [Nodes -> Connections \cup {Null}]
  /\ peers \in [Nodes -> Seq(Peer)]
  /\ backlog \in [Nodes -> Seq(Connections)]
  /\ up \in [Connections -> Seq(Nat)] /\ down \in [Connections -> Seq(Nat)]
  /\ garbled \in BOOLEAN

(* Program m has come to its target n, and when that is the target it is   *)
(* at, as far as one of the given places.                                  *)
Reached(m, n, places) ==
  \E j \in DOMAIN targets[m] :
    targets[m][j] = n /\ (j <= next[m] \/ (j = next[m] + 1 /\ usr[m] \in places))

Connecting == {"hello", "await_id", "open_in", "send_id", "add_peer"}
OpenedIn == {"send_id", "add_peer", "failed"}

(* Its client may have opened connection c.                                *)
Opened(c) == Reached(c[1], c[2], IF c[3] = 1 THEN Connecting \cup {"failed"}
                                 ELSE OpenedIn)

InHand(n) == IF lst[n] = "id" THEN {client[n]} ELSE {}
Waiting(n) == SetOf(backlog[n]) \cup InHand(n)

(* What the place of a user thread says of its listener.                   *)
UsersInStep ==
  \A n \in Nodes :
    /\ usr[n] \in Connecting => next[n] < Len(targets[n])
    /\ usr[n] = "start" => lst[n] = "none" /\ peers[n] = <<>>
    /\ usr[n] = "failed" => lst[n] \in {"none", "ended"}
    /\ usr[n] \in {"listening", "wait", "remove", "free"} => observer[n] = "alive"
    /\ usr[n] \in {"listening", "wait", "remove"} => conn_obs[n]

(* A connection waits once, where it leads to, after it was opened.        *)
ConnectionsOnce ==
  \A n \in Nodes :
    /\ \A i, j \in DOMAIN backlog[n] : backlog[n][i] = backlog[n][j] => i = j
    /\ lst[n] = "id" => client[n] \in Connections /\ client[n] \notin SetOf(backlog[n])
    /\ \A c \in Waiting(n) : c[2] = n /\ Opened(c)

(* A peer is of a client or of a target, of each only once, and has only   *)
(* connections that wait no more.                                          *)
OfClient(n, p) == p.in[2] = n /\ Opened(p.in) /\ p.in \notin Waiting(n)
OfTarget(n, p) == /\ p.in[1] = n /\ p.in[3] = 2 /\ p.out # Null
                  /\ Reached(n, p.in[2], {})

PeersOnce ==
  \A n \in Nodes : \A i \in DOMAIN peers[n] :
    /\ OfClient(n, peers[n][i]) \/ OfTarget(n, peers[n][i])
    /\ peers[n][i].out # Null =>
         Opened(peers[n][i].out) /\ peers[n][i].out \notin Waiting(n)
    /\ \A j \in DOMAIN peers[n] : peers[n][i].in = peers[n][j].in => i = j

(* Number id names the peer that server n made for client m.               *)
Names(m, n, id) == /\ id < 1024 /\ id + 1 \in DOMAIN peers[n]
                   /\ peers[n][id + 1].in = <<m, n, 1>>

Asks(s) == \A i \in DOMAIN s : s[i] = 1024
AllName(m, n, s) == \A i \in DOMAIN s : Names(m, n, s[i])

(* Every id that a client was sent, has read or sends back names its peer. *)
IdsName ==
  \A m \in Nodes :
    /\ usr[m] \in {"open_in", "send_id"} => Names(m, Target(m), myid[m])
    /\ \A n \in Nodes : /\ Asks(up[<<m, n, 1>>])
                        /\ AllName(m, n, down[<<m, n, 1>>])
                        /\ AllName(m, n, up[<<m, n, 2>>])

PairedAt(n) ==
  \A i \in DOMAIN peers[n] :
    LET p == peers[n][i]
    IN  \/ p.in[2] = n /\ p.in[3] = 1 /\ p.out \in {Null, <<p.in[1], n, 2>>}
        \/ p.in[1] = n /\ p.in[3] = 2 /\ p.out = <<n, p.in[2], 1>>

(* While listen_wait waits, count is how many are still to come; when it   *)
(* is over there were enough.                                              *)
CountedAt(n) ==
  /\ usr[n] \in {"listening", "wait"} =>
       /\ Cardinality(Served(n)) + count[n]
            = expected[n] + (IF lst[n] \in {"notify", "call"} THEN 1 ELSE 0)
       /\ ~hold[n] \/ lst[n] = "release" => Cardinality(Served(n)) >= expected[n]
       /\ Exact /\ ~hold[n] => lst[n] \notin {"notify", "call", "release"}
       /\ Exact /\ lst[n] = "release" => count[n] = 0
  /\ usr[n] \notin {"start", "listening", "wait", "failed"} =>
       /\ Cardinality(Served(n)) >= expected[n]
       /\ Exact => lst[n] \notin {"notify", "call", "release"}

ClientsCounted == \A n \in Nodes : CountedAt(n)

ArenaInv == /\ TypeOK /\ UsersInStep /\ ConnectionsOnce /\ PeersOnce
            /\ ~garbled => StreamsPaired /\ IdsName /\ ClientsCounted
----------------------------------------------------------------------------
(* What the assumption says of the scenario at hand.                       *)
LEMMA Given ==
  ASSUME scenario \in Scenarios
  PROVE  /\ expected \in [Nodes -> Nat] /\ targets \in [Nodes -> Seq(Nodes)]
         /\ \A n \in Nodes : \A i, j \in DOMAIN targets[n] :
              targets[n][i] # n /\ (targets[n][i] = targets[n][j] => i = j)
BY ArenaAssumption DEF expected, targets

LEMMA Ends ==
  /\ Null \notin Connections
  /\ \A c \in Connections : /\ c[1] \in Nodes /\ c[2] \in Nodes /\ c[3] \in {1, 2}
                            /\ c = <<c[1], c[2], c[3]>>
  /\ \A m, n \in Nodes : <<m, n, 1>> \in Connections /\ <<m, n, 2>> \in Connections
BY ArenaAssumption DEF Connections

LEMMA TargetIs ==
  ASSUME TypeOK, NEW n \in Nodes, next[n] < Len(targets[n])
  PROVE  /\ next[n] + 1 \in DOMAIN targets[n] /\ targets[n][next[n] + 1] = Target(n)
         /\ Target(n) \in Nodes /\ Target(n) # n
         /\ <<n, Target(n), 1>> \in Connections /\ <<n, Target(n), 2>> \in Connections
<1>1. /\ targets \in [Nodes -> Seq(Nodes)] /\ next[n] \in Nat
      /\ \A i \in DOMAIN targets[n] : targets[n][i] # n
  BY Given DEF TypeOK
<1>2. targets[n] \in Seq(Nodes) /\ Len(targets[n]) \in Nat
      /\ DOMAIN targets[n] = 1 .. Len(targets[n])
  BY <1>1
<1>3. next[n] + 1 \in DOMAIN targets[n] /\ targets[n][next[n] + 1] = Target(n)
  BY <1>1, <1>2 DEF Target
<1>4. Target(n) \in Nodes /\ Target(n) # n
  BY <1>1, <1>2, <1>3
<1> QED BY <1>3, <1>4, Ends

LEMMA BytesAreNumbers ==
  ASSUME NEW i \in Nat
  PROVE  /\ I2B(i)[1] \in Nat /\ I2B(i)[2] \in Nat
         /\ I2B(i)[3] \in Nat /\ I2B(i)[4] \in Nat
<1> DEFINE w == (i \div 16777216) % 256
           x == (i \div 65536) % 256
           y == (i \div 256) % 256
           z == i % 256
<1>1. w \in Nat /\ x \in Nat /\ y \in Nat /\ z \in Nat
  BY SMT
<1>2. I2B(i) = <<w, x, y, z>>
  BY SMT DEF I2B
<1> HIDE DEF w, x, y, z
<1> QED BY <1>1, <1>2

LEMMA NumberOfBytes ==
  ASSUME NEW b, \A j \in 1 .. 4 : b[j] \in Nat
  PROVE  B2I(b) \in Nat
BY SMT DEF B2I

(* Integers come out of read_int as naturals, cut or not.                  *)
LEMMA ReadsNumbers ==
  ASSUME NEW stream \in Seq(Nat), NEW closed, NEW id \in Reads(stream, closed)
  PROVE  id \in Nat
<1>1. CASE id = 0
  BY <1>1
<1>2. CASE stream # <<>>
  <2>1. PICK k \in Cuts : id = B2I(Reassembled(I2B(Head(stream)), k))
    BY <1>2 DEF Reads
  <2>2. k \in 0 .. 3 /\ Head(stream) \in Nat
    BY <1>2, <2>1, ArenaAssumption
  <2>3. PICK b : /\ b = I2B(Head(stream))
                 /\ b[1] \in Nat /\ b[2] \in Nat /\ b[3] \in Nat /\ b[4] \in Nat
    BY <2>2, BytesAreNumbers
  <2>4. PICK r : r = Reassembled(b, k) /\ \A j \in 1 .. 4 : r[j] \in Nat
    <3>1. \A j \in 1 .. 4 : b[j] \in Nat
      BY <2>3
    <3>2. ASSUME NEW j \in 1 .. 4 PROVE Reassembled(b, k)[j] \in Nat
      <4>1. CASE k = 0
        BY <3>1, <4>1 DEF Reassembled
      <4>2. CASE k # 0 /\ j <= 4 - k
        <5>1. k + j \in 1 .. 4
          BY <2>2, <4>2
        <5>2. Reassembled(b, k)[j] = b[k + j]
          BY <4>2 DEF Reassembled
        <5> QED BY <3>1, <5>1, <5>2
      <4>3. CASE k # 0 /\ ~(j <= 4 - k)
        <5>1. Reassembled(b, k)[j] = IF j <= k THEN b[j] ELSE 0
          BY <4>3 DEF Reassembled
        <5> QED BY <3>1, <5>1
      <4> QED BY <4>1, <4>2, <4>3
    <3> QED BY <3>2
  <2>5. B2I(r) \in Nat
    BY <2>4, NumberOfBytes
  <2> QED BY <2>1, <2>3, <2>4, <2>5
<1> QED BY <1>1, <1>2 DEF Reads

LEMMA RestType ==
  ASSUME NEW stream \in Seq(Nat)
  PROVE  Rest(stream) \in Seq(Nat)
BY DEF Rest

LEMMA InitInv == Init => ArenaInv
<1> SUFFICES ASSUME Init PROVE ArenaInv
  OBVIOUS
<1> USE DEF Init
<1>1. TypeOK
  <2>1. \A n \in Nodes : next[n] <= Len(targets[n])
    BY Given
  <2>2. peers \in [Nodes -> Seq(Peer)] /\ backlog \in [Nodes -> Seq(Connections)]
    OBVIOUS
  <2>3. up \in [Connections -> Seq(Nat)] /\ down \in [Connections -> Seq(Nat)]
    OBVIOUS
  <2>4. next \in [Nodes -> Nat] /\ myid \in [Nodes -> Nat] /\ count \in [Nodes -> Int]
    OBVIOUS
  <2> QED BY <2>1, <2>2, <2>3, <2>4 DEF TypeOK
<1>2. UsersInStep
  BY DEF UsersInStep, Connecting
<1>3. ConnectionsOnce
  BY DEF ConnectionsOnce, Waiting, InHand, SetOf
<1>4. PeersOnce /\ StreamsPaired
  BY DEF PeersOnce, StreamsPaired
<1>5. IdsName
  BY Ends DEF IdsName, Asks, AllName
<1>6. ClientsCounted
  BY DEF ClientsCounted, CountedAt
<1> QED BY <1>1, <1>2, <1>3, <1>4, <1>5, <1>6 DEF ArenaInv
----------------------------------------------------------------------------
(* What every step leaves alone.                                           *)
LEMMA SameScenario ==
  ASSUME [Next]_vars
  PROVE  scenario' = scenario /\ targets' = targets /\ expected' = expected
<1>1. ASSUME NEW n \in Nodes, ListenWait(n) PROVE scenario' = scenario
  BY <1>1 DEF ListenWait, ListenForNobody, Listen, ListenFails, ListenReady, Wait,
              RemoveListener, FreeListener
<1>2. ASSUME NEW n \in Nodes, Connect(n) PROVE scenario' = scenario
  BY <1>2 DEF Connect, OpenOut, OpenFails, Hello, ReadMyId, OpenIn, SendMyId, AddPeer, Exit
<1>3. ASSUME NEW n \in Nodes, Ready(n) \/ JoinListener(n) \/ Destroy(n) \/ Crash(n)
      PROVE  scenario' = scenario
  BY <1>3 DEF Ready, JoinListener, Destroy, Crash, Exit
<1>4. ASSUME NEW n \in Nodes, Listener(n) PROVE scenario' = scenario
  BY <1>4 DEF Listener, Loop, Accept, AcceptFails, Register, SetOut, DropClient,
              IgnoreClient, FindListener, ClientConnected, ReleaseHold
<1>5. ASSUME UNCHANGED vars PROVE scenario' = scenario
  BY <1>5 DEF vars
<1>6. scenario' = scenario
  BY <1>1, <1>2, <1>3, <1>4, <1>5 DEF Next, User
<1> QED BY <1>6 DEF targets, expected

(* A connection added to a backlog.                                        *)
LEMMA EnqueueType ==
  ASSUME TypeOK, NEW c \in Connections, Enqueue(c)
  PROVE  /\ backlog' \in [Nodes -> Seq(Connections)]
         /\ server' = server /\ running' = running /\ lst' = lst
         /\ client' = client /\ dropped' = dropped
<1>1. backlog \in [Nodes -> Seq(Connections)]
  BY DEF TypeOK
<1>2. backlog' = [backlog EXCEPT ![c[2]] = Append(@, c)]
  BY DEF Enqueue
<1>3. \A n \in Nodes : Append(backlog[n], c) \in Seq(Connections)
  BY <1>1
<1> QED BY <1>1, <1>2, <1>3, ZenonT(30) DEF Enqueue

(* A number added to a stream.                                             *)
LEMMA StreamType ==
  ASSUME NEW f \in [Connections -> Seq(Nat)], NEW c \in Connections, NEW i \in Nat
  PROVE  /\ [f EXCEPT ![c] = Append(@, i)] \in [Connections -> Seq(Nat)]
         /\ [f EXCEPT ![c] = Rest(@)] \in [Connections -> Seq(Nat)]
<1>1. Append(f[c], i) \in Seq(Nat) /\ Rest(f[c]) \in Seq(Nat)
  BY RestType
<1> QED BY <1>1

(* The listener reads from the connection in its hands.                    *)
LEMMA ReadIdType ==
  ASSUME TypeOK, NEW n \in Nodes, NEW id \in Ids(n), ReadId(n, id),
         client[n] \in Connections
  PROVE  /\ up' \in [Connections -> Seq(Nat)] /\ garbled' \in BOOLEAN
         /\ id \in Nat /\ up' = [up EXCEPT ![client[n]] = Rest(@)]
<1>1. /\ up \in [Connections -> Seq(Nat)] /\ garbled \in BOOLEAN
      /\ up' = [up EXCEPT ![client[n]] = Rest(@)]
      /\ garbled' = (garbled \/ Misread(up[client[n]], id))
  BY DEF TypeOK, ReadId
<1>2. up[client[n]] \in Seq(Nat)
  BY <1>1
<1>3. id \in Nat
  BY <1>2, ReadsNumbers DEF Ids
<1>4. garbled' \in BOOLEAN
  BY <1>1
<1> QED BY <1>1, <1>3, <1>4, StreamType

(* A peer added to a list, or completed.                                   *)
LEMMA PeersType ==
  ASSUME peers \in [Nodes -> Seq(Peer)], NEW n \in Nodes
  PROVE  /\ Len(peers[n]) \in Nat /\ DOMAIN peers[n] = 1 .. Len(peers[n])
         /\ \A i \in DOMAIN peers[n] : /\ peers[n][i] \in Peer
                                     /\ peers[n][i].in \in Connections
                                     /\ peers[n][i].out \in Connections \cup {Null}
<1>1. peers[n] \in Seq(Peer)
  OBVIOUS
<1>2. \A i \in DOMAIN peers[n] : peers[n][i] \in Peer
  BY <1>1
<1> QED BY <1>1, <1>2 DEF Peer

LEMMA CompletedType ==
  ASSUME peers \in [Nodes -> Seq(Peer)], NEW n \in Nodes, NEW k \in DOMAIN peers[n],
         NEW c \in Connections, peers' = [peers EXCEPT ![n][k].out = c]
  PROVE  /\ peers' \in [Nodes -> Seq(Peer)]
         /\ \A m \in Nodes : DOMAIN peers'[m] = DOMAIN peers[m]
         /\ \A m \in Nodes : m # n => peers'[m] = peers[m]
         /\ peers'[n][k].in = peers[n][k].in /\ peers'[n][k].out = c
         /\ \A i \in DOMAIN peers[n] : i # k => peers'[n][i] = peers[n][i]
<1> DEFINE p == [peers[n][k] EXCEPT !.out = c]
           s == [peers[n] EXCEPT ![k] = p]
<1>1. peers[n] \in Seq(Peer) /\ peers[n][k] \in Peer
  BY PeersType
<1>2. p \in Peer /\ p.in = peers[n][k].in /\ p.out = c
  BY <1>1 DEF Peer
<1>3. peers' = [peers EXCEPT ![n] = s]
  OBVIOUS
<1> HIDE DEF p
<1>4. s \in Seq(Peer) /\ DOMAIN s = DOMAIN peers[n] /\ s[k] = p
      /\ \A i \in DOMAIN peers[n] : i # k => s[i] = peers[n][i]
  BY <1>1, <1>2
<1> HIDE DEF s
<1>5. peers'[n] = s /\ \A m \in Nodes : m # n => peers'[m] = peers[m]
  BY <1>3
<1>6. peers' \in [Nodes -> Seq(Peer)]
  BY <1>3, <1>4
<1> QED BY <1>2, <1>4, <1>5, <1>6


(* Types are kept.                                                        *)
LEMMA TypeStep ==
  ASSUME TypeOK, UsersInStep, ConnectionsOnce, [Next]_vars
  PROVE  TypeOK'
<1>1. ASSUME NEW n \in Nodes, ListenForNobody(n) PROVE TypeOK'
  BY <1>1 DEF ListenForNobody, Goto, connectVars, listenVars, waitVars, TypeOK, targets
<1>2. ASSUME NEW n \in Nodes, Listen(n) PROVE TypeOK'
  <2>1. expected[n] \in Int
    BY Given DEF TypeOK
  <2> QED BY <1>2, <2>1 DEF Listen, Goto, connectVars, TypeOK, targets
<1>3. ASSUME NEW n \in Nodes, ListenFails(n) PROVE TypeOK'
  BY <1>3 DEF ListenFails, Goto, connectVars, listenVars, TypeOK, targets
<1>4. ASSUME NEW n \in Nodes, ListenReady(n) PROVE TypeOK'
  BY <1>4 DEF ListenReady, Goto, connectVars, listenVars, TypeOK, targets
<1>5. ASSUME NEW n \in Nodes, Wait(n) PROVE TypeOK'
  BY <1>5 DEF Wait, Goto, connectVars, listenVars, TypeOK, targets
<1>6. ASSUME NEW n \in Nodes, RemoveListener(n) PROVE TypeOK'
  BY <1>6 DEF RemoveListener, Goto, connectVars, listenVars, TypeOK, targets
<1>7. ASSUME NEW n \in Nodes, FreeListener(n) PROVE TypeOK'
  BY <1>7 DEF FreeListener, Goto, connectVars, listenVars, TypeOK, targets
<1>8. ASSUME NEW n \in Nodes, OpenOut(n) PROVE TypeOK'
  <2>1. <<n, Target(n), 1>> \in Connections
    BY <1>8, TargetIs DEF OpenOut
  <2>2. Enqueue(<<n, Target(n), 1>>)
    BY <1>8 DEF OpenOut
  <2>3. /\ backlog' \in [Nodes -> Seq(Connections)] /\ lst' = lst /\ client' = client
    BY <2>1, <2>2, EnqueueType
  <2>4. usr' = [usr EXCEPT ![n] = "hello"]
        /\ UNCHANGED <<connectVars, waitVars, peers, up, down, garbled>>
    BY <1>8 DEF OpenOut, Goto
  <2> QED BY <2>3, <2>4, SameScenario DEF connectVars, waitVars, TypeOK
<1>9. ASSUME NEW n \in Nodes, OpenFails(n) PROVE TypeOK'
  <2>1. backlog' \in [Nodes -> Seq(Connections)]
    BY <1>9 DEF OpenFails, Exit, StopListening, TypeOK
  <2> QED BY <1>9, <2>1, SameScenario
          DEF OpenFails, Goto, Exit, connectVars, waitVars, TypeOK
<1>10. ASSUME NEW n \in Nodes, Hello(n) PROVE TypeOK'
  <2>1. <<n, Target(n), 1>> \in Connections
    BY <1>10, TargetIs DEF Hello, Goto, UsersInStep, Connecting
  <2>2. up' = [up EXCEPT ![<<n, Target(n), 1>>] = Append(@, 1024)]
    BY <1>10 DEF Hello
  <2>3. up' \in [Connections -> Seq(Nat)]
    BY <2>1, <2>2, StreamType DEF TypeOK
  <2> QED BY <1>10, <2>3, SameScenario
          DEF Hello, Goto, connectVars, listenVars, waitVars, TypeOK
<1>11. ASSUME NEW n \in Nodes, ReadMyId(n) PROVE TypeOK'
  <2>1. <<n, Target(n), 1>> \in Connections
    BY <1>11, TargetIs DEF ReadMyId, Goto, UsersInStep, Connecting
  <2> DEFINE c == <<n, Target(n), 1>>
  <2>2. PICK id \in Reads(down[c], ClosedByServer(c)) :
          /\ myid' = [myid EXCEPT ![n] = id]
          /\ garbled' = (garbled \/ Misread(down[c], id))
    BY <1>11 DEF ReadMyId
  <2>3. down' = [down EXCEPT ![c] = Rest(@)]
    BY <1>11 DEF ReadMyId
  <2> HIDE DEF c
  <2>4. id \in Nat
    BY <2>1, <2>2, ReadsNumbers DEF TypeOK, c
  <2>5. down' \in [Connections -> Seq(Nat)]
    BY <2>1, <2>3, StreamType DEF TypeOK, c
  <2>6. /\ usr' = [usr EXCEPT ![n] = "open_in"]
        /\ UNCHANGED <<next, listenVars, waitVars, peers, up>>
    BY <1>11 DEF ReadMyId, Goto
  <2> QED BY <2>2, <2>4, <2>5, <2>6, SameScenario DEF listenVars, waitVars, TypeOK
<1>12. ASSUME NEW n \in Nodes, OpenIn(n) PROVE TypeOK'
  <2>1. <<n, Target(n), 2>> \in Connections
    BY <1>12, TargetIs DEF OpenIn, Goto, UsersInStep, Connecting
  <2>2. Enqueue(<<n, Target(n), 2>>)
    BY <1>12 DEF OpenIn
  <2>3. /\ backlog' \in [Nodes -> Seq(Connections)] /\ lst' = lst /\ client' = client
    BY <2>1, <2>2, EnqueueType
  <2>4. usr' = [usr EXCEPT ![n] = "send_id"]
        /\ UNCHANGED <<connectVars, waitVars, peers, up, down, garbled>>
    BY <1>12 DEF OpenIn, Goto
  <2> QED BY <2>3, <2>4, SameScenario DEF connectVars, waitVars, TypeOK
<1>13. ASSUME NEW n \in Nodes, SendMyId(n) PROVE TypeOK'
  <2>1. <<n, Target(n), 2>> \in Connections /\ myid[n] \in Nat
    BY <1>13, TargetIs DEF SendMyId, Goto, UsersInStep, Connecting, TypeOK
  <2>2. up' = [up EXCEPT ![<<n, Target(n), 2>>] = Append(@, myid[n])]
    BY <1>13 DEF SendMyId
  <2>3. up' \in [Connections -> Seq(Nat)]
    BY <2>1, <2>2, StreamType DEF TypeOK
  <2> QED BY <1>13, <2>3, SameScenario
          DEF SendMyId, Goto, connectVars, listenVars, waitVars, TypeOK
<1>14. ASSUME NEW n \in Nodes, AddPeer(n) PROVE TypeOK'
  <2> DEFINE p == [in |-> <<n, Target(n), 2>>, out |-> <<n, Target(n), 1>>]
  <2>1. next[n] < Len(targets[n])
    BY <1>14 DEF AddPeer, Goto, UsersInStep, Connecting
  <2>2. p \in Peer
    BY <2>1, TargetIs DEF Peer
  <2>3. /\ peers' = [peers EXCEPT ![n] = Append(@, p)]
        /\ next' = [next EXCEPT ![n] = @ + 1]
        /\ usr' = [usr EXCEPT ![n] = "connect"]
        /\ UNCHANGED <<myid, listenVars, waitVars, up, down, garbled>>
    BY <1>14 DEF AddPeer, Goto
  <2> HIDE DEF p
  <2>4. Append(peers[n], p) \in Seq(Peer)
    BY <2>2 DEF TypeOK
  <2>5. peers' \in [Nodes -> Seq(Peer)]
    BY <2>3, <2>4 DEF TypeOK
  <2>6. Len(targets[n]) \in Nat /\ next[n] + 1 <= Len(targets[n])
    <3>1. targets[n] \in Seq(Nodes) /\ next[n] \in Nat
      BY Given DEF TypeOK
    <3> QED BY <2>1, <3>1
  <2> QED BY <2>3, <2>5, <2>6, SameScenario, SMTT(30) DEF listenVars, waitVars, TypeOK
<1>15. ASSUME NEW n \in Nodes, Ready(n) PROVE TypeOK'
  BY <1>15 DEF Ready, Goto, connectVars, listenVars, waitVars, TypeOK, targets
<1>16. ASSUME NEW n \in Nodes, JoinListener(n) PROVE TypeOK'
  BY <1>16 DEF JoinListener, Goto, connectVars, listenVars, waitVars, TypeOK, targets
<1>17. ASSUME NEW n \in Nodes, Destroy(n) PROVE TypeOK'
  BY <1>17 DEF Destroy, Goto, StopListening, connectVars, waitVars, TypeOK, targets
<1>18. ASSUME NEW n \in Nodes, Crash(n) PROVE TypeOK'
  BY <1>18 DEF Crash, Exit, StopListening, Gone, connectVars, waitVars, TypeOK, targets
<1>19. ASSUME NEW n \in Nodes, Loop(n) PROVE TypeOK'
  BY <1>19 DEF Loop, connectVars, TypeOK, targets
<1>20. ASSUME NEW n \in Nodes, Accept(n) PROVE TypeOK'
  <2>1. backlog[n] \in Seq(Connections) /\ backlog[n] # <<>>
    BY <1>20 DEF Accept, TypeOK
  <2>2. Head(backlog[n]) \in Connections /\ Tail(backlog[n]) \in Seq(Connections)
    BY <2>1
  <2> QED BY <1>20, <2>2, SameScenario DEF Accept, GotoL, connectVars, waitVars, TypeOK
<1>21. ASSUME NEW n \in Nodes, AcceptFails(n) PROVE TypeOK'
  BY <1>21 DEF AcceptFails, GotoL, waitVars, connectVars, TypeOK, targets
<1>22. ASSUME NEW n \in Nodes, Register(n) PROVE TypeOK'
  <2>1. lst[n] = "id" /\ client[n] \in Connections
    BY <1>22 DEF Register, GotoL, ConnectionsOnce
  <2>2. PICK id \in Ids(n) : ReadId(n, id)
    BY <1>22 DEF Register
  <2>3. up' \in [Connections -> Seq(Nat)] /\ garbled' \in BOOLEAN
    BY <2>1, <2>2, ReadIdType
  <2>4. down' \in [Connections -> Seq(Nat)]
    BY <1>22, <2>1, PeersType, StreamType DEF Register, TypeOK
  <2> DEFINE p == [in |-> client[n], out |-> Null]
  <2>5. p \in Peer /\ peers' = [peers EXCEPT ![n] = Append(@, p)]
    BY <1>22, <2>1 DEF Register, Peer
  <2>6. peers' \in [Nodes -> Seq(Peer)]
    <3> HIDE DEF p
    <3>1. Append(peers[n], p) \in Seq(Peer)
      BY <2>5 DEF TypeOK
    <3> QED BY <2>5, <3>1 DEF TypeOK
  <2>7. /\ lst' = [lst EXCEPT ![n] = "loop"]
        /\ UNCHANGED <<usr, connectVars, client, backlog, waitVars>>
    BY <1>22 DEF Register, GotoL
  <2> QED BY <2>3, <2>4, <2>6, <2>7, SameScenario DEF connectVars, waitVars, TypeOK
<1>23. ASSUME NEW n \in Nodes, SetOut(n) PROVE TypeOK'
  <2>1. lst[n] = "id" /\ client[n] \in Connections
    BY <1>23 DEF SetOut, GotoL, ConnectionsOnce
  <2>2. PICK id \in Ids(n) :
          /\ id < Len(peers[n]) /\ ReadId(n, id)
          /\ peers' = [peers EXCEPT ![n][id + 1].out = client[n]]
    BY <1>23 DEF SetOut
  <2>3. up' \in [Connections -> Seq(Nat)] /\ garbled' \in BOOLEAN /\ id \in Nat
    BY <2>1, <2>2, ReadIdType
  <2>4. id + 1 \in DOMAIN peers[n]
    BY <2>2, <2>3, PeersType DEF TypeOK
  <2>5. peers' \in [Nodes -> Seq(Peer)]
    BY <2>1, <2>2, <2>4, CompletedType DEF TypeOK
  <2>6. /\ lst' = [lst EXCEPT ![n] = "notify"]
        /\ UNCHANGED <<usr, connectVars, client, backlog, waitVars, down>>
    BY <1>23 DEF SetOut, GotoL
  <2> QED BY <2>3, <2>5, <2>6, SameScenario DEF connectVars, waitVars, TypeOK
<1>24. ASSUME NEW n \in Nodes, DropClient(n) PROVE TypeOK'
  <2>1. lst[n] = "id" /\ client[n] \in Connections
    BY <1>24 DEF DropClient, GotoL, ConnectionsOnce
  <2>2. PICK id \in Ids(n) : ReadId(n, id)
    BY <1>24 DEF DropClient
  <2>3. up' \in [Connections -> Seq(Nat)] /\ garbled' \in BOOLEAN
    BY <2>1, <2>2, ReadIdType
  <2>4. /\ lst' = [lst EXCEPT ![n] = "loop"]
        /\ UNCHANGED <<usr, connectVars, client, backlog, waitVars, peers, down>>
    BY <1>24 DEF DropClient, GotoL
  <2> QED BY <2>3, <2>4, SameScenario DEF connectVars, waitVars, TypeOK
<1>25. ASSUME NEW n \in Nodes, IgnoreClient(n) PROVE TypeOK'
  <2>1. lst[n] = "id" /\ client[n] \in Connections
    BY <1>25 DEF IgnoreClient, GotoL, ConnectionsOnce
  <2>2. PICK id \in Ids(n) : ReadId(n, id)
    BY <1>25 DEF IgnoreClient
  <2>3. up' \in [Connections -> Seq(Nat)] /\ garbled' \in BOOLEAN
    BY <2>1, <2>2, ReadIdType
  <2>4. /\ lst' = [lst EXCEPT ![n] = "loop"]
        /\ UNCHANGED <<usr, connectVars, client, backlog, waitVars, peers, down>>
    BY <1>25 DEF IgnoreClient, GotoL
  <2> QED BY <2>3, <2>4, SameScenario DEF connectVars, waitVars, TypeOK
<1>26. ASSUME NEW n \in Nodes, FindListener(n) PROVE TypeOK'
  BY <1>26 DEF FindListener, waitVars, connectVars, TypeOK, targets
<1>27. ASSUME NEW n \in Nodes, ClientConnected(n) PROVE TypeOK'
  BY <1>27 DEF ClientConnected, connectVars, TypeOK, targets
<1>28. ASSUME NEW n \in Nodes, ReleaseHold(n) PROVE TypeOK'
  BY <1>28 DEF ReleaseHold, GotoL, connectVars, TypeOK, targets
<1>29. CASE UNCHANGED vars
  BY <1>29 DEF vars, connectVars, listenVars, waitVars, TypeOK, targets
<1> QED BY <1>1, <1>2, <1>3, <1>4, <1>5, <1>6, <1>7, <1>8, <1>9, <1>10, <1>11, <1>12,
           <1>13, <1>14, <1>15, <1>16, <1>17, <1>18, <1>19, <1>20, <1>21, <1>22, <1>23,
           <1>24, <1>25, <1>26, <1>27, <1>28, <1>29 DEF Next, User, ListenWait,
           Connect, Listener

LEMMA UsersStep ==
  ASSUME TypeOK, UsersInStep, [Next]_vars
  PROVE  UsersInStep'
<1>1. ASSUME NEW n \in Nodes, ListenForNobody(n) PROVE UsersInStep'
  BY <1>1 DEF ListenForNobody, Goto, connectVars, listenVars, waitVars, TypeOK,
     UsersInStep, Connecting, targets
<1>2. ASSUME NEW n \in Nodes, Listen(n) PROVE UsersInStep'
  BY <1>2 DEF Listen, Goto, connectVars, TypeOK, UsersInStep, Connecting, targets
<1>3. ASSUME NEW n \in Nodes, ListenFails(n) PROVE UsersInStep'
  BY <1>3 DEF ListenFails, Goto, connectVars, listenVars, TypeOK, UsersInStep,
     Connecting, targets
<1>4. ASSUME NEW n \in Nodes, ListenReady(n) PROVE UsersInStep'
  BY <1>4 DEF ListenReady, Goto, connectVars, listenVars, TypeOK, UsersInStep,
     Connecting, targets
<1>5. ASSUME NEW n \in Nodes, Wait(n) PROVE UsersInStep'
  BY <1>5 DEF Wait, Goto, connectVars, listenVars, TypeOK, UsersInStep, Connecting,
     targets
<1>6. ASSUME NEW n \in Nodes, RemoveListener(n) PROVE UsersInStep'
  BY <1>6 DEF RemoveListener, Goto, connectVars, listenVars, TypeOK, UsersInStep,
     Connecting, targets
<1>7. ASSUME NEW n \in Nodes, FreeListener(n) PROVE UsersInStep'
  BY <1>7 DEF FreeListener, Goto, connectVars, listenVars, TypeOK, UsersInStep,
     Connecting, targets
<1>8. ASSUME NEW n \in Nodes, OpenOut(n) PROVE UsersInStep'
  BY <1>8 DEF OpenOut, Goto, Enqueue, connectVars, waitVars, TypeOK, UsersInStep,
     Connecting, targets
<1>9. ASSUME NEW n \in Nodes, OpenFails(n) PROVE UsersInStep'
  BY <1>9 DEF OpenFails, Goto, Exit, StopListening, connectVars, waitVars, TypeOK,
     UsersInStep, Connecting, targets
<1>10. ASSUME NEW n \in Nodes, Hello(n) PROVE UsersInStep'
  BY <1>10 DEF Hello, Goto, connectVars, listenVars, waitVars, TypeOK, UsersInStep,
     Connecting, targets
<1>11. ASSUME NEW n \in Nodes, ReadMyId(n) PROVE UsersInStep'
  BY <1>11 DEF ReadMyId, Goto, listenVars, waitVars, TypeOK, UsersInStep, Connecting,
     targets
<1>12. ASSUME NEW n \in Nodes, OpenIn(n) PROVE UsersInStep'
  BY <1>12 DEF OpenIn, Goto, Enqueue, connectVars, waitVars, TypeOK, UsersInStep,
     Connecting, targets
<1>13. ASSUME NEW n \in Nodes, SendMyId(n) PROVE UsersInStep'
  BY <1>13 DEF SendMyId, Goto, connectVars, listenVars, waitVars, TypeOK, UsersInStep,
     Connecting, targets
<1>14. ASSUME NEW n \in Nodes, AddPeer(n) PROVE UsersInStep'
  BY <1>14 DEF AddPeer, Goto, listenVars, waitVars, TypeOK, UsersInStep, Connecting,
     targets
<1>15. ASSUME NEW n \in Nodes, Ready(n) PROVE UsersInStep'
  BY <1>15 DEF Ready, Goto, connectVars, listenVars, waitVars, TypeOK, UsersInStep,
     Connecting, targets
<1>16. ASSUME NEW n \in Nodes, JoinListener(n) PROVE UsersInStep'
  BY <1>16 DEF JoinListener, Goto, connectVars, listenVars, waitVars, TypeOK,
     UsersInStep, Connecting, targets
<1>17. ASSUME NEW n \in Nodes, Destroy(n) PROVE UsersInStep'
  BY <1>17 DEF Destroy, Goto, StopListening, connectVars, waitVars, TypeOK,
     UsersInStep, Connecting, targets
<1>18. ASSUME NEW n \in Nodes, Crash(n) PROVE UsersInStep'
  BY <1>18 DEF Crash, Exit, StopListening, Gone, connectVars, waitVars, TypeOK,
     UsersInStep, Connecting, targets
<1>19. ASSUME NEW n \in Nodes, Loop(n) PROVE UsersInStep'
  BY <1>19 DEF Loop, connectVars, TypeOK, UsersInStep, Connecting, targets
<1>20. ASSUME NEW n \in Nodes, Accept(n) PROVE UsersInStep'
  BY <1>20 DEF Accept, GotoL, waitVars, connectVars, TypeOK, UsersInStep, Connecting,
     targets
<1>21. ASSUME NEW n \in Nodes, AcceptFails(n) PROVE UsersInStep'
  BY <1>21 DEF AcceptFails, GotoL, waitVars, connectVars, TypeOK, UsersInStep,
     Connecting, targets
<1>22. ASSUME NEW n \in Nodes, Register(n) PROVE UsersInStep'
  BY <1>22 DEF Register, GotoL, ReadId, waitVars, connectVars, TypeOK, UsersInStep,
     Connecting, targets
<1>23. ASSUME NEW n \in Nodes, SetOut(n) PROVE UsersInStep'
  BY <1>23 DEF SetOut, GotoL, ReadId, waitVars, connectVars, TypeOK, UsersInStep,
     Connecting, targets
<1>24. ASSUME NEW n \in Nodes, DropClient(n) PROVE UsersInStep'
  BY <1>24 DEF DropClient, GotoL, ReadId, waitVars, connectVars, TypeOK, UsersInStep,
     Connecting, targets
<1>25. ASSUME NEW n \in Nodes, IgnoreClient(n) PROVE UsersInStep'
  BY <1>25 DEF IgnoreClient, GotoL, ReadId, waitVars, connectVars, TypeOK, UsersInStep,
     Connecting, targets
<1>26. ASSUME NEW n \in Nodes, FindListener(n) PROVE UsersInStep'
  BY <1>26 DEF FindListener, waitVars, connectVars, TypeOK, UsersInStep, Connecting,
     targets
<1>27. ASSUME NEW n \in Nodes, ClientConnected(n) PROVE UsersInStep'
  BY <1>27 DEF ClientConnected, connectVars, TypeOK, UsersInStep, Connecting, targets
<1>28. ASSUME NEW n \in Nodes, ReleaseHold(n) PROVE UsersInStep'
  BY <1>28 DEF ReleaseHold, GotoL, connectVars, TypeOK, UsersInStep, Connecting,
     targets
<1>29. CASE UNCHANGED vars
  BY <1>29 DEF vars, connectVars, listenVars, waitVars, UsersInStep, Connecting, targets
<1> QED BY <1>1, <1>2, <1>3, <1>4, <1>5, <1>6, <1>7, <1>8, <1>9, <1>10, <1>11, <1>12,
           <1>13, <1>14, <1>15, <1>16, <1>17, <1>18, <1>19, <1>20, <1>21, <1>22, <1>23,
           <1>24, <1>25, <1>26, <1>27, <1>28, <1>29 DEF Next, User, ListenWait,
           Connect, Listener
----------------------------------------------------------------------------
(* Programs only go forward, so what was opened stays opened.              *)
Forward ==
  \A m \in Nodes :
    \/ next'[m] = next[m] + 1
    \/ /\ next'[m] = next[m]
       /\ usr[m] \in Connecting \cup {"failed"} => usr'[m] \in Connecting \cup {"failed"}
       /\ usr[m] \in OpenedIn => usr'[m] \in OpenedIn


LEMMA ForwardStep ==
  ASSUME TypeOK, [Next]_vars
  PROVE  Forward
<1>1. ASSUME NEW n \in Nodes, ListenForNobody(n) PROVE Forward
  BY <1>1 DEF ListenForNobody, Goto, connectVars, listenVars, waitVars, TypeOK,
     Forward, Connecting, OpenedIn
<1>2. ASSUME NEW n \in Nodes, Listen(n) PROVE Forward
  BY <1>2 DEF Listen, Goto, connectVars, TypeOK, Forward, Connecting, OpenedIn
<1>3. ASSUME NEW n \in Nodes, ListenFails(n) PROVE Forward
  BY <1>3 DEF ListenFails, Goto, connectVars, listenVars, TypeOK, Forward, Connecting,
     OpenedIn
<1>4. ASSUME NEW n \in Nodes, ListenReady(n) PROVE Forward
  BY <1>4 DEF ListenReady, Goto, connectVars, listenVars, TypeOK, Forward, Connecting,
     OpenedIn
<1>5. ASSUME NEW n \in Nodes, Wait(n) PROVE Forward
  BY <1>5 DEF Wait, Goto, connectVars, listenVars, TypeOK, Forward, Connecting,
     OpenedIn
<1>6. ASSUME NEW n \in Nodes, RemoveListener(n) PROVE Forward
  BY <1>6 DEF RemoveListener, Goto, connectVars, listenVars, TypeOK, Forward,
     Connecting, OpenedIn
<1>7. ASSUME NEW n \in Nodes, FreeListener(n) PROVE Forward
  BY <1>7 DEF FreeListener, Goto, connectVars, listenVars, TypeOK, Forward, Connecting,
     OpenedIn
<1>8. ASSUME NEW n \in Nodes, OpenOut(n) PROVE Forward
  BY <1>8 DEF OpenOut, Goto, Enqueue, connectVars, waitVars, TypeOK, Forward,
     Connecting, OpenedIn
<1>9. ASSUME NEW n \in Nodes, OpenFails(n) PROVE Forward
  BY <1>9 DEF OpenFails, Goto, Exit, StopListening, connectVars, waitVars, TypeOK,
     Forward, Connecting, OpenedIn
<1>10. ASSUME NEW n \in Nodes, Hello(n) PROVE Forward
  BY <1>10 DEF Hello, Goto, connectVars, listenVars, waitVars, TypeOK, Forward,
     Connecting, OpenedIn
<1>11. ASSUME NEW n \in Nodes, ReadMyId(n) PROVE Forward
  BY <1>11 DEF ReadMyId, Goto, listenVars, waitVars, TypeOK, Forward, Connecting,
     OpenedIn
<1>12. ASSUME NEW n \in Nodes, OpenIn(n) PROVE Forward
  BY <1>12 DEF OpenIn, Goto, Enqueue, connectVars, waitVars, TypeOK, Forward,
     Connecting, OpenedIn
<1>13. ASSUME NEW n \in Nodes, SendMyId(n) PROVE Forward
  BY <1>13 DEF SendMyId, Goto, connectVars, listenVars, waitVars, TypeOK, Forward,
     Connecting, OpenedIn
<1>14. ASSUME NEW n \in Nodes, AddPeer(n) PROVE Forward
  BY <1>14 DEF AddPeer, Goto, listenVars, waitVars, TypeOK, Forward, Connecting,
     OpenedIn
<1>15. ASSUME NEW n \in Nodes, Ready(n) PROVE Forward
  BY <1>15 DEF Ready, Goto, connectVars, listenVars, waitVars, TypeOK, Forward,
     Connecting, OpenedIn
<1>16. ASSUME NEW n \in Nodes, JoinListener(n) PROVE Forward
  BY <1>16 DEF JoinListener, Goto, connectVars, listenVars, waitVars, TypeOK, Forward,
     Connecting, OpenedIn
<1>17. ASSUME NEW n \in Nodes, Destroy(n) PROVE Forward
  BY <1>17 DEF Destroy, Goto, StopListening, connectVars, waitVars, TypeOK, Forward,
     Connecting, OpenedIn
<1>18. ASSUME NEW n \in Nodes, Crash(n) PROVE Forward
  BY <1>18 DEF Crash, Exit, StopListening, Gone, connectVars, waitVars, TypeOK,
     Forward, Connecting, OpenedIn
<1>19. ASSUME NEW n \in Nodes, Loop(n) PROVE Forward
  BY <1>19 DEF Loop, connectVars, TypeOK, Forward, Connecting, OpenedIn
<1>20. ASSUME NEW n \in Nodes, Accept(n) PROVE Forward
  BY <1>20 DEF Accept, GotoL, waitVars, connectVars, TypeOK, Forward, Connecting,
     OpenedIn
<1>21. ASSUME NEW n \in Nodes, AcceptFails(n) PROVE Forward
  BY <1>21 DEF AcceptFails, GotoL, waitVars, connectVars, TypeOK, Forward, Connecting,
     OpenedIn
<1>22. ASSUME NEW n \in Nodes, Register(n) PROVE Forward
  BY <1>22 DEF Register, GotoL, ReadId, waitVars, connectVars, TypeOK, Forward,
     Connecting, OpenedIn
<1>23. ASSUME NEW n \in Nodes, SetOut(n) PROVE Forward
  BY <1>23 DEF SetOut, GotoL, ReadId, waitVars, connectVars, TypeOK, Forward,
     Connecting, OpenedIn
<1>24. ASSUME NEW n \in Nodes, DropClient(n) PROVE Forward
  BY <1>24 DEF DropClient, GotoL, ReadId, waitVars, connectVars, TypeOK, Forward,
     Connecting, OpenedIn
<1>25. ASSUME NEW n \in Nodes, IgnoreClient(n) PROVE Forward
  BY <1>25 DEF IgnoreClient, GotoL, ReadId, waitVars, connectVars, TypeOK, Forward,
     Connecting, OpenedIn
<1>26. ASSUME NEW n \in Nodes, FindListener(n) PROVE Forward
  BY <1>26 DEF FindListener, waitVars, connectVars, TypeOK, Forward, Connecting,
     OpenedIn
<1>27. ASSUME NEW n \in Nodes, ClientConnected(n) PROVE Forward
  BY <1>27 DEF ClientConnected, connectVars, TypeOK, Forward, Connecting, OpenedIn
<1>28. ASSUME NEW n \in Nodes, ReleaseHold(n) PROVE Forward
  BY <1>28 DEF ReleaseHold, GotoL, connectVars, TypeOK, Forward, Connecting, OpenedIn
<1>29. CASE UNCHANGED vars
  BY <1>29 DEF vars, connectVars, listenVars, waitVars, Forward
<1> QED BY <1>1, <1>2, <1>3, <1>4, <1>5, <1>6, <1>7, <1>8, <1>9, <1>10, <1>11, <1>12,
           <1>13, <1>14, <1>15, <1>16, <1>17, <1>18, <1>19, <1>20, <1>21, <1>22, <1>23,
           <1>24, <1>25, <1>26, <1>27, <1>28, <1>29 DEF Next, User, ListenWait,
           Connect, Listener

LEMMA ReachedStays ==
  ASSUME TypeOK, Forward, targets' = targets, NEW m \in Nodes, NEW n, NEW places,
         usr[m] \in places /\ next'[m] = next[m] => usr'[m] \in places,
         Reached(m, n, places)
  PROVE  Reached(m, n, places)'
<1>1. PICK j \in DOMAIN targets[m] :
        targets[m][j] = n /\ (j <= next[m] \/ (j = next[m] + 1 /\ usr[m] \in places))
  BY DEF Reached
<1>2. j \in Nat /\ next[m] \in Nat
  <2>1. targets[m] \in Seq(Nodes)
    BY Given DEF TypeOK
  <2>2. DOMAIN targets[m] = 1 .. Len(targets[m])
    BY <2>1
  <2> QED BY <2>1, <2>2 DEF TypeOK
<1>3. next'[m] = next[m] + 1 \/ next'[m] = next[m]
  BY DEF Forward
<1>4. j <= next'[m] \/ (j = next'[m] + 1 /\ usr'[m] \in places)
  BY <1>1, <1>2, <1>3
<1> QED BY <1>1, <1>4 DEF Reached

LEMMA OpenedStays ==
  ASSUME TypeOK, Forward, targets' = targets
  PROVE  /\ \A c \in Connections : Opened(c) => Opened(c)'
         /\ \A m \in Nodes : \A n : Reached(m, n, {}) => Reached(m, n, {})'
<1>1. ASSUME NEW c \in Connections, Opened(c) PROVE Opened(c)'
  <2>1. c[1] \in Nodes
    BY Ends
  <2>4. next[c[1]] \in Nat
    BY <2>1 DEF TypeOK
  <2>5. /\ usr[c[1]] \in Connecting \cup {"failed"} /\ next'[c[1]] = next[c[1]]
             => usr'[c[1]] \in Connecting \cup {"failed"}
        /\ usr[c[1]] \in OpenedIn /\ next'[c[1]] = next[c[1]] => usr'[c[1]] \in OpenedIn
    BY <2>1, <2>4 DEF Forward
  <2>2. CASE c[3] = 1
    <3>1. Reached(c[1], c[2], Connecting \cup {"failed"})
      BY <1>1, <2>2 DEF Opened
    <3>2. Reached(c[1], c[2], Connecting \cup {"failed"})'
      BY <2>1, <2>5, <3>1, ReachedStays
    <3> QED BY <2>2, <3>2 DEF Opened
  <2>3. CASE c[3] # 1
    <3>1. Reached(c[1], c[2], OpenedIn)
      BY <1>1, <2>3 DEF Opened
    <3>2. Reached(c[1], c[2], OpenedIn)'
      BY <2>1, <2>5, <3>1, ReachedStays
    <3> QED BY <2>3, <3>2 DEF Opened
  <2> QED BY <2>2, <2>3
<1>2. ASSUME NEW m \in Nodes, NEW n, Reached(m, n, {}) PROVE Reached(m, n, {})'
  BY <1>2, ReachedStays
<1> QED BY <1>1, <1>2

(* A program is at its target for the first time.                          *)
LEMMA FirstTime ==
  ASSUME TypeOK, NEW m \in Nodes, next[m] < Len(targets[m]), NEW places
  PROVE  /\ Reached(m, Target(m), places) <=> usr[m] \in places
         /\ ~Reached(m, Target(m), {})
<1>1. /\ targets[m] \in Seq(Nodes) /\ next[m] \in Nat
      /\ \A i, j \in DOMAIN targets[m] : targets[m][i] = targets[m][j] => i = j
  BY Given DEF TypeOK
<1>2. next[m] + 1 \in DOMAIN targets[m] /\ targets[m][next[m] + 1] = Target(m)
  BY TargetIs
<1>3. \A j \in DOMAIN targets[m] : j \in Nat
  BY <1>1
<1> QED BY <1>1, <1>2, <1>3 DEF Reached
----------------------------------------------------------------------------
(* Connections and where they wait.                                        *)

LEMMA AppendOnce ==
  ASSUME NEW S, NEW s \in Seq(S), NEW c \in S, c \notin SetOf(s),
         \A i, j \in DOMAIN s : s[i] = s[j] => i = j
  PROVE  /\ SetOf(Append(s, c)) = SetOf(s) \cup {c}
         /\ \A i, j \in DOMAIN Append(s, c) : Append(s, c)[i] = Append(s, c)[j] => i = j
<1> DEFINE t == Append(s, c)
<1>1. /\ Len(s) \in Nat /\ DOMAIN s = 1 .. Len(s)
      /\ DOMAIN t = 1 .. Len(s) + 1
      /\ \A i \in 1 .. Len(s) : t[i] = s[i]
      /\ t[Len(s) + 1] = c
  OBVIOUS
<1>2. \A i \in DOMAIN t : i \in DOMAIN s \/ i = Len(s) + 1
  BY <1>1
<1> HIDE DEF t
<1>3. SetOf(t) = SetOf(s) \cup {c}
  BY <1>1, <1>2 DEF SetOf
<1>4. \A i, j \in DOMAIN t : t[i] = t[j] => i = j
  BY <1>1, <1>2 DEF SetOf
<1> QED BY <1>3, <1>4 DEF t

LEMMA TailOnce ==
  ASSUME NEW S, NEW s \in Seq(S), s # <<>>,
         \A i, j \in DOMAIN s : s[i] = s[j] => i = j
  PROVE  /\ SetOf(s) = SetOf(Tail(s)) \cup {Head(s)} /\ Head(s) \notin SetOf(Tail(s))
         /\ \A i, j \in DOMAIN Tail(s) : Tail(s)[i] = Tail(s)[j] => i = j
<1> DEFINE t == Tail(s)
<1>1. /\ Len(s) \in Nat /\ DOMAIN s = 1 .. Len(s) /\ Len(s) > 0
      /\ DOMAIN t = 1 .. Len(s) - 1
      /\ \A i \in 1 .. Len(s) - 1 : t[i] = s[i + 1]
      /\ Head(s) = s[1]
  OBVIOUS
<1> HIDE DEF t
<1>2. \A i \in DOMAIN t : i + 1 \in DOMAIN s /\ i + 1 # 1 /\ t[i] = s[i + 1]
  BY <1>1
<1>3. \A i \in DOMAIN s : i = 1 \/ (i - 1 \in DOMAIN t /\ t[i - 1] = s[i])
  BY <1>1
<1>4. 1 \in DOMAIN s
  BY <1>1
<1>5. SetOf(s) = SetOf(t) \cup {Head(s)}
  <2>1. SetOf(t) \cup {Head(s)} \subseteq SetOf(s)
    BY <1>1, <1>2, <1>4 DEF SetOf
  <2>2. ASSUME NEW i \in DOMAIN s PROVE s[i] \in SetOf(t) \cup {Head(s)}
    BY <1>1, <1>3 DEF SetOf
  <2>3. \A x \in SetOf(s) : x \in SetOf(t) \cup {Head(s)}
    BY <2>2 DEF SetOf
  <2> QED BY <2>1, <2>3
<1>6. Head(s) \notin SetOf(t)
  BY <1>1, <1>2, <1>4 DEF SetOf
<1>7. ASSUME NEW i \in DOMAIN t, NEW j \in DOMAIN t, t[i] = t[j] PROVE i = j
  <2>1. i + 1 = j + 1
    BY <1>2, <1>7
  <2>2. i \in Nat /\ j \in Nat
    BY <1>1
  <2> QED BY <2>1, <2>2
<1> QED BY <1>5, <1>6, <1>7 DEF t

(* What is true of a peer stays true while what comes to wait had not been *)
(* opened.                                                                 *)
LEMMA EntryKept ==
  ASSUME TypeOK, PeersOnce, Forward, targets' = targets, NEW n \in Nodes,
         \A d \in Waiting(n)' : d \in Waiting(n) \/ ~Opened(d),
         NEW i \in DOMAIN peers[n], NEW p, p = peers[n][i]
  PROVE  /\ OfClient(n, p)' \/ OfTarget(n, p)'
         /\ p.out # Null => Opened(p.out)' /\ p.out \notin Waiting(n)'
         /\ OfTarget(n, p) => OfTarget(n, p)'
<1>1. p.in \in Connections /\ p.out \in Connections \cup {Null}
  BY PeersType DEF TypeOK
<1>2. OfClient(n, p) => OfClient(n, p)'
  BY <1>1, OpenedStays DEF OfClient
<1>3. OfTarget(n, p) => OfTarget(n, p)'
  BY OpenedStays DEF OfTarget
<1>4. p.out # Null => Opened(p.out)' /\ p.out \notin Waiting(n)'
  BY <1>1, OpenedStays DEF PeersOnce
<1>5. OfClient(n, p) \/ OfTarget(n, p)
  BY DEF PeersOnce
<1>6. OfClient(n, p)' \/ OfTarget(n, p)'
  BY <1>2, <1>3, <1>5
<1> QED BY <1>3, <1>4, <1>6

LEMMA PeersKept ==
  ASSUME TypeOK, PeersOnce, Forward, targets' = targets, peers' = peers,
         \A n \in Nodes : \A d \in Waiting(n)' : d \in Waiting(n) \/ ~Opened(d)
  PROVE  PeersOnce'
<1>1. ASSUME NEW n \in Nodes, NEW i \in DOMAIN peers[n]
      PROVE  (/\ OfClient(n, peers[n][i]) \/ OfTarget(n, peers[n][i])
              /\ peers[n][i].out # Null =>
                   Opened(peers[n][i].out) /\ peers[n][i].out \notin Waiting(n))'
  <2>1. PICK p : p = peers[n][i]
    OBVIOUS
  <2>2. /\ OfClient(n, p)' \/ OfTarget(n, p)'
        /\ p.out # Null => Opened(p.out)' /\ p.out \notin Waiting(n)'
    BY <2>1, EntryKept
  <2>3. (p = peers[n][i])'
    BY <2>1
  <2> QED BY <2>2, <2>3
<1> QED BY <1>1 DEF PeersOnce

(* Nothing comes to a place where it was not.                              *)
LessWaits == /\ peers' = peers
             /\ \A n \in Nodes : backlog'[n] = backlog[n] \/ backlog'[n] = <<>>
             /\ \A n \in Nodes :
                  lst'[n] = "id" => lst[n] = "id" /\ client'[n] = client[n]

LEMMA LessWaitsKeeps ==
  ASSUME TypeOK, ConnectionsOnce, PeersOnce, Forward, targets' = targets, LessWaits
  PROVE  ConnectionsOnce' /\ PeersOnce'
<1>1. \A n \in Nodes : SetOf(backlog'[n]) \subseteq SetOf(backlog[n])
  BY DEF LessWaits, SetOf
<1>2. \A n \in Nodes : InHand(n)' \subseteq InHand(n)
  BY DEF LessWaits, InHand
<1>3. \A n \in Nodes : Waiting(n)' \subseteq Waiting(n)
  BY <1>1, <1>2 DEF Waiting
<1>4. \A n \in Nodes : Waiting(n) \subseteq Connections
  BY DEF TypeOK, ConnectionsOnce, Waiting, InHand, SetOf
<1>5. ConnectionsOnce'
  <2>1. ASSUME NEW n \in Nodes
        PROVE  \A i, j \in DOMAIN backlog'[n] : backlog'[n][i] = backlog'[n][j] => i = j
    BY DEF ConnectionsOnce, LessWaits
  <2>2. ASSUME NEW n \in Nodes, lst'[n] = "id"
        PROVE  client'[n] \in Connections /\ client'[n] \notin SetOf(backlog'[n])
    BY <1>1, <2>2 DEF ConnectionsOnce, LessWaits
  <2>3. ASSUME NEW n \in Nodes, NEW c \in Waiting(n)' PROVE c[2] = n /\ Opened(c)'
    BY <1>3, <1>4, <2>3, OpenedStays DEF ConnectionsOnce
  <2> QED BY <2>1, <2>2, <2>3 DEF ConnectionsOnce
<1>6. PeersOnce'
  BY <1>3, PeersKept DEF LessWaits
<1> QED BY <1>5, <1>6


LEMMA EnqueueKeeps ==
  ASSUME TypeOK, ConnectionsOnce, PeersOnce, Forward, targets' = targets, peers' = peers,
         NEW c \in Connections, ~Opened(c), Opened(c)', Enqueue(c)
  PROVE  ConnectionsOnce' /\ PeersOnce'
<1> DEFINE t == c[2]
<1>1. /\ backlog' = [backlog EXCEPT ![t] = Append(@, c)] /\ t \in Nodes
      /\ lst' = lst /\ client' = client
  BY Ends DEF Enqueue
<1>2. /\ \A n \in Nodes : backlog[n] \in Seq(Connections)
      /\ \A n \in Nodes : \A d \in Waiting(n) : d # c
      /\ backlog \in [Nodes -> Seq(Connections)]
  BY DEF ConnectionsOnce, TypeOK
<1>3. c \notin SetOf(backlog[t])
  BY <1>1, <1>2 DEF Waiting
<1>4. \A i, j \in DOMAIN backlog[t] : backlog[t][i] = backlog[t][j] => i = j
  BY <1>1 DEF ConnectionsOnce
<1>5. /\ backlog'[t] = Append(backlog[t], c)
      /\ \A n \in Nodes : n # t => backlog'[n] = backlog[n]
  BY <1>1, <1>2
<1> HIDE DEF t
<1>6. /\ SetOf(backlog'[t]) = SetOf(backlog[t]) \cup {c}
      /\ \A i, j \in DOMAIN backlog'[t] : backlog'[t][i] = backlog'[t][j] => i = j
  BY <1>1, <1>2, <1>3, <1>4, <1>5, AppendOnce
<1>7. \A n \in Nodes : InHand(n)' = InHand(n)
  BY <1>1 DEF InHand
<1>8. /\ Waiting(t)' = Waiting(t) \cup {c}
      /\ \A n \in Nodes : n # t => Waiting(n)' = Waiting(n)
  BY <1>1, <1>5, <1>6, <1>7 DEF Waiting
<1>9. PeersOnce'
  BY <1>1, <1>8, PeersKept
<1>10. ASSUME NEW n \in Nodes
       PROVE  \A i, j \in DOMAIN backlog'[n] : backlog'[n][i] = backlog'[n][j] => i = j
  BY <1>5, <1>6 DEF ConnectionsOnce
<1>11. ASSUME NEW n \in Nodes, lst'[n] = "id"
       PROVE  client'[n] \in Connections /\ client'[n] \notin SetOf(backlog'[n])
  <2>1. client[n] \in Connections /\ client[n] \notin SetOf(backlog[n]) /\ lst[n] = "id"
    BY <1>1, <1>11 DEF ConnectionsOnce
  <2>2. client[n] \in Waiting(n)
    BY <2>1 DEF Waiting, InHand
  <2>3. client[n] # c
    BY <1>2, <2>2
  <2> QED BY <1>1, <1>5, <1>6, <2>1, <2>3
<1>12. \A n \in Nodes : Waiting(n) \subseteq Connections
  BY DEF TypeOK, ConnectionsOnce, Waiting, InHand, SetOf
<1>13. ASSUME NEW n \in Nodes, NEW d \in Waiting(n)' PROVE d[2] = n /\ Opened(d)'
  <2>1. CASE d = c /\ n = t
    BY <2>1 DEF t
  <2>2. CASE d \in Waiting(n)
    BY <1>12, <2>2, OpenedStays DEF ConnectionsOnce
  <2> QED BY <1>8, <1>13, <2>1, <2>2
<1> QED BY <1>9, <1>10, <1>11, <1>13 DEF ConnectionsOnce

LEMMA AcceptKeeps ==
  ASSUME TypeOK, ConnectionsOnce, PeersOnce, Forward, targets' = targets,
         NEW n \in Nodes, Accept(n)
  PROVE  ConnectionsOnce' /\ PeersOnce'
<1>1. /\ lst[n] = "accept" /\ lst' = [lst EXCEPT ![n] = "id"] /\ backlog[n] # <<>>
      /\ client' = [client EXCEPT ![n] = Head(backlog[n])]
      /\ backlog' = [backlog EXCEPT ![n] = Tail(@)] /\ peers' = peers
  BY DEF Accept, GotoL
<1>2. backlog[n] \in Seq(Connections) /\ Head(backlog[n]) \in Connections
  BY <1>1 DEF TypeOK
<1>3. /\ SetOf(backlog[n]) = SetOf(Tail(backlog[n])) \cup {Head(backlog[n])}
      /\ Head(backlog[n]) \notin SetOf(Tail(backlog[n]))
      /\ \A i, j \in DOMAIN Tail(backlog[n]) :
           Tail(backlog[n])[i] = Tail(backlog[n])[j] => i = j
  BY <1>1, <1>2, TailOnce DEF ConnectionsOnce
<1>4. /\ backlog'[n] = Tail(backlog[n]) /\ client'[n] = Head(backlog[n]) /\ lst'[n] = "id"
      /\ \A m \in Nodes : m # n => /\ backlog'[m] = backlog[m] /\ client'[m] = client[m]
                                   /\ lst'[m] = lst[m]
  BY <1>1 DEF TypeOK
<1>5. InHand(n) = {} /\ InHand(n)' = {Head(backlog[n])}
  BY <1>1, <1>4 DEF InHand
<1>6. Waiting(n)' = Waiting(n)
  BY <1>3, <1>4, <1>5 DEF Waiting
<1>7. \A m \in Nodes : m # n => Waiting(m)' = Waiting(m)
  BY <1>4 DEF Waiting, InHand
<1>8. \A m \in Nodes : Waiting(m) \subseteq Connections
  BY DEF TypeOK, ConnectionsOnce, Waiting, InHand, SetOf
<1>10. PeersOnce'
  BY <1>1, <1>6, <1>7, PeersKept
<1>11. ASSUME NEW m \in Nodes
       PROVE  \A i, j \in DOMAIN backlog'[m] : backlog'[m][i] = backlog'[m][j] => i = j
  <2>1. CASE m = n
    BY <1>3, <1>4, <2>1
  <2>2. CASE m # n
    BY <1>4, <2>2 DEF ConnectionsOnce
  <2> QED BY <2>1, <2>2
<1>12. ASSUME NEW m \in Nodes, lst'[m] = "id"
       PROVE  client'[m] \in Connections /\ client'[m] \notin SetOf(backlog'[m])
  BY <1>2, <1>3, <1>4, <1>12 DEF ConnectionsOnce
<1>13. ASSUME NEW m \in Nodes, NEW d \in Waiting(m)' PROVE d[2] = m /\ Opened(d)'
  BY <1>6, <1>7, <1>8, <1>13, OpenedStays DEF ConnectionsOnce
<1> QED BY <1>10, <1>11, <1>12, <1>13 DEF ConnectionsOnce

(* The listener is through with the connection in its hands.               *)
LEMMA HandsEmptied ==
  ASSUME TypeOK, ConnectionsOnce, Forward, targets' = targets, backlog' = backlog,
         client' = client, NEW n \in Nodes, lst[n] = "id", NEW to,
         lst' = [lst EXCEPT ![n] = to], to # "id"
  PROVE  /\ ConnectionsOnce'
         /\ client[n] \in Connections /\ client[n] \in Waiting(n)
         /\ client[n][2] = n /\ Opened(client[n]) /\ client[n] \notin Waiting(n)'
         /\ \A m \in Nodes : Waiting(m)' \subseteq Waiting(m)
<1>1. /\ client[n] \in Connections /\ client[n] \notin SetOf(backlog[n])
      /\ client[n] \in Waiting(n)
  BY DEF ConnectionsOnce, Waiting, InHand
<1>2. client[n][2] = n /\ Opened(client[n])
  BY <1>1 DEF ConnectionsOnce
<1>3. lst'[n] = to /\ \A m \in Nodes : m # n => lst'[m] = lst[m]
  BY DEF TypeOK
<1>4. /\ InHand(n)' = {} /\ \A m \in Nodes : m # n => InHand(m)' = InHand(m)
  BY <1>3 DEF InHand
<1>5. \A m \in Nodes : Waiting(m)' \subseteq Waiting(m)
  BY <1>4 DEF Waiting
<1>6. client[n] \notin Waiting(n)'
  BY <1>1, <1>4 DEF Waiting
<1>7. \A m \in Nodes : Waiting(m) \subseteq Connections
  BY DEF TypeOK, ConnectionsOnce, Waiting, InHand, SetOf
<1>8. ASSUME NEW m \in Nodes, NEW d \in Waiting(m)' PROVE d[2] = m /\ Opened(d)'
  BY <1>5, <1>7, <1>8, OpenedStays DEF ConnectionsOnce
<1>9. \A m \in Nodes : lst'[m] = "id" =>
        client'[m] \in Connections /\ client'[m] \notin SetOf(backlog'[m])
  BY <1>3 DEF ConnectionsOnce
<1>10. ConnectionsOnce'
  BY <1>8, <1>9 DEF ConnectionsOnce
<1> QED BY <1>1, <1>2, <1>5, <1>6, <1>10

(* A new peer at the end of a list, with a stream of its own.              *)
LEMMA NewPeer ==
  ASSUME TypeOK, PeersOnce, Forward, targets' = targets, NEW n \in Nodes, NEW p,
         peers' = [peers EXCEPT ![n] = Append(@, p)],
         \A m \in Nodes : Waiting(m)' \subseteq Waiting(m),
         OfClient(n, p)' \/ OfTarget(n, p)',
         p.out # Null => Opened(p.out)' /\ p.out \notin Waiting(n)',
         \A i \in DOMAIN peers[n] : peers[n][i].in # p.in
  PROVE  PeersOnce'
<1> DEFINE k == Len(peers[n]) + 1
<1>1. /\ peers'[n] = Append(peers[n], p) /\ \A m \in Nodes : m # n => peers'[m] = peers[m]
      /\ peers[n] \in Seq(Peer)
  BY DEF TypeOK
<1>2. /\ DOMAIN peers'[n] = DOMAIN peers[n] \cup {k} /\ k \notin DOMAIN peers[n]
      /\ peers'[n][k] = p /\ \A i \in DOMAIN peers[n] : peers'[n][i] = peers[n][i]
  BY <1>1
<1> HIDE DEF k
<1>3. ASSUME NEW m \in Nodes, NEW i \in DOMAIN peers'[m]
      PROVE  (/\ OfClient(m, peers[m][i]) \/ OfTarget(m, peers[m][i])
              /\ peers[m][i].out # Null =>
                   Opened(peers[m][i].out) /\ peers[m][i].out \notin Waiting(m))'
  <2>1. CASE m = n /\ i = k
    <3>1. (p = peers[m][i])'
      BY <1>2, <2>1
    <3> QED BY <2>1, <3>1
  <2>2. CASE ~(m = n /\ i = k)
    <3>1. i \in DOMAIN peers[m] /\ peers'[m][i] = peers[m][i]
      BY <1>1, <1>2, <1>3, <2>2
    <3>2. PICK q : q = peers[m][i]
      OBVIOUS
    <3>3. /\ OfClient(m, q)' \/ OfTarget(m, q)'
          /\ q.out # Null => Opened(q.out)' /\ q.out \notin Waiting(m)'
      BY <3>1, <3>2, EntryKept
    <3>4. (q = peers[m][i])'
      BY <3>1, <3>2
    <3> QED BY <3>3, <3>4
  <2> QED BY <2>1, <2>2
<1>4. \A i, j \in DOMAIN peers'[n] : peers'[n][i].in = peers'[n][j].in => i = j
  BY <1>2 DEF PeersOnce
<1>5. \A m \in Nodes : m # n =>
        \A i, j \in DOMAIN peers'[m] : peers'[m][i].in = peers'[m][j].in => i = j
  BY <1>1 DEF PeersOnce
<1> QED BY <1>3, <1>4, <1>5 DEF PeersOnce

LEMMA AddPeerKeeps ==
  ASSUME TypeOK, UsersInStep, ConnectionsOnce, PeersOnce, Forward, targets' = targets,
         NEW n \in Nodes, AddPeer(n)
  PROVE  ConnectionsOnce' /\ PeersOnce'
<1> DEFINE t == Target(n)
           new == [in |-> <<n, t, 2>>, out |-> <<n, t, 1>>]
<1>1. /\ usr[n] = "add_peer" /\ peers' = [peers EXCEPT ![n] = Append(@, new)]
      /\ next' = [next EXCEPT ![n] = @ + 1]
      /\ backlog' = backlog /\ lst' = lst /\ client' = client
  BY DEF AddPeer, Goto, listenVars
<1>2. next[n] < Len(targets[n])
  BY <1>1 DEF UsersInStep, Connecting
<1>3. PICK T : T = t
  OBVIOUS
<1>4. /\ T \in Nodes /\ T # n /\ <<n, T, 1>> \in Connections /\ <<n, T, 2>> \in Connections
      /\ next[n] + 1 \in DOMAIN targets[n] /\ targets[n][next[n] + 1] = T
  BY <1>2, <1>3, TargetIs
<1>5. ~Reached(n, T, {})
  BY <1>2, <1>3, FirstTime
<1>6. Reached(n, T, {})'
  <2>1. next'[n] = next[n] + 1 /\ next[n] \in Nat
    BY <1>1 DEF TypeOK
  <2> QED BY <1>4, <2>1 DEF Reached
<1>7. \A m \in Nodes : Waiting(m)' = Waiting(m)
  BY <1>1 DEF Waiting, InHand
<1>8. \A m \in Nodes : Waiting(m) \subseteq Connections
  BY DEF TypeOK, ConnectionsOnce, Waiting, InHand, SetOf
<1>9. ConnectionsOnce'
  <2>1. ASSUME NEW m \in Nodes, NEW d \in Waiting(m)' PROVE d[2] = m /\ Opened(d)'
    BY <1>7, <1>8, <2>1, OpenedStays DEF ConnectionsOnce
  <2> QED BY <1>1, <2>1 DEF ConnectionsOnce
<1>10. PICK p : p = [in |-> <<n, T, 2>>, out |-> <<n, T, 1>>]
  OBVIOUS
<1>11. /\ p.in = <<n, T, 2>> /\ p.out = <<n, T, 1>> /\ p.out # Null
       /\ peers' = [peers EXCEPT ![n] = Append(@, p)]
  BY <1>1, <1>3, <1>4, <1>10, Ends
<1> HIDE DEF t, new
<1>12. OfTarget(n, p)'
  BY <1>6, <1>11 DEF OfTarget
<1>13. Opened(p.out)' /\ p.out \notin Waiting(n)'
  <2>1. Opened(<<n, T, 1>>)'
    BY <1>6 DEF Opened, Reached
  <2>2. \A d \in Waiting(n) : d[2] = n
    BY DEF ConnectionsOnce
  <2> QED BY <1>4, <1>7, <1>11, <2>1, <2>2
<1>14. \A i \in DOMAIN peers[n] : peers[n][i].in # <<n, T, 2>>
  <2>1. SUFFICES ASSUME NEW i \in DOMAIN peers[n], peers[n][i].in = <<n, T, 2>>
                 PROVE  FALSE
    OBVIOUS
  <2>2. OfClient(n, peers[n][i]) \/ OfTarget(n, peers[n][i])
    BY DEF PeersOnce
  <2> QED BY <1>4, <1>5, <2>1, <2>2 DEF OfClient, OfTarget
<1>15. PeersOnce'
  BY <1>7, <1>11, <1>12, <1>13, <1>14, NewPeer
<1> QED BY <1>9, <1>15

LEMMA RegisterKeeps ==
  ASSUME TypeOK, ConnectionsOnce, PeersOnce, Forward, targets' = targets,
         NEW n \in Nodes, Register(n)
  PROVE  ConnectionsOnce' /\ PeersOnce'
<1>1. /\ lst[n] = "id" /\ lst' = [lst EXCEPT ![n] = "loop"]
      /\ peers' = [peers EXCEPT ![n] = Append(@, [in |-> client[n], out |-> Null])]
      /\ backlog' = backlog /\ client' = client
  BY DEF Register, GotoL
<1>2. /\ ConnectionsOnce' /\ client[n] \in Connections /\ client[n] \in Waiting(n)
      /\ client[n][2] = n /\ Opened(client[n]) /\ client[n] \notin Waiting(n)'
      /\ \A m \in Nodes : Waiting(m)' \subseteq Waiting(m)
  BY <1>1, HandsEmptied
<1>3. PICK c : c = client[n]
  OBVIOUS
<1>4. PICK p : p = [in |-> c, out |-> Null]
  OBVIOUS
<1>5. /\ p.in = c /\ p.out = Null /\ peers' = [peers EXCEPT ![n] = Append(@, p)]
  BY <1>1, <1>3, <1>4
<1>6. Opened(c)'
  BY <1>2, <1>3, OpenedStays
<1>7. OfClient(n, p)'
  BY <1>2, <1>3, <1>5, <1>6 DEF OfClient
<1>8. \A i \in DOMAIN peers[n] : peers[n][i].in # c
  <2>1. SUFFICES ASSUME NEW i \in DOMAIN peers[n], peers[n][i].in = c PROVE FALSE
    OBVIOUS
  <2>2. OfClient(n, peers[n][i]) \/ OfTarget(n, peers[n][i])
    BY DEF PeersOnce
  <2>3. ~OfClient(n, peers[n][i])
    BY <1>2, <1>3, <2>1 DEF OfClient
  <2>4. c[1] = n /\ Reached(n, n, {})
    BY <1>2, <1>3, <2>1, <2>2, <2>3 DEF OfTarget
  <2>5. \A j \in DOMAIN targets[n] : targets[n][j] # n
    BY Given DEF TypeOK
  <2> QED BY <2>4, <2>5 DEF Reached
<1>9. PeersOnce'
  BY <1>2, <1>5, <1>7, <1>8, NewPeer
<1> QED BY <1>2, <1>9

LEMMA SetOutKeeps ==
  ASSUME TypeOK, ConnectionsOnce, PeersOnce, Forward, targets' = targets,
         NEW n \in Nodes, SetOut(n)
  PROVE  ConnectionsOnce' /\ PeersOnce'
<1>1. /\ lst[n] = "id" /\ lst' = [lst EXCEPT ![n] = "notify"]
      /\ backlog' = backlog /\ client' = client
  BY DEF SetOut, GotoL
<1>2. /\ ConnectionsOnce' /\ client[n] \in Connections /\ client[n] \in Waiting(n)
      /\ client[n][2] = n /\ Opened(client[n]) /\ client[n] \notin Waiting(n)'
      /\ \A m \in Nodes : Waiting(m)' \subseteq Waiting(m)
  BY <1>1, HandsEmptied
<1>3. PICK k \in DOMAIN peers[n] : peers' = [peers EXCEPT ![n][k].out = client[n]]
  <2>1. PICK id \in Ids(n) : /\ id < Len(peers[n]) /\ ReadId(n, id)
                             /\ peers' = [peers EXCEPT ![n][id + 1].out = client[n]]
    BY DEF SetOut
  <2>2. id \in Nat
    BY <1>2, <2>1, ReadIdType
  <2>3. id + 1 \in DOMAIN peers[n]
    BY <2>1, <2>2, PeersType DEF TypeOK
  <2> QED BY <2>1, <2>3
<1>4. PICK c \in Connections : c = client[n]
  BY <1>2
<1>5. /\ \A m \in Nodes : DOMAIN peers'[m] = DOMAIN peers[m]
      /\ \A m \in Nodes : m # n => peers'[m] = peers[m]
      /\ peers'[n][k].in = peers[n][k].in /\ peers'[n][k].out = c
      /\ \A i \in DOMAIN peers[n] : i # k => peers'[n][i] = peers[n][i]
  BY <1>3, <1>4, CompletedType DEF TypeOK
<1>6. Opened(c)' /\ c \notin Waiting(n)' /\ c # Null
  BY <1>2, <1>4, OpenedStays, Ends
<1>7. ASSUME NEW m \in Nodes, NEW i \in DOMAIN peers[m]
      PROVE  (/\ OfClient(m, peers[m][i]) \/ OfTarget(m, peers[m][i])
              /\ peers[m][i].out # Null =>
                   Opened(peers[m][i].out) /\ peers[m][i].out \notin Waiting(m))'
  <2>1. PICK p : p = peers[m][i]
    OBVIOUS
  <2>2. /\ OfClient(m, p)' \/ OfTarget(m, p)'
        /\ p.out # Null => Opened(p.out)' /\ p.out \notin Waiting(m)'
    BY <1>2, <2>1, EntryKept
  <2>3. CASE m # n \/ i # k
    <3>1. (p = peers[m][i])'
      BY <1>5, <2>1, <2>3
    <3> QED BY <2>2, <3>1
  <2>4. CASE m = n /\ i = k
    <3>1. PICK q : q = peers'[n][k]
      OBVIOUS
    <3>2. q.in = p.in /\ q.out = c
      BY <1>5, <2>1, <2>4, <3>1
    <3>3. OfClient(n, q)' \/ OfTarget(n, q)'
      BY <1>6, <2>2, <2>4, <3>2 DEF OfClient, OfTarget
    <3>4. (q = peers[m][i])'
      BY <2>4, <3>1
    <3> QED BY <1>6, <2>4, <3>2, <3>3, <3>4
  <2> QED BY <2>3, <2>4
<1>8. \A m \in Nodes : \A i, j \in DOMAIN peers'[m] :
        peers'[m][i].in = peers'[m][j].in => i = j
  <2>1. \A m \in Nodes : \A i \in DOMAIN peers[m] : peers'[m][i].in = peers[m][i].in
    BY <1>5
  <2> QED BY <1>5, <2>1 DEF PeersOnce
<1>9. PeersOnce'
  BY <1>5, <1>7, <1>8 DEF PeersOnce
<1> QED BY <1>2, <1>9


(* Where connections are.                                                  *)
LEMMA PlacesStep ==
  ASSUME TypeOK, UsersInStep, ConnectionsOnce, PeersOnce, [Next]_vars
  PROVE  ConnectionsOnce' /\ PeersOnce'
<1>0. Forward /\ targets' = targets
  BY ForwardStep, SameScenario
<1>1. ASSUME NEW n \in Nodes, ListenForNobody(n) PROVE ConnectionsOnce' /\ PeersOnce'
  <2>1. LessWaits
    BY <1>1 DEF ListenForNobody, Goto, connectVars, listenVars, waitVars, LessWaits,
       TypeOK
  <2> QED BY <2>1, <1>0, LessWaitsKeeps
<1>2. ASSUME NEW n \in Nodes, Listen(n) PROVE ConnectionsOnce' /\ PeersOnce'
  <2>1. LessWaits
    BY <1>2 DEF Listen, Goto, connectVars, LessWaits, TypeOK
  <2> QED BY <2>1, <1>0, LessWaitsKeeps
<1>3. ASSUME NEW n \in Nodes, ListenFails(n) PROVE ConnectionsOnce' /\ PeersOnce'
  <2>1. LessWaits
    BY <1>3 DEF ListenFails, Goto, connectVars, listenVars, LessWaits, TypeOK
  <2> QED BY <2>1, <1>0, LessWaitsKeeps
<1>4. ASSUME NEW n \in Nodes, ListenReady(n) PROVE ConnectionsOnce' /\ PeersOnce'
  <2>1. LessWaits
    BY <1>4 DEF ListenReady, Goto, connectVars, listenVars, LessWaits, TypeOK
  <2> QED BY <2>1, <1>0, LessWaitsKeeps
<1>5. ASSUME NEW n \in Nodes, Wait(n) PROVE ConnectionsOnce' /\ PeersOnce'
  <2>1. LessWaits
    BY <1>5 DEF Wait, Goto, connectVars, listenVars, LessWaits, TypeOK
  <2> QED BY <2>1, <1>0, LessWaitsKeeps
<1>6. ASSUME NEW n \in Nodes, RemoveListener(n) PROVE ConnectionsOnce' /\ PeersOnce'
  <2>1. LessWaits
    BY <1>6 DEF RemoveListener, Goto, connectVars, listenVars, LessWaits, TypeOK
  <2> QED BY <2>1, <1>0, LessWaitsKeeps
<1>7. ASSUME NEW n \in Nodes, FreeListener(n) PROVE ConnectionsOnce' /\ PeersOnce'
  <2>1. LessWaits
    BY <1>7 DEF FreeListener, Goto, connectVars, listenVars, LessWaits, TypeOK
  <2> QED BY <2>1, <1>0, LessWaitsKeeps
<1>8. ASSUME NEW n \in Nodes, OpenOut(n) PROVE ConnectionsOnce' /\ PeersOnce'
  <2>1. next[n] < Len(targets[n])
    BY <1>8 DEF OpenOut, Goto, UsersInStep, Connecting
  <2>2. PICK T : T = Target(n)
    OBVIOUS
  <2>3. /\ next[n] + 1 \in DOMAIN targets[n] /\ targets[n][next[n] + 1] = T
        /\ <<n, T, 1>> \in Connections
    BY <2>1, <2>2, TargetIs
  <2>4. Reached(n, T, (Connecting \cup {"failed"}))
          <=> usr[n] \in (Connecting \cup {"failed"})
    BY <2>1, <2>2, FirstTime
  <2>5. /\ usr[n] \notin (Connecting \cup {"failed"})
        /\ usr'[n] \in (Connecting \cup {"failed"})
        /\ next' = next /\ peers' = peers /\ Enqueue(<<n, T, 1>>)
    BY <1>8, <2>2 DEF OpenOut, Goto, connectVars, Connecting, OpenedIn, TypeOK
  <2>6. ~Opened(<<n, T, 1>>)
    BY <2>4, <2>5 DEF Opened
  <2>7. Opened(<<n, T, 1>>)'
    BY <1>0, <2>3, <2>5 DEF Opened, Reached
  <2> QED BY <1>0, <2>3, <2>5, <2>6, <2>7, EnqueueKeeps
<1>9. ASSUME NEW n \in Nodes, OpenFails(n) PROVE ConnectionsOnce' /\ PeersOnce'
  <2>1. LessWaits
    BY <1>9 DEF OpenFails, Goto, Exit, StopListening, connectVars, waitVars, LessWaits,
       TypeOK
  <2> QED BY <2>1, <1>0, LessWaitsKeeps
<1>10. ASSUME NEW n \in Nodes, Hello(n) PROVE ConnectionsOnce' /\ PeersOnce'
  <2>1. LessWaits
    BY <1>10 DEF Hello, Goto, connectVars, listenVars, waitVars, LessWaits, TypeOK
  <2> QED BY <2>1, <1>0, LessWaitsKeeps
<1>11. ASSUME NEW n \in Nodes, ReadMyId(n) PROVE ConnectionsOnce' /\ PeersOnce'
  <2>1. LessWaits
    BY <1>11 DEF ReadMyId, Goto, listenVars, waitVars, LessWaits, TypeOK
  <2> QED BY <2>1, <1>0, LessWaitsKeeps
<1>12. ASSUME NEW n \in Nodes, OpenIn(n) PROVE ConnectionsOnce' /\ PeersOnce'
  <2>1. next[n] < Len(targets[n])
    BY <1>12 DEF OpenIn, Goto, UsersInStep, Connecting
  <2>2. PICK T : T = Target(n)
    OBVIOUS
  <2>3. /\ next[n] + 1 \in DOMAIN targets[n] /\ targets[n][next[n] + 1] = T
        /\ <<n, T, 2>> \in Connections
    BY <2>1, <2>2, TargetIs
  <2>4. Reached(n, T, OpenedIn)
          <=> usr[n] \in OpenedIn
    BY <2>1, <2>2, FirstTime
  <2>5. /\ usr[n] \notin OpenedIn
        /\ usr'[n] \in OpenedIn
        /\ next' = next /\ peers' = peers /\ Enqueue(<<n, T, 2>>)
    BY <1>12, <2>2 DEF OpenIn, Goto, connectVars, Connecting, OpenedIn, TypeOK
  <2>6. ~Opened(<<n, T, 2>>)
    BY <2>4, <2>5 DEF Opened
  <2>7. Opened(<<n, T, 2>>)'
    BY <1>0, <2>3, <2>5 DEF Opened, Reached
  <2> QED BY <1>0, <2>3, <2>5, <2>6, <2>7, EnqueueKeeps
<1>13. ASSUME NEW n \in Nodes, SendMyId(n) PROVE ConnectionsOnce' /\ PeersOnce'
  <2>1. LessWaits
    BY <1>13 DEF SendMyId, Goto, connectVars, listenVars, waitVars, LessWaits, TypeOK
  <2> QED BY <2>1, <1>0, LessWaitsKeeps
<1>14. ASSUME NEW n \in Nodes, AddPeer(n) PROVE ConnectionsOnce' /\ PeersOnce'
  BY <1>14, <1>0, AddPeerKeeps
<1>15. ASSUME NEW n \in Nodes, Ready(n) PROVE ConnectionsOnce' /\ PeersOnce'
  <2>1. LessWaits
    BY <1>15 DEF Ready, Goto, connectVars, listenVars, waitVars, LessWaits, TypeOK
  <2> QED BY <2>1, <1>0, LessWaitsKeeps
<1>16. ASSUME NEW n \in Nodes, JoinListener(n) PROVE ConnectionsOnce' /\ PeersOnce'
  <2>1. LessWaits
    BY <1>16 DEF JoinListener, Goto, connectVars, listenVars, waitVars, LessWaits,
       TypeOK
  <2> QED BY <2>1, <1>0, LessWaitsKeeps
<1>17. ASSUME NEW n \in Nodes, Destroy(n) PROVE ConnectionsOnce' /\ PeersOnce'
  <2>1. LessWaits
    BY <1>17 DEF Destroy, Goto, StopListening, connectVars, waitVars, LessWaits, TypeOK
  <2> QED BY <2>1, <1>0, LessWaitsKeeps
<1>18. ASSUME NEW n \in Nodes, Crash(n) PROVE ConnectionsOnce' /\ PeersOnce'
  <2>1. LessWaits
    BY <1>18 DEF Crash, Exit, StopListening, Gone, connectVars, waitVars, LessWaits,
       TypeOK
  <2> QED BY <2>1, <1>0, LessWaitsKeeps
<1>19. ASSUME NEW n \in Nodes, Loop(n) PROVE ConnectionsOnce' /\ PeersOnce'
  <2>1. LessWaits
    BY <1>19 DEF Loop, connectVars, LessWaits, TypeOK
  <2> QED BY <2>1, <1>0, LessWaitsKeeps
<1>20. ASSUME NEW n \in Nodes, Accept(n) PROVE ConnectionsOnce' /\ PeersOnce'
  BY <1>20, <1>0, AcceptKeeps
<1>21. ASSUME NEW n \in Nodes, AcceptFails(n) PROVE ConnectionsOnce' /\ PeersOnce'
  <2>1. LessWaits
    BY <1>21 DEF AcceptFails, GotoL, waitVars, connectVars, LessWaits, TypeOK
  <2> QED BY <2>1, <1>0, LessWaitsKeeps
<1>22. ASSUME NEW n \in Nodes, Register(n) PROVE ConnectionsOnce' /\ PeersOnce'
  BY <1>22, <1>0, RegisterKeeps
<1>23. ASSUME NEW n \in Nodes, SetOut(n) PROVE ConnectionsOnce' /\ PeersOnce'
  BY <1>23, <1>0, SetOutKeeps
<1>24. ASSUME NEW n \in Nodes, DropClient(n) PROVE ConnectionsOnce' /\ PeersOnce'
  <2>1. LessWaits
    BY <1>24 DEF DropClient, GotoL, ReadId, waitVars, connectVars, LessWaits, TypeOK
  <2> QED BY <2>1, <1>0, LessWaitsKeeps
<1>25. ASSUME NEW n \in Nodes, IgnoreClient(n) PROVE ConnectionsOnce' /\ PeersOnce'
  <2>1. LessWaits
    BY <1>25 DEF IgnoreClient, GotoL, ReadId, waitVars, connectVars, LessWaits, TypeOK
  <2> QED BY <2>1, <1>0, LessWaitsKeeps
<1>26. ASSUME NEW n \in Nodes, FindListener(n) PROVE ConnectionsOnce' /\ PeersOnce'
  <2>1. LessWaits
    BY <1>26 DEF FindListener, waitVars, connectVars, LessWaits, TypeOK
  <2> QED BY <2>1, <1>0, LessWaitsKeeps
<1>27. ASSUME NEW n \in Nodes, ClientConnected(n) PROVE ConnectionsOnce' /\ PeersOnce'
  <2>1. LessWaits
    BY <1>27 DEF ClientConnected, connectVars, LessWaits, TypeOK
  <2> QED BY <2>1, <1>0, LessWaitsKeeps
<1>28. ASSUME NEW n \in Nodes, ReleaseHold(n) PROVE ConnectionsOnce' /\ PeersOnce'
  <2>1. LessWaits
    BY <1>28 DEF ReleaseHold, GotoL, connectVars, LessWaits, TypeOK
  <2> QED BY <2>1, <1>0, LessWaitsKeeps
<1>29. CASE UNCHANGED vars
  <2>1. LessWaits
    BY <1>29 DEF vars, listenVars, LessWaits
  <2> QED BY <2>1, <1>0, LessWaitsKeeps
<1> QED BY <1>1, <1>2, <1>3, <1>4, <1>5, <1>6, <1>7, <1>8, <1>9, <1>10, <1>11, <1>12,
           <1>13, <1>14, <1>15, <1>16, <1>17, <1>18, <1>19, <1>20, <1>21, <1>22, <1>23,
           <1>24, <1>25, <1>26, <1>27, <1>28, <1>29 DEF Next, User, ListenWait,
           Connect, Listener
----------------------------------------------------------------------------
(* Numbers in the streams.                                                 *)

LEMMA SetOfAppend ==
  ASSUME NEW S, NEW s \in Seq(S), NEW x \in S
  PROVE  SetOf(Append(s, x)) = SetOf(s) \cup {x}
<1> DEFINE t == Append(s, x)
<1>1. /\ Len(s) \in Nat /\ DOMAIN s = 1 .. Len(s)
      /\ DOMAIN t = 1 .. Len(s) + 1
      /\ \A i \in 1 .. Len(s) : t[i] = s[i]
      /\ t[Len(s) + 1] = x
  OBVIOUS
<1>2. \A i \in DOMAIN t : i \in DOMAIN s \/ i = Len(s) + 1
  BY <1>1
<1> HIDE DEF t
<1>3. SetOf(t) = SetOf(s) \cup {x}
  BY <1>1, <1>2 DEF SetOf
<1> QED BY <1>3 DEF t

LEMMA SetOfRest ==
  ASSUME NEW S, NEW s \in Seq(S)
  PROVE  SetOf(Rest(s)) \subseteq SetOf(s)
<1>1. CASE s = <<>>
  BY <1>1 DEF Rest
<1>2. CASE s # <<>>
  <2> DEFINE t == Tail(s)
  <2>1. \A i \in DOMAIN t : i + 1 \in DOMAIN s /\ t[i] = s[i + 1]
    BY <1>2
  <2> HIDE DEF t
  <2>2. SetOf(t) \subseteq SetOf(s)
    BY <2>1 DEF SetOf
  <2> QED BY <1>2, <2>2 DEF Rest, t
<1> QED BY <1>1, <1>2

LEMMA HeadIsSent ==
  ASSUME NEW S, NEW s \in Seq(S), NEW id, ~Misread(s, id)
  PROVE  id \in SetOf(s)
<1>1. s # <<>> /\ id = s[1] /\ 1 \in DOMAIN s
  BY DEF Misread
<1> QED BY <1>1 DEF SetOf

(* What IdsName says, with the sets of numbers on their way.               *)
LEMMA IdsNameOf ==
  IdsName <=>
    \A m \in Nodes :
      /\ usr[m] \in {"open_in", "send_id"} => Names(m, Target(m), myid[m])
      /\ \A n \in Nodes :
           /\ \A x \in SetOf(up[<<m, n, 1>>]) : x = 1024
           /\ \A x \in SetOf(down[<<m, n, 1>>]) : Names(m, n, x)
           /\ \A x \in SetOf(up[<<m, n, 2>>]) : Names(m, n, x)
<1>1. \A s : Asks(s) <=> \A x \in SetOf(s) : x = 1024
  BY DEF Asks, SetOf
<1>2. \A m, n, s : AllName(m, n, s) <=> \A x \in SetOf(s) : Names(m, n, x)
  BY DEF AllName, SetOf
<1> QED BY <1>1, <1>2 DEF IdsName

(* What the listener reads says which connection it came by.               *)
LEMMA WhoAsks ==
  ASSUME TypeOK, ConnectionsOnce, IdsName, NEW n \in Nodes, lst[n] = "id",
         NEW id, ReadId(n, id), ~garbled'
  PROVE  \E m \in Nodes : \/ client[n] = <<m, n, 1>> /\ id = 1024
                          \/ client[n] = <<m, n, 2>> /\ Names(m, n, id)
<1>1. PICK c \in Connections : c = client[n]
  BY DEF ConnectionsOnce
<1>2. c \in Waiting(n)
  BY <1>1 DEF Waiting, InHand
<1>3. c[2] = n
  BY <1>2 DEF ConnectionsOnce
<1>4. PICK m \in Nodes : c = <<m, n, 1>> \/ c = <<m, n, 2>>
  BY <1>3, Ends
<1>5. up[c] \in Seq(Nat) /\ ~Misread(up[c], id)
  BY <1>1 DEF TypeOK, ReadId
<1>6. id \in SetOf(up[c])
  BY <1>5, HeadIsSent
<1>7. /\ \A x \in SetOf(up[<<m, n, 1>>]) : x = 1024
      /\ \A x \in SetOf(up[<<m, n, 2>>]) : Names(m, n, x)
  BY IdsNameOf
<1>8. CASE c = <<m, n, 1>>
  <2>1. id = 1024
    BY <1>6, <1>7, <1>8
  <2> QED BY <1>1, <1>8, <2>1
<1>9. CASE c = <<m, n, 2>>
  <2>1. Names(m, n, id)
    BY <1>6, <1>7, <1>9
  <2> QED BY <1>1, <1>9, <2>1
<1> QED BY <1>4, <1>8, <1>9

(* A number once garbled stays in the history.                             *)
LEMMA StaysGarbled ==
  ASSUME [Next]_vars, garbled
  PROVE  garbled'
<1>1. ASSUME NEW n \in Nodes, ListenWait(n) PROVE garbled'
  BY <1>1 DEF ListenWait, ListenForNobody, Listen, ListenFails, ListenReady, Wait,
              RemoveListener, FreeListener
<1>2. ASSUME NEW n \in Nodes, Connect(n) PROVE garbled'
  <2>1. CASE ReadMyId(n)
    BY <2>1 DEF ReadMyId
  <2> QED BY <1>2, <2>1
          DEF Connect, OpenOut, OpenFails, Hello, OpenIn, SendMyId, AddPeer, Exit
<1>3. ASSUME NEW n \in Nodes, Ready(n) \/ JoinListener(n) \/ Destroy(n) \/ Crash(n)
      PROVE  garbled'
  BY <1>3 DEF Ready, JoinListener, Destroy, Crash, Exit
<1>4. ASSUME NEW n \in Nodes, Listener(n) PROVE garbled'
  <2>1. CASE \E id \in Ids(n) : ReadId(n, id)
    BY <2>1 DEF ReadId
  <2>2. CASE Loop(n) \/ Accept(n) \/ AcceptFails(n)
    BY <2>2 DEF Loop, Accept, AcceptFails
  <2>3. CASE FindListener(n) \/ ClientConnected(n) \/ ReleaseHold(n)
    BY <2>3 DEF FindListener, ClientConnected, ReleaseHold
  <2>4. CASE Register(n) \/ SetOut(n)
    <3>1. \E id \in Ids(n) : ReadId(n, id)
      BY <2>4, ZenonT(30) DEF Register, SetOut
    <3> QED BY <2>1, <3>1
  <2>5. CASE DropClient(n) \/ IgnoreClient(n)
    <3>1. \E id \in Ids(n) : ReadId(n, id)
      BY <2>5, ZenonT(30) DEF DropClient, IgnoreClient
    <3> QED BY <2>1, <3>1
  <2> QED BY <1>4, <2>2, <2>3, <2>4, <2>5 DEF Listener
<1>5. CASE UNCHANGED vars
  BY <1>5 DEF vars
<1> QED BY <1>1, <1>2, <1>3, <1>4, <1>5 DEF Next, User
----------------------------------------------------------------------------
(* The streams of a peer.                                                  *)

(* p is what StreamsPaired asks of a peer of n.                            *)
Pair(n, p) == \/ p.in[2] = n /\ p.in[3] = 1 /\ p.out \in {Null, <<p.in[1], n, 2>>}
              \/ p.in[1] = n /\ p.in[3] = 2 /\ p.out = <<n, p.in[2], 1>>

LEMMA PairsOf ==
  StreamsPaired <=> (~garbled => \A n \in Nodes : \A i \in DOMAIN peers[n] :
                                   Pair(n, peers[n][i]))
BY DEF StreamsPaired, Pair

LEMMA OneMorePair ==
  ASSUME TypeOK, StreamsPaired, ~garbled, NEW n \in Nodes, NEW p, Pair(n, p),
         peers' = [peers EXCEPT ![n] = Append(@, p)]
  PROVE  StreamsPaired'
<1> DEFINE k == Len(peers[n]) + 1
<1>1. /\ peers'[n] = Append(peers[n], p) /\ \A m \in Nodes : m # n => peers'[m] = peers[m]
      /\ peers[n] \in Seq(Peer)
  BY DEF TypeOK
<1>2. /\ DOMAIN peers'[n] = DOMAIN peers[n] \cup {k}
      /\ peers'[n][k] = p /\ \A i \in DOMAIN peers[n] : peers'[n][i] = peers[n][i]
  BY <1>1
<1> HIDE DEF k
<1>3. ASSUME NEW m \in Nodes, NEW i \in DOMAIN peers'[m] PROVE Pair(m, peers'[m][i])
  <2>1. CASE m = n /\ i = k
    BY <1>2, <2>1
  <2>2. CASE ~(m = n /\ i = k)
    <3>1. i \in DOMAIN peers[m] /\ peers'[m][i] = peers[m][i]
      BY <1>1, <1>2, <1>3, <2>2
    <3> QED BY <3>1, PairsOf
  <2> QED BY <2>1, <2>2
<1>4. (\A m \in Nodes : \A i \in DOMAIN peers[m] : Pair(m, peers[m][i]))'
  BY <1>3 DEF Pair
<1> QED BY <1>4 DEF StreamsPaired, Pair

(* SetOut fills the peer that the client's other connection made.          *)
LEMMA SetsOwnOut ==
  ASSUME TypeOK, ConnectionsOnce, IdsName, NEW n \in Nodes, SetOut(n), ~garbled'
  PROVE  \E m \in Nodes, k \in DOMAIN peers[n] :
           /\ client[n] = <<m, n, 2>> /\ peers[n][k].in = <<m, n, 1>>
           /\ peers' = [peers EXCEPT ![n][k].out = client[n]]
<1>1. PICK id \in Ids(n) : /\ id < 1024 /\ ReadId(n, id)
                           /\ peers' = [peers EXCEPT ![n][id + 1].out = client[n]]
  BY DEF SetOut
<1>2. lst[n] = "id"
  BY DEF SetOut, GotoL
<1>3. id # 1024
  BY <1>1
<1>4. PICK m \in Nodes : client[n] = <<m, n, 2>> /\ Names(m, n, id)
  BY <1>1, <1>2, <1>3, WhoAsks
<1>5. id + 1 \in DOMAIN peers[n] /\ peers[n][id + 1].in = <<m, n, 1>>
  BY <1>4 DEF Names
<1> QED BY <1>1, <1>4, <1>5


LEMMA PairedStep ==
  ASSUME TypeOK, ConnectionsOnce, StreamsPaired, IdsName, ~garbled, ~garbled', [Next]_vars
  PROVE  StreamsPaired'
<1>1. ASSUME NEW n \in Nodes, ListenForNobody(n) PROVE StreamsPaired'
  BY <1>1 DEF ListenForNobody, Goto, connectVars, listenVars, waitVars, StreamsPaired
<1>2. ASSUME NEW n \in Nodes, Listen(n) PROVE StreamsPaired'
  BY <1>2 DEF Listen, Goto, connectVars, StreamsPaired
<1>3. ASSUME NEW n \in Nodes, ListenFails(n) PROVE StreamsPaired'
  BY <1>3 DEF ListenFails, Goto, connectVars, listenVars, StreamsPaired
<1>4. ASSUME NEW n \in Nodes, ListenReady(n) PROVE StreamsPaired'
  BY <1>4 DEF ListenReady, Goto, connectVars, listenVars, StreamsPaired
<1>5. ASSUME NEW n \in Nodes, Wait(n) PROVE StreamsPaired'
  BY <1>5 DEF Wait, Goto, connectVars, listenVars, StreamsPaired
<1>6. ASSUME NEW n \in Nodes, RemoveListener(n) PROVE StreamsPaired'
  BY <1>6 DEF RemoveListener, Goto, connectVars, listenVars, StreamsPaired
<1>7. ASSUME NEW n \in Nodes, FreeListener(n) PROVE StreamsPaired'
  BY <1>7 DEF FreeListener, Goto, connectVars, listenVars, StreamsPaired
<1>8. ASSUME NEW n \in Nodes, OpenOut(n) PROVE StreamsPaired'
  BY <1>8 DEF OpenOut, Goto, Enqueue, connectVars, waitVars, StreamsPaired
<1>9. ASSUME NEW n \in Nodes, OpenFails(n) PROVE StreamsPaired'
  BY <1>9 DEF OpenFails, Goto, Exit, StopListening, connectVars, waitVars,
     StreamsPaired
<1>10. ASSUME NEW n \in Nodes, Hello(n) PROVE StreamsPaired'
  BY <1>10 DEF Hello, Goto, connectVars, listenVars, waitVars, StreamsPaired
<1>11. ASSUME NEW n \in Nodes, ReadMyId(n) PROVE StreamsPaired'
  BY <1>11 DEF ReadMyId, Goto, listenVars, waitVars, StreamsPaired
<1>12. ASSUME NEW n \in Nodes, OpenIn(n) PROVE StreamsPaired'
  BY <1>12 DEF OpenIn, Goto, Enqueue, connectVars, waitVars, StreamsPaired
<1>13. ASSUME NEW n \in Nodes, SendMyId(n) PROVE StreamsPaired'
  BY <1>13 DEF SendMyId, Goto, connectVars, listenVars, waitVars, StreamsPaired
<1>14. ASSUME NEW n \in Nodes, AddPeer(n) PROVE StreamsPaired'
  <2>1. PICK p : p = [in |-> <<n, Target(n), 2>>, out |-> <<n, Target(n), 1>>]
    OBVIOUS
  <2>2. peers' = [peers EXCEPT ![n] = Append(@, p)]
    BY <1>14, <2>1 DEF AddPeer
  <2>3. Pair(n, p)
    BY <2>1 DEF Pair
  <2> QED BY <2>2, <2>3, OneMorePair
<1>15. ASSUME NEW n \in Nodes, Ready(n) PROVE StreamsPaired'
  BY <1>15 DEF Ready, Goto, connectVars, listenVars, waitVars, StreamsPaired
<1>16. ASSUME NEW n \in Nodes, JoinListener(n) PROVE StreamsPaired'
  BY <1>16 DEF JoinListener, Goto, connectVars, listenVars, waitVars, StreamsPaired
<1>17. ASSUME NEW n \in Nodes, Destroy(n) PROVE StreamsPaired'
  BY <1>17 DEF Destroy, Goto, StopListening, connectVars, waitVars, StreamsPaired
<1>18. ASSUME NEW n \in Nodes, Crash(n) PROVE StreamsPaired'
  BY <1>18 DEF Crash, Exit, StopListening, Gone, connectVars, waitVars, StreamsPaired
<1>19. ASSUME NEW n \in Nodes, Loop(n) PROVE StreamsPaired'
  BY <1>19 DEF Loop, connectVars, StreamsPaired
<1>20. ASSUME NEW n \in Nodes, Accept(n) PROVE StreamsPaired'
  BY <1>20 DEF Accept, GotoL, waitVars, connectVars, StreamsPaired
<1>21. ASSUME NEW n \in Nodes, AcceptFails(n) PROVE StreamsPaired'
  BY <1>21 DEF AcceptFails, GotoL, waitVars, connectVars, StreamsPaired
<1>22. ASSUME NEW n \in Nodes, Register(n) PROVE StreamsPaired'
  <2>1. PICK id \in Ids(n) : id = 1024 /\ ReadId(n, id)
    BY <1>22 DEF Register
  <2>2. lst[n] = "id"
    BY <1>22 DEF Register, GotoL
  <2>3. PICK m \in Nodes : client[n] = <<m, n, 1>>
    BY <2>1, <2>2, WhoAsks DEF Names
  <2>4. PICK p : p = [in |-> client[n], out |-> Null]
    OBVIOUS
  <2>5. peers' = [peers EXCEPT ![n] = Append(@, p)]
    BY <1>22, <2>4 DEF Register
  <2>6. Pair(n, p)
    BY <2>3, <2>4 DEF Pair
  <2> QED BY <2>5, <2>6, OneMorePair
<1>23. ASSUME NEW n \in Nodes, SetOut(n) PROVE StreamsPaired'
  <2>1. lst[n] = "id"
    BY <1>23 DEF SetOut, GotoL
  <2>2. PICK m \in Nodes, k \in DOMAIN peers[n] :
          /\ client[n] = <<m, n, 2>> /\ peers[n][k].in = <<m, n, 1>>
          /\ peers' = [peers EXCEPT ![n][k].out = client[n]]
    BY <1>23, <2>1, SetsOwnOut
  <2>3. PICK c \in Connections : c = client[n]
    BY <2>1 DEF ConnectionsOnce
  <2>4. /\ \A j \in Nodes : DOMAIN peers'[j] = DOMAIN peers[j]
        /\ \A j \in Nodes : j # n => peers'[j] = peers[j]
        /\ peers'[n][k].in = peers[n][k].in /\ peers'[n][k].out = c
        /\ \A i \in DOMAIN peers[n] : i # k => peers'[n][i] = peers[n][i]
    BY <2>2, <2>3, CompletedType, SMTT(30) DEF TypeOK
  <2>5. ASSUME NEW j \in Nodes, NEW i \in DOMAIN peers'[j] PROVE Pair(j, peers'[j][i])
    <3>1. CASE j = n /\ i = k
      BY <2>2, <2>3, <2>4, <3>1 DEF Pair
    <3>2. CASE ~(j = n /\ i = k)
      <4>1. i \in DOMAIN peers[j] /\ peers'[j][i] = peers[j][i]
        BY <2>4, <2>5, <3>2
      <4> QED BY <4>1, PairsOf
    <3> QED BY <3>1, <3>2
  <2> QED BY <2>5 DEF StreamsPaired, Pair
<1>24. ASSUME NEW n \in Nodes, DropClient(n) PROVE StreamsPaired'
  BY <1>24 DEF DropClient, GotoL, ReadId, waitVars, connectVars, StreamsPaired
<1>25. ASSUME NEW n \in Nodes, IgnoreClient(n) PROVE StreamsPaired'
  BY <1>25 DEF IgnoreClient, GotoL, ReadId, waitVars, connectVars, StreamsPaired
<1>26. ASSUME NEW n \in Nodes, FindListener(n) PROVE StreamsPaired'
  BY <1>26 DEF FindListener, waitVars, connectVars, StreamsPaired
<1>27. ASSUME NEW n \in Nodes, ClientConnected(n) PROVE StreamsPaired'
  BY <1>27 DEF ClientConnected, connectVars, StreamsPaired
<1>28. ASSUME NEW n \in Nodes, ReleaseHold(n) PROVE StreamsPaired'
  BY <1>28 DEF ReleaseHold, GotoL, connectVars, StreamsPaired
<1>29. CASE UNCHANGED vars
  BY <1>29 DEF vars, StreamsPaired
<1> QED BY <1>1, <1>2, <1>3, <1>4, <1>5, <1>6, <1>7, <1>8, <1>9, <1>10, <1>11, <1>12,
           <1>13, <1>14, <1>15, <1>16, <1>17, <1>18, <1>19, <1>20, <1>21, <1>22, <1>23,
           <1>24, <1>25, <1>26, <1>27, <1>28, <1>29 DEF Next, User, ListenWait,
           Connect, Listener
----------------------------------------------------------------------------
(* The ids.                                                                *)

LEMMA AtMostAsMany ==
  ASSUME NEW S, NEW T, IsFiniteSet(T), NEW f \in [S -> T],
         \A i, j \in S : f[i] = f[j] => i = j
  PROVE  IsFiniteSet(S) /\ Cardinality(S) \in Nat /\ Cardinality(T) \in Nat
         /\ Cardinality(S) <= Cardinality(T)
<1>1. f \in Injection(S, T)
  BY DEF Injection, IsInjective
<1> QED BY <1>1, FS_Injection, FS_CardinalityType

(* A program has no more peers than there can be clients and targets.      *)
LEMMA FewPeers ==
  ASSUME NEW n \in Nodes, NEW s \in Seq(Peer),
         \A i, j \in DOMAIN s : s[i].in = s[j].in => i = j,
         \A i \in DOMAIN s : Pair(n, s[i])
  PROVE  Len(s) <= 1024
<1> DEFINE A == {i \in DOMAIN s : s[i].in[2] = n /\ s[i].in[3] = 1}
           B == {i \in DOMAIN s : s[i].in[1] = n /\ s[i].in[3] = 2}
<1>1. \A i \in DOMAIN s : s[i].in \in Connections
  <2>1. \A i \in DOMAIN s : s[i] \in Peer
    OBVIOUS
  <2> QED BY <2>1 DEF Peer
<1>2. DOMAIN s = A \cup B
  BY DEF Pair
<1>3. \A c, d \in Connections : c[1] = d[1] /\ c[2] = d[2] /\ c[3] = d[3] => c = d
  BY Ends
<1>4. IsFiniteSet(A) /\ Cardinality(A) \in Nat /\ Cardinality(A) <= Cardinality(Nodes)
  <2>1. PICK f : f = [i \in A |-> s[i].in[1]]
    OBVIOUS
  <2>2. f \in [A -> Nodes]
    BY <1>1, <2>1, Ends
  <2>3. \A i, j \in A : s[i].in[1] = s[j].in[1] => i = j
    BY <1>1, <1>3
  <2>4. \A i, j \in A : f[i] = f[j] => i = j
    BY <2>1, <2>3
  <2> HIDE DEF A
  <2> QED BY <2>2, <2>4, AtMostAsMany, ArenaAssumption
<1>5. IsFiniteSet(B) /\ Cardinality(B) \in Nat /\ Cardinality(B) <= Cardinality(Nodes)
  <2>1. PICK f : f = [i \in B |-> s[i].in[2]]
    OBVIOUS
  <2>2. f \in [B -> Nodes]
    BY <1>1, <2>1, Ends
  <2>3. \A i, j \in B : s[i].in[2] = s[j].in[2] => i = j
    BY <1>1, <1>3
  <2>4. \A i, j \in B : f[i] = f[j] => i = j
    BY <2>1, <2>3
  <2> HIDE DEF B
  <2> QED BY <2>2, <2>4, AtMostAsMany, ArenaAssumption
<1>6. Len(s) \in Nat /\ DOMAIN s = 1 .. Len(s)
  OBVIOUS
<1> HIDE DEF A, B
<1>7. Cardinality(A \cup B) = Len(s)
  <2>1. Cardinality(1 .. Len(s)) = IF 1 > Len(s) THEN 0 ELSE Len(s) - 1 + 1
    BY <1>6, FS_Interval
  <2>2. Cardinality(1 .. Len(s)) = Len(s)
    BY <1>6, <2>1
  <2>3. A \cup B = 1 .. Len(s)
    BY <1>2, <1>6
  <2> QED BY <2>2, <2>3
<1>8. Cardinality(A \cup B) = Cardinality(A) + Cardinality(B) - Cardinality(A \cap B)
      /\ Cardinality(A \cap B) \in Nat
  BY <1>4, <1>5, FS_Union, FS_Subset, FS_CardinalityType
<1>9. Cardinality(Nodes) \in Nat /\ 2 * Cardinality(Nodes) <= 1024
  BY ArenaAssumption, FS_CardinalityType
<1> QED BY <1>4, <1>5, <1>6, <1>7, <1>8, <1>9

(* Peers are added and completed, so a name stays right.                   *)
NamesStay == \A m, n \in Nodes : \A id \in Nat : Names(m, n, id) => Names(m, n, id)'

LEMMA GrownNames ==
  ASSUME TypeOK, NEW n \in Nodes, NEW p, peers' = [peers EXCEPT ![n] = Append(@, p)]
  PROVE  NamesStay
<1>1. /\ peers'[n] = Append(peers[n], p) /\ \A m \in Nodes : m # n => peers'[m] = peers[m]
      /\ peers[n] \in Seq(Peer)
  BY DEF TypeOK
<1>2. /\ DOMAIN peers[n] \subseteq DOMAIN peers'[n]
      /\ \A i \in DOMAIN peers[n] : peers'[n][i] = peers[n][i]
  BY <1>1
<1>3. \A m \in Nodes : /\ DOMAIN peers[m] \subseteq DOMAIN peers'[m]
                       /\ \A i \in DOMAIN peers[m] : peers'[m][i] = peers[m][i]
  BY <1>1, <1>2
<1> QED BY <1>3 DEF NamesStay, Names


LEMMA NamesStep ==
  ASSUME TypeOK, ConnectionsOnce, IdsName, ~garbled', [Next]_vars
  PROVE  NamesStay
<1>1. ASSUME NEW n \in Nodes, ListenForNobody(n) PROVE NamesStay
  BY <1>1 DEF ListenForNobody, Goto, connectVars, listenVars, waitVars, NamesStay,
     Names
<1>2. ASSUME NEW n \in Nodes, Listen(n) PROVE NamesStay
  BY <1>2 DEF Listen, Goto, connectVars, NamesStay, Names
<1>3. ASSUME NEW n \in Nodes, ListenFails(n) PROVE NamesStay
  BY <1>3 DEF ListenFails, Goto, connectVars, listenVars, NamesStay, Names
<1>4. ASSUME NEW n \in Nodes, ListenReady(n) PROVE NamesStay
  BY <1>4 DEF ListenReady, Goto, connectVars, listenVars, NamesStay, Names
<1>5. ASSUME NEW n \in Nodes, Wait(n) PROVE NamesStay
  BY <1>5 DEF Wait, Goto, connectVars, listenVars, NamesStay, Names
<1>6. ASSUME NEW n \in Nodes, RemoveListener(n) PROVE NamesStay
  BY <1>6 DEF RemoveListener, Goto, connectVars, listenVars, NamesStay, Names
<1>7. ASSUME NEW n \in Nodes, FreeListener(n) PROVE NamesStay
  BY <1>7 DEF FreeListener, Goto, connectVars, listenVars, NamesStay, Names
<1>8. ASSUME NEW n \in Nodes, OpenOut(n) PROVE NamesStay
  BY <1>8 DEF OpenOut, Goto, Enqueue, connectVars, waitVars, NamesStay, Names
<1>9. ASSUME NEW n \in Nodes, OpenFails(n) PROVE NamesStay
  BY <1>9 DEF OpenFails, Goto, Exit, StopListening, connectVars, waitVars, NamesStay,
     Names
<1>10. ASSUME NEW n \in Nodes, Hello(n) PROVE NamesStay
  BY <1>10 DEF Hello, Goto, connectVars, listenVars, waitVars, NamesStay, Names
<1>11. ASSUME NEW n \in Nodes, ReadMyId(n) PROVE NamesStay
  BY <1>11 DEF ReadMyId, Goto, listenVars, waitVars, NamesStay, Names
<1>12. ASSUME NEW n \in Nodes, OpenIn(n) PROVE NamesStay
  BY <1>12 DEF OpenIn, Goto, Enqueue, connectVars, waitVars, NamesStay, Names
<1>13. ASSUME NEW n \in Nodes, SendMyId(n) PROVE NamesStay
  BY <1>13 DEF SendMyId, Goto, connectVars, listenVars, waitVars, NamesStay, Names
<1>14. ASSUME NEW n \in Nodes, AddPeer(n) PROVE NamesStay
  <2>1. PICK p : p = [in |-> <<n, Target(n), 2>>, out |-> <<n, Target(n), 1>>]
    OBVIOUS
  <2>2. peers' = [peers EXCEPT ![n] = Append(@, p)]
    BY <1>14, <2>1 DEF AddPeer
  <2> QED BY <2>2, GrownNames
<1>15. ASSUME NEW n \in Nodes, Ready(n) PROVE NamesStay
  BY <1>15 DEF Ready, Goto, connectVars, listenVars, waitVars, NamesStay, Names
<1>16. ASSUME NEW n \in Nodes, JoinListener(n) PROVE NamesStay
  BY <1>16 DEF JoinListener, Goto, connectVars, listenVars, waitVars, NamesStay, Names
<1>17. ASSUME NEW n \in Nodes, Destroy(n) PROVE NamesStay
  BY <1>17 DEF Destroy, Goto, StopListening, connectVars, waitVars, NamesStay, Names
<1>18. ASSUME NEW n \in Nodes, Crash(n) PROVE NamesStay
  BY <1>18 DEF Crash, Exit, StopListening, Gone, connectVars, waitVars, NamesStay,
     Names
<1>19. ASSUME NEW n \in Nodes, Loop(n) PROVE NamesStay
  BY <1>19 DEF Loop, connectVars, NamesStay, Names
<1>20. ASSUME NEW n \in Nodes, Accept(n) PROVE NamesStay
  BY <1>20 DEF Accept, GotoL, waitVars, connectVars, NamesStay, Names
<1>21. ASSUME NEW n \in Nodes, AcceptFails(n) PROVE NamesStay
  BY <1>21 DEF AcceptFails, GotoL, waitVars, connectVars, NamesStay, Names
<1>22. ASSUME NEW n \in Nodes, Register(n) PROVE NamesStay
  <2>1. PICK p : p = [in |-> client[n], out |-> Null]
    OBVIOUS
  <2>2. peers' = [peers EXCEPT ![n] = Append(@, p)]
    BY <1>22, <2>1 DEF Register
  <2> QED BY <2>2, GrownNames
<1>23. ASSUME NEW n \in Nodes, SetOut(n) PROVE NamesStay
  <2>1. PICK k \in DOMAIN peers[n] : peers' = [peers EXCEPT ![n][k].out = client[n]]
    BY <1>23, SetsOwnOut
  <2>2. PICK c \in Connections : c = client[n]
    BY <1>23 DEF SetOut, GotoL, ConnectionsOnce
  <2>3. /\ \A j \in Nodes : DOMAIN peers'[j] = DOMAIN peers[j]
        /\ \A j \in Nodes : j # n => peers'[j] = peers[j]
        /\ peers'[n][k].in = peers[n][k].in
        /\ \A i \in DOMAIN peers[n] : i # k => peers'[n][i] = peers[n][i]
    BY <2>1, <2>2, CompletedType DEF TypeOK
  <2>4. \A j \in Nodes : \A i \in DOMAIN peers[j] : peers'[j][i].in = peers[j][i].in
    BY <2>3
  <2> QED BY <2>3, <2>4 DEF NamesStay, Names
<1>24. ASSUME NEW n \in Nodes, DropClient(n) PROVE NamesStay
  BY <1>24 DEF DropClient, GotoL, ReadId, waitVars, connectVars, NamesStay, Names
<1>25. ASSUME NEW n \in Nodes, IgnoreClient(n) PROVE NamesStay
  BY <1>25 DEF IgnoreClient, GotoL, ReadId, waitVars, connectVars, NamesStay, Names
<1>26. ASSUME NEW n \in Nodes, FindListener(n) PROVE NamesStay
  BY <1>26 DEF FindListener, waitVars, connectVars, NamesStay, Names
<1>27. ASSUME NEW n \in Nodes, ClientConnected(n) PROVE NamesStay
  BY <1>27 DEF ClientConnected, connectVars, NamesStay, Names
<1>28. ASSUME NEW n \in Nodes, ReleaseHold(n) PROVE NamesStay
  BY <1>28 DEF ReleaseHold, GotoL, connectVars, NamesStay, Names
<1>29. CASE UNCHANGED vars
  BY <1>29 DEF vars, NamesStay, Names
<1> QED BY <1>1, <1>2, <1>3, <1>4, <1>5, <1>6, <1>7, <1>8, <1>9, <1>10, <1>11, <1>12,
           <1>13, <1>14, <1>15, <1>16, <1>17, <1>18, <1>19, <1>20, <1>21, <1>22, <1>23,
           <1>24, <1>25, <1>26, <1>27, <1>28, <1>29 DEF Next, User, ListenWait,
           Connect, Listener

(* Where a step may leave the numbers it found and which it may add.       *)
UpNames(c) == \A x \in SetOf(up'[c]) :
                x \in SetOf(up[c]) \/ IF c[3] = 1 THEN x = 1024 ELSE Names(c[1], c[2], x)'
DownNames(c) == \A x \in SetOf(down'[c]) :
                  x \in SetOf(down[c]) \/ c[3] = 2 \/ Names(c[1], c[2], x)'
MyName(m) == usr'[m] \in {"open_in", "send_id"} =>
               \/ usr[m] \in {"open_in", "send_id"} /\ myid'[m] = myid[m]
                  /\ next'[m] = next[m]
               \/ Names(m, Target(m), myid[m])'

LEMMA NamesGiven ==
  ASSUME TypeOK, UsersInStep, IdsName, NamesStay, targets' = targets,
         \A c \in Connections : UpNames(c) /\ DownNames(c), \A m \in Nodes : MyName(m)
  PROVE  IdsName'
<1>1. ASSUME NEW m \in Nodes, NEW n \in Nodes
      PROVE  /\ \A x \in SetOf(up'[<<m, n, 1>>]) : x = 1024
             /\ \A x \in SetOf(down'[<<m, n, 1>>]) : Names(m, n, x)'
             /\ \A x \in SetOf(up'[<<m, n, 2>>]) : Names(m, n, x)'
  <2>1. \A c \in Connections : SetOf(up[c]) \subseteq Nat /\ SetOf(down[c]) \subseteq Nat
    <3>1. \A c \in Connections : up[c] \in Seq(Nat) /\ down[c] \in Seq(Nat)
      BY DEF TypeOK
    <3> QED BY <3>1 DEF SetOf
  <2>2. <<m, n, 1>> \in Connections /\ <<m, n, 2>> \in Connections
    BY Ends
  <2>3. \A x \in SetOf(up'[<<m, n, 1>>]) : x = 1024
    <3>1. \A x \in SetOf(up[<<m, n, 1>>]) : x = 1024
      BY IdsNameOf
    <3>2. UpNames(<<m, n, 1>>)
      BY <2>2
    <3> QED BY <3>1, <3>2 DEF UpNames
  <2>4. \A x \in SetOf(down'[<<m, n, 1>>]) : Names(m, n, x)'
    <3>1. \A x \in SetOf(down[<<m, n, 1>>]) : Names(m, n, x)
      BY IdsNameOf
    <3>2. \A x \in SetOf(down[<<m, n, 1>>]) : Names(m, n, x)'
      BY <2>1, <2>2, <3>1 DEF NamesStay
    <3>3. DownNames(<<m, n, 1>>)
      BY <2>2
    <3> QED BY <3>2, <3>3 DEF DownNames
  <2>5. \A x \in SetOf(up'[<<m, n, 2>>]) : Names(m, n, x)'
    <3>1. \A x \in SetOf(up[<<m, n, 2>>]) : Names(m, n, x)
      BY IdsNameOf
    <3>2. \A x \in SetOf(up[<<m, n, 2>>]) : Names(m, n, x)'
      BY <2>1, <2>2, <3>1 DEF NamesStay
    <3>3. UpNames(<<m, n, 2>>)
      BY <2>2
    <3> QED BY <3>2, <3>3 DEF UpNames
  <2> QED BY <2>3, <2>4, <2>5
<1>2. ASSUME NEW m \in Nodes, usr'[m] \in {"open_in", "send_id"}
      PROVE  Names(m, Target(m), myid[m])'
  <2>1. SUFFICES ASSUME usr[m] \in {"open_in", "send_id"}, myid'[m] = myid[m],
                        next'[m] = next[m]
                 PROVE  Names(m, Target(m), myid[m])'
    BY <1>2 DEF MyName
  <2>2. PICK t : t = Target(m)
    OBVIOUS
  <2>3. PICK x : x = myid[m]
    OBVIOUS
  <2>4. (t = Target(m))' /\ (x = myid[m])'
    BY <2>1, <2>2, <2>3 DEF Target
  <2>5. t \in Nodes /\ x \in Nat
    BY <2>1, <2>2, <2>3, TargetIs DEF UsersInStep, Connecting, TypeOK
  <2>6. Names(m, t, x)
    BY <2>1, <2>2, <2>3 DEF IdsName
  <2>7. Names(m, t, x)'
    BY <2>5, <2>6 DEF NamesStay
  <2> QED BY <2>4, <2>7
<1>3. ASSUME NEW m \in Nodes, NEW n \in Nodes
      PROVE  (/\ Asks(up[<<m, n, 1>>])
              /\ AllName(m, n, down[<<m, n, 1>>])
              /\ AllName(m, n, up[<<m, n, 2>>]))'
  BY <1>1 DEF Asks, AllName, SetOf
<1> QED BY <1>2, <1>3 DEF IdsName


(* A step that sends nothing.                                              *)
LEMMA OnlyLess ==
  ASSUME TypeOK, UsersInStep, IdsName, NamesStay, targets' = targets,
         \A c \in Connections : SetOf(up'[c]) \subseteq SetOf(up[c]),
         \A c \in Connections : SetOf(down'[c]) \subseteq SetOf(down[c]),
         \A m \in Nodes : MyName(m)
  PROVE  IdsName'
<1>1. \A c \in Connections : UpNames(c) /\ DownNames(c)
  BY DEF UpNames, DownNames
<1> QED BY <1>1, NamesGiven

LEMMA ReadTakes ==
  ASSUME TypeOK, NEW n \in Nodes, NEW id, ReadId(n, id)
  PROVE  \A c \in Connections : SetOf(up'[c]) \subseteq SetOf(up[c])
<1>1. up' = [up EXCEPT ![client[n]] = Rest(@)] /\ up \in [Connections -> Seq(Nat)]
  BY DEF ReadId, TypeOK
<1>2. ASSUME NEW c \in Connections PROVE SetOf(up'[c]) \subseteq SetOf(up[c])
  <2>1. up'[c] = up[c] \/ up'[c] = Rest(up[c])
    BY <1>1
  <2>2. SetOf(Rest(up[c])) \subseteq SetOf(up[c])
    BY <1>1, SetOfRest
  <2> QED BY <2>1, <2>2
<1> QED BY <1>2


LEMMA IdsStep ==
  ASSUME TypeOK, UsersInStep, ConnectionsOnce, IdsName, ~garbled',
         TypeOK', PeersOnce', StreamsPaired', [Next]_vars
  PROVE  IdsName'
<1>0. NamesStay /\ targets' = targets
  BY NamesStep, SameScenario
<1>1. ASSUME NEW n \in Nodes, ListenForNobody(n) PROVE IdsName'
  <2>1. up' = up /\ down' = down
    BY <1>1 DEF ListenForNobody, Goto, connectVars, listenVars, waitVars
  <2>2. \A m \in Nodes : MyName(m)
    BY <1>1 DEF ListenForNobody, Goto, connectVars, listenVars, waitVars, MyName,
       TypeOK
  <2> QED BY <1>0, <2>1, <2>2, OnlyLess
<1>2. ASSUME NEW n \in Nodes, Listen(n) PROVE IdsName'
  <2>1. up' = up /\ down' = down
    BY <1>2 DEF Listen, Goto, connectVars
  <2>2. \A m \in Nodes : MyName(m)
    BY <1>2 DEF Listen, Goto, connectVars, MyName, TypeOK
  <2> QED BY <1>0, <2>1, <2>2, OnlyLess
<1>3. ASSUME NEW n \in Nodes, ListenFails(n) PROVE IdsName'
  <2>1. up' = up /\ down' = down
    BY <1>3 DEF ListenFails, Goto, connectVars, listenVars
  <2>2. \A m \in Nodes : MyName(m)
    BY <1>3 DEF ListenFails, Goto, connectVars, listenVars, MyName, TypeOK
  <2> QED BY <1>0, <2>1, <2>2, OnlyLess
<1>4. ASSUME NEW n \in Nodes, ListenReady(n) PROVE IdsName'
  <2>1. up' = up /\ down' = down
    BY <1>4 DEF ListenReady, Goto, connectVars, listenVars
  <2>2. \A m \in Nodes : MyName(m)
    BY <1>4 DEF ListenReady, Goto, connectVars, listenVars, MyName, TypeOK
  <2> QED BY <1>0, <2>1, <2>2, OnlyLess
<1>5. ASSUME NEW n \in Nodes, Wait(n) PROVE IdsName'
  <2>1. up' = up /\ down' = down
    BY <1>5 DEF Wait, Goto, connectVars, listenVars
  <2>2. \A m \in Nodes : MyName(m)
    BY <1>5 DEF Wait, Goto, connectVars, listenVars, MyName, TypeOK
  <2> QED BY <1>0, <2>1, <2>2, OnlyLess
<1>6. ASSUME NEW n \in Nodes, RemoveListener(n) PROVE IdsName'
  <2>1. up' = up /\ down' = down
    BY <1>6 DEF RemoveListener, Goto, connectVars, listenVars
  <2>2. \A m \in Nodes : MyName(m)
    BY <1>6 DEF RemoveListener, Goto, connectVars, listenVars, MyName, TypeOK
  <2> QED BY <1>0, <2>1, <2>2, OnlyLess
<1>7. ASSUME NEW n \in Nodes, FreeListener(n) PROVE IdsName'
  <2>1. up' = up /\ down' = down
    BY <1>7 DEF FreeListener, Goto, connectVars, listenVars
  <2>2. \A m \in Nodes : MyName(m)
    BY <1>7 DEF FreeListener, Goto, connectVars, listenVars, MyName, TypeOK
  <2> QED BY <1>0, <2>1, <2>2, OnlyLess
<1>8. ASSUME NEW n \in Nodes, OpenOut(n) PROVE IdsName'
  <2>1. up' = up /\ down' = down
    BY <1>8 DEF OpenOut, Goto, Enqueue, connectVars, waitVars
  <2>2. \A m \in Nodes : MyName(m)
    BY <1>8 DEF OpenOut, Goto, Enqueue, connectVars, waitVars, MyName, TypeOK
  <2> QED BY <1>0, <2>1, <2>2, OnlyLess
<1>9. ASSUME NEW n \in Nodes, OpenFails(n) PROVE IdsName'
  <2>1. up' = up /\ down' = down
    BY <1>9 DEF OpenFails, Goto, Exit, StopListening, connectVars, waitVars
  <2>2. \A m \in Nodes : MyName(m)
    BY <1>9 DEF OpenFails, Goto, Exit, StopListening, connectVars, waitVars, MyName,
       TypeOK
  <2> QED BY <1>0, <2>1, <2>2, OnlyLess
<1>10. ASSUME NEW n \in Nodes, Hello(n) PROVE IdsName'
  <2>1. next[n] < Len(targets[n])
    BY <1>10 DEF Hello, Goto, UsersInStep, Connecting
  <2>2. PICK t \in Nodes : t = Target(n)
    BY <2>1, TargetIs
  <2>3. PICK c \in Connections : c = <<n, t, 1>>
    BY Ends
  <2>10. PICK x \in Nat : x = 1024
    OBVIOUS
  <2>4. x = 1024 /\ up' = [up EXCEPT ![c] = Append(@, x)]
    BY <1>10, <2>2, <2>3, <2>10 DEF Hello
  <2>5. UpNames(c)
    <3>1. up'[c] = Append(up[c], x) /\ up[c] \in Seq(Nat)
      BY <2>4 DEF TypeOK
    <3>2. SetOf(up'[c]) = SetOf(up[c]) \cup {x}
      BY <2>4, <3>1, SetOfAppend
    <3>3. c[1] = n /\ c[2] = t /\ c[3] = 1
      BY <2>3
    <3> QED BY <2>4, <3>2, <3>3 DEF UpNames
  <2>6. \A d \in Connections : UpNames(d)
    <3>1. \A d \in Connections : d # c => up'[d] = up[d]
      BY <2>4 DEF TypeOK
    <3> QED BY <2>5, <3>1 DEF UpNames
  <2>7. \A d \in Connections : DownNames(d)
    BY <1>10 DEF Hello, DownNames
  <2>8. \A m \in Nodes : MyName(m)
    BY <1>10 DEF Hello, Goto, connectVars, MyName, TypeOK
  <2> QED BY <1>0, <2>6, <2>7, <2>8, NamesGiven
<1>11. ASSUME NEW n \in Nodes, ReadMyId(n) PROVE IdsName'
  <2>1. next[n] < Len(targets[n])
    BY <1>11 DEF ReadMyId, Goto, UsersInStep, Connecting
  <2>2. PICK t \in Nodes : t = Target(n)
    BY <2>1, TargetIs
  <2>3. PICK c \in Connections : c = <<n, t, 1>>
    BY Ends
  <2>4. PICK x \in Reads(down[c], ClosedByServer(c)) :
          /\ myid' = [myid EXCEPT ![n] = x]
          /\ garbled' = (garbled \/ Misread(down[c], x))
    BY <1>11, <2>2, <2>3 DEF ReadMyId
  <2>5. down' = [down EXCEPT ![c] = Rest(@)] /\ down \in [Connections -> Seq(Nat)]
    BY <1>11, <2>2, <2>3 DEF ReadMyId, TypeOK
  <2>6. ASSUME NEW d \in Connections PROVE SetOf(down'[d]) \subseteq SetOf(down[d])
    <3>1. down'[d] = down[d] \/ down'[d] = Rest(down[d])
      BY <2>5
    <3>2. SetOf(Rest(down[d])) \subseteq SetOf(down[d])
      BY <2>5, SetOfRest
    <3> QED BY <3>1, <3>2
  <2>7. Names(n, t, x)'
    <3>1. x \in SetOf(down[c]) /\ down[c] \in Seq(Nat)
      BY <2>4, <2>5, HeadIsSent
    <3>2. x \in Nat
      BY <3>1 DEF SetOf
    <3>3. \A y \in SetOf(down[<<n, t, 1>>]) : Names(n, t, y)
      BY IdsNameOf
    <3> QED BY <1>0, <2>3, <3>1, <3>2, <3>3 DEF NamesStay
  <2>8. usr' = [usr EXCEPT ![n] = "open_in"] /\ next' = next /\ up' = up
    BY <1>11 DEF ReadMyId, Goto
  <2>9. (t = Target(n))' /\ (x = myid[n])'
    BY <1>0, <2>2, <2>4, <2>8 DEF Target, TypeOK
  <2>10. Names(n, Target(n), myid[n])'
    BY <2>7, <2>9
  <2>11. ASSUME NEW m \in Nodes PROVE MyName(m)
    <3>1. CASE m = n
      BY <2>10, <3>1 DEF MyName
    <3>2. CASE m # n
      BY <2>4, <2>8, <3>2 DEF MyName, TypeOK
    <3> QED BY <3>1, <3>2
  <2> QED BY <1>0, <2>6, <2>8, <2>11, OnlyLess
<1>12. ASSUME NEW n \in Nodes, OpenIn(n) PROVE IdsName'
  <2>1. up' = up /\ down' = down
    BY <1>12 DEF OpenIn, Goto, Enqueue, connectVars, waitVars
  <2>2. \A m \in Nodes : MyName(m)
    BY <1>12 DEF OpenIn, Goto, Enqueue, connectVars, waitVars, MyName, TypeOK
  <2> QED BY <1>0, <2>1, <2>2, OnlyLess
<1>13. ASSUME NEW n \in Nodes, SendMyId(n) PROVE IdsName'
  <2>1. next[n] < Len(targets[n])
    BY <1>13 DEF SendMyId, Goto, UsersInStep, Connecting
  <2>2. PICK t \in Nodes : t = Target(n)
    BY <2>1, TargetIs
  <2>3. PICK c \in Connections : c = <<n, t, 2>>
    BY Ends
  <2>4. PICK x \in Nat : Names(n, t, x)' /\ up' = [up EXCEPT ![c] = Append(@, x)]
    <3>1. PICK x \in Nat : x = myid[n]
      BY DEF TypeOK
    <3>2. Names(n, t, x)
      BY <1>13, <2>2, <3>1 DEF SendMyId, Goto, IdsName
    <3>3. Names(n, t, x)'
      BY <1>0, <3>1, <3>2 DEF NamesStay
    <3>4. up' = [up EXCEPT ![c] = Append(@, x)]
      BY <1>13, <2>2, <2>3, <3>1 DEF SendMyId
    <3> QED BY <3>3, <3>4
  <2>5. UpNames(c)
    <3>1. up'[c] = Append(up[c], x) /\ up[c] \in Seq(Nat)
      BY <2>4 DEF TypeOK
    <3>2. SetOf(up'[c]) = SetOf(up[c]) \cup {x}
      BY <2>4, <3>1, SetOfAppend
    <3>3. c[1] = n /\ c[2] = t /\ c[3] = 2
      BY <2>3
    <3> QED BY <2>4, <3>2, <3>3 DEF UpNames
  <2>6. \A d \in Connections : UpNames(d)
    <3>1. \A d \in Connections : d # c => up'[d] = up[d]
      BY <2>4 DEF TypeOK
    <3> QED BY <2>5, <3>1 DEF UpNames
  <2>7. \A d \in Connections : DownNames(d)
    BY <1>13 DEF SendMyId, DownNames
  <2>8. \A m \in Nodes : MyName(m)
    BY <1>13 DEF SendMyId, Goto, connectVars, MyName, TypeOK
  <2> QED BY <1>0, <2>6, <2>7, <2>8, NamesGiven
<1>14. ASSUME NEW n \in Nodes, AddPeer(n) PROVE IdsName'
  <2>1. up' = up /\ down' = down
    BY <1>14 DEF AddPeer, Goto, listenVars, waitVars
  <2>2. \A m \in Nodes : MyName(m)
    BY <1>14 DEF AddPeer, Goto, listenVars, waitVars, MyName, TypeOK
  <2> QED BY <1>0, <2>1, <2>2, OnlyLess
<1>15. ASSUME NEW n \in Nodes, Ready(n) PROVE IdsName'
  <2>1. up' = up /\ down' = down
    BY <1>15 DEF Ready, Goto, connectVars, listenVars, waitVars
  <2>2. \A m \in Nodes : MyName(m)
    BY <1>15 DEF Ready, Goto, connectVars, listenVars, waitVars, MyName, TypeOK
  <2> QED BY <1>0, <2>1, <2>2, OnlyLess
<1>16. ASSUME NEW n \in Nodes, JoinListener(n) PROVE IdsName'
  <2>1. up' = up /\ down' = down
    BY <1>16 DEF JoinListener, Goto, connectVars, listenVars, waitVars
  <2>2. \A m \in Nodes : MyName(m)
    BY <1>16 DEF JoinListener, Goto, connectVars, listenVars, waitVars, MyName, TypeOK
  <2> QED BY <1>0, <2>1, <2>2, OnlyLess
<1>17. ASSUME NEW n \in Nodes, Destroy(n) PROVE IdsName'
  <2>1. up' = up /\ down' = down
    BY <1>17 DEF Destroy, Goto, StopListening, connectVars, waitVars
  <2>2. \A m \in Nodes : MyName(m)
    BY <1>17 DEF Destroy, Goto, StopListening, connectVars, waitVars, MyName, TypeOK
  <2> QED BY <1>0, <2>1, <2>2, OnlyLess
<1>18. ASSUME NEW n \in Nodes, Crash(n) PROVE IdsName'
  <2>1. up' = up /\ down' = down
    BY <1>18 DEF Crash, Exit, StopListening, Gone, connectVars, waitVars
  <2>2. \A m \in Nodes : MyName(m)
    BY <1>18 DEF Crash, Exit, StopListening, Gone, connectVars, waitVars, MyName,
       TypeOK
  <2> QED BY <1>0, <2>1, <2>2, OnlyLess
<1>19. ASSUME NEW n \in Nodes, Loop(n) PROVE IdsName'
  <2>1. up' = up /\ down' = down
    BY <1>19 DEF Loop, connectVars
  <2>2. \A m \in Nodes : MyName(m)
    BY <1>19 DEF Loop, connectVars, MyName, TypeOK
  <2> QED BY <1>0, <2>1, <2>2, OnlyLess
<1>20. ASSUME NEW n \in Nodes, Accept(n) PROVE IdsName'
  <2>1. up' = up /\ down' = down
    BY <1>20 DEF Accept, GotoL, waitVars, connectVars
  <2>2. \A m \in Nodes : MyName(m)
    BY <1>20 DEF Accept, GotoL, waitVars, connectVars, MyName, TypeOK
  <2> QED BY <1>0, <2>1, <2>2, OnlyLess
<1>21. ASSUME NEW n \in Nodes, AcceptFails(n) PROVE IdsName'
  <2>1. up' = up /\ down' = down
    BY <1>21 DEF AcceptFails, GotoL, waitVars, connectVars
  <2>2. \A m \in Nodes : MyName(m)
    BY <1>21 DEF AcceptFails, GotoL, waitVars, connectVars, MyName, TypeOK
  <2> QED BY <1>0, <2>1, <2>2, OnlyLess
<1>22. ASSUME NEW n \in Nodes, Register(n) PROVE IdsName'
  <2>1. PICK id \in Ids(n) : id = 1024 /\ ReadId(n, id)
    BY <1>22 DEF Register
  <2>2. lst[n] = "id"
    BY <1>22 DEF Register, GotoL
  <2>3. PICK m \in Nodes : client[n] = <<m, n, 1>>
    BY <2>1, <2>2, WhoAsks DEF Names
  <2>4. PICK c \in Connections : c = <<m, n, 1>>
    BY Ends
  <2>5. PICK x \in Nat : x = Len(peers[n])
    BY PeersType DEF TypeOK
  <2>6. PICK p : p = [in |-> c, out |-> Null]
    OBVIOUS
  <2>7. /\ peers' = [peers EXCEPT ![n] = Append(@, p)]
        /\ down' = [down EXCEPT ![c] = Append(@, x)]
    BY <1>22, <2>3, <2>4, <2>5, <2>6 DEF Register
  <2>8. Names(m, n, x)'
    <3>1. peers'[n] = Append(peers[n], p) /\ peers[n] \in Seq(Peer)
      BY <2>7 DEF TypeOK
    <3>2. Len(peers'[n]) = x + 1 /\ x + 1 \in DOMAIN peers'[n] /\ peers'[n][x + 1] = p
      BY <2>5, <3>1
    <3>3. peers'[n] \in Seq(Peer)
      BY DEF TypeOK
    <3>4. /\ \A i, j \in DOMAIN peers'[n] : peers'[n][i].in = peers'[n][j].in => i = j
          /\ \A i \in DOMAIN peers'[n] : Pair(n, peers'[n][i])
      BY DEF PeersOnce, StreamsPaired, Pair
    <3>5. Len(peers'[n]) <= 1024
      BY <3>3, <3>4, FewPeers
    <3> QED BY <2>4, <2>5, <2>6, <3>2, <3>5 DEF Names
  <2>9. DownNames(c)
    <3>1. down'[c] = Append(down[c], x) /\ down[c] \in Seq(Nat)
      BY <2>7 DEF TypeOK
    <3>2. SetOf(down'[c]) = SetOf(down[c]) \cup {x}
      BY <2>5, <3>1, SetOfAppend
    <3> QED BY <2>4, <2>8, <3>2 DEF DownNames
  <2>10. \A d \in Connections : DownNames(d)
    <3>1. \A d \in Connections : d # c => down'[d] = down[d]
      BY <2>7 DEF TypeOK
    <3> QED BY <2>9, <3>1 DEF DownNames
  <2>11. \A d \in Connections : UpNames(d)
    BY <2>1, ReadTakes DEF UpNames
  <2>12. \A j \in Nodes : MyName(j)
    BY <1>22 DEF Register, MyName, connectVars
  <2> QED BY <1>0, <2>10, <2>11, <2>12, NamesGiven
<1>23. ASSUME NEW n \in Nodes, SetOut(n) PROVE IdsName'
  <2>1. PICK id \in Ids(n) : ReadId(n, id)
    BY <1>23 DEF SetOut
  <2>2. \A c \in Connections : SetOf(up'[c]) \subseteq SetOf(up[c])
    BY <2>1, ReadTakes
  <2>3. down' = down /\ \A m \in Nodes : MyName(m)
    BY <1>23 DEF SetOut, MyName, connectVars
  <2> QED BY <1>0, <2>2, <2>3, OnlyLess
<1>24. ASSUME NEW n \in Nodes, DropClient(n) PROVE IdsName'
  <2>1. PICK id \in Ids(n) : ReadId(n, id)
    BY <1>24 DEF DropClient
  <2>2. \A c \in Connections : SetOf(up'[c]) \subseteq SetOf(up[c])
    BY <2>1, ReadTakes
  <2>3. down' = down /\ \A m \in Nodes : MyName(m)
    BY <1>24 DEF DropClient, MyName, connectVars
  <2> QED BY <1>0, <2>2, <2>3, OnlyLess
<1>25. ASSUME NEW n \in Nodes, IgnoreClient(n) PROVE IdsName'
  <2>1. PICK id \in Ids(n) : ReadId(n, id)
    BY <1>25 DEF IgnoreClient
  <2>2. \A c \in Connections : SetOf(up'[c]) \subseteq SetOf(up[c])
    BY <2>1, ReadTakes
  <2>3. down' = down /\ \A m \in Nodes : MyName(m)
    BY <1>25 DEF IgnoreClient, MyName, connectVars
  <2> QED BY <1>0, <2>2, <2>3, OnlyLess
<1>26. ASSUME NEW n \in Nodes, FindListener(n) PROVE IdsName'
  <2>1. up' = up /\ down' = down
    BY <1>26 DEF FindListener, waitVars, connectVars
  <2>2. \A m \in Nodes : MyName(m)
    BY <1>26 DEF FindListener, waitVars, connectVars, MyName, TypeOK
  <2> QED BY <1>0, <2>1, <2>2, OnlyLess
<1>27. ASSUME NEW n \in Nodes, ClientConnected(n) PROVE IdsName'
  <2>1. up' = up /\ down' = down
    BY <1>27 DEF ClientConnected, connectVars
  <2>2. \A m \in Nodes : MyName(m)
    BY <1>27 DEF ClientConnected, connectVars, MyName, TypeOK
  <2> QED BY <1>0, <2>1, <2>2, OnlyLess
<1>28. ASSUME NEW n \in Nodes, ReleaseHold(n) PROVE IdsName'
  <2>1. up' = up /\ down' = down
    BY <1>28 DEF ReleaseHold, GotoL, connectVars
  <2>2. \A m \in Nodes : MyName(m)
    BY <1>28 DEF ReleaseHold, GotoL, connectVars, MyName, TypeOK
  <2> QED BY <1>0, <2>1, <2>2, OnlyLess
<1>29. CASE UNCHANGED vars
  <2>1. up' = up /\ down' = down /\ \A m \in Nodes : MyName(m)
    BY <1>29 DEF vars, connectVars, MyName
  <2> QED BY <1>0, <2>1, OnlyLess
<1> QED BY <1>1, <1>2, <1>3, <1>4, <1>5, <1>6, <1>7, <1>8, <1>9, <1>10, <1>11, <1>12,
           <1>13, <1>14, <1>15, <1>16, <1>17, <1>18, <1>19, <1>20, <1>21, <1>22, <1>23,
           <1>24, <1>25, <1>26, <1>27, <1>28, <1>29 DEF Next, User, ListenWait,
           Connect, Listener
----------------------------------------------------------------------------
(* The count.                                                              *)

Told == {"notify", "call", "release"}
Listening == {"listening", "wait"}
Early == {"start", "listening", "wait", "failed"}

LEMMA ServedIs ==
  ASSUME TypeOK, NEW n \in Nodes
  PROVE  /\ IsFiniteSet(Served(n)) /\ Cardinality(Served(n)) \in Nat
         /\ Served(n) \subseteq DOMAIN peers[n]
<1>1. Len(peers[n]) \in Nat /\ DOMAIN peers[n] = 1 .. Len(peers[n])
  BY PeersType DEF TypeOK
<1>2. Served(n) \subseteq DOMAIN peers[n]
  BY DEF Served
<1>3. IsFiniteSet(DOMAIN peers[n])
  BY <1>1, FS_Interval
<1> QED BY <1>2, <1>3, FS_Subset, FS_CardinalityType

(* There are no more peers of clients than clients.                        *)
OfClients(n) == {i \in DOMAIN peers[n] : peers[n][i].in[2] = n}

LEMMA NoMoreThanClients ==
  ASSUME TypeOK, PeersOnce, StreamsPaired, ~garbled, NEW n \in Nodes
  PROVE  /\ IsFiniteSet(OfClients(n)) /\ Cardinality(OfClients(n)) \in Nat
         /\ Cardinality(Clients(n)) \in Nat
         /\ Cardinality(OfClients(n)) <= Cardinality(Clients(n))
         /\ Served(n) \subseteq OfClients(n)
<1>1. \A i \in DOMAIN peers[n] : peers[n][i].in \in Connections
  BY PeersType DEF TypeOK
<1>2. ASSUME NEW i \in OfClients(n)
      PROVE  peers[n][i].in[1] \in Clients(n) /\ peers[n][i].in[3] = 1
  <2>1. i \in DOMAIN peers[n] /\ peers[n][i].in[2] = n
    BY DEF OfClients
  <2>2. peers[n][i].in[1] \in Nodes
    BY <1>1, <2>1, Ends
  <2>3. ~OfTarget(n, peers[n][i])
    <3>1. \A j \in DOMAIN targets[n] : targets[n][j] # n
      BY Given DEF TypeOK
    <3> QED BY <2>1, <3>1 DEF OfTarget, Reached
  <2>4. Opened(peers[n][i].in)
    BY <2>1, <2>3 DEF PeersOnce, OfClient
  <2>5. peers[n][i].in[1] \in Clients(n)
    BY <2>1, <2>2, <2>4 DEF Opened, Reached, Clients
  <2>6. Pair(n, peers[n][i])
    BY <2>1, PairsOf
  <2>7. peers[n][i].in[3] = 1
    <3>1. ASSUME peers[n][i].in[1] = n PROVE FALSE
      <4>1. Reached(n, n, IF peers[n][i].in[3] = 1 THEN Connecting \cup {"failed"}
                          ELSE OpenedIn)
        BY <2>1, <2>4, <3>1 DEF Opened
      <4>2. \A j \in DOMAIN targets[n] : targets[n][j] # n
        BY Given DEF TypeOK
      <4> QED BY <4>1, <4>2 DEF Reached
    <3> QED BY <2>6, <3>1 DEF Pair
  <2> QED BY <2>5, <2>7
<1>3. PICK f : f = [i \in OfClients(n) |-> peers[n][i].in[1]]
  OBVIOUS
<1>4. f \in [OfClients(n) -> Clients(n)]
  BY <1>2, <1>3
<1>5. ASSUME NEW i \in OfClients(n), NEW j \in OfClients(n), f[i] = f[j] PROVE i = j
  <2>1. i \in DOMAIN peers[n] /\ j \in DOMAIN peers[n]
        /\ peers[n][i].in[2] = n /\ peers[n][j].in[2] = n
    BY DEF OfClients
  <2>2. peers[n][i].in[3] = 1 /\ peers[n][j].in[3] = 1
        /\ peers[n][i].in[1] = peers[n][j].in[1]
    BY <1>2, <1>3, <1>5
  <2>3. peers[n][i].in = peers[n][j].in
    BY <1>1, <2>1, <2>2, Ends
  <2> QED BY <2>1, <2>3 DEF PeersOnce
<1>6. IsFiniteSet(Clients(n))
  BY ArenaAssumption, FS_Subset DEF Clients
<1>7. Served(n) \subseteq OfClients(n)
  BY DEF Served, OfClients
<1> QED BY <1>4, <1>5, <1>6, <1>7, AtMostAsMany

LEMMA ExactStays ==
  ASSUME [Next]_vars
  PROVE  Exact' = Exact
<1>1. targets' = targets /\ expected' = expected
  BY SameScenario
<1> QED BY <1>1 DEF Exact, Clients

(* What does not count for program k.                                      *)
Calm(k) ==
  \/ usr'[k] = "failed"
  \/ /\ Served(k)' = Served(k) /\ count'[k] = count[k] /\ hold'[k] = hold[k]
     /\ lst'[k] = lst[k] \/ (lst[k] \notin Told /\ lst'[k] \notin Told)
     /\ \/ usr'[k] = usr[k]
        \/ usr[k] \in Listening /\ usr'[k] \in Listening
        \/ usr[k] \notin Early /\ usr'[k] \notin Early

LEMMA CalmKeeps ==
  ASSUME TypeOK, NEW k \in Nodes, CountedAt(k), Calm(k), expected' = expected,
         Exact' = Exact
  PROVE  CountedAt(k)'
<1> SUFFICES ASSUME usr'[k] # "failed" PROVE CountedAt(k)'
  BY DEF CountedAt
<1>1. PICK c : c = Cardinality(Served(k)) /\ (c = Cardinality(Served(k)))'
  BY DEF Calm
<1>2. usr'[k] \in Listening =>
        usr[k] \in Listening
  BY DEF Calm, Listening, Early
<1>3. usr'[k] \notin Early => usr[k] \notin Early
  BY DEF Calm, Listening, Early
<1>4. lst'[k] = lst[k] \/ (lst[k] \notin Told /\ lst'[k] \notin Told)
  BY DEF Calm
<1>5. usr[k] \in Listening =>
        /\ c + count[k] = expected[k] + (IF lst[k] \in {"notify", "call"} THEN 1 ELSE 0)
        /\ ~hold[k] \/ lst[k] = "release" => c >= expected[k]
        /\ Exact /\ ~hold[k] => lst[k] \notin Told
        /\ Exact /\ lst[k] = "release" => count[k] = 0
  BY <1>1 DEF CountedAt, Listening, Told
<1>6. usr[k] \notin Early => c >= expected[k] /\ (Exact => lst[k] \notin Told)
  BY <1>1 DEF CountedAt, Early, Told
<1>7. usr'[k] \in Listening =>
        /\ c + count'[k] = expected'[k] + (IF lst'[k] \in {"notify", "call"} THEN 1 ELSE 0)
        /\ ~hold'[k] \/ lst'[k] = "release" => c >= expected'[k]
        /\ Exact' /\ ~hold'[k] => lst'[k] \notin Told
        /\ Exact' /\ lst'[k] = "release" => count'[k] = 0
  BY <1>2, <1>4, <1>5 DEF Calm, Told
<1>8. usr'[k] \notin Early => c >= expected'[k] /\ (Exact' => lst'[k] \notin Told)
  BY <1>3, <1>4, <1>6
<1> QED BY <1>1, <1>7, <1>8 DEF CountedAt, Listening, Early, Told

(* A peer that nothing is served by yet.                                   *)
LEMMA NotServed ==
  ASSUME TypeOK, NEW n \in Nodes, NEW p, p.in[2] # n \/ p.out = Null,
         peers' = [peers EXCEPT ![n] = Append(@, p)]
  PROVE  \A k \in Nodes : Served(k)' = Served(k)
<1> DEFINE j == Len(peers[n]) + 1
<1>1. /\ peers'[n] = Append(peers[n], p) /\ \A m \in Nodes : m # n => peers'[m] = peers[m]
      /\ peers[n] \in Seq(Peer)
  BY DEF TypeOK
<1>2. /\ DOMAIN peers'[n] = DOMAIN peers[n] \cup {j}
      /\ peers'[n][j] = p /\ \A i \in DOMAIN peers[n] : peers'[n][i] = peers[n][i]
  BY <1>1
<1> HIDE DEF j
<1>3. Served(n)' = Served(n)
  BY <1>2 DEF Served
<1> QED BY <1>1, <1>3 DEF Served


LEMMA CountedStep ==
  ASSUME TypeOK, UsersInStep, ConnectionsOnce, PeersOnce, StreamsPaired, IdsName,
         ClientsCounted, ~garbled, ~garbled', [Next]_vars
  PROVE  ClientsCounted'
<1>0. expected' = expected /\ Exact' = Exact
  BY SameScenario, ExactStays
<1>1. ASSUME NEW n \in Nodes, ListenForNobody(n) PROVE ClientsCounted'
  <2>1. \A k \in Nodes : k # n => Calm(k)
    BY <1>1 DEF ListenForNobody, Goto, connectVars, listenVars, waitVars, Calm, Served,
       Told, Listening, Early, TypeOK
  <2>2. CountedAt(n)'
    <3>1. PICK c \in Nat : c = Cardinality(Served(n)) /\ (c = Cardinality(Served(n)))'
      <4>1. peers' = peers
        BY <1>1 DEF ListenForNobody
      <4>2. Served(n)' = Served(n)
        BY <4>1 DEF Served
      <4> QED BY <4>2, ServedIs
    <3>2. PICK e \in Nat : e = expected[n] /\ (e = expected[n])'
      BY <1>0, Given DEF TypeOK
    <3>3. CountedAt(n)
      BY DEF ClientsCounted
    <3>4. e = 0 /\ lst[n] = "none" /\ usr'[n] = "connect" /\ lst'[n] = lst[n]
      BY <1>1, <3>2 DEF ListenForNobody, Goto, listenVars, UsersInStep, TypeOK
    <3> QED BY <3>1, <3>2, <3>4 DEF CountedAt
  <2> QED BY <1>0, <2>1, <2>2, CalmKeeps DEF ClientsCounted
<1>2. ASSUME NEW n \in Nodes, Listen(n) PROVE ClientsCounted'
  <2>1. \A k \in Nodes : k # n => Calm(k)
    BY <1>2 DEF Listen, Goto, connectVars, Calm, Served, Told, Listening, Early, TypeOK
  <2>2. CountedAt(n)'
    <3>1. PICK c \in Nat : c = Cardinality(Served(n)) /\ (c = Cardinality(Served(n)))'
      <4>1. peers' = peers
        BY <1>2 DEF Listen
      <4>2. Served(n)' = Served(n)
        BY <4>1 DEF Served
      <4> QED BY <4>2, ServedIs
    <3>2. PICK e \in Nat : e = expected[n] /\ (e = expected[n])'
      BY <1>0, Given DEF TypeOK
    <3>3. CountedAt(n)
      BY DEF ClientsCounted
    <3>4. /\ usr'[n] = "listening" /\ lst'[n] = "loop" /\ hold'[n] /\ peers[n] = <<>>
          /\ count'[n] = e
      BY <1>2, <3>2 DEF Listen, Goto, UsersInStep, TypeOK
    <3>5. c = 0
      BY <3>1, <3>4, FS_EmptySet DEF Served
    <3> QED BY <3>1, <3>2, <3>4, <3>5 DEF CountedAt
  <2> QED BY <1>0, <2>1, <2>2, CalmKeeps DEF ClientsCounted
<1>3. ASSUME NEW n \in Nodes, ListenFails(n) PROVE ClientsCounted'
  <2>1. \A k \in Nodes : Calm(k)
    BY <1>3 DEF ListenFails, Goto, connectVars, listenVars, Calm, Served, Told,
       Listening, Early, TypeOK
  <2> QED BY <1>0, <2>1, CalmKeeps DEF ClientsCounted
<1>4. ASSUME NEW n \in Nodes, ListenReady(n) PROVE ClientsCounted'
  <2>1. \A k \in Nodes : Calm(k)
    BY <1>4 DEF ListenReady, Goto, connectVars, listenVars, Calm, Served, Told,
       Listening, Early, TypeOK
  <2> QED BY <1>0, <2>1, CalmKeeps DEF ClientsCounted
<1>5. ASSUME NEW n \in Nodes, Wait(n) PROVE ClientsCounted'
  <2>1. \A k \in Nodes : k # n => Calm(k)
    BY <1>5 DEF Wait, Goto, connectVars, listenVars, Calm, Served, Told, Listening, Early,
       TypeOK
  <2>2. CountedAt(n)'
    <3>1. PICK c \in Nat : c = Cardinality(Served(n)) /\ (c = Cardinality(Served(n)))'
      <4>1. peers' = peers
        BY <1>5 DEF Wait
      <4>2. Served(n)' = Served(n)
        BY <4>1 DEF Served
      <4> QED BY <4>2, ServedIs
    <3>2. PICK e \in Nat : e = expected[n] /\ (e = expected[n])'
      BY <1>0, Given DEF TypeOK
    <3>3. CountedAt(n)
      BY DEF ClientsCounted
    <3>4. /\ usr[n] = "wait" /\ usr'[n] = "remove" /\ ~hold[n] /\ lst'[n] = lst[n]
      BY <1>5 DEF Wait, Goto, listenVars, TypeOK
    <3> QED BY <1>0, <3>1, <3>2, <3>3, <3>4 DEF CountedAt
  <2> QED BY <1>0, <2>1, <2>2, CalmKeeps DEF ClientsCounted
<1>6. ASSUME NEW n \in Nodes, RemoveListener(n) PROVE ClientsCounted'
  <2>1. \A k \in Nodes : Calm(k)
    BY <1>6 DEF RemoveListener, Goto, connectVars, listenVars, Calm, Served, Told,
       Listening, Early, TypeOK
  <2> QED BY <1>0, <2>1, CalmKeeps DEF ClientsCounted
<1>7. ASSUME NEW n \in Nodes, FreeListener(n) PROVE ClientsCounted'
  <2>1. \A k \in Nodes : Calm(k)
    BY <1>7 DEF FreeListener, Goto, connectVars, listenVars, Calm, Served, Told,
       Listening, Early, TypeOK
  <2> QED BY <1>0, <2>1, CalmKeeps DEF ClientsCounted
<1>8. ASSUME NEW n \in Nodes, OpenOut(n) PROVE ClientsCounted'
  <2>1. \A k \in Nodes : Calm(k)
    BY <1>8 DEF OpenOut, Goto, Enqueue, connectVars, waitVars, Calm, Served, Told,
       Listening, Early, TypeOK
  <2> QED BY <1>0, <2>1, CalmKeeps DEF ClientsCounted
<1>9. ASSUME NEW n \in Nodes, OpenFails(n) PROVE ClientsCounted'
  <2>1. \A k \in Nodes : Calm(k)
    BY <1>9 DEF OpenFails, Goto, Exit, StopListening, connectVars, waitVars, Calm,
       Served, Told, Listening, Early, TypeOK
  <2> QED BY <1>0, <2>1, CalmKeeps DEF ClientsCounted
<1>10. ASSUME NEW n \in Nodes, Hello(n) PROVE ClientsCounted'
  <2>1. \A k \in Nodes : Calm(k)
    BY <1>10 DEF Hello, Goto, connectVars, listenVars, waitVars, Calm, Served, Told,
       Listening, Early, TypeOK
  <2> QED BY <1>0, <2>1, CalmKeeps DEF ClientsCounted
<1>11. ASSUME NEW n \in Nodes, ReadMyId(n) PROVE ClientsCounted'
  <2>1. \A k \in Nodes : Calm(k)
    BY <1>11 DEF ReadMyId, Goto, listenVars, waitVars, Calm, Served, Told, Listening,
       Early, TypeOK
  <2> QED BY <1>0, <2>1, CalmKeeps DEF ClientsCounted
<1>12. ASSUME NEW n \in Nodes, OpenIn(n) PROVE ClientsCounted'
  <2>1. \A k \in Nodes : Calm(k)
    BY <1>12 DEF OpenIn, Goto, Enqueue, connectVars, waitVars, Calm, Served, Told,
       Listening, Early, TypeOK
  <2> QED BY <1>0, <2>1, CalmKeeps DEF ClientsCounted
<1>13. ASSUME NEW n \in Nodes, SendMyId(n) PROVE ClientsCounted'
  <2>1. \A k \in Nodes : Calm(k)
    BY <1>13 DEF SendMyId, Goto, connectVars, listenVars, waitVars, Calm, Served, Told,
       Listening, Early, TypeOK
  <2> QED BY <1>0, <2>1, CalmKeeps DEF ClientsCounted
<1>14. ASSUME NEW n \in Nodes, AddPeer(n) PROVE ClientsCounted'
  <2>1. PICK p : p = [in |-> <<n, Target(n), 2>>, out |-> <<n, Target(n), 1>>]
    OBVIOUS
  <2>2. peers' = [peers EXCEPT ![n] = Append(@, p)]
    BY <1>14, <2>1 DEF AddPeer
  <2>3. Target(n) # n
    BY <1>14, TargetIs DEF AddPeer, Goto, UsersInStep, Connecting
  <2>4. \A k \in Nodes : Served(k)' = Served(k)
    BY <2>1, <2>2, <2>3, NotServed
  <2>5. \A k \in Nodes : Calm(k)
    BY <1>14, <2>4
       DEF AddPeer, Goto, listenVars, waitVars, Calm, Told, Listening, Early, TypeOK
  <2> QED BY <1>0, <2>5, CalmKeeps DEF ClientsCounted
<1>15. ASSUME NEW n \in Nodes, Ready(n) PROVE ClientsCounted'
  <2>1. \A k \in Nodes : Calm(k)
    BY <1>15 DEF Ready, Goto, connectVars, listenVars, waitVars, Calm, Served, Told,
       Listening, Early, TypeOK
  <2> QED BY <1>0, <2>1, CalmKeeps DEF ClientsCounted
<1>16. ASSUME NEW n \in Nodes, JoinListener(n) PROVE ClientsCounted'
  <2>1. \A k \in Nodes : Calm(k)
    BY <1>16 DEF JoinListener, Goto, connectVars, listenVars, waitVars, Calm, Served,
       Told, Listening, Early, TypeOK
  <2> QED BY <1>0, <2>1, CalmKeeps DEF ClientsCounted
<1>17. ASSUME NEW n \in Nodes, Destroy(n) PROVE ClientsCounted'
  <2>1. \A k \in Nodes : Calm(k)
    BY <1>17 DEF Destroy, Goto, StopListening, connectVars, waitVars, Calm, Served,
       Told, Listening, Early, TypeOK
  <2> QED BY <1>0, <2>1, CalmKeeps DEF ClientsCounted
<1>18. ASSUME NEW n \in Nodes, Crash(n) PROVE ClientsCounted'
  <2>1. \A k \in Nodes : Calm(k)
    BY <1>18 DEF Crash, Exit, StopListening, Gone, connectVars, waitVars, Calm, Served,
       Told, Listening, Early, TypeOK
  <2> QED BY <1>0, <2>1, CalmKeeps DEF ClientsCounted
<1>19. ASSUME NEW n \in Nodes, Loop(n) PROVE ClientsCounted'
  <2>1. \A k \in Nodes : Calm(k)
    BY <1>19 DEF Loop, connectVars, Calm, Served, Told, Listening, Early, TypeOK
  <2> QED BY <1>0, <2>1, CalmKeeps DEF ClientsCounted
<1>20. ASSUME NEW n \in Nodes, Accept(n) PROVE ClientsCounted'
  <2>1. \A k \in Nodes : Calm(k)
    BY <1>20 DEF Accept, GotoL, waitVars, connectVars, Calm, Served, Told, Listening,
       Early, TypeOK
  <2> QED BY <1>0, <2>1, CalmKeeps DEF ClientsCounted
<1>21. ASSUME NEW n \in Nodes, AcceptFails(n) PROVE ClientsCounted'
  <2>1. \A k \in Nodes : Calm(k)
    BY <1>21 DEF AcceptFails, GotoL, waitVars, connectVars, Calm, Served, Told,
       Listening, Early, TypeOK
  <2> QED BY <1>0, <2>1, CalmKeeps DEF ClientsCounted
<1>22. ASSUME NEW n \in Nodes, Register(n) PROVE ClientsCounted'
  <2>1. PICK p : p = [in |-> client[n], out |-> Null]
    OBVIOUS
  <2>2. peers' = [peers EXCEPT ![n] = Append(@, p)]
    BY <1>22, <2>1 DEF Register
  <2>3. \A k \in Nodes : Served(k)' = Served(k)
    BY <2>1, <2>2, NotServed
  <2>4. \A k \in Nodes : Calm(k)
    BY <1>22, <2>3 DEF Register, GotoL, waitVars, Calm, Told, Listening, Early, TypeOK
  <2> QED BY <1>0, <2>4, CalmKeeps DEF ClientsCounted
<1>23. ASSUME NEW n \in Nodes, SetOut(n) PROVE ClientsCounted'
  <2>1. lst[n] = "id"
    BY <1>23 DEF SetOut, GotoL
  <2>2. PICK m \in Nodes, k \in DOMAIN peers[n] :
          /\ client[n] = <<m, n, 2>> /\ peers[n][k].in = <<m, n, 1>>
          /\ peers' = [peers EXCEPT ![n][k].out = client[n]]
    BY <1>23, <2>1, SetsOwnOut
  <2>3. PICK d \in Connections : d = client[n] /\ d \in Waiting(n)
    BY <2>1 DEF ConnectionsOnce, Waiting, InHand
  <2>4. /\ \A j \in Nodes : DOMAIN peers'[j] = DOMAIN peers[j]
        /\ \A j \in Nodes : j # n => peers'[j] = peers[j]
        /\ peers'[n][k].in = peers[n][k].in /\ peers'[n][k].out = d
        /\ \A i \in DOMAIN peers[n] : i # k => peers'[n][i] = peers[n][i]
    BY <2>2, <2>3, CompletedType DEF TypeOK
  <2>5. \A j \in Nodes : j # n => Served(j)' = Served(j)
    BY <2>4 DEF Served
  <2>6. \A j \in Nodes : j # n => Calm(j)
    BY <1>23, <2>5 DEF SetOut, GotoL, waitVars, connectVars, Calm, TypeOK
  <2>7. k \notin Served(n)
    <3>1. SUFFICES ASSUME peers[n][k].out # Null PROVE FALSE
      BY DEF Served
    <3>2. Pair(n, peers[n][k])
      BY PairsOf
    <3>3. peers[n][k].out = <<m, n, 2>>
      BY <2>2, <3>1, <3>2 DEF Pair
    <3> QED BY <2>2, <2>3, <3>1, <3>3 DEF PeersOnce
  <2>8. Served(n)' = Served(n) \cup {k}
    <3>1. d # Null
      BY Ends
    <3> QED BY <2>2, <2>4, <3>1 DEF Served
  <2>9. PICK c \in Nat : c = Cardinality(Served(n)) /\ (c + 1 = Cardinality(Served(n)))'
    <3>1. IsFiniteSet(Served(n)) /\ Cardinality(Served(n)) \in Nat
      BY ServedIs
    <3>2. Cardinality(Served(n) \cup {k}) = Cardinality(Served(n)) + 1
      BY <2>7, <3>1, FS_AddElement
    <3>3. Cardinality(Served(n)') = Cardinality(Served(n)) + 1
      BY <2>8, <3>2
    <3> QED BY <3>1, <3>3
  <2>10. PICK e \in Nat : e = expected[n] /\ (e = expected[n])'
    BY <1>0, Given DEF TypeOK
  <2>11. Exact => c < e
    <3>1. k \in OfClients(n)
      BY <2>2 DEF OfClients
    <3>2. Served(n) \cup {k} \subseteq OfClients(n)
      BY <3>1, NoMoreThanClients
    <3>3. Cardinality(Served(n) \cup {k}) = c + 1
      BY <2>8, <2>9
    <3>4. c + 1 <= Cardinality(OfClients(n))
      BY <3>2, <3>3, NoMoreThanClients, FS_Subset
    <3>5. /\ Cardinality(OfClients(n)) \in Nat /\ Cardinality(Clients(n)) \in Nat
          /\ Cardinality(OfClients(n)) <= Cardinality(Clients(n))
      BY NoMoreThanClients
    <3>6. Exact => e = Cardinality(Clients(n))
      BY <2>10 DEF Exact
    <3> QED BY <3>4, <3>5, <3>6
  <2>12. /\ usr' = usr /\ hold' = hold /\ count' = count /\ lst'[n] = "notify"
         /\ count[n] \in Int
    BY <1>23 DEF SetOut, GotoL, waitVars, TypeOK
  <2>13. CountedAt(n)
    BY DEF ClientsCounted
  <2>14. usr[n] \in {"listening", "wait"} =>
           c + count[n] = e /\ (~hold[n] => c >= e)
    BY <2>1, <2>9, <2>10, <2>13 DEF CountedAt
  <2>15. usr[n] \notin {"start", "listening", "wait", "failed"} => c >= e
    BY <2>9, <2>10, <2>13 DEF CountedAt
  <2>16. CountedAt(n)'
    BY <1>0, <2>9, <2>10, <2>11, <2>12, <2>14, <2>15 DEF CountedAt
  <2> QED BY <1>0, <2>6, <2>16, CalmKeeps DEF ClientsCounted
<1>24. ASSUME NEW n \in Nodes, DropClient(n) PROVE ClientsCounted'
  <2>1. \A k \in Nodes : Calm(k)
    BY <1>24 DEF DropClient, GotoL, ReadId, waitVars, connectVars, Calm, Served, Told,
       Listening, Early, TypeOK
  <2> QED BY <1>0, <2>1, CalmKeeps DEF ClientsCounted
<1>25. ASSUME NEW n \in Nodes, IgnoreClient(n) PROVE ClientsCounted'
  <2>1. \A k \in Nodes : Calm(k)
    BY <1>25 DEF IgnoreClient, GotoL, ReadId, waitVars, connectVars, Calm, Served,
       Told, Listening, Early, TypeOK
  <2> QED BY <1>0, <2>1, CalmKeeps DEF ClientsCounted
<1>26. ASSUME NEW n \in Nodes, FindListener(n) PROVE ClientsCounted'
  <2>1. \A k \in Nodes : k # n => Calm(k)
    BY <1>26 DEF FindListener, waitVars, connectVars, Calm, Served, Told, Listening, Early,
       TypeOK
  <2>2. CountedAt(n)'
    <3>1. PICK c \in Nat : c = Cardinality(Served(n)) /\ (c = Cardinality(Served(n)))'
      <4>1. peers' = peers
        BY <1>26 DEF FindListener
      <4>2. Served(n)' = Served(n)
        BY <4>1 DEF Served
      <4> QED BY <4>2, ServedIs
    <3>2. PICK e \in Nat : e = expected[n] /\ (e = expected[n])'
      BY <1>0, Given DEF TypeOK
    <3>3. CountedAt(n)
      BY DEF ClientsCounted
    <3>4. /\ usr'[n] = usr[n] /\ hold'[n] = hold[n] /\ count'[n] = count[n]
          /\ lst[n] = "notify" /\ lst'[n] = IF conn_obs[n] THEN "call" ELSE "loop"
      BY <1>26 DEF FindListener, waitVars, TypeOK
    <3>5. usr[n] \in {"listening", "wait"} => conn_obs[n]
      BY DEF UsersInStep
    <3> QED BY <1>0, <3>1, <3>2, <3>3, <3>4, <3>5 DEF CountedAt
  <2> QED BY <1>0, <2>1, <2>2, CalmKeeps DEF ClientsCounted
<1>27. ASSUME NEW n \in Nodes, ClientConnected(n) PROVE ClientsCounted'
  <2>1. \A k \in Nodes : k # n => Calm(k)
    BY <1>27 DEF ClientConnected, connectVars, Calm, Served, Told, Listening, Early, TypeOK
  <2>2. CountedAt(n)'
    <3>1. PICK c \in Nat : c = Cardinality(Served(n)) /\ (c = Cardinality(Served(n)))'
      <4>1. peers' = peers
        BY <1>27 DEF ClientConnected
      <4>2. Served(n)' = Served(n)
        BY <4>1 DEF Served
      <4> QED BY <4>2, ServedIs
    <3>2. PICK e \in Nat : e = expected[n] /\ (e = expected[n])'
      BY <1>0, Given DEF TypeOK
    <3>3. CountedAt(n)
      BY DEF ClientsCounted
    <3>4. /\ usr'[n] = usr[n] /\ hold'[n] = hold[n] /\ count'[n] = count[n] - 1
          /\ lst[n] = "call" /\ lst'[n] = IF count'[n] = 0 THEN "release" ELSE "loop"
          /\ count[n] \in Int
      BY <1>27 DEF ClientConnected, TypeOK
    <3>5. usr[n] \in {"listening", "wait"} => c + count[n] = e + 1
      BY <3>1, <3>2, <3>3, <3>4 DEF CountedAt
    <3> QED BY <1>0, <3>1, <3>2, <3>3, <3>4, <3>5 DEF CountedAt
  <2> QED BY <1>0, <2>1, <2>2, CalmKeeps DEF ClientsCounted
<1>28. ASSUME NEW n \in Nodes, ReleaseHold(n) PROVE ClientsCounted'
  <2>1. \A k \in Nodes : k # n => Calm(k)
    BY <1>28 DEF ReleaseHold, GotoL, connectVars, Calm, Served, Told, Listening, Early,
       TypeOK
  <2>2. CountedAt(n)'
    <3>1. PICK c \in Nat : c = Cardinality(Served(n)) /\ (c = Cardinality(Served(n)))'
      <4>1. peers' = peers
        BY <1>28 DEF ReleaseHold
      <4>2. Served(n)' = Served(n)
        BY <4>1 DEF Served
      <4> QED BY <4>2, ServedIs
    <3>2. PICK e \in Nat : e = expected[n] /\ (e = expected[n])'
      BY <1>0, Given DEF TypeOK
    <3>3. CountedAt(n)
      BY DEF ClientsCounted
    <3>4. /\ usr'[n] = usr[n] /\ count'[n] = count[n]
          /\ lst[n] = "release" /\ lst'[n] = "loop"
      BY <1>28 DEF ReleaseHold, GotoL, TypeOK
    <3> QED BY <1>0, <3>1, <3>2, <3>3, <3>4 DEF CountedAt
  <2> QED BY <1>0, <2>1, <2>2, CalmKeeps DEF ClientsCounted
<1>29. CASE UNCHANGED vars
  <2>1. \A k \in Nodes : Calm(k)
    BY <1>29 DEF vars, waitVars, listenVars, Calm, Served
  <2> QED BY <1>0, <2>1, CalmKeeps DEF ClientsCounted
<1> QED BY <1>1, <1>2, <1>3, <1>4, <1>5, <1>6, <1>7, <1>8, <1>9, <1>10, <1>11, <1>12,
           <1>13, <1>14, <1>15, <1>16, <1>17, <1>18, <1>19, <1>20, <1>21, <1>22, <1>23,
           <1>24, <1>25, <1>26, <1>27, <1>28, <1>29 DEF Next, User, ListenWait,
           Connect, Listener
----------------------------------------------------------------------------
LEMMA InvStep ==
  ASSUME ArenaInv, [Next]_vars
  PROVE  ArenaInv'
<1>1. TypeOK' /\ UsersInStep' /\ ConnectionsOnce' /\ PeersOnce'
  BY TypeStep, UsersStep, PlacesStep DEF ArenaInv
<1>2. ASSUME ~garbled' PROVE StreamsPaired' /\ IdsName' /\ ClientsCounted'
  <2>1. ~garbled /\ StreamsPaired /\ IdsName /\ ClientsCounted
    BY <1>2, StaysGarbled DEF ArenaInv
  <2>2. StreamsPaired'
    BY <1>2, <2>1, PairedStep DEF ArenaInv
  <2>3. IdsName'
    BY <1>1, <1>2, <2>1, <2>2, IdsStep DEF ArenaInv
  <2>4. ClientsCounted'
    BY <1>2, <2>1, CountedStep DEF ArenaInv
  <2> QED BY <2>2, <2>3, <2>4
<1> QED BY <1>1, <1>2 DEF ArenaInv

(* Whatever connections, peers and ids the programs have, they fit as the  *)
(* invariant says, and that is why the four properties below hold.         *)
THEOREM ArenaConsistent == Spec => []ArenaInv
<1>1. ArenaInv /\ [Next]_vars => ArenaInv'
  BY InvStep
<1> QED BY <1>1, InitInv, PTL DEF Spec

(* carena_listener_thread: the connection a client opens second becomes    *)
(* the out of the peer its first connection made, whatever else connects   *)
(* in between, as long as read_int returns what was sent.                  *)
THEOREM StreamsArePaired == Spec => []StreamsPaired
<1>1. ArenaInv => StreamsPaired
  BY DEF ArenaInv, StreamsPaired
<1> QED BY <1>1, ArenaConsistent, PTL

(* listen_wait returns once as many clients as it expects have both their  *)
(* connections and not before.                                             *)
THEOREM ListenWaitWaits == Spec => []WaitsForClients
<1>1. ArenaInv => WaitsForClients
  BY DEF ArenaInv, ClientsCounted, CountedAt, WaitsForClients
<1> QED BY <1>1, ArenaConsistent, PTL

(* If every program expects exactly those who come, get_peer hands out     *)
(* only peers that have both streams.                                      *)
THEOREM ReadyPeersUsable == Spec => []PeersUsable
<1>1. ArenaInv => PeersUsable
  <2> SUFFICES ASSUME ArenaInv, NEW n \in Nodes, Exact, ~garbled, usr[n] = "ready",
                      NEW i \in DOMAIN peers[n]
               PROVE  peers[n][i].out # Null
    BY DEF PeersUsable
  <2>1. TypeOK /\ PeersOnce /\ StreamsPaired /\ CountedAt(n)
    BY DEF ArenaInv, ClientsCounted
  <2>2. CASE OfTarget(n, peers[n][i])
    BY <2>2 DEF OfTarget
  <2>3. CASE OfClient(n, peers[n][i])
    <3>1. Cardinality(Served(n)) >= Cardinality(Clients(n))
      BY <2>1 DEF CountedAt, Exact
    <3>2. /\ IsFiniteSet(OfClients(n)) /\ Cardinality(OfClients(n)) \in Nat
          /\ Cardinality(Clients(n)) \in Nat
          /\ Cardinality(OfClients(n)) <= Cardinality(Clients(n))
          /\ Served(n) \subseteq OfClients(n)
      BY <2>1, NoMoreThanClients
    <3>3. Cardinality(Served(n)) \in Nat
          /\ Cardinality(Served(n)) <= Cardinality(OfClients(n))
      BY <2>1, <3>2, ServedIs, FS_Subset
    <3>4. Cardinality(OfClients(n)) = Cardinality(Served(n))
      BY <3>1, <3>2, <3>3
    <3>5. OfClients(n) = Served(n)
      BY <3>2, <3>4, FS_Subset
    <3>6. i \in OfClients(n)
      BY <2>3 DEF OfClients, OfClient
    <3> QED BY <3>5, <3>6 DEF Served
  <2> QED BY <2>1, <2>2, <2>3 DEF PeersOnce
<1> QED BY <1>1, ArenaConsistent, PTL

(* If every program expects exactly those who come, the listener thread    *)
(* does not call the default listener after listen_wait has freed it.      *)
THEOREM NoFreedListenerCalled == Spec => []ListenerAlive
<1>1. ArenaInv => ListenerAlive
  <2> SUFFICES ASSUME ArenaInv, NEW n \in Nodes, Exact, ~garbled,
                      lst[n] \in {"call", "release"}
               PROVE  observer[n] = "alive"
    BY DEF ListenerAlive
  <2>1. CountedAt(n) /\ UsersInStep
    BY DEF ArenaInv, ClientsCounted
  <2>2. usr[n] \in {"listening", "wait"}
    BY <2>1 DEF CountedAt, UsersInStep
  <2> QED BY <2>1, <2>2 DEF UsersInStep
<1> QED BY <1>1, ArenaConsistent, PTL

==============================================================================
