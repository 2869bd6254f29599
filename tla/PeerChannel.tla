----------------------------- MODULE PeerChannel -----------------------------
(***************************************************************************)
(* Two connected peers of common/carena/src/carena.c.  Each side has a     *)
(* user thread that sends, receives and finally destroys the peer, a       *)
(* sender thread that frames messages onto a TCP connection, and a         *)
(* receiver thread that takes the frames of the other side apart again:    *)
(*                                                                         *)
(*   send -> outgoing -> sender ==wire==> receiver -> incoming -> receive  *)
(*                                                                         *)
(* outgoing and incoming are blocking queues; their put and get are the    *)
(* atomic operations of BoundedFifo, which module BlkQueue implements.     *)
(* A message is a sequence of bytes.  Memory never runs out here.          *)
(***************************************************************************)
EXTENDS IntEncoding, SequencesExt

CONSTANTS Sides,        \* the two peers
          Traffics,     \* what may be sent and asked for: [payloads, budget, asks],
                        \* the messages, how many each side sends (a bound)
                        \* and the lengths receive may be asked for
          OutCap,       \* capacity of outgoing, 16384 in the code
          InCap,        \* capacity of incoming, 256 in the code
          WireCap,      \* how many unread bytes the connection holds
          DiePackage    \* the item that tells the sender to stop

(* Messages are bytes; send is told their number in an unsigned int.       *)
Byte == 0 .. 255
Message == {m \in Seq(Byte) : Len(m) \div 16777216 < 256}

ASSUME ChannelAssumption ==
  /\ \E a, b \in Sides : a # b /\ Sides = {a, b}
  /\ OutCap \in Nat \ {0} /\ InCap \in Nat \ {0} /\ WireCap \in Nat \ {0}
  /\ \A t \in Traffics : t.payloads \subseteq Message /\ t.asks \subseteq Nat
  /\ DiePackage \notin Message

VARIABLES traffic,    \* one of Traffics, for good
          usr,        \* where the user thread is
          snd,        \* where the sender thread is
          rcv,        \* where the receiver thread is
          die,        \* the shutdown flag
          outgoing,   \* messages and, at the end, the die package
          unwritten,  \* what the sender has left to write of a frame
          wire,       \* every byte this side ever got onto the connection
          taken,      \* how many bytes of the other side's wire were read
          need,       \* length of the message being read
          buf,        \* the part of it read so far
          incoming,   \* the chunks not yet received
          drem,       \* the rest of a chunk that was longer than asked for
          ask,        \* how many bytes receive wants
          got,        \* how many it has, as a sequence
          sent,       \* history: the messages sent
          delivered,  \* history: the bytes receive has returned
          cut         \* history: a read for a length has come up short

userVars == <<usr, ask, got, drem, delivered>>
sendVars == <<snd, unwritten, wire>>
recvVars == <<rcv, taken, need, buf, cut>>
vars == <<userVars, sendVars, recvVars, die, outgoing, incoming, sent>>

Other(s) == CHOOSE o \in Sides : o # s

Frame(m) == I2B(Len(m)) \o m

Init == /\ traffic \in Traffics
        /\ usr = [s \in Sides |-> "idle"]
        /\ snd = [s \in Sides |-> "get"]
        /\ rcv = [s \in Sides |-> "header"]
        /\ die = [s \in Sides |-> FALSE]
        /\ outgoing = [s \in Sides |-> <<>>]
        /\ unwritten = [s \in Sides |-> <<>>]
        /\ wire = [s \in Sides |-> <<>>]
        /\ taken = [s \in Sides |-> 0]
        /\ need = [s \in Sides |-> 0]
        /\ buf = [s \in Sides |-> <<>>]
        /\ incoming = [s \in Sides |-> <<>>]
        /\ drem = [s \in Sides |-> <<>>]
        /\ ask = [s \in Sides |-> 0]
        /\ got = [s \in Sides |-> <<>>]
        /\ sent = [s \in Sides |-> <<>>]
        /\ delivered = [s \in Sides |-> <<>>]
        /\ cut = [s \in Sides |-> FALSE]
----------------------------------------------------------------------------
(* The user thread.  MpcPeer_send blocks while outgoing is full.           *)

Send(s, m) == /\ usr[s] = "idle"
              /\ ~die[s]
              /\ Len(sent[s]) < traffic.budget[s]
              /\ Len(outgoing[s]) < OutCap
              /\ outgoing' = [outgoing EXCEPT ![s] = Append(@, m)]
              /\ sent' = [sent EXCEPT ![s] = Append(@, m)]
              /\ UNCHANGED <<userVars, sendVars, recvVars, die, incoming>>

CallReceive(s, n) == /\ usr[s] = "idle"
                     /\ usr' = [usr EXCEPT ![s] = "receive"]
                     /\ ask' = [ask EXCEPT ![s] = n]
                     /\ got' = [got EXCEPT ![s] = <<>>]
                     /\ UNCHANGED <<drem, delivered, sendVars, recvVars, die,
                                    outgoing, incoming, sent>>

\* Mutant of Consume: what is left of the chunk is thrown away.
Consume_DropsRest(s, chunk) ==
  LET remaining == ask[s] - Len(got[s])
      all == got[s] \o SubSeq(chunk, 1, Min({Len(chunk), remaining}))
  IN  /\ drem' = [drem EXCEPT ![s] = <<>>]
      /\ IF Len(all) = ask[s]
           THEN /\ usr' = [usr EXCEPT ![s] = "idle"]
                /\ got' = [got EXCEPT ![s] = <<>>]
                /\ ask' = [ask EXCEPT ![s] = 0]
                /\ delivered' = [delivered EXCEPT ![s] = @ \o all]
           ELSE /\ got' = [got EXCEPT ![s] = all]
                /\ UNCHANGED <<usr, ask, delivered>>

(* One turn of receive's loop with chunk in hand: copy all of it, or as    *)
(* much as is wanted and keep the residue in drem.                         *)
Consume(s, chunk) ==
  LET remaining == ask[s] - Len(got[s])
      part == IF Len(chunk) <= remaining THEN chunk ELSE SubSeq(chunk, 1, remaining)
      all == got[s] \o part
  IN  /\ drem' = [drem EXCEPT ![s] = SubSeq(chunk, Len(part) + 1, Len(chunk))]
      /\ IF Len(all) = ask[s]
           THEN /\ usr' = [usr EXCEPT ![s] = "idle"]
                /\ got' = [got EXCEPT ![s] = <<>>]
                /\ ask' = [ask EXCEPT ![s] = 0]
                /\ delivered' = [delivered EXCEPT ![s] = @ \o all]
           ELSE /\ got' = [got EXCEPT ![s] = all]
                /\ UNCHANGED <<usr, ask, delivered>>

ReceiveRest(s) == /\ usr[s] = "receive"
                  /\ drem[s] # <<>>
                  /\ Consume(s, drem[s])
                  /\ UNCHANGED <<sendVars, recvVars, die, outgoing, incoming, sent>>

ReceiveChunk(s) == /\ usr[s] = "receive"
                   /\ drem[s] = <<>>
                   /\ incoming[s] # <<>>
                   /\ Consume(s, Head(incoming[s]))
                   /\ incoming' = [incoming EXCEPT ![s] = Tail(@)]
                   /\ UNCHANGED <<sendVars, recvVars, die, outgoing, sent>>

(* MpcPeerImpl_destroy: raise the flag, queue the die package behind what  *)
(* was sent, wait for the two threads, close both connections.             *)
Destroy(s) == /\ usr[s] = "idle"
              /\ usr' = [usr EXCEPT ![s] = "put_die"]
              /\ die' = [die EXCEPT ![s] = TRUE]
              /\ UNCHANGED <<ask, got, drem, delivered, sendVars, recvVars,
                             outgoing, incoming, sent>>

\* Mutant of PutDie: the die package overtakes what was sent.
PutDie_First(s) ==
  /\ usr[s] = "put_die"
  /\ Len(outgoing[s]) < OutCap
  /\ outgoing' = [outgoing EXCEPT ![s] = <<DiePackage>> \o @]
  /\ usr' = [usr EXCEPT ![s] = "join_sender"]
  /\ UNCHANGED <<ask, got, drem, delivered, sendVars, recvVars, die, incoming,
                 sent>>

PutDie(s) == /\ usr[s] = "put_die"
             /\ Len(outgoing[s]) < OutCap
             /\ outgoing' = [outgoing EXCEPT ![s] = Append(@, DiePackage)]
             /\ usr' = [usr EXCEPT ![s] = "join_sender"]
             /\ UNCHANGED <<ask, got, drem, delivered, sendVars, recvVars, die,
                            incoming, sent>>

JoinSender(s) == /\ usr[s] = "join_sender"
                 /\ snd[s] = "done"
                 /\ usr' = [usr EXCEPT ![s] = "join_receiver"]
                 /\ UNCHANGED <<ask, got, drem, delivered, sendVars, recvVars,
                                die, outgoing, incoming, sent>>

JoinReceiver(s) == /\ usr[s] = "join_receiver"
                   /\ rcv[s] = "done"
                   /\ usr' = [usr EXCEPT ![s] = "closed"]
                   /\ UNCHANGED <<ask, got, drem, delivered, sendVars, recvVars,
                                  die, outgoing, incoming, sent>>

Closed(s) == usr[s] = "closed"

User(s) == \/ \E m \in traffic.payloads : Send(s, m)
           \/ \E n \in traffic.asks : CallReceive(s, n)
           \/ ReceiveRest(s) \/ ReceiveChunk(s)
           \/ Destroy(s) \/ PutDie(s) \/ JoinSender(s) \/ JoinReceiver(s)
----------------------------------------------------------------------------
(* peer_snd_function: a message becomes a frame and goes out as the        *)
(* connection takes it; the die package ends the thread.                   *)

Unread(s) == Len(wire[s]) - taken[Other(s)]

GetItem(s) == /\ snd[s] = "get"
              /\ outgoing[s] # <<>>
              /\ outgoing' = [outgoing EXCEPT ![s] = Tail(@)]
              /\ IF Head(outgoing[s]) = DiePackage
                   THEN /\ snd' = [snd EXCEPT ![s] = "done"]
                        /\ UNCHANGED unwritten
                   ELSE /\ snd' = [snd EXCEPT ![s] = "write"]
                        /\ unwritten' = [unwritten EXCEPT ![s] = Frame(Head(outgoing[s]))]
              /\ UNCHANGED <<userVars, wire, recvVars, die, incoming, sent>>

Write(s) == /\ snd[s] = "write"
            /\ ~Closed(Other(s))
            /\ Unread(s) < WireCap
            /\ LET n == Min({Len(unwritten[s]), WireCap - Unread(s)})
               IN  /\ wire' = [wire EXCEPT ![s] = @ \o SubSeq(unwritten[s], 1, n)]
                   /\ unwritten' = [unwritten EXCEPT ![s] =
                                      SubSeq(@, n + 1, Len(@))]
                   /\ snd' = [snd EXCEPT ![s] = IF n = Len(unwritten[s]) THEN "get"
                                                                       ELSE "write"]
            /\ UNCHANGED <<userVars, recvVars, die, outgoing, incoming, sent>>

(* Once the other side has closed, a write fails and the message is        *)
(* dropped; the thread goes on with the next one.                          *)
WriteFails(s) == /\ snd[s] = "write"
                 /\ Closed(Other(s))
                 /\ unwritten' = [unwritten EXCEPT ![s] = <<>>]
                 /\ snd' = [snd EXCEPT ![s] = "get"]
                 /\ UNCHANGED <<userVars, wire, recvVars, die, outgoing,
                                incoming, sent>>

Sender(s) == GetItem(s) \/ Write(s) \/ WriteFails(s)
----------------------------------------------------------------------------
(* peer_rec_function.  A read returns what has arrived, at most what was   *)
(* asked for; with nothing there it times out and the loop comes round     *)
(* again, which changes nothing.                                           *)

Available(s) == Unread(Other(s))
Arrived(s, n) == SubSeq(wire[Other(s)], taken[s] + 1, taken[s] + n)
\* Mutant of HungUp: a hang-up is seen before the bytes that precede it.
HungUp_Early(s) == Closed(Other(s))

HungUp(s) == Closed(Other(s)) /\ Available(s) = 0

\* Mutant of SeeDie: the inner loop does not look at the flag.
SeeDie_HeaderOnly(s) ==
  /\ rcv[s] = "header"
  /\ die[s]
  /\ rcv' = [rcv EXCEPT ![s] = "done"]
  /\ UNCHANGED <<userVars, sendVars, taken, need, buf, die, cut, outgoing,
                 incoming, sent>>

(* The flag is looked at after every read.                                 *)
SeeDie(s) == /\ \/ rcv[s] = "header"
                \/ rcv[s] = "body" /\ Len(buf[s]) < need[s]
             /\ die[s]
             /\ rcv' = [rcv EXCEPT ![s] = "done"]
             /\ UNCHANGED <<userVars, sendVars, taken, need, buf, die, cut, outgoing,
                            incoming, sent>>

ReadHeader(s) == /\ rcv[s] = "header"
                 /\ ~die[s]
                 /\ Available(s) >= 4
                 /\ need' = [need EXCEPT ![s] = B2I(Arrived(s, 4))]
                 /\ buf' = [buf EXCEPT ![s] = <<>>]
                 /\ taken' = [taken EXCEPT ![s] = @ + 4]
                 /\ rcv' = [rcv EXCEPT ![s] = "body"]
                 /\ UNCHANGED <<userVars, sendVars, die, cut, outgoing, incoming, sent>>

(* "if (lenlen <= 3) continue": one to three bytes of a length are read    *)
(* and forgotten.                                                          *)
ReadShortHeader(s) == /\ rcv[s] = "header"
                      /\ ~die[s]
                      /\ \E n \in 1 .. Min({3, Available(s)}) :
                           taken' = [taken EXCEPT ![s] = @ + n]
                      /\ cut' = [cut EXCEPT ![s] = TRUE]
                      /\ UNCHANGED <<userVars, sendVars, rcv, need, buf, die,
                                     outgoing, incoming, sent>>

(* read returns zero bytes, RC_DISCONN, and leaves the count at four.      *)
HeaderHangup(s) == /\ rcv[s] = "header"
                   /\ ~die[s]
                   /\ HungUp(s)
                   /\ rcv' = [rcv EXCEPT ![s] = "done"]
                   /\ UNCHANGED <<userVars, sendVars, taken, need, buf, die, cut,
                                  outgoing, incoming, sent>>

\* Mutant of ReadBody: one read is taken for the whole message.
ReadBody_Once(s) ==
  /\ rcv[s] = "body"
  /\ ~die[s]
  /\ \E n \in 1 .. Min({need[s], Available(s)}) :
       /\ buf' = [buf EXCEPT ![s] = Arrived(s, n)]
       /\ need' = [need EXCEPT ![s] = n]
       /\ taken' = [taken EXCEPT ![s] = @ + n]
  /\ UNCHANGED <<userVars, sendVars, rcv, die, cut, outgoing, incoming, sent>>

ReadBody(s) == /\ rcv[s] = "body"
               /\ ~die[s]
               /\ \E n \in 1 .. Min({need[s] - Len(buf[s]), Available(s)}) :
                    /\ buf' = [buf EXCEPT ![s] = @ \o Arrived(s, n)]
                    /\ taken' = [taken EXCEPT ![s] = @ + n]
               /\ UNCHANGED <<userVars, sendVars, rcv, need, die, cut, outgoing,
                              incoming, sent>>

(* The message under way is lost; the next read of a length sees the       *)
(* hang-up too.                                                            *)
BodyHangup(s) == /\ rcv[s] = "body"
                 /\ ~die[s]
                 /\ Len(buf[s]) < need[s]
                 /\ HungUp(s)
                 /\ rcv' = [rcv EXCEPT ![s] = "header"]
                 /\ UNCHANGED <<userVars, sendVars, taken, need, buf, die, cut,
                                outgoing, incoming, sent>>

(* The message is complete: put it, waiting while incoming is full and     *)
(* without another look at the flag.                                       *)
PutChunk(s) == /\ rcv[s] = "body"
               /\ Len(buf[s]) = need[s]
               /\ Len(incoming[s]) < InCap
               /\ incoming' = [incoming EXCEPT ![s] = Append(@, buf[s])]
               /\ buf' = [buf EXCEPT ![s] = <<>>]
               /\ need' = [need EXCEPT ![s] = 0]
               /\ rcv' = [rcv EXCEPT ![s] = "header"]
               /\ UNCHANGED <<userVars, sendVars, taken, die, cut, outgoing, sent>>

Receiver(s) == \/ SeeDie(s) \/ ReadHeader(s) \/ ReadShortHeader(s)
               \/ HeaderHangup(s) \/ ReadBody(s) \/ BodyHangup(s) \/ PutChunk(s)
----------------------------------------------------------------------------
Next == /\ \E s \in Sides : User(s) \/ Sender(s) \/ Receiver(s)
        /\ UNCHANGED traffic

Spec == Init /\ [][Next]_<<vars, traffic>>

(* Every thread runs and an operation once called goes on; nobody has to   *)
(* call one.                                                               *)
Fairness == \A s \in Sides :
              /\ WF_vars(ReceiveRest(s) \/ ReceiveChunk(s))
              /\ WF_vars(PutDie(s) \/ JoinSender(s) \/ JoinReceiver(s))
              /\ WF_vars(Sender(s))
              /\ WF_vars(Receiver(s))

FairSpec == Spec /\ Fairness
----------------------------------------------------------------------------
Bytes(chunks) == FlattenSeq(chunks)
Frames(messages) == FlattenSeq([i \in 1 .. Len(messages) |-> Frame(messages[i])])

ReceivedPrefix(s) ==
  IsPrefix(delivered[s] \o got[s] \o drem[s] \o Bytes(incoming[s]),
           Bytes(sent[Other(s)]))

(* The user of a peer gets the other user's bytes in the order they were   *)
(* sent, none missing and none twice, however the frames were cut up on    *)
(* the connection, by the asked lengths and by drem - as long as every     *)
(* read for a length got its four bytes.                                   *)
InOrder == \A s \in Sides : ~cut[s] => ReceivedPrefix(s)

(* "Send data to this peer", "Receive data from peer" (carena.h:38,45):    *)
(* what comes out is what went in, however the network cuts the stream.    *)
ReceivesWhatWasSent == \A s \in Sides : ReceivedPrefix(s)

(* The receiver looks for a length only where a frame begins.              *)
KeepsFraming ==
  \A s \in Sides :
    ~cut[s] /\ rcv[s] = "header" =>
      \E k \in 0 .. Len(sent[Other(s)]) :
        taken[s] = Len(Frames(SubSeq(sent[Other(s)], 1, k)))

(* Destroying a peer loses nothing that was sent before: by the time the   *)
(* connections are closed every message is on the wire, unless the other   *)
(* side has closed first.                                                  *)
CloseFlushes ==
  \A s \in Sides : Closed(s) /\ ~Closed(Other(s)) =>
    wire[s] = Frames(sent[s])

(* A receive returns once the other side has sent enough, even if that     *)
(* side has meanwhile been destroyed.                                      *)
ReceiveReturns ==
  \A s \in Sides :
    (/\ usr[s] = "receive"
     /\ Len(Bytes(sent[Other(s)])) >= Len(delivered[s]) + ask[s])
      ~> (usr[s] = "idle" \/ cut[s])

(* Two ways to wait for good: a receiver with a complete message and no    *)
(* place in incoming, while its user is past receiving; and a sender with  *)
(* a full connection, at whose other end nobody reads any more.            *)
PutBlocked(s) == /\ rcv[s] = "body" /\ Len(buf[s]) = need[s]
                 /\ Len(incoming[s]) = InCap
                 /\ usr[s] # "receive"

WriteBlocked(s) == /\ snd[s] = "write" /\ Unread(s) = WireCap
                   /\ rcv[Other(s)] = "done" /\ ~Closed(Other(s))

(* A destroy that does not come to an end is held up by one of these two   *)
(* waits and by nothing else - no lost wake-up, no flag seen too late.     *)
DestroyEndsOrBlocks ==
  \A s \in Sides :
    []<>(die[s] => \/ Closed(s)
                   \/ \E t \in Sides : PutBlocked(t) \/ WriteBlocked(t))

(* "the above has signaled both receiver and sender to stop, lets wait for *)
(* them" (carena.c:444): destroying a peer comes to an end.                *)
DestroyReturns == \A s \in Sides : die[s] ~> Closed(s)
=============================================================================
