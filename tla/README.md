# EmpiricalZeroKnowledge in TLA+

The repository runs the RTZ14 zero-knowledge proof between two programs: a
prover that knows a witness for a Boolean circuit and a verifier that does not.
This directory models the parts that carry that proof - the protocol with its
circuit analysis, the arena in which programs find each other, the peers that
move messages, the blocking queue between their threads, the containers and the
tables of the operating environment underneath, and the parts that turn files
into circuits and values into bytes, the BCH codec and SHA-512 - checks them
with TLC, and proves the queue and its teardown, the peers, the tables of osal,
the arena and the protocol with TLAPS. Paths below are relative to the
repository (`common/carena/src/carena.c`), a line number follows the colon.

## The system

| Component | State | Operations | Spoken to by |
|---|---|---|---|
| `rtz14.c` executeProof | one activation per party: circuit, string, tasks, challenges | the three-move proof as prover or as verifier | programs; speaks to peers |
| `circuit_analyser.c`, `emiter.c`, `linear_proof.c` | hash maps of addresses, output buffers | patch the constant one, find free and output addresses, evaluate, permutations and majorities, proof tasks | executeProof |
| `circuitparser.c` | position in the source | tokens, gates, INV as XOR | programs |
| `commitment.c`, `sha512c.c` | randomness and buffers | commit, decommit | executeProof |
| `carena.c` peers | two queues, two threads, two descriptors, `die`, `drem` | send, receive, has_data, destroy | executeProof; listener |
| `carena.c` arena | list of peers, connection listeners, listener thread | connect, listen, listen_wait, get_peer, destroy | executeProof |
| `blockingqueue.c` | ring, front, back, two semaphores, a lock | put, get, size, getcopy, destroy | peers |
| `hashmap.c`, `singlelinkedlist.c`, `intkeymap.c` | buckets, nodes, an iteration cache | put, get, rem, add, get_element | everybody |
| `osal.c` | thread table, descriptor table, mutexes, semaphores | newthread, jointhread, open, accept, read, write, up, down | everybody |
| `der.c` | contexts with encoded items; a cyclic buffer and the open sequences | insert, begin and end sequences, take, enter, leave; read_int, read_str, begin_seq, leave_seq | programs |
| `bch.c` | tables of a code: powers, logarithms, remainders, a basis | init_bch, encode_bch, decode_bch | tests |
| hex, options, date, statistics, Windows port, `carena2.c` | little or none | conversions, measurements | programs, tests |

How they interact: executeProof hands a message to `send`, which puts a copy
into the peer's `outgoing` queue; the sender thread puts a four-byte length in
front and writes to one TCP connection. On the other side a receiver thread
reads lengths and bodies and puts each body into `incoming`, out of which
`receive` fills whatever length it was asked for. Arena, listener thread and
user meet in the list of peers and the list of connection listeners.

### What is hard

* **Queue**: producers and consumers interleave at every memory access; a ring,
  two indices and two counters have to agree; `size` looks without a lock;
  `destroy` frees the semaphores threads wait on, and trusts that a yield has
  let them go.
* **Peers**: three threads a side; TCP cuts the stream anywhere; a chunk may be
  longer or shorter than what receive wants; either side may shut down with
  messages in every queue, and both may do so at once.
* **Arena**: every client arrives on two connections that interleave with those
  of others; callbacks run on the listener thread while the waiting thread
  frees them.
* **Protocol**: neither party tells the other how long a message is, both
  compute it from the circuit; bits are packed into bytes with padding that
  depends on the circuit; the two parties derive the same relations from
  different data; one wrong value shows for some witnesses only.
* **Containers and osal**: caches, duplicate keys, tables read outside locks,
  descriptor numbers that come back.
* **Encodings**: lengths inside lengths; a reader that may leave a sequence at
  any item, over a descriptor that cuts its bytes anywhere; boundaries of one
  byte, one block, one leap day.
* **Codes**: a decoder that must find any t wrong bits, by a formula of its own
  for each degree up to four, in fields of eleven sizes; more than t wrong bits;
  eighty rounds written out by hand with the words renamed instead of moved.

### What makes each part correct

* Queue: one thread at a time in the ring; permits, indices and slots agree;
  calls behave as those of a bounded FIFO; no call waits on a queue that could
  serve it; destroying it lets those who wait go before it frees what they use,
  and every element goes to one place.
* Peers: bytes arrive in order, none lost and none twice; the receiver stays on
  frame boundaries; destroy flushes; receive and destroy return.
* Arena: `listen_wait(n)` returns when n peers can be used; each client's two
  connections end up in one peer; nothing is used after it was freed.
* Circuit analysis: the evaluation string satisfies every gate; exactly the
  circuits with one output are accepted; majority bits stand in front.
* Protocol: both parties end, with the same verdict, no byte left over, and the
  verdict is what the relations over the committed string say; an honest prover
  with a satisfying witness is accepted.
* Containers: a list is a sequence whatever its caches hold; a map is the keyed
  store of its header; no node leaks or is used after it was freed.
* Osal: the descriptor table agrees with the operating system, nobody uses
  another's number, a join waits for the thread it names.
* Encodings: what is read is what was written, by either reader; a listing
  becomes its gates and nothing else; a commitment opens to its message only; a
  log line carries the local time at which it was written.
* Codes: up to t wrong bits are found, and more are either refused or taken for
  another word that has at most t; the compression is that of the standard.

The hazards behind these, each with its line, are the `hazards` of
`PROJECT.json`.

## Modules

```
BoundedFifo   what a blocking queue promises
BlkQueue      blockingqueue.c and the semaphores, implements BoundedFifo
QueueTeardown BlkQueue_destroy and Cmaphore_destroy under threads inside the queue
IntEncoding   int.c: four bytes and back
PeerChannel   two connected peers over TCP; its queues are BoundedFifo's
Arena         programs that listen, connect, and make peers of connections
Osal          descriptor table and thread table of osal.c, as carena uses them
ElementList   what a List promises
LinkedList    singlelinkedlist.c, implements ElementList
KeyedStore    what map.h and intkeymap.h promise
HashMaps      hashmap.c and intkeymap.c, implement KeyedStore but for named departures
Circuit       the pure functions of circuit_analyser.c, emiter.c, linear_proof.c
Rtz14         executeProof of both parties; its streams are what PeerChannel delivers
CircuitParser circuitparser.c: from a listing to the gates that Circuit works on
Commitments   commitment.c: what SHA-512 is given, and what opening compares
Der           der.c: writing trees, and reading them by contexts
DerStream     der.c: reading the same bytes from a descriptor
LogClock      osal.c: the time stamp of a log line
BitSets       words and polynomials over two elements as sets of bits
GaloisField   bch.c: the field, and polynomials over it
BchRoots      bch.c: the roots of an error locator
Bch           bch.c: init_bch, encode_bch, decode_bch
Fips180       the hash computation of SHA-512 as the standard has it
Sha512        sha512c.c round by round, implements Fips180
MCLibrary     puts the parts together that serve one caller at a time
MCProgram     a proof, a queue of one producer and one consumer, and the tables of
              osal, with the fairness of each
MC*           constants and symmetry for the model checker
SequenceLemmas   flattened, cut and padded sequences, functions defined step by
              step, for the proofs
BlkQueueProofs, QueueTeardownProofs, PeerChannelProofs, ArenaProofs,
Rtz14Proofs    theorems about the module they are named for
OsalProofs     theorems about Osal and LogClock, the two models of osal.c
LibraryProofs  theorems about LinkedList, HashMaps, Commitments and CircuitParser
```

Each layer uses what the layer below was shown to promise: BlkQueue implements
an atomic FIFO, so PeerChannel's queues are sequences; PeerChannel delivers
bytes in order, so Rtz14's two directions are byte sequences. The one promise
PeerChannel does not keep in general (a length cut in two, below) is left out of
Rtz14. Arena ends where a peer can be used and PeerChannel begins there. The
list of peers, the tables of Osal and the address maps of Circuit are sequences,
functions and sets because LinkedList and HashMaps implement them.

### BlkQueue

| State | Code |
|---|---|
| `inserts`, `takeouts` | counts of the two semaphores |
| `lock`, `elements`, `front`, `back` | the fields of `BlkQueue` |
| `pc`, `reg` | where a thread is in push or take, and its `element` or `res` |
| `sawFront`, `sawSize` | size()'s first read, and its answer |

Push is `PushDown, PushLock, PushStore, PushAdvance, PushUnlock, PushUp`, take
correspondingly with `TakeRead` and `TakeClear`: one action per shared access,
in the code's order. `Cmaphore_down` and `Cmaphore_up` change the count with the
semaphore's own mutex held, so each is one step; spinning at zero is the guard.
The refinement maps the ring to a sequence; during `take_advance` the slot in
front is already null and the mapping takes the oldest element from the
consumer's register. The model ends where destroy begins.

### QueueTeardown

It begins there: any thread may be outside, about to enter `Cmaphore_down`,
spinning in it, in the locked section, or about to enter `Cmaphore_up` (`at`).
`DownEnter`, `DownSpin`, `Section`, `UpSemaphore` take it from one to the next;
the section is one step because BlkQueue shows the ring is used under the lock
only. `step` is the last thing destroy has done: `Detach` (lock, `elements` to
null), `Unlock`, for each semaphore `Announce` (its `oe` cleared) and
`Cmaphore_free`, then `FreeRing`, `FreeQueue`, `FreeLock`, with a `Yield` where
the code has `yieldthread`. A thread that touches what is in `freed`, or calls by
way of an `oe` that was cleared, is `broken`.

destroy joins nobody: `blockingqueue.c:158` says "hopefully this will unlock all
takes and pushes". What it hopes for is that a yield lets every other thread run
until it waits or has left the queue, which `sched_yield` does not promise. So
`Yield` may return at any time, and `late` collects the threads that were not
waiting then. `TeardownIsSafe` says that only such threads can break and that
without any everybody has left the queue at the end. Waiting means: outside,
at the queue's lock while destroy holds it, or spinning at a count of zero that
nothing yet tells to stop. New calls are made only before destroy begins.

### PeerChannel

`usr`, `snd`, `rcv` say where the three threads of a side are; `outgoing`,
`incoming`, `drem`, `die` are the fields of `MpcPeerImpl`; `unwritten`, `need`,
`buf` are locals of the two threads. `wire[s]` is every byte that side got onto
its connection and `taken` how many the other read, so their difference is what
TCP holds. `sent`, `delivered` and `cut` are history: no action reads them
except for the bound on messages. A loop of `receive` is one `Consume`, each
read or write one action over every number of bytes it may move. `Destroy`,
`PutDie`, `JoinSender`, `JoinReceiver` are the four waits of
`MpcPeerImpl_destroy`. Reads time out and come back empty-handed; that changes
nothing and is not a step.

### Arena

A program has a user thread (`usr`) and, after `listen`, a listener thread
(`lst`). `running`, `listen_ready`, `peers` and `conn_obs` are the fields of
`CArenaImpl`; `observer`, `count` and `hold` are the default connection listener
of `listen_wait` and whether its memory is still its own. A client opens two
connections to a server; `backlog` holds those not yet accepted, `up` and `down`
the integers on their way. `Listen`, `ListenReady`, `Wait`, `RemoveListener`,
`FreeListener` are `listen_wait`; `OpenOut`, `Hello`, `ReadMyId`, `OpenIn`,
`SendMyId`, `AddPeer` are `connect`; `Accept`, `Register`, `SetOut`,
`DropClient`, `IgnoreClient`, `FindListener`, `ClientConnected`, `ReleaseHold`
are the listener thread's loop. `Reassembled` is what `read_int` makes of four
bytes that come in two reads: the second read starts at the front of the buffer
again. `garbled` records that some program read an integer nobody had sent; the
liveness properties hold up to it.

A program may be killed (`Crash`), fail to open its port (`ListenFails`) or find
nobody at the other end (`OpenFails`); its connections then close.

### Osal

`filedescriptors` maps a descriptor to the operating system's number, `threads`
an id to a thread, `lock` is the lock of `SimpleOE`. `os` says what each number
stands for outside the program: it is given again as soon as it is closed.
`TakeId` and `Register` are the two halves of `newthread`'s locked section, so
that `Find` - `jointhread`'s look-up, which does not take the lock - can fall
between them; likewise `LockToRemove` and `Unregister`. A look-up that meets another
thread in the same bucket of the map may find its entry, miss it, or follow a
null pointer (`crashed`), and `raced` remembers that one did. The threads of
a peer or an arena are one thread that checks the stop flag, looks its
descriptor up and uses the number. Descriptors accepted by a listener are
opened like any other. A thread takes the number out of the table under the lock
and uses it after, which is where numbers given again matter.

### Containers

`LinkedList` has the nodes with their `element` and `next`, the set of nodes
`allocated`, and the fields of the list: `first`, `last_elm`, `size`, and
`last`, `lasti`, the node `get_element` was asked for last. `GetBeyond`,
`GetNext`, `GetAgain`, `GetFromFirst` are the four ways through `get_element`.
The refinement to `ElementList` reads the chain off the nodes. `HashMaps` keeps
a bucket as a sequence of entries. `KeyedStore` is what the two headers promise:
a set of filed keys with a value each, `rem` after which a key is gone, `size` and
key lists that have each key once. HashMap's `put` changes the entries of a key
and then appends one more, so that `size` counts a key put twice twice
(`CountsTwice`) and one `rem` leaves it in the map (`RemainsAfter`), where
`map.h:40` says that it does not: `RemovedIsGone` states that sentence, and the
run `map_rem` shows it violated. IntKeyMap's `put` leaves a key that is there as
it is, and its `contains` denies a key filed with a null pointer (`DeniesNull`).
`MapsImplementStores` says that there are no departures but these three; each of
them leaves the store as it was.

### Der and DerStream

`subs` holds the encoded items of every open `DerCtx`, `tree` the same items as
values. `DerFinal` hands the bytes to one of the two readers. A context reader
holds in `reading` the encoded items of each sequence it has entered; a stream
reader has the cyclic buffer in `ring` - with what the descriptor still holds
and how much one read of it delivers - and the offset, length and length's
length of each open sequence in `seqs`. `here` and `place` are the trees the
reader should be seeing. A length below 8 takes one byte where the code has 128,
and longer ones are written to the base 16 instead of 256, so that strings of 7
and 8 bytes lie on either side of the boundary.

Two things a caller must know: `read_int` keeps a wrong tag it has taken, where
`read_str` and `begin_seq` give it back, and `der_begin_read` takes whatever
follows a sequence in its buffer for more of its items. The model's readers ask
for an integer only where there is one, and a buffer holds one sequence.

`GetLen` refuses an offset behind the end of the buffer but not the end itself,
as `der.c:29` does: there it reads a byte that is not the buffer's (`Stray`). What
the writers make never ends before a length, so the runs do not come to that.

### CircuitParser, Commitments, LogClock

A listing is a sequence of pieces: keywords, digits, other letters, and
everything that is no part of a name. `NextToken` finds the next token behind a
position, `ParseSource` is one round of the parser's loop with the gate's three
or four tokens. The file may break off anywhere but within a number: then the list
has the gates that were complete, and nothing tells it from that of a shorter file.
What is written are calls, which have an index behind the addresses, and lines
that are no calls. In those a gate's keyword must be part of a longer name
(`ParserAssumption`): the tokenizer knows no comments, and would read it as a call.

The hash of Commitments is the sequence of blocks that `sha512_compress` is
given, taken as injective. Blocks have six bytes with two for the length.

`UnixtimeToCstr` does what `unixtime_to_cstr` does with real numbers of seconds.
`StampIsLocalTime` compares the whole stamp, date and time, with the local time
of the line, which is two hours ahead of UTC (`utcoffset`, `osal.c:851`). It is
not always that, and the property names each error:

- After 22:00 UTC the local day has begun, but `osal.c:830` prints
  `(hour+utcoffset)%24` and leaves the day alone: the stamp is 24 hours behind.
- The loops take a unit away while more than one of it is left, so that the first
  second of a minute is `:60` of the one before, and the first second of a day is
  on the date before, also 24 hours behind - except on January 1st and, in leap
  years, April 1st, where nothing is left for the loops.
- `seconds_per_month` (`osal.c:783`) gives the leap day to March: from the third
  second of February 29th on the stamp is a day ahead, and from the third second
  of March 31st the seconds wrap around below zero and the loop reads behind its
  table, so that there is no date. Every log call made on such a day (2028-03-31
  next) does that.
- In leap years the month's bound is a second too long: second one of a month may
  be shown as a day too many of the month before, as in January 32nd.

No text of the repository says what the stamp is, so these are a hazard here and
not a finding.

### Circuit and Rtz14

A gate is a record of a type and three addresses. The visitors that walk the
list are operators named after what they compute: `PatchOne`, `InputGates`,
`OutputGates`, `Evaluation`, `GpamPermutations`, `GpamMajority`, `GpamAux`,
`ProofTasks`, `CheckOutBit`. Their hash maps are sets here. `UintMax` (-1) is
the address the parser writes for an inverted operand.

`MajorityInFront` is about the majority index the prover computes
(`linear_proof.c:384`). `apply_majority` (`:71`), which uses that index under b = 1,
takes both of its bits from one place, so that it is 0 or out of range and nothing
is swapped. `ApplyMajority` does the same and the relations come out accordingly
(`VerdictIsRelations`); no property says that the two agree, because they do not.

An action of Rtz14 goes from one blocking call of its party to the next:
`Prepare` up to `listen_wait`, `XorCommit`, `SendDelta`, `Reveal`,
`HearJudgement` for the prover; `DrawChallenges`, `Connect`, `ChallengeAnds`,
`BuildTasks`, `OpenChallenge`, `Judge` for the verifier. Sends are part of the
action: they block only with 16384 messages queued, and a proof has eight.
Between two blocking calls a party touches nothing the other can see, so no
interleaving is lost. Messages have their real number of bytes, bits their real
place in a byte. Random bytes, masks and challenges are choices. Commitments
are zero bytes of the right length: nobody opens one.

### BitSets, GaloisField, BchRoots and Bch

A word is the set of its one bits, so that exclusive or is the symmetric
difference; an element of the field is such a set, a polynomial over it a
function from degrees to elements. `build_gf_tables` gives the two tables, and
all arithmetic goes through them as in the code. The four `find_poly_deg*_roots`
and the splitting of higher degrees by traces are operators with the names of
their functions. `Codec` is `init_bch` for each of the parameters, refused ones
included. `encode_bch` keeps the two ways of the code, byte by byte up to a word
boundary and then by words through four tables. A state is a caller: `BchInit`,
`BchEncode`, any of the given sets of bits goes wrong (`wrong`), and `BchDecode`
in one of the four ways a caller may hand over what it has (data and parity,
parity received and computed, their difference, or the syndromes).

`LocatesErrors` needs care with more than t errors. Up to t = 4, whatever
decode_bch then names makes a codeword of what arrived. From t = 5 on it need
not: `gf_poly_gcd` ends at a remainder of degree zero but answers the other
operand, so that it never answers 1, and the splitting may report a factor that
is none. The property claims for t >= 5 only that the count and the places are
in range, which is all that holds there; `bch.h` promises nothing in this case.

### Sha512 and Fips180

`Sha512` has the rounds of `sha512_compress` with the schedule, the registers
renamed from round to round instead of moved (`Named`), and the constants the
code has, as 64-bit words. `Fips180` is the standard's computation with its
constants derived: the fractional parts of the square and cube roots of the
first primes. `CompressesAsStandard` is the refinement, one round to a round,
so that one wrong digit in a constant or one name out of order shows.

## Runs

| Run | What it shows | States |
|---|---|---|
| `blk_mpmc` | two producers, two consumers, ring of three: lock, permits, slots, registers; refinement of the FIFO | 100 000 |
| `peer_channel` | one side sends, or each sends one message; both may destroy: order, framing, flush, receive returns, destroy ends or is one of two named blocks | 187 000 |
| `arena` | three programs find each other: connections paired into peers, `listen_wait` returns when as many as asked for can be used, no observer is called after it was freed, everybody gets ready, destroy returns | 131 000 |
| `library` | each part that serves one caller, under every sequence of calls: lists implement a sequence, maps keyed stores but for the departures above, DER trees come back by both readers, listings become their gates, commitments open to their message, log lines carry the local time but for the errors above, BCH codes find wrong bits, the hash is SHA-512, a queue can be destroyed under its users | 247 000 |
| `program` | one of three at a time. A proof of eleven circuits, all witnesses and challenges: both parties end with one verdict, which is what the relations say. A queue of one producer and one consumer, as carena has it: the unlocked size, and both waits end. A peer and an arena that share the tables: table and system agree, numbers are used by their owners, joins wait for their threads, destroy ends | 72 000 |
| `peer_header`* | a cut length loses bytes | |
| `peer_close`* | destroy does not return | |
| `arena_stop`* | a client is served after `listen_wait` returned | |
| `rtz_complete`* | a satisfying witness is rejected | |
| `rtz_dummy`* | DummyScheme: both parties wait | |
| `rtz_deltas`* | a byte of deltas is received as the first byte of the opening | |
| `map_rem`* | a key put twice is in the map after it was removed | |

Runs with a star look for a violation of something the repository says of
itself; see the findings.

**Bounds.** *Queue*: two threads of each kind give every pair of roles, a
capacity of two lets the indices wrap with the queue empty, half full and full.
Two elements tell order apart. The proofs lift all of this. *Peers*: queues of
one and two places and five bytes on the connection fill after one or two
messages, so every wait happens; messages of one and two bytes against asks of
one to three give chunks shorter than, equal to and longer than asked for; a
connection of five bytes is shorter than a frame. *Arena*: three programs that
wait for and connect to each other as `threeway.c` does, one with a single
client, one where a second client comes to a server that waits for one, and one
where two clients reach a server that waits for both at the same time, so that
either of their connections may come before or after either of the other's.
Client and server roles, interleaved clients and a program that is both are in
these. One program may be killed, an integer may be cut after its first byte.
The limit of 20 waiting connections is never met. *Osal*: two rounds make each
number and each bucket come back; of three numbers two are in use at most; with
two buckets ids that are two apart collide. The one user joins first, the other
closes first. *Containers*: three nodes are a list with a first, a last and an
inner one, whose freed addresses are given again; of three keys two share a
bucket; three entries let a key be put twice beside another or three times.
*DER*: four items, sequences included, give a sequence in a sequence in a
sequence, and one with items behind it; a ring of four bytes is shorter than any
integer, and reads deliver one, three or four bytes, so fills begin at every
index. *Parser*: two lines, any of which is one of three gates with two
addresses or noise with short and long names, a keyword inside a name, a name
that begins with one; any place to break off but
within a number. *Commitments*: all lengths from
zero to more than a block, so that the end falls on every place of one. *Clock*:
the days of 2027 to 2029, of which 2028 has a leap day, each at midnight, in its
first seconds, at two hours, at 22:00 UTC, one second later and at its last
second. *BCH*: codes of every t from
one to four over a field of 32, of four and six errors over one of 64, of two
over one of 128; every subset of some bits of data and parity goes wrong, fewer
and more than t; data ends on and off a word boundary; four kinds of parameters
are refused. Fields from 256 on differ in their size only. *Hash*: no block, the
padded "abc", and two blocks of which one has many values; nothing is assumed of
the words. *Teardown*: two pushers and two takers, one place, two elements: at
every step of destroy there may be threads waiting at both semaphores, in both
sections and between; the proof lifts the bound for `TeardownIsSafe`.
*Protocol*: the circuits have zero, one and three AND gates, an INV, an address
written twice, an address never written, two outputs, and chains whose relations
number one less than, exactly and one more than a byte's bits. Random choices
are three of six permutations (the identity, one that swaps, one that rotates)
and two masks.

**Deadlock** is checked for the queue. Peers, arenas, the users of Osal and the
protocol end - closed, or "done" - so their configurations turn it off; liveness
says there where they may stop. A reader of a tree, a parser, a commitment and
the clock come to an end too, and what `library` shows of them are invariants.

**Fairness** is stated in MCProgram for the run `program`, in the modules
themselves for the others. Weak fairness of every thread's next step: the code's
threads are operating system threads that the scheduler runs, and a spinning wait
is retried. No operation has to be called: users need not send or receive, except
that in `program` the consumer of the queue is assumed to come back to `get`, as carena's
sender thread does (strong fairness, because size may be called in between).
In Arena the listener thread and a user in the middle of a call run; nobody has
to destroy an arena or to be killed. In Osal a user need not stop its thread;
`read` and `write` return, `accept` only when a client comes. Weak fairness is
enough for its lock because the rounds are bounded: nobody can be overtaken for
ever.
`Terminates` of Rtz14 also assumes that what is sent arrives, which is
`ReceiveReturns` of PeerChannel.

## Findings

1. `carena.c:282` - one to three bytes of a length are dropped and framing is
   lost (`peer_header`, `ReceivesWhatWasSent`).
2. `carena.c:326` - the receiver blocked in `incoming->put` never sees `die`;
   destroy joins it for ever (`peer_close`, `DestroyReturns`).
3. `linear_proof.c:189` - the value of the first relation of an AND gate is 5
   where its test expects 4; an honest prover is rejected for some satisfying
   witnesses under b = 0 (`rtz_complete`, `Completeness`).
4. `rtz14.c:225` - 80 bytes are read for any commitment; DummyScheme's has 64
   (`rtz_dummy`, `Terminates`).
5. `carena.c:807` - `listen_wait` returns with the listener thread and the
   server socket still there, where `carena.h:118-119` says "Then stop listening
   and return" (`arena_stop`, `StopsListening`).
6. `rtz14.c:463` - the prover adds its output check to the deltas under either b,
   the verifier reads it only under b = 0. With relations that fill a byte, a byte
   of deltas is received at `rtz14.c:478` ("receive m_{challange}") as the
   beginning of the opening (`rtz_deltas`, `OpeningIsReceived`).
7. `hashmap.c:40` - a key put twice is still in the map after `rem`, where
   `map.h:40` says it is not, and `size` counts it twice (`map_rem`,
   `RemovedIsGone`).

Since the third and the sixth hold of the code as it is, the passing run states
what the verdict depends on (`VerdictIsRelations`) for every circuit whose deltas
line up (`Aligned`: b is 0, or the relations do not fill a byte), that both
parties end with one verdict in any case but with the one byte left over
(`EndsInAgreement`), and exactness (`XorExact`) for circuits without AND gates.

## Proofs

The theorems on BlkQueue hold for any finite sets of producers and consumers and
any capacity from one; assumptions are `SizeAssumption`, `NullAssumption` (the
null pointer is never pushed) and `ThreadAssumption`.

`BlkQueueProofs`: none of the properties is inductive alone. That a push finds
a free slot needs the permits to balance, the balance needs that only one
thread moves an index at a time, that in turn needs the lock to be free exactly
when nobody is inside. `IndInv` is the conjunction of `TypeOK`,
`MutualExclusion`, `PermitsBalance`, `SlotsMatchIndices`, `RegistersMatch`. One
lemma per conjunct goes through the actions (`TypeStep`, `MutexStep`,
`PermitsStep`, `SlotsStep`, `RegistersStep`); they rest on lemmas about
counting modulo the ring (`RingFacts`, `AdvanceCount`, `SlotShift`) and about
the number of calls at a label when one thread moves (`CallCount`).
`Invariant` combines them, the five theorems after it read off the parts, and
`SizeIsSafe` adds that a lone consumer's first read cannot become stale to its
disadvantage.

`Refinement`, that the queue implements `BoundedFifo`, follows from the same
invariant by `InitMaps` and `StepMaps` (one case per action, by `AppendAs` and
`TailAs` for the two that change the queue).

`QueueTeardownProofs`: `TeardownInvariant` and `TeardownSafe`, from
`TeardownAssumption` (no thread both pushes and takes, finitely many threads, a
capacity from one, and no null pointer is pushed: the arena puts copies, buffers
and its die package, and a null from take means that the queue is gone).
`TeardownInv` says, besides types, what destroy has freed and told by each step
(`Phases`) and where a thread that is not late can then be (`Positions`): after
the first yield it is outside, spinning or at the lock; after that of "told
pushes" no pusher is inside, because a pusher that still spun would not be
waiting; after that of "told takes" nobody is. `TeardownIsSafe` alone is not
inductive: that nobody meets freed memory rests on where each thread was two
yields ago. `UserStep` and `DestroyStep` carry what a step leaves alone, one
lemma per action the rest.

`ElementsInvariant` and `ElementsGo` are about the elements. That nothing is
overwritten or taken twice rests on the permits: until destroy begins, the counts
of the two semaphores and the threads between them add up to the filled and the
free slots (`PermitsOK`), and the filled slots are those from `front` up to `back`
(`RingOK`). `Moved`, `Elsewhere` and `Arrives` count the threads at a place when
one moves, `PushFills` and `TakeEmpties` are about the ring, `SectionPermits`
puts them together. Then every element is with one thread, in one slot, taken or
kept (`InOnePlace`), none is lost unless a thread breaks (`NoneLost`), and what ff
frees is what the ring held (`FreedByFf`); `PlacesKept`, `LetsGo` and
`SectionMoves` are the three ways a step can treat them. With destroy under way
the ring is gone from the queue and none of this depends on the scheduler.

`PeerChannelProofs`: `ReceivedInOrder`, `FramingIsKept` and `DestroyFlushes`, from
`ChannelAssumption` (two sides, capacities from one, the die package is no
message).
`PeerInv` has besides types `Stages`, the order in which the threads of a side
come to their ends and what each has left behind by then; `StreamOut`, what a
side put on its connection, what its sender still holds and what its queue
holds are together the frames of what it sent; and `StreamIn`, what was
delivered, the rest of a chunk, the queue and what the receiver is reading are
together a beginning of the other side's messages, up to the place in a header or
a body where the receiver is. `InOrder` is then a cut of one sequence in pieces.
That frames laid end to end can be cut at any message rests on the lemmas about
`FlattenSeq` in `SequenceLemmas`, which are proved from its definition by
induction over a set of numbers (`SetInduction`).

`OsalProofs`: `TableIsRight`, `NumbersAreOwn`, `JoinsWait`, from
`OsalAssumption` (at least as many numbers as users, finitely many of both).
`OsalInv` is types, `NumbersOwned` (a number the system has
open belongs to one user, or is on its way into the table), `ThreadsFiled` (each
started thread is filed under its id, except between `TakeId` and `Register` and
between `LockToRemove` and `Unregister`, when the lock is held), `RoundsKept` (a
user is never ahead of its thread) and, until a look-up has raced,
`WorkersJoined`.

`StampsAreLocalTime`, in the same module, is about the clock alone, from
`ClockAssumption` (the years begin in 1970 or later, and what is logged is within a
day): the run goes through three years, the theorem through any number.
`ClockInv` says that the days counted are those from 1970 to the calendar's date
and that what is shown is the stamp of the second logged; a midnight keeps that
because a year begins where the one before ends (`YearStartsIs`, `MonthsFollow`).
The rest compares two ways to count, and names when they differ. `LeftIs` is what
the walk over the months has taken away by each month, `EndsWhen` whether it ends there, in whole days, with a
day begun counted from second 1 on or, in a leap year, second 2; `MonthByWalk` sets
that against the calendar (`DayOfMonth`): in a leap year the walk ends in March from
second 2 of February 29th to second 1 of March 31st, and for the rest of that day,
and no other, what is left falls below zero. `StampDenotes` takes days, hours,
minutes and seconds off and adds them up again, with the day that
`(hour+utcoffset)%24` loses: it is lost when 22 hours or more were taken, which is
after 22:00 UTC or in the first second of a day whose walk left anything
(`DayAndHour`, `HourShifted`). `StampOnDate` puts both together into the errors that
`StampIsLocalTime` names. In the code the seconds are 64 bits wide, which
no year a clock passes through exceeds.

`ArenaProofs`: `StreamsArePaired`, `ListenWaitWaits`, `ReadyPeersUsable`,
`NoFreedListenerCalled`, from `ArenaAssumption`. It asks for at most 512
programs - an id of 1024 asks for a new peer, and a program has at most two peers
for each other one - and that no program connects to itself or to another twice,
because a connection is named by its two ends. `ArenaInv` is `TypeOK`,
`UsersInStep` (which stage of a call goes with which fields), `ConnectionsOnce`
(where each of the two connections of a client can be), `PeersOnce`, and, as
long as nothing was garbled, `StreamsPaired`, `IdsName` (an id on its way names
the peer made of the first connection) and `ClientsCounted` (the count of
`listen_wait` lacks exactly the clients that were not yet told). The last is
what `WaitsForClients` needs and no property says.

`Rtz14Proofs`: `VerdictCorrect`, `VerdictsAgree`, `EvaluationCorrect`,
`MajorityCorrect`, `XorsExact`, `OneOutputProved`, from `Rtz14Assumption`:
circuits are sequences of gates as the parser makes them, every address lies
within the bytes of the evaluation string - the code writes there without a
check - and a mask is as long as the message. `ProtocolInv` is the conjunction of
`GivenOK`, `Refusals`, `MessageMade` (the message is the evaluation string and
the auxiliary bits of some permutations), `MaskDrawn`, `SameTasks` (both derive
the same tasks although one reads its own strings and the other what it was
sent), `Stages` (at which of eleven pairs of places the parties are, with every
byte under way) and `VerdictIsRelations` itself. Three groups of lemmas carry it.
Bytes: what is packed begins, unpacked, with what it was (`Unpacked`), and the
sizes both parties compute agree (`Honest`). Relations: a task of a masked string
is the task of the string masked (`TaskXorOfXored`), so that what challenge one
opens shows the relation of the message. Circuits: the functions defined by
recursion over the gates exist (`RecursionExists`) and do what the walk does
(`EvaluationIs`, `OutputGatesAre`); without reuse what a gate reads and leaves
stays as it is to the end (`ValueStays`), which gives the gates of the string;
the three auxiliary bits of an AND gate are never two ones and a zero
(`AuxOnes`), which gives the majority; and without AND gates there is one task
to a gate (`TasksOfXors`).

`LibraryProofs` is about the specifications of four modules alone; `library` runs
their actions among those of the other parts.

`ListIsSequence`, from `ListAssumption` (null is no node; finitely many nodes),
says that LinkedList implements `ElementList` and keeps `ListShape`. `ListInv` says
that there is a duplicate-free sequence of nodes that is linked from `first` on,
holds all allocated nodes, ends at `last_elm` and has `last` at the place `lasti`
if that is remembered (`ChainIs`). `ChainFollowed` shows that the walk along the
nodes finds that sequence, so that the elements of the mapping are those of its
nodes; one lemma per call says what the call does to the chain. `List_rem_element`
has to forget the remembered place for the last clause to survive, which is what
its mutant leaves out.

`MapsAreStores`, from `MapAssumption` (keys are numbers, there is a bucket, null is
no value of a hash map), says that both maps implement `KeyedStore` but for the
three departures. `Filed` is the invariant of either: every entry is in the bucket
its key hashes to, and entries with the same key have the same element - which
HashMap's put keeps up by changing all of them before it appends one more. With it
the value under a key is that of any of its entries (`ElmIs`), and a key is in the
store as long as it has one (`CountIs`); `PutOne` and `WithoutOne` say what a call
does to one bucket, `OneBucketChanges` that no other key notices. A key that had
one entry is gone after rem, one that had more is `Twice` (`MapRemStep`). Sizes and
key lists run over all buckets: `EntriesCounted` adds them up bucket by bucket,
`KeysCount` says that a list without doubles has as many as there are keys.

`CommitmentBinds`, from `BlockAssumption` (there is room for
the length in a block and it has at least one byte) and `OctetsAssumption`
(messages and randomness are bytes, of any length), and from what the module
says of the compression, that it keeps different blocks apart. `Spells` says what blocks stand for a message;
`HashSpells` that those of `sha512_hash` do; `MarkerTells` that the marker and the
zeros behind it already tell how long the message is, so that `HashInjective`
makes no use of the length at the end. `CommitInv` adds what a commitment was
made of.

`ListingsAreParsed` shows `ParsesListing` from `ParserAssumption` (addresses are
digits, at least one; a line that is no call ends outside of names and has a gate's
keyword only in longer names), whatever the bound `MaxLines`. `NextTokenIs`
unfolds the tokenizer's recursion by one step: the function exists because it only
looks ahead (`ChaseExists`). `TokenFound` is what a token can be between a place
and the beginning of the next call: none, a number or `MUL` that ends no later, that
call's keyword, or one that the end of the file has cut out of a name. It needs
that the tokenizer never stands within a name and behind its letters (`Safe`): there
`xAND` would become `AND`. `CallRead` reads a call whose end is there, `BrokenCall` one that
breaks off - which it can only where an address is missing altogether, because no
number is cut. `ParserInv` says where the calls of the listing begin (`Listing`),
that what is parsed is the beginning of it (`Cut`), and that the parser stands
behind the calls whose gates it has and not behind the beginning of the next
(`ReadTo`). That the numbers read are those written is by the same `Atoui` of the
same digits; what `Atoui` makes of them no theorem says.

Only model-checked: `CallsReturn` and every other liveness
property (fairness is out of the prover's reach), and what is defined by recursion over
data in `library`: trees and their encodings (`EncodingReadsBack`), the products and
remainders of Bch (`LocatesErrors`), the rounds of Sha512 (`CompressesAsStandard`).

## Not modelled

Allocation failure everywhere (the code mostly returns or retries, and out of
memory is not a state the protocol recovers from); a prover without a witness;
text (lines and columns of tokens, messages, options, hex); the rest of `der.c`
(booleans, end-of-contents, `der_upd_seq`, the `der_decode` functions), which
nothing calls, descriptors that fail in the middle of a call of its reader, a
context reader that is asked for more items than there are (`der.c:1189`, `:1217`,
`:1249` compare `idx` with `lsubs`), and lengths from 2^31 on; of `disconnect`
(`carena.c:931`), which no program calls, all, and of `listen` a `newthread` that
fails; `OE->write` failing under a peer's sender (`carena.c:412`);
`BlkQueue_getcopy`, which nothing calls either: it copies the ring without the
lock; the Chien search of `bch.c`, which is not compiled in; `carena2.c`, which
no build file names; the Windows port, a second implementation of the interface
the models use through the posix one; `Data_shallow`, whose static record a
prover and a verifier in one process would share (`osal.c:1053`; the programs
run one party each); options, date, statistics; machine-code trampolines
(`coov4.c`), a call through which is a call.

## Plan

1. Breadth. The mutex variants of `osal`; `get_thread_id`; a second arena in
   Osal; a descriptor that fails in the middle of a DerStream call; a parser
   whose listings lack an index; one process that is prover and verifier and so
   shares the record of `Data_shallow`.
2. Proofs. `EncodingReadsBack` for the trees without sequences; then by how deep
   sequences are nested.
