# GNL, modelled in TLA+

GNL is a small client/server networking library for Godot games: about 1500
lines of C++ on top of the vendored asio 1.18.1. A client is a Godot `NetNode`;
the server is a stand-alone program. This directory holds TLA+ models of its own
code, TLC configurations that check them, and TLAPS proofs about them.

## 1. The system

| Component | State | Operations | Thread |
|---|---|---|---|
| `NetQueue<T>` (`Common/include/NetQueue.h`) | `m_deqQueue`, `m_muxQueue`, `m_muxBlock`, `m_cvBlock` | push/pop at both ends, `is_empty`, `get_*`, `clear`, `wait` | any |
| `Packet<T>` (`NetPacket.h`) | `header.cmdID`, `header.size`, `body` | `<<` appends a value, `>>` takes the last one | owner's |
| `TCPConnection<T>` (`NetTCPConnection.h`) | `m_Socket`, `m_sID`, `m_tmpPktIn`, `m_PktOut`, reference to the application's `m_PktIn` | `ConnectToClient/Server`, `SendPacket`, `Disconnect`, and the completion handlers of `WriteHeader`, `WriteData`, `ReadHeader`, `ReadData` | handlers on the ASIO thread, calls on any |
| `ServerApp<T>` (`NetServerApp.h`) | `m_TCPConnections`, `m_IDCnt`, `m_TCP_PktIn`, acceptor | `Start`, `Stop`, accept handler, `SendToClient`, `SendToAll`, `Process` | accept handler on the ASIO thread, the rest on main |
| `Server`, `World`, `Character` (`Server/`) | `m_chaMap`: id to character with position and connection | `OnClientConnect`, `OnClientDisconnect`, `OnPacket` (Ping, MessageAll, SelfEnterWorld, MovePlayer), `FlagMoveUpdate` | main (and `OnClientConnect` on ASIO) |
| `ClientApp<T>`, `Client` (`Client/include`) | one `TCPConnection`, `m_PktIn`, io_context and its thread | `Connect`, `Disconnect`, `SendToServer`, `PingServer` | Godot's |
| `NetNode` (`Client/src/GDNative.cpp`) | `m_pktIn`, `m_pktOut` | `_process` emits the front packet every frame, `PreparePacket`, `Write*`, `SendPacket`, `Read*`, `PrepareNextPkt` | Godot's |
| `AwaitUDPConnection` (`NetServerApp.h`) | a socket that dies with the call | receives, is aborted, calls itself | ASIO |
| `asio::io_context` (vendored, Windows) | completion queue, outstanding work, `stopped_` | `post`, `run`, `stop`, completions of operations | run by one thread |
| `UDP<T>` (`NetUDP.h`) | as `TCPConnection` | none is ever called | - |

How they interact. Each process has one io_context run by one thread, so that
all handlers of a process run one after another. The application never touches a
socket: `SendPacket` and `Disconnect` post a handler. Received packets cross to
the application through a `NetQueue`. On the server the ASIO thread also greets
and lists new connections (`m_TCPConnections`), which the main thread walks and
erases from; nothing locks that deque.

What is hard: a condition variable with two mutexes; chains of asynchronous
operations that share a buffer and a queue; sockets that close between the
completion of an operation and its handler; two threads in `m_TCPConnections`;
packets that are handled after their client was dropped; identifiers that are
never initialised and are cut from 32 to 16 bits; handlers that hold a raw
`this`; an `io_context` that is stopped while it has work and is never
restarted; a codec that writes no lengths and no types. `PROJECT.json` lists these
hazards at their lines, with the property that looks at each.

What makes each component correct:

- `NetQueue`: nothing is popped from an empty deque; the two mutexes never
  block each other; a waiting reader returns only with something to take.
- `TCPConnection`: one `async_write` at a time; a queued packet always has a
  write coming; packets arrive unchanged, in order, at most once, and do arrive
  if the network lives; the object outlives its operations.
- `ServerApp`/`Server`/`World`: the greeting comes first; ids are known before
  they are used; the world holds only listed connections; every player knows
  where every other one is; only its own client moves a character; the accept
  loop never ends and is never doubled, and nothing starves beside the busy
  receive loop.
- `Packet`: reads undo writes in reverse order, never look beyond the body, and
  `size` is the body's length (it is, of packets something was written into).
- `ClientApp`/`NetNode`: connecting again works, a disconnect closes the socket
  and returns, a packet is handed to the script once and in order.

## 2. Modules

| Module | Role |
|---|---|
| `Mailbox` | abstract specification of a queue with a waiting reader |
| `NetQueue`, `MCNetQueue`, `NetQueueProofs` | the queue, its model, its proofs |
| `FifoLink` | abstract specification of a two-way link |
| `TCPConnection`, `MCTCPConnection`, `TCPConnectionProofs` | both endpoints of a connection, its models, its proofs |
| `Server`, `MCServer` | accept handler, `Process`, `OnPacket`, world, owners of a connection; its models |
| `ServerProofs`, `ServerIdProofs`, `ServerWorldProofs` | its proofs: types, ids and owners, the world |
| `IoContext` | `asio::io_context` with one thread, used by the next two |
| `ServerLoop`, `MCServerLoop`, `ServerLoopProofs` | `ServerApp::Start` and the two loops of the ASIO thread, model, proofs |
| `Client`, `MCClient`, `ClientProofs` | `ClientApp` and the frame loop of `NetNode`, its models, its proofs |
| `ValueStack` | abstract specification of a packet: a stack of values |
| `Packet`, `MCPacket`, `PacketProofs` | the codec with `NetNode`'s callers, its models, its proofs |

`Client` and `ServerLoop` extend `IoContext`, so that their handlers, the
application's calls and `run()` work on one queue. `TCPConnection` is about what
two endpoints say to each other and has a plain bag of handlers instead; `Server`
and `Client` are about who still owns the object at either end.

### NetQueue

One step per critical section. `push_*` takes `m_muxQueue` (`PushLockQueue`),
then `m_muxBlock` (`PushLockBlock`), then changes the deque, notifies and unlocks
(`PushBody`). `wait()` is the loop `WaitCheck` (`is_empty()`), `WaitLock`
(`m_muxBlock`), `WaitSleep`, and after a notification or a spurious wake-up
`Resume`. The consumer runs `ServerApp::Process(-1, true)`: wait, then pop until
`is_empty()`. There is one consumer, as in the program. A push or a pop may be at
either end. Items are numbered in the order they were pushed.

### TCPConnection

Each endpoint has a queue of posted handlers (`posted`), the outstanding write
and read operations (`wr`, `rd`) and `m_PktOut`, `m_tmpPktIn`, `m_PktIn`. An
operation goes through three moments: started by the code, finished by the
operating system, its handler run. That separation is where the races are:
another handler may close the socket in between. `close()` makes pending
operations fail and leaves finished ones alone. The byte stream is a sequence
of units, one for a header and `header.size` for a body; a body unit names its
packet so that a misplaced one is seen. A read finishes only when its whole
buffer can be filled, as `async_read` promises. The client starts with its
`async_connect` pending and may send before it is done, which fails at once and
closes the socket; this is the race `Sleep(2000)` in `ClientApp::Connect` hides,
and the variable `early` marks it. `async_connect` leaves the socket open when
every endpoint fails (`asio/impl/connect.hpp`), so `IsConnected()` stays true.

### Server

The accept handler is four steps: `OnClientConnect` (greets), `PushBack`,
`ConnectToClient` (id and first read) and `Approved` (its log asks for the id).
Between them the main thread may run.
`OnPacket` is one step that pops and decides, followed by one step per
`SendToClient`, per element of `SendToAll`, and per erase. The range of
`SendToAll` and the `notifylist` are fixed when the loop begins (`todo`); the
order in which they are walked is left open (`m_chaMap` is an unordered map).
What a receiver was told is kept as the first command it got (`first`) and the
position it was last told for each character (`view`), not as whole histories.

`push_back` while the main thread walks or erases `m_TCPConnections` is a data
race. `PushBack` then has three outcomes: as if serialised, the element lost, or
a crash; the flag `raced` is set. The last two steps of the handler call
`m_TCPConnections.back()` (`UseBack`), also without a lock: while the main thread is
in `erase(remove(...))` they either still find the last connection or a moved-from
null pointer, on which the program crashes (`CrashOnBack`), and `raced` is set again.
`Sane` says that neither overlap has happened and that no id was cut to 16 bits; the
properties of the world are stated under it, because without it they are false.
`OpenIsOwned` excludes the overlaps only. `remote_endpoint()` may throw on a
connection whose peer has reset it: the model crashes there, as the program does.
`m_IDCnt` starts at any value, since nothing initialises it.

`Owned(c)` lists everything that holds a `shared_ptr` to a connection: the accept
handler, the list, the world, the loop at hand, packets on their way. Handlers
hold none. For the connections in `Busy`, closing leaves a second handler to come
(`late`, until `LateHandler`): a read and a write are outstanding at once, the
first to fail closes the socket. If the read had finished before, its handler still
pushes the packet (`Receive` on a closed socket). `erase(remove(...))` takes one element a step.

### IoContext

The completion port is one queue, `iocp`. `stop()` only queues an event; whoever
takes it leaves `run()` and puts it back for the next caller. `run()` on a context
without outstanding work, or stopped, returns at once; nothing in GNL calls
`restart()`. A handler takes the front of the queue and ends in `Return(n, es)`:
it has started `n` operations and `es` are already finished.

### ServerLoop

`Start` arms an accept and a receive and starts the thread, or fails after
arming the accept. The receive's socket is a local of `AwaitUDPConnection`, so
its operation is aborted at once and the handler calls `AwaitUDPConnection`
again: the queue is never empty and the thread never rests. `AcceptDone` is the
accept handler's frame (`Server` has its inside). `Throws` covers the three calls
that throw in handlers: nothing catches them. `beat` is a ghost that flips in
every turn of the receive loop, so that fairness of the thread means something
when a turn changes nothing else.

### Client

A session is one `Connect`. `Connect` destroys the connection it finds
(`make_unique`), opens a socket, starts to connect, and in a second step assigns
the thread, which ends the program if a thread is there. `Disconnect` posts the
close, stops the context, joins and releases. The ASIO thread serves the queue in
between. `destroyed` holds the sessions whose connection object is gone; a
handler is served only on one that is not. When a connect fails and there is another
endpoint, asio closes the socket (`CloseForNext`) and opens it again later in the
same handler (`ConnectNext`). An `IsConnected()` between the two says no: a
`Disconnect` then posts no close, and the socket that is opened afterwards is left
open with nobody to serve it. `missed` marks such sessions. `Sleep(2000)` is no step: Godot's
thread may go on at any time. The frame loop copies the front packet
(`Process`), and the script passes it by (`PrepareNextPkt`). `taken`, `pushed`,
`fresh` and `missed` are ghosts.

### Packet

Bytes are numbers below `Base`, integers are cut to their width and written in
little-endian order; `memcpy` back is their inverse. `WriteString` writes a zero
byte and as many bytes as the string has characters, which cuts strings with
characters of several bytes (`Copied`). `ReadString` walks back to the last zero
byte with no check. `fault` is set by a read that looks beyond the body, or that
overflows `data[MAX_LEN]`, and ends what the model says of the receiver. A script may
send at any time, also a packet it wrote nothing into, as the commands without a body
ask for. The receiver reads what the sender wrote, in reverse
order: that is how `NetNode` and `Server::OnPacket` use it.

## 3. Runs

| Run | Question | Result |
|---|---|---|
| `queue` | Two producers against the draining consumer: are pops safe, can the mutexes block each other, does a missed wake-up heal, is it a `Mailbox`? | holds |
| `queue_wake` | Does the thread sleep only on an empty queue (`NetQueue.h:70`)? | no: a push between `is_empty()` and `wait(ul)` is missed |
| `connection` | One write at a time, no stranded packet, FIFO delivery, with closes, failures and early sends | holds |
| `connection_live` | Does every packet sent on an established connection arrive? | holds |
| `server` | Greeting order, ids, owners, world and views, in every interleaving of the two threads; are closed connections dropped by the loops that meet them? | holds |
| `server_ids` | Does finding an id mean that the client entered (`Server.cpp:103`)? | no, once ids pass 16 bits |
| `server_late` | Does a connection outlive its operations, as asio asks (`read.hpp:726`)? | no: a closed one can lose its last owner before its second handler has run |
| `server_loop` | Does the ASIO thread accept for ever, arm each loop once, and serve everybody beside the busy loop? | holds, until something throws |
| `client` | Two sessions against the ASIO thread: dangling handlers, sockets nobody serves, the script's packets; does what the server sends reach it, and does `Disconnect` return? | holds, for sessions on a context that was not stopped and not disconnected in mid-retry |
| `client_restart` | Is `run()` ever called on a stopped context (`io_context.hpp:527`)? | yes: by every `Connect` after a `Disconnect` |
| `packet` | Does a packet behave as a stack of values, is `size` right once something was written, and which reads leave the body or the buffer? | holds; only strings too long for `data[MAX_LEN]` go beyond it |
| `packet_empty` | Is the `size` of every packet that of its body (`NetPacket.h:48`)? | no: a packet nothing was written into announces the size of the one before |

Note on `connection`: `ImplementsFifoLink` looks at the `header.size` first units
of a received body. With that reading the link is FIFO and exact. A packet of
size 0 is in fact handed over with the body of the packet before it, which
`ReadHeader` leaves in `m_tmpPktIn` (`NetTCPConnection.h:147`).

Note on `server`: the client that enters is in the notifylist itself, so that it
is told of its own character too, in spite of the comment at `Server.cpp:70`.

Note on `ViewsAgree`: a client that enters twice keeps its character and position
(`insert` does not overwrite), but the others are told it is at the origin. The
property states this exception (`reentered`), which ends with its next move.

Note on `IdKnownWhenUsed`: it also covers the accept handler, which asks whichever
connection it finds at the back. The model lets `back()` find the last connection or
nothing; that no third thing happens in a data race is an assumption.

Note on `ClosedAreDropped`: it covers the connections that a loop is about to visit.
That a closed connection stays in the world until somebody sends to it is what the
code does (`NetServerApp.h:135`), and no property denies it.

Note on `connection_live`: `SentIsDelivered` speaks of connections on which nothing
was sent before they were established; what is sent earlier is lost.

Notes on `packet`. `ImplementsValueStack` compares the bytes that were copied: what
`WriteString` cuts off is not missed. A string of as many bytes as `data` holds, or
more, is written beyond it by `ReadString`, and the runs reach that:
`OnlyLongStringsFail` says that this is the only way out of bounds.

Notes on `client`. `OpenIsServed` and `SentIsTaken` leave out three kinds of session
at most, each named in its comment; the one that is disconnected in mid-retry is
not a matter of taste: without `\ missed` TLC finds an execution of ten states in
which a socket is opened after `run()` has left. `HandlersFindTheirConnection` leaves
out a `Connect` while connected, which destroys the connection and then ends the
program. What makes `HandlersFindTheirConnection` hold is the leak in
`Disconnect` (`release()`, not `reset()`): handlers of a session that are still
queued when `run()` leaves find their object in the next one. A `Disconnect`
before the first `Connect` stops the context for good as well. Packets of an
ended session are shown first in the next one; `TakenInOrder` says that they come
in order and once.

### Bounds

- `MaxItems = 4` pushes by two producers: a push that is missed, one that
  rescues, and one in contention with each.
- `Sizes = {0, 2}` (or `{0, 1}`), two packets one way and one the other: a body
  and no body in either order, a write chain that hands over, and traffic both
  ways while something fails. A unit read in the wrong place shows with the
  second packet. `MaxServerSend`, `MaxClientSend` bound `SendPacket`.
- Two clients and `MaxPkts = 3` packets: both enter and one moves before, between
  or after, or one enters twice, with the other coming or going at each point. Longer histories (a
  second entry after a move) are left to the theorems, which cover every number of
  packets. `IdMod` and `ChaMod` stand for 2^32 and 2^16: from some initial values of
  `m_IDCnt` both ids fit, from others one is cut or the counter wraps.
  `server_ids` needs three connections, as two ids must differ by `ChaMod`.
  `ChaMod < IdMod`, as in the code. `Busy` is empty in `server_ids`, where owners do
  not matter, one connection in `server` and both in `server_late`.
- `Client`: two sessions, so that handlers of one meet the other; two packets from
  the server, so that one is shown while the next comes; one from the client, as
  its writes matter only as operations that may be outstanding; two endpoints per host name, so that an attempt fails and the next
  one succeeds.
- `Packet`: `Base = 3`, integers of one and two bytes with a zero byte in
  each, strings with characters of one and two bytes, up to `MaxWrites = 3` values
  in a packet and `MaxPackets = 2`, so that a packet is left half read or follows an
  empty one. The number 12 is too wide for both integers; its lower byte is 0
  in each. `MAX_LEN = 2` holds the shorter strings of the run and not the longest.
- `ServerLoop`: three clients and three posts, each of which may fall between any
  two turns of the loops.

`server_ids` and `server_late` use symmetry over the connections, which the module
never orders or chooses from; `server`, which checks liveness, does not.

Deadlock is not checked: producers and clients may stop, a connection may be
closed, and a server nobody talks to waits for ever.

### Fairness

- `NetQueue`: a thread inside a call keeps running, and the consumer keeps
  calling `Process`. Nobody is obliged to push or to wake spuriously.
- `TCPConnection`: `io_context::run` keeps running handlers, a stream that is up
  keeps moving, the connection attempt ends. Failures and application calls are
  not fair.
- `Server`: a handler that has begun runs to its end. Picking the next packet
  up is not fair, since `NetQueue::wait` may sleep through a push.
- `ServerLoop`: the thread keeps serving (a handler that throws is one way to do
  so), and the system finishes accepts of clients that wait.
- `Client`: both threads go on inside `Connect`, `Disconnect` and handlers, the
  connection attempt ends, a healthy connection carries what was sent, Godot draws
  frames and the script passes packets by. Nobody has to call `Connect`,
  `Disconnect` or `SendToServer`.

## 4. Proofs

`NetQueueProofs` proves, for any set of producers and any number of pushes,
`TypeOK`, `PopsNonEmpty`, `NoLockCycle` and that `NetQueue` implements `Mailbox`.
The inductive invariant adds `Ownership` (who owns a mutex follows from where the
threads are) and `PushRoom`: without the first a second producer could be between
the lock and the push, without the second the item pushed could leave its type.
`PopsNonEmpty` is inductive beside them because only the consumer removes items.
Assumptions: the consumer is not a producer, and no thread is the free owner.

`TCPConnectionProofs` proves, for any body sizes and any number of packets,
`TypeOK`, `OneWriteAtATime` and `NoStrandedPacket`. The inductive invariant is
`TypeOK` with `Chain(e)`: at most one write, which has a packet at the front of
`m_PktOut`, and a packet without a write only on a closed socket. The two
properties are not inductive apart from each other: that `RunSend` may skip the
write when `m_PktOut` is not empty needs the one, that it may start a write when
it is empty needs the other. `CloseIInv` treats the three handlers that close.

Its second half proves `Refinement`: for any sizes and numbers, each direction
implements `FifoLink`. What an endpoint reads next depends on where its peer's
frames lie on the stream, so the invariant `FInv` says for each direction that
there are a `k`, the packets written, and a layout `at`, the place of every header
counted from the unit that is read next, such that
- the units on the stream are those the layout puts there (`Layout`, `Carries`);
- the packets after the first `k` are those of `m_PktOut` and then those posted,
  with the `Quit` of `Disconnect` among the latter at most once (`Backlog`);
- the stream ends where the write in progress left it (`Written`), and begins
  where the read in progress will take up (`Reading`): before a header at 1, after
  it at 0, with its `cmdID` and `size` in `m_tmpPktIn`.
One lemma `Flow...` says of each operation that it keeps this for some `k` and
`at`: sending extends the layout (`Extends`), writing fills the next frame
(`Grows`), reading shifts it (`Consumes`), and failures only take obligations away
(`Weaker`). `FlowPush` then gives the refinement: what `PushToIncomingQueue` hands
over is the packet whose turn it is. TLC agreed that `FInv` is an invariant of the
instance of run `connection` (with `k` and the first place of the layout taken
from small sets) before it was proved.

`ServerProofs`, `ServerIdProofs` and `ServerWorldProofs` prove the seven safety
properties of the server, for any set of connections, positions, identifier
widths with `ChaMod < IdMod` and number of packets.
- `TypeCorrect` adds `Places` to the types: what the main thread is doing bounds
  what `client`, `pkt`, `todo` and `dead` are. Its lemmas say what removing an
  element leaves of a sequence.
- `GreetedFirst`, `IdsAreKnown` and `NoOpenOrphan` share `IdInv`: nobody is reached
  who was not greeted (`Reached`); a listed connection has its id or is the last
  one, about to get it (`Known`, which is why `m_TCPConnections.back()` is the right
  one, and has its id when `Approved` asks for it), and a connection packets come from
  (`Connected`) has been through `ConnectToClient`, also when it is closed; an open one is listed unless just greeted or lost in a race (`Kept`).
- `WorldStaysListed` and `EveryoneAgrees` share `WInv`. `Homed` and `Shown` say of
  every point within a packet what the properties say between packets: a
  character's connection is listed, or the notifylist will come to it; a client
  knows a position, or is still to be told. `Filed` (a character is found under its
  connection's id) is where the assumption `Sane` enters: it fails once an id is
  cut to 16 bits.
- `OwnMovesOnly` adds `Unique`: ids that fit in 16 bits are below a counter that
  has not come round, so no two are alike. This needs `NarrowAssumption`.

`ServerLoopProofs` proves `LoopsArmOnce`, `ContextRuns` and `TypeCorrect` for any
number of clients and posts. The invariant `LInv` counts: outstanding work is the length of
the queue plus one for an armed accept, and exactly one packet of each loop is
about. Neither of the first two is inductive without the count, since only it
keeps `run()` from stopping the context. `TypeCorrect` adds `Counted`: an accept that
was answered was served or is being served, and posts that have not run are work.

`ClientProofs` proves all four safety properties of the client, for any number of
sessions.
- `NoDanglingHandler`: `Held` says that whatever has a handler to come is the current
  connection or one that was released.
- `PacketsInOrder`: `Split` says that what was pushed is what was taken followed by
  what is queued, the packet shown being at the front.
- `TypeCorrect` is where the work is: that `m_PktOut` has a length means that
  `WriteDone` never pops an empty queue, and sessions that were cut off leave their
  operations and completions in the context to be run in a later one. The invariant
  `Inv` counts what is outstanding of each connection: `ReadOps`, `WriteOps` and
  `SendOps` are its completions on the queue and its operations in the system, and
  `outstanding_work_` is their sum (`Queues`). `Budget` allows one read, one write, and
  that only with a packet in `m_PktOut`; `News` says that a completion stays true of
  its connection until its handler runs. `Adds(c, r, w, s)` is what a step may do to
  the counts: every action is shown to be such a step, and every such step to keep
  the invariant, so neither argument is repeated for each handler.
- `NobodyLeftOpen` adds `Served`: a connected socket of a session that began on a
  running context has exactly one read to come, which is why `run()` does not end for
  want of work (`Busy`), and once `Disconnect` has posted the close it is ahead of
  the event that ends `run()` (`CloseAhead`), also while the queue is served from the
  front. The hypothesis `fresh` in `OpenIsServed` is what run `client_restart` shows
  to be needed. In the middle of a retry there is no read or connect to come, but the
  handler that is being served; a `Disconnect` that comes then makes the session
  `missed`, which is the other hypothesis.

`StopAssumption` says that the stop event is no completion.

`PacketProofs` proves, for any `Base`, widths, numbers and strings, that `Packet`
implements `ValueStack` (`Refinement`), `TypeCorrect`, `ReadsStayInside` and `SentSize`. The invariant
`Laid` says that a body is the bytes of its values, one after the other (`Lays`), in
the sender's packet, in every packet on its way and in the receiver's. A write
extends this (`LaysMore`); a read finds the last value (`LaysLess`), and
- `operator>>` gets it back because the bytes of a number determine it
  (`NumberOfBytes`). That is an induction over their number, done as one over a set
  (`SetInduction`): no operator is passed to a theorem. The same induction shows that
  `Power`, a recursive function, exists and has the values its equation says
  (`PowerFacts`).
- `ReadString` gets it back because the last zero byte is the one that was written
  before the string, whatever number precedes it (`LastZero`).

None of these needs a hypothesis on what scripts send. A read that overflows
`data[MAX_LEN]` is the end of what the model says of the receiver, and leaves the
abstract state alone. `ReadsStayInside` says that this is the only read that leaves its
bounds: `Laid` gives every other one the bytes it takes. `TypeCorrect` is that
bodies are made of bytes, whatever is written or read. `SentSize` rests on `Sized`: a
packet with a value in it has the size of its body, though an empty one before it, or
the same one before the first write, need not; that is the code's stale header.
`PacketAssumption` says that `string` is
not the name of an integer type, `StringAssumption` that what is copied of a string
has no zero byte.

Every safety invariant and every refinement that a run finds to hold is also proved.
Only model-checked: everything about liveness (`PushCompletes`,
`NextPushRescues`, `SentIsDelivered`, `ClosedAreDropped`, `SentIsTaken`,
`JoinReturns`, `EveryoneIsServed`), which is out of the prover's reach.

## 5. Not modelled, and the plan

Done in this order: queue, connection, server; then the client, the codec, the
server's loops and the lifetime of connections; then the proofs about them. Next:
a composition of `Server` with its connections, to show what piles up in `m_PktOut` of
a closed connection (`World.cpp:34`).

Left out for good:

- `UDP<T>`. The one use of it is a `make_shared` in `AwaitUDPConnection`, after a
  `remote_endpoint()` that always throws there (`Throws` in `ServerLoop`). None of
  its member functions is ever called, and `ConnectToServer` would not compile if it
  were (it gives `basic_socket::async_connect` a range of endpoints).
- `ServerApp::Stop` and the destructors of server objects: `main` does not leave
  its loop.
- `cmdID` in the codec and `PingServer` as a call of its own: nothing depends on
  the first, the second is a `SendToServer`.
- The build files, the Godot bindings, the commented-out client `Main.cpp`, logging.
- asio but for what is above. It is a vendored library of some 165000 lines, most of
  which GNL never reaches: other platforms, timers, executors, buffers, SSL. The
  lines mapped are those whose control the program depends on: `io_context` and
  socket operations on Windows, and the composed connect, read and write.
