# A TLA+ model of the tcp library (tcp_base_on_asio)

The library is a callback TCP server and client over boost.asio. The server
spreads its connections over a number of `managerServer`s, each with one
io_service and one thread; the client has an io_service and a thread of its
own. Both sides cut the stream into packages (`package_head`: type and size),
send a heartbeat when idle and close when the peer is silent for 15 s.

This directory models what is hard to test in it: a lock-free send cache
written by several threads, the gate that lets one of them write to the socket,
the receive buffer and the queue of handlers that use it, the life cycles of
server and client with their sessions, the heartbeats of both ends over time,
and the two lock-free queues of the base library.

## 1. Inventory

| Component | State | Operations | Called by |
|---|---|---|---|
| `send_cell` (tcp_common) | `m_write_pos`, `m_read_pos`, 65536 slots `m_scu_ptr` of heap cells (`size`, `sendPos`, `enableRead`) | `write_chche`, `enable_read`, `read_chche`, `read_enable_len`, `has_read`, `clear` | any sending thread writes; whoever holds the gate reads |
| `session` (tcp_server), `client` (tcp_client), sending half | `m_is_connected`, `m_send_cell_is_sending`, `m_heartbeat_send`, `m_heartbeat_handle` | `send_data`, `deliver`, `do_write`, `handle_write`, `heart_beat_send`, `heart_beat_handle`, `start`, `stop`, `handle_close` | application threads; the thread that runs `start` (the accept thread or the application); the io_service thread |
| `micro_buffer` (tcp_common) | `m_read_pos`, `m_write_pos`, `buf` | `has_write`, `has_read`, `enable_read`, `enable_write` | the io_service thread |
| `session`, `client`, receiving half | the pending read, the handler queue | `do_read`, `handle_read`, `stop`, `handle_close` | the io_service thread; `stop` from anywhere |
| `managerServer` | `m_session`, its io_service, thread and check timer | `add_new_session`, `send_data`, `check_session`, `start`, `stop` | accept thread, application threads, io_service thread |
| `tcpServer` | acceptor, managers, `m_base_sessionid` | `start`, `do_connect`, `handle_connect`, `SendData`, `stop` | application, accept thread |
| `client` life cycle | socket, thread, shared ownership by handlers | constructor, `start`, `stop`, destructor | application, io_service thread |
| `srt_queue`, `drb_queue` (base) | page tables and counters | `push`, `pop` / `get` | any thread pushes, one reads |
| `base::thread`, `process_thread` | a pthread, `is_running_` | `start`, `stop`, `join`, `detach` | application |
| `trace`, spdlog wrappers, tools, error texts, pugixml | configuration only | formatting, output | everybody |

How they interact: an application thread calls `send_data`, which stores the
message in the cache and calls `do_write`; `do_write` starts an
`async_write_some` if the gate is open; its handler takes the sent bytes off
the cache, opens the gate and calls `do_write` again. A message that met a
closed gate therefore relies on the handler, or on the heartbeat timer, to be
picked up. `handle_read` calls the application (`OnRecvData`), which may call
`send_data` in turn; it also calls `deliver` itself to answer heartbeats.
Closing goes through the io_service (`post(handle_close)`).

`tcp_server/ReadMe.txt` says that a connection is read and written in one
thread only. The code does not keep to that: with one application thread the
cache already has three writers (the application, the thread in `start`, the
io_service with heartbeats and echoes), and `send_cell.h:35` promises "multiple
thread write and single thread read".

What is hard here: the interleaving of writers with the reader inside the cache
(no lock; a check, a claim and two stores per message), the handover of the
gate, partial writes, a failed write that leaves the gate shut, a full cache,
expired timers that can no longer be cancelled, posted closes against finished
reads, and objects destroyed while handlers still name them. The hazards, each
at its line and with the properties about it, are in `PROJECT.json`.

What makes each component correct:

* send cache: a bounded FIFO; a claimed slot is its writer's alone; a cell is
  never overwritten, freed twice or leaked; "full" is said only when full. (With
  several writers that fill it the code breaks this: section 3.)
* sending half: one reader and one pending write at a time; frames reach the
  wire whole, once, in each thread's order; nothing accepted is lost; an open
  connection never falls asleep; what is accepted is written in the end.
* receive buffer: always holds the unconsumed bytes in order.
* receiving half: all complete frames are handed over before the next wait, once
  and in order, and none after `OnDisconnect`; there is always room to read.
* server life cycle: what is sent to the id of a client goes to that client or to
  nobody; `OnDisconnect` once; no session is left without a table that would reap
  it; a closed session is destroyed; the server goes on accepting; `stop` returns.
* client life cycle: the callbacks in order, `OnDisconnect` once and from the
  io_service's thread; a connected client always has a read on its way; a close
  that was asked for happens.
* heartbeats: nobody closes while the network answers in time; a silent peer is
  detected; heartbeats do not bounce between the ends.
* queues: every accepted message comes out once, in order; no thread touches a
  deleted page or another one's slot.

## 2. Modules

| Module | What it is |
|---|---|
| `MessageFifo` | What a send cache promises: a bounded queue of messages. |
| `SendCell` | `send_cell`, one step per access to shared memory that another thread can see, and `clear`. Refines `MessageFifo` (`ImplementsFifo`). |
| `SendPath` | The sending half of a session (`Side = "server"`) or client (`"client"`). EXTENDS `SendCell`: deliver's calls of `write_chche` are the ring's own steps, and `UsesRing` states that the path uses the ring as `SendCell` assumes. |
| `RecvBuffer` | `micro_buffer` as operators on its state. |
| `RecvPath` | The receiving half, with the io_service's queue of handlers, EXTENDS `RecvBuffer`. |
| `Connection` | What each handler of a session or client starts, cancels and closes, as operators on a connection's state. |
| `Server` | `tcpServer`, its `managerServer`s and the life of their sessions, EXTENDS `Connection`. |
| `Notify` | What `tCliNotify` is promised about one connection. |
| `Client` | The client's life cycle, EXTENDS `Connection`, refines `Notify` (`ImplementsNotify`). |
| `Heartbeat` | Both ends of a connection with their timers, the bytes between them, and time. |
| `Mailbox` | What `srt_queue` promises: one order, each message once, bounded. |
| `SrtQueue` | `srt_queue`, one step per access to shared memory. Refines `Mailbox` (`KeepsMailbox`). |
| `DrbQueue` | `drb_queue`, likewise, for any number of pushing threads. |
| `MCSendPath`, `MCServer`, `MCClient` | Instances for TLC, and the conditions on callers some runs assume. |
| `MCRecvPath`, `MCQueues` | Instances of components that share nothing, side by side: `RecvPath` and `Heartbeat`; `SendCell` with one writer, `SrtQueue` and `DrbQueue`. `which` says whose a behaviour is, the others never move. |
| `SendCellProofs`, `SendPathProofs`, `PathRingProofs`, `RecvPathProofs`, `ClientProofs`, `ServerProofs`, `HeartbeatProofs`, `QueueProofs` | Theorems. |

A connection is looked at five times, each time for another question: what its
threads do to the cache and the gate (`SendPath`), what it does with the bytes it
reads (`RecvPath`), what its handlers leave behind when it closes (`Server`,
`Client`), and when its timers expire (`Heartbeat`). Each module keeps the guards
and the order of the whole handlers and abstracts the parts another one details;
its header says which.

### SendCell

`wpc[t]` is where thread `t` is inside `write_chche`: `is_full` loads
`m_write_pos` (`WriteBegin`), then `m_read_pos` (`IsFull`; the operands are
loaded from left to right, as compilers do), `Claim` is the `fetch_add`, `Store`
and `Enable` the two stores through the slot. Building the cell is invisible to
the others and belongs to `Claim`. `has_read` is two steps because the read
position moves before the cell is freed. Positions are kept modulo
`sendCellSize`, which divides 2^64. A cell carries its message and `left`, the
pieces of it still to be sent; `Units` says into how many pieces partial writes
may cut a message. A `NULL` slot is a null pointer, `Wild` one nobody has
initialised. Memory is sequentially consistent: `enableRead` and the slots are
plain variables, and what weaker orders or a compiler could do to them is not
modelled.

### SendPath

`pc[t]` is where thread `t` is; `cont[t]` what it does after `deliver` ("arm":
start and heart_beat_send set `m_heartbeat_handle`; "echo" and "reply": back
into the loop of handle_read). Application threads are `Apps`, `Starter` runs
`start`, `Manager` runs the io_service, one handler at a time. Each action is
one access to what the threads share, or a run of private code. `sent` and
`accepted` are history.

External, modelled from how session.cpp and client.cpp use it: an
`async_write_some` ends with a non-empty prefix written or with an error; a
`deadline_timer` has pending waits (`sendWaits`, `handleWaits`) that
`expires_from_now` and `cancel` abort, and expired ones (`sendFired`,
`handleFired`) that they no longer reach. Handlers of aborted waits do nothing
and are left out. Several threads use one `deadline_timer` at once; its inner
data race is not modelled.

Session and client differ in `ChecksConnection` (who tests `m_is_connected`), in
`MaxTries`, and in `running` (the client's loop is created by `start` and
stopped by `handle_close`).

### RecvBuffer, RecvPath

A byte is its offset in the peer's stream, so `BufferHoldsStream` can say what
the buffer should contain. `memcpy` on overlapping ranges leaves `Junk`. A frame
is its size; the peer's frames are drawn from `FrameSizes`, lazily. `ready` is
the io_service's queue, first in first out; an `async_read_some` that finds
bytes queues its handler at once, otherwise it waits (`reading`) until the
reactor queues the socket; closing the socket turns a waiting read into an
aborted one but leaves a finished one queued. The client's `handle_close` also
clears the buffer, which nothing reads after `m_service.stop()`.

The first state of `RecvPath` chooses whether it is a session's or a client's, and
whether the application may refuse messages.

### Connection, Server

`Connection` knows of a connection: `m_is_connected`, the gate (`sending`), and the
operations that have been started and have not ended (`pending`). `DoWrite`,
`DoRead`, `Beat`, `AfterRead`, `AfterWrite` and `Close` are what the functions of
session.cpp and client.cpp do to that; where the outcome depends on data (is there
something in the cache, is a frame a heartbeat) they are sets of results.

`accept` is the accept thread: `do_connect` prepares the next client,
`handle_connect` builds the session (whose constructor calls `OnConnect`), enters it
into the table and starts it. `m_session[clientid] = make_shared<session>(...)` is
two or three steps, because the entry may be made before the session is built.
`running[m]` is the handler the thread of manager `m` is in, `queue[m]` what its
io_service has queued. A handler's test of `m_is_connected` is the step that takes
it (`Begin`); `handle_close` clears it in a second step and closes in a third, since
other threads read it in between. `CheckSession` is `check_session`. `app` is the
application's thread: `SendData` (find, deliver's test, do_write's test, the write)
and then `stop`, from `StopPost` to `StopJoin`, one manager after the other.
`Told`, `ToInt`, `ToUint64` and `CurrCellManager` are the conversions a client id
goes through: `uint64_t` in the server, `unsigned int` in `OnConnect`, `int` in
`SendData`, with `int` as wide as `Half` says and `uint64_t` twice as wide.

A handler is bound to the raw `this` of its session, the table may hold a null
pointer for a moment, and after `stop` the number of managers is 0. A step that
would follow such a pointer or divide by that number has no defined result:
`Undefined` names these states and the behaviour ends there. So the properties say
what holds up to the first undefined step. That such states are reachable is the
case (section 3).

`remote_endpoint()` and `set_option` throw when the client has already reset its
connection, in the trace of `handle_connect` (server.cpp:68, where a build has
`TRACE_INFO`) and in the constructor of `session` (session.cpp:22-26). Nobody
catches that on the accept thread: `HandleConnect` and `Construct` may end in
`Terminated`, where the process has ended. `Over` is either end.

### Client, Notify

The client has no `io_service::work`, so `run` returns when no handler is left;
every handler owns the client through `shared_from_this()`, so the aborted ones are
kept in `queue`. `StartClient` is `start` (its thread comes last), `SendData` and
`AsyncWrite` are `send_data` with its two tests, `Stop`, `Drop` the application's
other steps, the rest handlers. `object` becomes `"destroyed"` when the last owner
lets go, `"terminated"` when that is the io_service's own thread, which then joins
itself. `Notify` counts the calls of `OnRecvData` and `OnDisconnect`; the client's
`disconnects` is mapped to that count, so a second `OnDisconnect` is a step `Notify`
does not have. `client::start` calls the throwing `set_option` too (client.cpp:53-55);
that it may leave `start` with an exception is not modelled.

### Heartbeat

One step per handler; `Tick` is time. `sendWait` and `handleWait` are the two
deadline timers of each end, `fired` the expired ones, which a `cancel` no longer
reaches. `Echoes` says which heartbeats an end sends back: the session's test and
the client's differ. `quiet` is history: how long the end has neither heard from
its peer nor written for its application. The network delivers within `Delay`
until it is cut, after which bytes may be lost and writes may hang (`stuck`).

### SrtQueue, DrbQueue

One action per access to shared memory: the test of room loads two counters, the
claim is the `fetch_add`, `get_msg_page` tests, allocates under the mutex and reads
again, message and flag are two stores; `pop` deletes a page and clears its entry
in two steps. Deleted pages keep their number, so that a pointer to one is
recognised. `drb_queue` replaces its directory by a longer one: the length is
stored before the pointer, and the longer one may be too short (`Extended`). A thread
that uses an entry the directory does not have is `"stray"`, and the behaviour ends
there. `release`, which only destructors call, is left out.

## 3. Runs

| Run | Instance | What it shows |
|---|---|---|
| `PathServer` | session, ring of 4, one application thread with one message, the starting thread, the io_service with heartbeats, partial writes, errors, close; fair threads; the ring keeps room | `SingleReader`, `FramesIntact`, `NoMessageLost`, `Awake`; `UsesRing`: the path uses the ring as `SendCell` assumes; `ImplementsFifo`: with several writers and room it is a FIFO; `AcceptedIsSent`: every accepted message is written or the connection ends |
| `PathClient` | client with a ring of 3: three replies from `OnRecvData` and an echoed heartbeat beside the thread in `start`; `deliver` meets a full cache, retries and gives up | `NoMessageLost`, `OrderPerThread` |
| `PathOverrun` | session, ring of 3, three writers that can fill it | `NotErased` is **violated**: an accepted message is overwritten |
| `PathWedge` | ring of 2 | `NeverStuck` is **violated**: deliver returns without `do_write` |
| `Recv` | session and client, refusing or not, all ways to cut the stream; and both ends of a connection, 5 ticks per heartbeat, the network needs up to 2 each way | `BufferHoldsStream`, `NothingLeftBehind`, `NoStall`, `EachFrameOnce`, `ClientKeepsOrder`; `NoFalseTimeout`, `DetectsSilence`, `NoEchoStorm` |
| `RecvLate` | session stopped while a read is finished | `NoDataAfterDisconnect` is **violated**: `OnRecvData` after `OnDisconnect` |
| `Server` | one manager, two clients, one application thread that sends and stops | `DisconnectOnce`, `NoOrphan`, `QuietStays` |
| `ServerIds` | three managers, five clients, `int` of two bits | `RoutesHome` |
| `ServerProgress` | one manager, one client, fair threads | `Reaped`, `KeepsAccepting`, `StopReturns` |
| `ServerReset` | the same | `AcceptsAgain` is **violated**: an exception on the accept thread ends the process |
| `Client` | an application that sends, stops and drops the client at any time | `NeverDeaf`, `DisconnectFromHandler`, `ImplementsNotify`, `StopEnds` |
| `Queues` | ring of 4, one writer, one reader, the destructor at any quiet moment; `srt_queue`: two pushers of three messages, two pages of two; `drb_queue`: three pushers, four messages, pages of one | `RingInv`, `NoLeak`: no overwrite, no leak; `ClearTerminates`: the destructor ends; `NoDeadPage`, `KeepsMailbox`, `EveryMessagePopped`; `StrayWays`, `NeverRemoved`, `GetFinds` |

Every property of a passing run has a mutant: a definition of the code is
replaced by one with a plausible fault (operators commented "Fault" next to the
definition) and TLC finds the property violated.

Bounds and why they are enough:

* Rings of 2 to 4 slots stand for 65536, because every expression about positions is
  modulo the size and 4 slots already allow empty, partly filled, full, wrapped and
  more messages than slots. `PathServer` has 4, so that its cache never fills;
  `PathClient` and `PathOverrun` have 3 and `PathWedge` 2, so that theirs does. In
  `PathClient` the io_service's thread is the only one that writes once `start` has
  returned, so it fills the ring without overrunning it. Messages are cut into at most
  two writes (`Units`): one boundary inside a frame is what the code can get wrong.
  One application thread beside `Starter` and `Manager` gives three concurrent
  writers. `OrderPerThread` needs several messages of one thread, which `PathClient`
  has; that other threads' messages between them change nothing is its theorem.
* The receive buffer has 6 bytes (`m_total_size`) and 11 bytes arrive (`MaxStream`),
  so that the move at half of the buffer happens more than once. Heads are one
  byte; frames have 1, 2 or 4, which is half of the buffer plus one.
* `ServerIds`: ids 1 to 5 with `Half = 2`: 1 fits into an int, 2 and 3 become
  negative, 4 and 5 wrap, and 5 to the id of client 1. Three managers do not divide
  2^64, so the sign of an id shows in the choice of its manager. No operation ends
  and the server is not stopped (`RunningSpec`).
* `Server`: client 7 is `Lively`, its operations end at any time, 8 only
  connects, is sent to and stopped; `MaxQueue = 1` lets an operation end only while
  no handler waits, though closes, aborted operations and check_session queue up
  behind it. The proofs have none of these bounds.
* `Client`: `MaxQueue = 3` lets a finished read, an error and a close wait together,
  in any order; `MaxReads = 2` a message before and one after a refused one.
* Heartbeats (`Recv`): `Delay = 2` of `heartBeatTime = 5`: a round trip stays below the
  period by one tick, the tightest case the assumption allows. `MaxData = 2` per
  end re-arms `m_heartbeat_send` twice.
* `Queues`: three messages of each of two pushers take the directory of two pages
  of two slots round once and a half. Pages of one and a first directory of one entry
  let four messages of `drb_queue` extend it to two and to four entries, by threads
  that are up to two pages apart, so that both ways past its end come up; its theorems
  are for pages of any size.

What the runs assume of the callers, by name: `PromptThreads` (MCSendPath, all `Path`
runs): no heartbeat wait expires while a thread is inside `deliver` or `do_write`, that
is, a call takes less than 15 s. Without it a writer that sleeps between fetch_add and
store lets heartbeats pile up.

`NeverStuck` differs from `Awake` in accepting the wait for the peer's heartbeat:
it is violated even so.

Deadlock is not checked: these systems may stop. A closed connection whose threads
have returned, a stopped server, a dropped client, a queue whose pushers are done have
nothing left to do.

What the violations mean:

* `PathOverrun`: is_full and fetch_add are two steps (send_cell.cpp:34-49), though
  send_cell.h:35 promises several writers. Each writer past the test may take one slot
  too many, so with 65536 slots it takes nearly as many unsent messages.
* `PathWedge`, `RecvLate`: see the findings in `PROJECT.json`.
* `ServerReset`: a client that connects and resets before its session is built ends the
  process. `KeepsAccepting` is about a server to which that does not happen.

Some properties a reader would expect are stated in the modules and left out of the
runs, because the code breaks them. Each can be seen by adding it to the instance named:

* `FullMeansFull` (`SendCell`, two writers on a ring of 3): `is_full` loads
  `m_write_pos` before `m_read_pos` (send_cell.cpp:63), and between the two the ring
  may move on. deliver tries three times, so an application sees it as a lost message
  only if that happens each time.
* `NobodyElse` (`Server`, `ServerIds.cfg`): after 2^32 connections ids come again as
  `unsigned int`. `RoutesHome` is what is left: with an id below 2^31 a client is
  reached, and nobody else of the last 2^32 connections ever is; from 2^31 to 2^32
  nobody is reached at all.
* `OwnSlot` (`SrtQueue`, three pushers of two messages): three pushers that have passed
  the test for room, with the reader on the last slot of a page, claim an index of that
  page, though mqueue.h:31 promises any threads. It takes a full directory.
  `TwoPushersRoomy` says that two pushers never do.
* `NoStray` and `ExtendReaches` (`DrbQueue`, `Queues.cfg`): the length is stored before
  the longer directory (mqueue.h:329-330), and the loop stops at a length equal to the
  page's number (mqueue.h:322), though :248 promises "multithread safe". Two pushers
  meet the first, three the second. `StrayWays` says that there is no third way. With
  several pushers `write_index_` counts the finished pushes and not the first ones, so
  that `get` may find nothing yet at a position below it (mqueue.h:270-286): `GetFinds`
  is what holds. The library itself uses neither queue, its test programs use
  `srt_queue`.

What the code does and no run is about, as reading it or an instance outside the
runs shows:

* The slots of the ring are not initialised (send_cell.cpp:72): a reader that polls a
  claimed slot of the first lap follows whatever is there. The runs start from null
  slots; `InitialSlot = Wild` with `NoWildRead` shows it.
* A frame longer than half of the receive buffer plus one may leave no room behind
  `write_pos`: reads of 0 bytes for ever (micro_buffer.h:31; notify.h:22 allows
  messages of that length). `NoStall` is for frames up to that.
* When the cache stays full `send_data` fails with `%2` and the connection stays
  open, since the call of `stop` is commented out (session.cpp:145), though
  tcp_error.cpp:14 describes that error as a closed connection.
* A session whose `OnRecvData` refuses a frame posts the close, leaves the frame in
  the buffer and calls `do_read`. If there are bytes already, that read finishes at
  once and is queued behind the posted close; its `handle_read` does not test
  `m_is_connected` and hands the frame over again, after `OnDisconnect`
  (session.cpp:65-80). The cause is that of `RecvLate`; `EachFrameOnce` is therefore
  about clients and about applications that accept.
* A message stored while another thread holds the gate, but after that thread
  found nothing to read, stays in the cache until the next `do_write`; if nothing
  else is sent that is the heartbeat timer's, up to 15 s later (session.cpp:91-99).
  `Awake` and `AcceptedIsSent` hold because of that timer.
* `Server` reaches all three of `Undefined`: a session is destroyed by
  check_session or by `stop` while a handler bound to it is queued or SendData is
  using it (`UseAfterFree`; the 500 ms of check_session make the first unlikely),
  check_session meets the entry of a session under construction (`NullEntry`), and
  the accept thread divides by the number of managers when `stop` has cleared them
  (`DivideByZero`, server.h:55). `QuietStays` is what makes the delay of
  check_session work when it does: nothing new is started for a closed session.
* `OnDisconnect` may come twice during `tcpServer::stop`, and `m_session` is used by
  several threads without a lock (manager_server.cpp:82); the races inside
  `std::unordered_map` are not modelled.
* The client's thread may be the last owner: `~client` then joins its own thread
  (client.cpp:30). If a handler is left in the stopped io_service instead, as the
  read and the waits that a close aborts usually are, the client, which contains that
  io_service, is never destroyed.
* Outgoing traffic re-arms `m_heartbeat_send`, so an end that writes more often than
  every 15 s never probes its peer, and an end whose write hangs, and whose last wait
  a byte has cancelled, never learns that its peer is dead until TCP says so: this is
  what `~stuck` and `quiet` in `DetectsSilence` leave out.
* A message of length 0 from the server's application is taken for a heartbeat and
  sent back (client.cpp:116). The models' messages have a byte.

## 4. Fairness

* `FairCellSpec`: the destructor's loop runs on; nothing else is assumed, so
  `ClearTerminates` does not rest on writers or reader.
* `PathFairness`: weak fairness of each thread's own steps (the threads are
  scheduled); strong fairness of the end of a write, of an expired heartbeat wait
  and of a posted close (they are in the io_service's queue, which is first in
  first out, so they run although other handlers run in between; the end of a
  write also says that the kernel completes or fails it); weak fairness of the
  heartbeat timer. Nothing is assumed of the peer, of the read side or of the
  application.
* `ServerFairness`: the accept thread, each manager's thread and each check timer
  go on; the application's thread finishes a call it has begun. Whether clients
  connect, operations end or the application sends or stops is left open.
* `FairClientSpec`: the client's thread runs on.
* `QueuesFairness`: the pushers finish what they began and the reader goes on
  calling `pop`.

## 5. What is proved

TLAPS proves, for all values of the constants:

* `SendCellProofs`. `CellTypeCorrect` for any writers. For one writer
  (`SingleWriter`) the inductive invariant `RingInv`, and from it `NoOverwrite` and
  `NoLeak`. `NoOverwrite` is not inductive: it needs that
  cells lie only in the queue or in the slot being freed just behind it, that
  `is_full`'s answer remains true until the claim (only the reader moves the other
  end), and that the claimed position is the last of the queue. For any number of
  writers, if no fetch_add takes the last free slot (`RoomySpec`, which is what a
  ring of 65536 slots gives as long as fewer messages wait): `NoOverwrite`, by
  `RoomyInv`, in which claimed positions lie anywhere in the queue, each its
  writer's alone; and `ImplementsFifo`, the refinement of `MessageFifo`. There a
  claimed position already stands for its writer's message, so that the `fetch_add`
  is the put, `Store` and `Enable` are stutters, and `has_read` and the destructor
  are the gets. One writer always leaves room, so `CellSpec` implements the queue.
* `SendPathProofs`. `SingleReader` for any number of threads, both sides, any ring
  size, overrun or not. The inductive invariant `GateInv` adds the thread that has
  found nothing to read and is about to open the gate. The proof needs nothing of
  the ring: the gate alone is enough.
* `PathRingProofs`, the send path over its ring. `PathTypeOK` in every case (a thread
  that is about to deliver, or that comes out of `write_chche`, has a message:
  `Outbound`, `Carried`). If no fetch_add takes the last free slot
  (`RoomyPathSpec`), the invariant `Handed` says that what is at the socket, or went
  out in part, is the head of the ring; with `RingStep`, what any step of the path
  does to the ring, this gives `UsesRing`, so that `RoomyInv` and `ImplementsFifo`
  hold of the path, and `FramesIntact`. `NoMessageLost` follows from `Kept`: a
  message is on the wire or in the ring from its `fetch_add` on. `OrderPerThread`
  needs the order of the wire and the ring together (`InOrder`), that nothing there
  is later than its thread's current message (`Upto`), and where a thread can be
  with a message that is still to be claimed (`InTurn`; `Turn` lists what a step
  does to one thread). `Awake` is proved for `PatientPathSpec`, in which no deliver
  gives up on a full cache; room does not matter there. It rests on `GateAttended`:
  a shut gate always has somebody who will open it, or a close is queued.
* `RecvPathProofs`. `RecvInv` (type, buffer contents, at most one read or read
  handler at a time, and room for what a finished read has brought) gives
  `RecvTypeOK` and `BufferHoldsStream` for any frames and any answers of
  OnRecvData. `Parsed` gives, when OnRecvData accepts every message,
  `NothingLeftBehind`, `EachFrameOnce`, and `NoStall` when no frame exceeds half of
  the buffer plus one. For a client that refuses, `EachFrameOnce` and
  `ClientKeepsOrder` rest on the close ahead of every later read.
* `ClientProofs`. `ClientInv` is the type, `Phases` (which values of `app`, `loop`,
  `stopped`, `running`, `disconnects` and `object` go together: connected means not
  closed yet, `stopped` means `OnDisconnect` was called, and so on) and `NeverDeaf`,
  which is inductive with them: a handler that ends a read starts the next one or
  posts the close. `DisconnectFromHandler` and the refinement of `Notify`
  (`ImplementsNotify`) follow step by step. `Notify` counts the calls, so a second
  `OnDisconnect` would be a step it does not have.
* `ServerProofs`. `ServerInv` is the type and `Homed` (handlers and the thread's step
  belong to the manager that owns the session), `Accepting` (where the accept
  thread is decides which ids are in use and what the current one's entry and
  session look like), `Tables` (an entry with a session names a live one, and a live
  one is in the table or in somebody's hand) and `Lives` (a session is connected or
  closing or has had its `OnDisconnect`). From it `DisconnectOnce`, `NoOrphan`,
  `QuietStays`. `RoutesHome` needs nothing of the state but the arithmetic of the
  conversions (`KeyFacts`, with `Remainder` for ids that wrap), for every width of int
  and every id a uint64_t has. Any number of managers, clients and queued handlers.
* `HeartbeatProofs`, for every `heartBeatTime` and `Delay` with
  `2 * Delay < heartBeatTime`. `NoFalseTimeout` follows from `Answered`: an end that
  waits has its own heartbeat on the way out (`Outward`) or back (`Homeward`), with
  enough of the wait left. `DetectsSilence` follows from `Watchful`: an open end
  whose writes go through has a timer that will expire in time (`Watched`), and
  `m_heartbeat_handle` does not outlast `m_heartbeat_send` (`Timers`).
  `NoEchoStorm` compares the echo tests of the two ends.
* `QueueProofs`, `srt_queue`, for pages and directories of any size. `SrtInv` is the
  type, `Directory` (every entry names a page of its own that lives unless it is just
  being unlinked), `Given` (an unfinished push has an index of its own among those not
  popped), `Fetched` (the page a push holds is still its entry's), `FlagsTrue` (a
  raised flag means its message, and nobody writing), `Reading` (where `pop` is) and
  `Popped`. `NoDeadPage` is not inductive: that `delete` takes a page from nobody
  needs that the reader is on its last slot, that no index before the reader's is
  still in work and that no later one shares its entry (`LastPlace`,
  `NobodyBehind`). The last holds while indices are given out inside the directory
  (`ClaimInDirectory`); under it (`RoomySrtSpec`) `NoDeadPage`, `OwnSlot` and
  `KeepsMailbox` hold for any number of pushers. In the mapping the `fetch_add`
  accepts the message and the reader's taking it from its slot is the get. One or two
  pushers need no condition (`TwoPushersRoomy`): by `Bound`, a pusher has at most one
  index beyond the allowed ones, since its next test for room sees the last one, and
  the page the directory keeps free has room for the one a second pusher may have.
* `QueueProofs`, `drb_queue`, for any number of pushing threads and messages, any
  size of the pages and of the first directory. `DrbInv` is the type, `OneHolder`
  (directories and pages are made by the holder of the mutex), `Lengths` (the stored
  length is that of the directory in use, or of the longer copy about to replace it),
  `Entries`, `OwnPlace` (a slot holds the message of its position or none) and
  `LookedUp` (what a thread has found out about the page of its index). `StrayWays`,
  `NeverRemoved` and `GetFinds` follow. The loop that doubles the length is shown to
  stop, at a length not below the number of the page (`ExtendedFits`).

Assumptions used: the named ASSUMEs of the modules (checked by TLC in every run)
and the hypotheses written in the theorems. The type invariants of `SendCell`,
`RecvPath`, `Client`, `Server`, `Heartbeat` and of both queues are proved, and not
repeated in the runs.

Only model-checked: liveness (`ClearTerminates`, `AcceptedIsSent`, `Reaped`,
`KeepsAccepting`, `StopReturns`, `StopEnds`, `EveryMessagePopped`), which is beyond the
prover, as are ENABLED and induction over data.

The conditions of the theorems are conditions on the use of the library, which its code
does not enforce, and each is necessary. Without room for every fetch_add
(`ClaimInRoom`) writers overrun the ring: `PathOverrun`. After a
`deliver` that has given up (`~GivesUp`) nobody may look again: `PathWedge`. Without
`ClaimInDirectory` three pushers of `srt_queue` claim an index outside its directory
(section 3, `OwnSlot`). None of the three is part of a model or of a run.

## 6. Plan

The order in which the project was built and what is left of it:

1. Done: send cache, sending half, receive buffer, receiving half, their theorems.
2. Done: the life cycles of server (`Server`) and client (`Client`, `Notify`), and
   their theorems.
3. Done: the heartbeat pair (`Heartbeat`) and its theorems, `srt_queue` and
   `drb_queue`.
4. Done: the ring with several writers as an implementation of `MessageFifo`.
5. Done: the send path as a user of that ring, and its safety properties.
6. Done: the theorems of `srt_queue` and `drb_queue`. Every safety property the
   passing runs check has its theorem, some on the conditions above.
7. Done: what breaks when rings and directories fill up, ids wrap around or a peer
   resets while it is accepted.

## 7. Not modelled

* Sockets below `async_*`, payload bytes and their encoding (a frame's head is
  taken to arrive as it was written: both ends use the same struct layout), the
  allocator, weak memory (each access is atomic and in program order).
* Data races inside library objects: `std::unordered_map` (manager_server.cpp:82)
  and `deadline_timer` used by several threads at once.
* A `tcpServer::stop` before the threads of `start` have begun, and
  `get_manager_server`, which nothing calls. A client's second `start`, which only
  comes after a failed one that changed nothing.
* `base::thread` forwards to pthreads. `base::process_thread` has a race of its own (a
  `stop` before the new thread sets `is_running_` is lost) and no user.
* `trace`, logging, error texts, cpu binding (its callers are commented out), the
  message structs and platform macros of base, the test programs, and the
  third-party code (pugixml, boost, spdlog), which is most of the repository's lines.
