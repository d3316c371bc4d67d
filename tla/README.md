# A verification project for NetServerStepbyStep

The repository builds a small Reactor network library in eight steps, `v1.0` to
`v1.7`. This directory holds TLA+ models of the last version, `v1.7`, in every part
that keeps state, models of the servers of `v1.0` to `v1.5`, the TLC configurations
that check them and proofs that TLAPS checks. `PROJECT.json` lists
the components, the runs, the mutants, the source lines of every definition, the
hazards and the theorems.

    tlc -workers 2 -config MCNetServerEcho.cfg MCNetServer
    tlapm NetServerProofs.tla

All paths below are relative to `src/`.

## The system

In `v1.7` one thread runs an event loop. `EventLoop::loop` blocks in `epoll_wait`
without a timeout, then calls `handleEvents` of every channel that was reported.
Everything else happens in those callbacks: the acceptor accepts, a connection reads,
writes or is closed, timers run, and the application is told. There is no lock. What is
hard is re-entrance: a handler calls the application, which calls back into the object
whose handler is running, and that object may be gone when the call returns. Class
`Thread` stands by itself: one thread makes and starts others with a mutex and a
condition variable; nothing in `src/` uses it with the loop.

| Component | State | Operations | Talks to |
| --- | --- | --- | --- |
| `Channel` | `events_`, `revents_`, `status_` | five `enable`/`disable` calls, `remove`, `handleEvents` | `EventLoop` for registration, its owner through three callbacks |
| `Epoller` | the epoll descriptor, `activeEvents_` | `poll`, `updateChannel`, `removeChannel` | the kernel; writes `status_` and `revents_` of channels |
| `EventLoop` | `quit_`, `activeChannels_` | `loop`, `quit`, `updateChannel`, `removeChannel`, `runAt`... | `Epoller`, `TimerQueue` |
| `Acceptor` | the listening socket, its channel | `listen`, `accept` | `TcpServer::newConnection` |
| `TcpServer` | `tcpConnections_`, `nextConnIdx_` | `start`, `newConnection`, `removeConnection` | `Acceptor`, `TcpConnection` |
| `TcpConnection` | `connectState_`, `socket_`, `channel_`, two buffers | the three handlers, `send`, `shutdown`, `connectionEstablished`, `connectionDestroy` | its channel, the application, `TcpServer::removeConnection` |
| `Sockets` | one descriptor | `bind`, `listen`, `accept`, `shutdownWrite`, `close` | the kernel |
| `Buffer` | `data_`, `readIndex_`, `writeIndex_` | `append`, `readFd`, `retrieve...`, `makeSpace` | - |
| `TimerQueue`, `Timer` | `timerList_`, the timerfd, a channel | `addTimer`, `cancelTimer`, `handleTimingRead` | `EventLoop`, the clock |
| `Thread` | `started_`, `joined_`, a mutex, a condition variable | `start`, `started`, `join`, `run` | the created thread |
| `Address`, `Callbacks`, `Timestamp` | values | conversions | - |

What makes each correct:

* **Channel and Epoller**: `status_` and `events_` agree with the kernel's interest
  list after any sequence of calls, so that `epoll_ctl` never fails (failure is
  `abort()`); no ready descriptor starves, although the event array is finite.
* **EventLoop**: a handled event is still reported or was withdrawn in the same batch; `quit()` in a callback ends it.
* **Acceptor and TcpServer**: whoever connects is accepted; the map holds exactly
  the connections that live; a descriptor lives as long as its connection.
* **TcpConnection**: UP once, DOWN once, messages only in between; bytes go out once
  and in order across direct and delayed writes; `EPOLLOUT` is watched exactly while
  output is pending; a connection is freed when, and only when, nobody uses it.
* **Buffer**: a queue of bytes, at every position of its indices.
* **TimerQueue**: a timer runs when it is due, once per period, and not after it was
  cancelled; none is left without a wake-up; each is deleted once.
* **Thread**: the function runs once, not before `start()` and to its end before `join()`
  returns; `start()` never misses the worker.

The earlier versions, each a server of its own:

| Version | What it adds | State | What makes it correct |
| --- | --- | --- | --- |
| `v1.0` | one function | the descriptors of a batch, `connect_sock` | everyone is accepted, answered in order, closed when he ended |
| `v1.1` | `Sockets`, `Epoller`, `EventLoop` | the descriptors of a batch | it is an echo service; no event of a batch is stale |
| `v1.2` | `Channel` and callbacks | `channelsMap`, pointers into it | the map agrees with the kernel; no pointer dangles |
| `v1.3` | `Acceptor`, `polling_` | registrations, two accept queues | both queues are served in order; `polling_` mirrors the kernel |
| `v1.4` | `TcpServer`, `TcpConnection` by `unique_ptr` | the map, channels freed in their own handler | the map owns what is connected, nothing freed stays registered |
| `v1.5` | `Buffer`, `shared_ptr`, `send` | two buffers for each connection | nothing sent is lost or reordered |
| `v1.6` | `TimerQueue` | as `v1.7` | every file of its `src/` is the same in `v1.7`, which adds `Thread` |

The hard behaviours, with their lines, are the `hazards` of `PROJECT.json`.

## What is modelled

### `Channel`: one descriptor's registration

A module of operators on one channel record. Its fields are the members of class
`Channel` and, next to them, the kernel's view of the same descriptor (`added`,
`mask`), which the program reaches only through `epoll_ctl`. `UpdateChannel` is the
decision of `Epoller::updateChannel`; `EpollCtl` fails as the system call does
(EEXIST, ENOENT), and failure is recorded in `fault`, as the code aborts. `Mirrors`
says that both views agree.

### `Poller`: the loop, for any callbacks

`EventLoop::loop` and `Epoller::poll` with a set of channels whose callbacks may make
any registration call on any channel, at any moment at which the program can run
user code. `Poll` takes all ready channels, or any subset that fills the event
array, which then doubles. `quit()` may be called in a callback and from another
thread at any moment. Properties:

* `KernelMirror`: the bookkeeping agrees with the kernel, `epoll_ctl` never fails.
* `CapacityBound`: the event array does not grow without need.
* `OnlyWithdrawnIsStale`: handlers run on `revents_`, a copy. An event that waits in
  `activeChannels_`, or is handled, although `epoll` does not report it any more, is one
  that a callback of the same batch disabled or consumed (the history variable
  `withdrawn`), or a hang-up of a channel that watches nothing any more: none is left
  from an earlier batch, and no call takes away another event or one of another channel.
* `NoStarvation`: a channel that epoll reports is handled in the end, although the
  kernel may choose which ones fit into the array.
* `QuitStops`: `quit()` from a callback ends the loop without another event; from
  another thread it ends it once anything is reported, as it does not wake `epoll_wait`.

### `NetServer`: the whole server

The loop, acceptor, server and connections, composed with the kernel's sockets, the
peers and an application. The variables `chan`, `tcp` and `tcpConnections` are the C++ objects,
`sock` and `backlog` the kernel, `pc`, `stage`, `cur`, `who` and `caller` the thread's
call stack (`stage` is the `if` of `handleEvents` that is next), `peer` the clients
and `log` a history of what the application asked and was told.

Each handler is one action, cut only where it calls the application: its second half
is the action `Return...`. In between, the application may make any of the calls that
the configuration allows (`OnUp`, `OnMessage`, `OnDown`), on the connection of the
callback, any number of times. The peers act between any two actions. A handler that
makes one system call is not less interleaved for being one action, since peers only
touch the kernel's sockets; the one pair of system calls in a handler (`accept4` and
the `socket()` of `TcpConnection::socket_`) takes descriptors, which peers cannot.

| Code | Actions |
| --- | --- |
| `TcpServer::start`, `Acceptor::listen` | `Start` |
| `EventLoop::loop`, `Epoller::poll`, `Channel::handleEvents` | `Poll`, `StartHandle`, `SkipStage`, `EndBatch`, `ReadFreedChannel` |
| `Acceptor::accept`, `TcpServer::newConnection` | `Accept` (or `AcceptFails`), `ReturnUp` |
| `TcpConnection::handleRead` | `HandleRead`, `ReturnMessage` |
| `TcpConnection::handleWrite` | `HandleWrite` |
| `TcpConnection::handleClose`, `TcpServer::removeConnection` | `HangUpEvent`, `ReturnDown`, `ReturnRemoved` |
| `TcpConnection::send`, `shutdown`, `EventLoop::quit` | `UserSend`, `UserEcho`, `UserShutdown`, `UserQuit` |
| `Buffer::retrieveAsString`, `TcpServer::removeConnection` by the application | `UserRetrieve`, `UserRemove` |
| clients | `Connect`, `PeerSend`, `PeerRecv`, `PeerClose`, `PeerReset` |

Lifetime. A `TcpConnection` lives while `tcpConnections_` or a running callback
holds a `shared_ptr`. `tcp[c].live` ends in `RemoveChannel` (back in
`handleEvents` no pointer is left) or in `ReturnMessage` (the pointer of the
callback was the last). The `Channel` goes with it, but its `handleEvents()` is
still running: it then finds no further event there (`SkipStage`) or, as freed
memory may hold anything, calls a destroyed callback (`ReadFreedChannel`: the
process dies).

The kernel is modelled as Linux behaves: `EPOLLHUP` is reported whether watched or
not; data can be read before the end of file and both before an error; a reset throws
away what the peer did not receive; a write after a reset fails once with
`ECONNRESET`, unless a FIN came first, and then raises `SIGPIPE`; `shutdown()` of an
unconnected socket fails. `MaxFds` counts the two descriptors that each connection
takes: the accepted one, which nothing closes, and that of the `Sockets` object
created for `socket_`.

Properties:

* `NobodyWaits`: when the thread waits in `epoll_wait`, it is reported who is queued, who
  sent something or ended, and who has room for pending output. `EpollMirror`, as in `Poller` and
  now with the real callbacks, has no run of its own: it is proved, and `NobodyWaits` rests on it.
* `NoDanglingChannel`: epoll never holds a pointer to a freed channel, and none waits
  in `activeChannels_`.
* `MapIsConnected`: between callbacks, `tcpConnections_` holds exactly the live
  connections, all CONNECTED, told UP and not yet DOWN.
* `ToldOnce`: one UP, at most one DOWN, no message outside.
* `WritingIffPending`: `EPOLLOUT` exactly while output is pending.
* `OutputConserved`: what was sent is the peer's bytes, the kernel's and the output
  buffer's, in this order.
* `EchoInOrder`: the same in both directions, for the echo server.
* `DeathCauses`: the process ends only by a reset, by used-up descriptors or by the freed
  channel; no assertion fails, no `epoll_ctl` fails, no write of nothing.
* `MapAfterEarlyRemoval`: an application that removes a connection in the UP callback,
  before `newConnection` inserts it, leaves a dead connection in the map, out of epoll and
  told DOWN, and disturbs nothing else.
* `ClosedIsRemoved`, `QueuedIsAccepted`, `PendingIsWritten`: what must happen in the end.
* `ConnectionSpec`: the server implements `Connection`.

`Connection` is the promise that a connection makes its application, without loop,
channels or kernel: UP, messages, DOWN, each told once; the peer's bytes in order, none
left out, only while it is up; what the application sent reaches the peer in order, also
if it breaks off. The refinement mapping reads UP and DOWN from the history, the bytes
given from what the peer sent less what the kernel still holds, the input buffer as it
is, what was asked from the history and what arrived from the peer.

### `Buffer`: the vector and its two indices

`buf` has the members of class `Buffer`, cells included, and `ok`, which records the
assertion of `hasWritten` and what `std::copy` requires of `makeSpace`. Every member
function is an operator on that record, as `readFd` calls `append`, which may call
`makeSpace`; the actions are the calls from outside. `NetServer` treats both buffers of a connection
as sequences of bytes; `ByteStream` is that view as a specification, and
`Buffer` is shown to implement it.

* `NoFault`: nothing is copied beyond the vector or onto itself.
* `EmptyIsReset`: a buffer that is emptied has its first room again (proved, without a run).
* `SizeBound`: the vector takes less than twice what the callers let pile up.
* `StreamSpec`: the bytes that come out are those that went in, in order. `port`
  shows which bytes a call brought or returned: without it, a buffer that drops part of its input
  would pass for one that is given less.

### `TimerQueue`: timers, the clock and the batch

`TimerQueue` and `Timer` inside the loop, next to one other channel whose callback also
adds and cancels timers. `timerList_` is a set of timers with their times; `timerfd` is the
moment it is set for; `expired`, `curr` and `cur` are the locals of `handleTimingRead`,
which is cut at every callback and every assertion (`StartTiming`, `RunTimer` or
`AssertExpired` or `TouchFreed`, `EndCallback` or `TouchOwnFreed`, `EndTiming`). Callbacks,
and the code before `loop()`, call `RunAfter`, `RunEvery`, `CancelTimer` and `Quit`. A timer
is known by its address, which is used again after `delete`, but not while the batch still
names the deleted timer: any use of that one ends the process as `freed` anyway. `DurationFromNow` is the code's
arithmetic: microseconds divided by `nano::den`, which sets the timerfd after a thousandth
of the delay (`Scale`), and at least `MinDelay`.

* `NotLate`: a queue that is not empty has a wake-up that comes in time, whatever was added,
  cancelled, run or repeated in whatever order.
* `Owned`: every live timer is in the list, in the batch or running, in one of them only,
  and none outlives the queue.
* `DeathCauses`: three ways for the process to end, and no other (see below).
* `EventuallyRuns`: every timer runs, is cancelled, or the loop ends.
* `AlarmsSpec`: the queue implements `Alarms`, in which an alarm runs when it is due, once
  per period, and is never lost; a repeated alarm keeps its period, however late it ran.

### `Thread`: objects and their workers

One thread constructs, starts, asks, joins and destroys `Thread` objects; a worker each.
Construction is member by member in the order of declaration, since `thread_` comes before
`cv_` and `mutex_` and its construction starts the worker: a worker of `EarlyRun` may run
`run()` on members that do not exist yet, and the constructors then forget what it did.
`wait` releases and registers in one step, may return for no reason and locks again.

* `RunsOnce`: the function runs once, not before `start()` and to its end before `join()` returns,
  also for workers that run early.
* `Handshake`: a waiting worker is registered and not started, one that looks at
  `started_` has the lock; so `start()` cannot fall between its look and its wait.
* `StartedRuns`: a started function runs to its end. Both for objects whose worker does
  not run early: for the others the code does not have them (see below).

### `Startup`: processes on one port

`socket`, `setsockopt`, `bind` and `listen`, a step each, with the assertion on each result,
for servers that are killed and started again in any order, and old ones (`v1.0` to
`v1.2`) that set no option. The kernel's side is Linux's: `SO_REUSEADDR` on both sockets
lets a port be bound again unless one of them listens, connections of a killed server
linger. `OneListener`: never two listen. `RestartSucceeds`: a start fails only where another server
listens or an old version has the port. Its specification is `PortSpec` and its `Init` `PortInit`, as one
proof module extends it and `Thread`.

### `EarlyServers`: `v1.0` to `v1.5`

`Peers` is the kernel's sockets and the clients, as `NetServer` has them, with descriptors
numbered by the lowest free one, as `v1.0` to `v1.2` know a connection by its number only.
On it stand `EchoServer10`, `EchoServer11`, `EchoServer12`, `Acceptors13`, `Server14` and
`Server15`, a module for each server with its test programs; `EarlyChannel` is the
registration of `v1.3` to `v1.5`, `EarlyPoller` their loop under any callbacks. Each module
has the state, the steps and the invariants of its version. `EarlyServers` composes them: one
`version` runs, and what all of them owe their clients is stated once.

| Version | Steps |
| --- | --- |
| `v1.0` `main` | `Wait`, `AcceptEvent`, `RecvData`, `RecvEnd`, `RecvError`, `EndBatch` |
| `v1.1` `Epoller::poll` | `Poll`, `Accept`, `RecvEcho`, `RecvClose`, `EndBatch` |
| `v1.2` `Epoller::poll`, `Channel::handleEvents` | `Poll`, `HandleEvents` with `AcceptConnection` or `OnMessage`, `EndBatch` |
| `v1.3` `AcceptorTest` | `Listen`, `EnterLoop`, `Poll`, `Accept`, `NewConnection`, `EndBatch` |
| `v1.4` | `Start`, `Poll`, `StartHandle`, `Accept`, `HangUpEvent`, `HandleRead`, `Skip`, `ReadFreedChannel` |
| `v1.5` | the same, with `ReturnUp` and `ReturnMessage` for the three applications |

* `NothingStale`: no step of a batch leaves a later one a descriptor, a pointer, a connection to
  accept or a channel that is gone.
* `RecordsAgree`: what a version keeps for a descriptor or a connection agrees with the kernel
  and with what the application was told.
* `InOrder`: no byte, and no client of a queue, is lost, repeated or overtaken.
* `OnlyNewestIsWronged`: `v1.0` closes a connection whose peer neither closed nor reset it,
  also one with unread bytes or an event in the same batch, only after a reset of another
  one, and then it is the newest.
* `ServiceSpec`: `v1.1` and `v1.2` implement `EchoService`: served, answered in order, let go
  only after the end and, after a good-bye, only when all is answered.
* `ClientsAreServed`: in the end everyone was accepted, and answered by `v1.1` and `v1.2`, and
  whoever ended is let go.
* `NoStarvation`: the fixed event array of `v1.3` starves no channel, because the kernel serves
  its ready list in turn.

## The runs

| Run | Configuration | Question | Result |
| --- | --- | --- | --- |
| `poller` | two channels, array of one entry | the loop under any callbacks | holds, 343,712 states |
| `echo` | `Test/EchoServerTest.cpp`, two peers, who may be removed in the UP callback | data and order, both ways; does the thread sleep on work? | holds, 1,855,496 states up to symmetry |
| `live` | a server whose every answer is a short write, two peers | progress | holds, 97,638 states |
| `app` | an application that sends, shuts down, removes, quits; descriptors for one and a half connections | lifetime, callbacks, ways to die; the promise of `Connection` | holds, 1,321,900 states |
| `buffer` | a vector of four cells, two reserved; chunks of up to four bytes | is it a queue, and how large? | holds, 66,140 states |
| `timers` | two timers, one other channel, a horizon of three | are they alarms? | holds, 440,270 states |
| `threads` | three `Thread` objects, one with an early worker | lost starts, ways to die | holds, 51,249 states |
| `early` | `v1.0` to `v1.5` and their loop, two to four peers | what they owe their clients | holds, 365,472 states |
| `startup` | two servers and an old one on one port | starts and restarts | holds, 540 states |
| `leak` | `Test/DiscardServerTest.cpp`, one peer | is the descriptor closed with the connection? | violated |
| `freed` | the same | does `handleEvents` only read a living channel? | violated |
| `farewell` | an application that sends in the DOWN callback | does the assertion of `Channel::remove` hold? | violated |

Bounds, and why they are enough:

* Two channels and an array of one entry: the array is full at once, grows, and until
  then the kernel can leave out either channel. A third channel adds only more of the
  same choice. The conditions are IN and HUP: OUT behaves as IN in the poller.
* Two connections: one can be removed, reset or accepted while the other waits in the
  same batch. Connections share the loop, the map, the backlog and the descriptors,
  and no action looks at more than two of them. The proofs do not need this bound.
* `SndBuf = 1` against messages of two bytes: every write is short, or fails, or finds
  room again after the peer has read. `MaxOut = 2` bounds the application's `send`s
  (not echoes); `MaxIn = 3` is the least with which
  an echo can find output pending and room in the kernel at once. `live` asks for progress and needs
  one byte in: its answer of two bytes already waits for the peer to read.
* `MaxFds = 3` in `app` is reached by the second connection: the first half of its
  descriptors is there, the second is not. In `echo` and `live` it is 4, enough for two.
* `echo` and only it reduces by symmetry of the connections: no action tells one from
  another, and it checks invariants only.
* A connection identity is used once; `nextConnIdx_` does not wrap in any run.

* `timers`: two timers are one in the batch and one that a callback adds, cancels or gives
  the address of the other. A delay of 6 is set for 3 (`Scale = 2`) and is early at least once, one of 0
  takes the least delay of 2; a timer repeats every 2. Time passes `Horizon` only
  while no timer is handled, and ends at `MaxTime`, so that what was set within the horizon can run.
* `threads`: objects share nothing but the thread that makes them; the third shows that the
  early one does not delay the others.
* `early`: in `v1.0` three peers on two descriptors, so that a number is used again while its old
  event waits and accepting can fail, one byte each; in `v1.1` and `v1.2` two peers with two bytes, read one and two at a
  time; in `v1.3` four peers in two queues and one descriptor; in `v1.4` and `v1.5` descriptors for one and a half
  connections, reads of one byte or all, and in `v1.5` three bytes against writes of one, the least with which an
  answer can overtake one that waits. The loop has two channels and one entry. In `v1.0` to `v1.2` the kernel takes
  whole answers (two bytes of `SndBuf`, one or two said): what short sends lose there is below.
* `startup`: two servers can both be bound, and a third, old one holds the port against them.
* `buffer`: two kinds of bytes, so that every mix-up of two cells shows for some contents. Chunks of four
  fill the empty vector and the second buffer together; with `MaxReadable = 5` the vector grows twice,
  moves, and starts over. The proofs do not need these bounds.

Deadlock is not checked, except in `buffer`: after `exit` or `dead` the program is over, a server
without peers waits for ever, as it should, time ends, and threads are over when they are joined.

Fairness. `WF_vars(LoopStep)`: the one thread is scheduled, `epoll_wait` returns when
something is ready, and callbacks return. No fairness on the application's calls or on
the peers, except in `FairSpec`, where peers go on reading (`PendingIsWritten` is about
them). The properties allow for the process's end (`Ended`), since a reset ends it. In
`TimerQueue` time passes too (`WF_vars(Tick)`). In `Thread` every worker is scheduled and the
constructor or `join` that main is in goes on; main need start, join or destroy nothing, and
no spurious wake-up need come. In
`EarlyServers` the one thread goes on, as above. There `ClientsAreServed` has
the form `<>[]`: peers come, send and end a bounded number of times, so that in the
end nobody is left waiting; with unbounded clients this would be `~>`. Safety alone is asked of `Startup`.

Each property of a passing run has a mutant in `PROJECT.json`: an operator that changes
one mapped definition as a plausible bug would, and with which TLC finds the property
violated. They stand in the modules, marked as mutants, just before what they replace.

## What the violated runs show

* `leak`: `TcpConnection` gives the accepted descriptor only to its `Channel`, and
  `socket_` is a new socket (`v1.7/src/TcpConnection.cpp:30`). Nothing closes the
  accepted one. `doc/Notes_for_Version_1_4.md:42` says it is closed with the connection.
* `freed`: `removeConnection` frees the channel in the close callback, and
  `handleEvents` goes on to read `revents_` (`v1.7/src/Channel.cpp:35`).
  `doc/Notes_for_Version_1_4.md:274` puts the invalid read that valgrind found there
  down to an unset write callback.
* `farewell`: `send` does not look at the connection's state. In the DOWN callback a
  short write enables `EPOLLOUT` on the channel that was just disabled, and
  `assert(isNoneEvent())` fails (`v1.7/src/Channel.cpp:59`).

Other places where the code does not do what it or a document says, found while modelling
and allowed for in the models, without a run of their own:

* `v1.7/src/TimerQueue.cpp:28`: a callback of another channel that runs after `epoll_wait` reported the
  timerfd and adds an earlier timer sets it anew; the `read` then fails and so does the assertion on it
  (`cause = "read"`).
* `v1.7/src/TimerQueue.cpp:166`: `getExpired` takes timers up to `curr + 1ns`, of which line 140 asserts that
  they are due at `curr` (`cause = "expired"`).
* `v1.7/src/TimerQueue.cpp:122`: a timer that is cancelled by its own callback, or while it waits in the
  batch, is used after it was deleted (`cause = "freed"`).
* `v1.7/src/TimerQueue.cpp:41`: the division by `nano::den` makes the loop wake in vain, again and again, before
  every timer; `README.md:104` records the symptom.
* `v1.7/src/Thread.h:28`: `thread_` is constructed before `cv_` and `mutex_`. A worker that runs that early may wait where nobody
  will wake it, though `doc/Notes_for_Version_multi.md:69` says that `start()` wakes it: `StartedRuns` fails for `EarlyRun`.
* `v1.7/src/Thread.cpp:40`: `started()` asserts `!started_`, and so ends the process for every started thread.
* `v1.0/EchoServer.cpp:116`: an error closes `connect_sock`, the connection accepted last, not the one
  that failed; the latter is closed by its next `recv`.
* `v1.0/EchoServer.cpp:126`, `v1.1/src/Epoller.cpp:63`, `v1.2/src/Epoller.cpp:82`: what a short `send` leaves is lost.
* `v1.1/src/Epoller.cpp:43`: several clients are served at a time; `doc/Notes_for_Version_1_1.md:119` says one.
* `v1.4/src/Channel.cpp:34`: after a hang-up the freed channel is read, also without the block for `EPOLLOUT` that
  `doc/Notes_for_Version_1_4.md:274` blames.
* `v1.5/src/Channel.cpp:42`: the block for `EPOLLOUT` is commented out, so that output that waits is never written.

## What is proved

The theorems hold for every finite set of channels or connections, every application
that the `Calls...` assumptions describe, every message, and every size of buffers, backlog and
descriptor table. They rest on the named `ASSUME`s of `Poller`, `NetServer`, `Buffer`, `TimerQueue`, `Thread`, `Startup` and
`EarlyServers`, which TLC evaluates on every run, and on what a theorem of `NetServerProofs` says of its application,
or one of the early servers' of its sizes, in its own `ASSUME`, and nothing else.

* `PollerProofs`: each operation keeps a well-formed channel mirrored (`SetEventsGood`,
  `RemoveGood`, `OperationsGood`). The argument is a split on `status_`: it decides the
  `epoll_ctl` operation, and by `Mirrors` it is the one that the kernel accepts. From it `TypeCorrect`, `MirrorCorrect`, `CapacityCorrect`, `StaleCorrect`. For the
  last, the property is not inductive: a stale hang-up is no longer stale once its channel watches something again.
  `ReportsStand` says that an event of a report was withdrawn or its condition still holds and is still watched, and
  `Watched` that a channel that watches something is registered. An array that is full has as many entries as channels
  were ready, so doubling it stays below twice the number of channels.
* `BufferProofs`: the conjunction of `TypeOK`, `NoFault`, `EmptyIsReset` and `SizeBound` is inductive, and
  under it every call implements a step of `ByteStream` (`StreamCorrect`). The argument goes up the calls:
  `GrownIs` and `MovedIs` (what room is made keeps the bytes; it moves only when there
  is room in front beyond the reserved cells, hence leftward), `EnsureIs`, `FilledIs`, `AppendedIs`,
  `ReadFdIs`, `RetrieveIs`. `MaxReadable` is a parameter: the bound on the size is a fact
  about any callers.
* `NetServerProofs`, in layers, each resting on the ones before (it has the lemmas on channels again, since the states of
  `Poller` and `NetServer` do not fit into one module):
  1. `ObjectInv` = types, `EpollMirror`, `SndFits` (the kernel's buffer never holds more than
     `SndBuf`; otherwise a short write would be ill-defined) and `ListenerReads` (the accepting channel
     never watches EPOLLOUT; otherwise `handleWrite` would run on it). Gives
     `TypeCorrect` and `MirrorCorrect`.
  2. `WritingIffPending`, inductive on top of it: `send` either appends to pending output,
     when `EPOLLOUT` is watched already, or writes itself and watches exactly
     if something is left. Gives `WritingCorrect`.
  3. `OutputInv`, for `OutputCorrect`. `OutputConserved` is not inductive: it says nothing of a
     connection that was freed or reset, whose peer may still read. The strengthening
     gives each connection a sequence `lost` with asked = got + kernel + lost, which is the output
     buffer as long as the connection lives and was not reset (`Balanced`). It needs
     that accepted sockets are fresh (`QueueInv`, `FreshInv`) and that a callback's connection
     lives (`CallbackLive`), as a `send` on a freed one would write bytes out of order. `WriteSplit`
     and `MoveByte` are the two facts about sequences behind it.
  4. `LifeInv`: an object is owned by the map or by the callback that runs, and a handled channel is
     out of the batch. With `DetachedInv` (a connection that is not connected watches nothing, and is
     not in the batch unless it is handled) it gives `DanglingFree`, for applications that ask nothing of a connection
     after removing it in the message callback (`AsksFirst`): a `send` there registers the channel again, and
     `farewell` shows the same for DOWN.
  5. `ToldInv` ties what the application was told of a connection to its state, `MapInv` the state to the map, the
     channel and the place of the thread; neither is inductive without the other, as a handler tells DOWN because it knows from
     the map that its connection is connected. `TcpServer::newConnection` calls UP before it inserts into
     `tcpConnections_`, so that after a removal in the UP callback the map holds a connection that is over. `MapInv` says of such a
     one that it has read nothing, is out of epoll and out of the batch, and that nothing puts it there again. Gives
     `MapCorrect`, for applications that remove nothing in the UP callback (`KeepsInUp`); `EarlyRemovalCorrect` and
     `OnceCorrect`, also for those that do and there send nothing or ask `connected()` first (`ChecksInUp`; the one of
     the run `echo` is such).
  6. `WatchedInv`: `EPOLLIN` is watched on the accepting channel from `start()` on, and on a connected one as long as it is
     connected, whatever is enabled and disabled besides. With layers 1 and 2 it gives `NothingMissed`, for every application: the
     safety half of the liveness that TLC checks.
  7. `DeathInv`: as long as the process lives nothing has faulted, and every death has its cause. Gives `DeathCorrect`,
     for applications that send and shut down only what is connected: they ask, or do nothing of the kind in DOWN and in a
     callback that removes (`CallsConnected`, which implies `ChecksInUp`).
  8. `EchoInv`, with what the read of a handler took out of the kernel: `EchoCorrect`, for applications that
     do nothing with their input but echo it (`EchoesOnly`).
  9. `ImplementsConnection`: every action implements a step of `Connection` or stutters, for applications with `ChecksInUp`.
     `ComingInv` says that the peer's bytes behind those read are the ones that the kernel holds.

  The hypotheses are needed. If an application removes a connection in its UP callback and then sends on it (`OnUp = {"send",
  "remove"}`, `ChecksConnected = FALSE`), the `send` registers the channel of a connection that is over; it is handled again, and TLC
  finds `ToldOnce`, `DeathCauses` and `MapAfterEarlyRemoval` violated, while `OutputConserved` and `NoDanglingChannel` hold.
* `TimerQueueProofs`: the inductive invariant is `TypeOK`, `NotLate`, `Owned` and `DeathCauses` with `BatchInv` (what the
  locals of `handleTimingRead` hold at each of its places; a timer taken was due at `curr + 1` at most) and `ReportInv` (why the
  timerfd that was reported may be unset when it is read). `ImplementsAlarms` maps a timer that runs to its next time.
  `MinDelay >= Scale` is needed: with a delay that the division makes nothing the timerfd would be set for now.
* `ProcessProofs`: `ThreadType`, `ThreadRunsOnce` and `ThreadDeaths` from what main and a worker can be doing at
  the same time (`BusyInv`), for every set of early workers; `HandshakeKept` from `HandInv`, for the others. Of `Startup`, for any
  number of servers: `PortHasOneListener` and `RestartIsKept`, from `PortInv`. That one process listens does not follow from
  what `bind` refused, since two sockets with `SO_REUSEADDR` may both be bound before either listens: it is `listen` that
  looks again. The invariant adds the option of each socket, also of one whose process is gone: without it nothing says that one that
  listens excludes the others (`ServingExcludes`), as two sockets with `SO_REUSEPORT` would not.
* `PeersProofs`: what the early servers live among. `NetInv` (descriptors are distinct, the backlog holds every waiting
  connection once and in the order in which they came, what nobody sent is not there) is kept by every step of the peers
  and by every way in which a server uses, accepts or closes a connection; `Answers` relates what a server that echoes has said to
  what its clients sent. The module is instantiated once for each version, with its sizes.
* `FirstServersProofs`: an inductive invariant for each of `v1.0` to `v1.3` and for the loop, on top of `NetInv`.
  `Inv10`: an event of the batch has something to read, unless a reset closed its connection. `Inv11`: every event of the batch
  has an open connection with something to read. `Inv12`: so has every pointer of the batch, and the map has exactly the open descriptors (`Map12`). `Inv13`: every acceptor in the
  batch has a connection that waits, and whoever waits came after those told before him. `InvLoop`: the bookkeeping
  mirrors the kernel's, and no more channels are reported than the array holds (`ServedFit`: the kernel's list
  is one, so each of those served has a number of his own before him). Gives `NewestIsWronged`, and `ServesClients`: `v1.1` and `v1.2` implement
  `EchoService` if the kernel takes whole answers (`maxIn <= sndBuf`; without it a short `send` loses bytes, see above).
  The argument is that one step moves one client, and what a client sees of a step is one step of the service (`ServiceStep`).
* `EarlyServersProofs`: `Inv14` and `Inv15` have one part per connection: it is live, in the map and registered from UP to DOWN
  and afterwards nothing points to it (`Conn14`, `Conn15`), and what was received, what the buffers hold and what the kernel holds
  are together what was sent (`Stream14`, `Stream15`). With the invariants of the other versions they give, of all of them,
  `EarlyTypes`, `EarlyRecordsAgree`, `StepsLeaveNothingStale` (with a descriptor for `v1.3` to accept on, as without one
  `accept4` fails) and `BytesStayInOrder` (with `maxIn <= sndBuf` for `v1.0`, which ignores what `send` returns).

`EpollMirror`, the type invariants of `Poller`, `NetServer`, `TimerQueue` and `Thread`, the ways for a `Thread` to end the process
(`DeathCauses`) and `EmptyIsReset` are proved and have no run.

Only model-checked: the liveness properties (`NoStarvation`, `QuitStops`, `ClosedIsRemoved`, `QueuedIsAccepted`,
`PendingIsWritten`, `EventuallyRuns`, `StartedRuns`, `ClientsAreServed`), as liveness under fairness is beyond the prover.
Every other property of a run that passes is a theorem.

## What is not modelled, and why

* `socket`, `bind`, `listen` and `setsockopt` failing for another reason than the port (no memory, a bad address).
* An application that keeps a `TcpConnectionPtr` beyond its callback, or acts on another
  connection than the callback's. No program in `Test/` does.
* What `shutdown()` should reach: no document says it, but a comment that it fails (`Test/DayTimeServerTest.cpp:27`).
  What it does is modelled (`UserShutdown`).
* `firstExpiredTimer()`, `joined()`, `getpthreadID()` and other functions that only read and that nobody calls.
* `handleWrite()` of `v1.5`, which nothing can call, and the buffers of `v1.5`, which are those of `Buffer`, cell by cell:
  `Server15` has them as sequences.
* The loop's thread identity (`assertInLoopThread` and the like): one thread uses the loop.
* `EINTR`, `accept4` failing for a peer that is gone (Linux hands out the socket), signals other than `SIGPIPE`.
* The destructors of `TcpServer`, `Acceptor` and `EventLoop`: they run after `loop()`.
* Logging, addresses, names, time zones: no property depends on them.
* `v1.6`: every file of its `src/` is the same as in `v1.7`, so that the modules of `v1.7` are models of it; the map names
  the lines of `v1.7` only.

## What is left

1. An application that keeps a `TcpConnectionPtr`, or acts on other connections than the callback's: two more owners
   in `LifeInv`, and `removeConnection` of a connection whose channel waits in the batch.
2. `ServesClients` for kernels that take less than an answer: a service that may lose the rest of one.
