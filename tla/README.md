# A TLA+ model of CuteMuduo

CuteMuduo is a C++20 reactor network library: one event loop per thread, epoll
below, TCP connections with buffered non-blocking output above. This directory
holds TLA+ specifications of its core, TLC configurations that check them on
small instances, and TLAPS proofs of the properties that matter most.

Paths below are relative to `src/CuteMuduo/`.

## 1. Inventory of the system

| Component | State it keeps | Operations | Talks to |
|---|---|---|---|
| `EventLoop` (`src/event_loop.cpp`) | `looping_`, `quit_`, `calling_pending_functors_`, `pending_functors_` (mutex), `active_channels_`, the eventfd `wakeup_fd_` | `Loop`, `Quit`, `RunInLoop`, `QueueInLoop`, `DoPendingFunctors`, `Wakeup`, `HandleRead` | polls its `Poller`, calls `Channel::HandleEvent`; called from any thread |
| `Channel` (`src/channel.cpp`) | `events_`, `revents_`, `index_`, `tie_` | `Enable…`/`Disable…`, `Remove`, `HandleEvent` | its loop's poller; the callbacks of its owner |
| `EpollPoller` (`src/epoll_poller.cpp`) | `channels_`, `events_` (result list), the kernel's interest list | `Poll`, `UpdateChannel`, `RemoveChannel`, `Update`, `FillActiveChannels` | epoll |
| `Buffer` (`src/buffer.cpp`) | `buffer_`, `reader_index_`, `writer_index_` | `Append`, `ReadFd`, `WriteFd`, `Retrieve…`, `EnsureWritableBytes`, `MakeSpace` | used by `TcpConnection` and user callbacks |
| `TcpConnection` (`src/tcp_connection.cpp`) | `state_` (atomic), `channel_`, `input_buffer_`, `output_buffer_` | `Send`, `SendInLoop`, `Shutdown`, `ShutdownInLoop`, `HandleRead/Write/Close/Error`, `ConnectEstablished`, `ConnectDestroyed` | its loop (functors), its channel, the server's `close_callback_`, user callbacks |
| `TcpServer` (`src/tcp_server.cpp`) | `connections_`, `next_conn_id_`, `started_` | `Start`, `NewConnection`, `RemoveConnection(InLoop)`, destructor | main loop; the connections' loops |
| `Acceptor`, `Socket` | the listening fd and its channel; an fd | `Listen`, `HandleRead`, `Accept`, `ShutdownWrite` | main loop; `TcpServer::NewConnection` |
| `EventLoopThread`, `Thread`, `EventLoopThreadPool` | `loop_` (mutex, condition variable), `started_`, `joined_`, `loops_`, `next_` | `StartLoop`, `ThreadFunc`, destructor; `Start`, `Join`; `Start`, `GetNextLoop` | create the loops |
| `InetAddress`, `Timestamp`, `Logger`, `CurrentThread` | none that changes | formatting, clock, output | everyone |

What is hard here:

* *Threads.* Any thread may call `QueueInLoop`, `Quit`, `Send` and `Shutdown`
  while the owner polls, handles events or runs functors. Wakeups, the swap of
  the functor vector and the tests of `state_` interleave with all of it.
* *Order.* Partial writes, queued sends, FIN and the removal of a connection
  have to come in the right order although they travel different ways: directly,
  through `output_buffer_`, through a loop's queue, through the main loop's.
* *Failure.* The peer closes or resets at any time; epoll reports several
  events at once; `write` takes a part; the server is destroyed with
  connections up.
* *Limits.* The result list of `epoll_wait`, the kernel's
  send buffer, the Buffer's vector and its stack buffer.

The hazards, each at its line, are in `PROJECT.json`. What correctness means,
component by component:

* `EventLoop`: no functor and no `Quit` is left behind a blocked `epoll_wait`;
  queued functors run once each, in order; a running loop runs what is queued.
* `Channel`, `EpollPoller`: `index_`, `channels_` and the kernel agree, so no
  `epoll_ctl` fails; a removed channel is not handled; no ready channel starves.
* `Buffer`: a queue of bytes; indices in order; it grows only when it must.
* `TcpConnection`: the byte stream is what was sent; write interest matches the
  output buffer; FIN after the output; the end is reported once and is final;
  a peer that is gone is noticed.
* `EventLoopThread`, `Thread`, `EventLoopThreadPool`: `Start` returns, and
  returns loops that exist until they are stopped; they are handed out in turn;
  stopping ends, and nothing goes while its thread still uses it.
* `TcpServer`, `Acceptor`: clients are served in turn; each connection is
  reported up and down at most once and removed exactly once; nothing uses a
  connection that is gone; the destructor returns and leaves nothing behind.

## 2. Modules

| Module | What it is |
|---|---|
| `TaskQueue` | abstract: a FIFO queue of functors, plus functors run at once |
| `EventLoop` | the owner thread in `Loop()` and the threads that queue and quit; implements `TaskQueue` |
| `EventLoopProofs` | theorems about `EventLoop` |
| `Channel` | operators: the calls of a channel, carried through to `epoll_ctl`; the dispatch order |
| `ChannelProofs` | lemmas about the operators of `Channel`, used by the proofs about `EpollPoller`, `TcpConnection` and `TcpServer` |
| `EpollPoller` | several channels on one poller, iteration by iteration |
| `MCEpollPoller` | conditions of fds for TLC |
| `EpollPollerProofs` | theorems about `EpollPoller` |
| `ByteQueue` | abstract: a queue of bytes |
| `Buffer` | the vector and its two indices; implements `ByteQueue` |
| `BufferProofs` | theorems about `Buffer` |
| `TcpConnection` | one connection with its loop, its callers, its server, its socket and peer; uses `Channel` |
| `TcpConnectionProofs` | theorems about `TcpConnection`: its data |
| `TcpConnectionEndProofs` | theorems about `TcpConnection`: its end |
| `Sessions` | abstract: which calls of `connection_callback_` a server makes, and when |
| `TcpServer` | a server with its `Acceptor`, its loops and its connections, from constructor to destructor; uses `Channel`, implements `Sessions` |
| `TcpServerProofs` | theorems about `TcpServer` |
| `EventLoopThreadPool` | a pool, its loop threads and the thread that starts, uses and destroys it |
| `EventLoopThreadPoolProofs` | theorems about `EventLoopThreadPool` |

`PROJECT.json` maps every definition to its lines of code.

### EventLoop

`lpc` is the position of the owner: outside `Loop()`, between the stores to
`looping_` and `quit_` on its entry (`LoopEnter`, `LoopReset`), at `while (!quit_)`, in
`epoll_wait`, between two active channels, in a user callback, between two
functors, in a functor. Each step of another thread is one access to something
shared: the push under the mutex (`QueueFromThread`), the store to `quit_`
(`QuitFromThread`), and, as a step of its own, the write to the eventfd
(`WakeupFromThread`); so the owner can run any amount of its code between a push
and its wakeup. The owner's own calls (`RunInOwner`, `QueueFromOwner`,
`QuitFromOwner`) come from callbacks, functors or before `Loop()`. All channels
but the wakeup channel are one symbol `io`. `fresh`, `executed`, `early` and
`quitRequested` are history variables.

`~EventLoop` is not an action: it runs in the owner's thread when `Loop()` has
returned.

### Channel and EpollPoller

A channel is a record of its own fields (`events`, `index`), the poller's
(`mapped`) and the kernel's (`added`, `mask`); `fatal` records that an
`epoll_ctl` failed in a way that `EpollPoller::Update` answers with
`LOG_FATAL`. `EnableReading` and so on are functions from record to record that
include the whole call chain down to `epoll_ctl`.

`EpollPoller` runs iterations: `Poll` picks what `epoll_wait` reports (all that
is ready, or any choice that fills the list), `Handle` takes channels off
`active_channels_`, and during handling and during functors any channel may be
updated. `Remove` is possible among the functors only, which is what
`TcpServer::RemoveConnectionInLoop` sees to by queueing `ConnectDestroyed`;
dropping that restriction is the mutant of `ActiveStaysRegistered`. The
conditions of the fds change at any time.

### TcpConnection

The loop thread (`lpc`) polls, makes the callbacks that `Dispatch` lists, one
step each, then runs one batch of the functors in `queue`; `batch` counts how
many of `queue` were swapped out. Calls of other threads are split at each
access to `state_`: the test (`SendCheck`, `ShutdownCheck`), the store
(`ShutdownSet`), the push. `ConnectDestroyed` is split in the same way.
Messages are sequences of units, so a partial write can stop inside one. User
callbacks are a phase (`callback`) in which the loop thread may call `Send` and
`Shutdown`. `TcpServer`'s part is `removals` (functors on the main loop),
`RemoveConnectionInLoop` and `ServerDestroyed`; when the connection lives on the
main loop the removal happens at once, which is one of the orders the model has.

The kernel is modelled from how the code uses it: `write` takes what there is
room for; a write to a socket that was shut down or reset fails; `EPOLLHUP` is
reported on reset or when both directions are shut; a reset leaves `SO_ERROR`,
which the first failing call or `getsockopt` consumes. Assumptions:
`write_complete_callback_` and `high_water_mark_callback_` are set (without
them fewer functors are queued); SIGPIPE is ignored by the application (the
library does not do it; without it the `EPIPE` branch is unreachable); `write`
has no other errors. `input_buffer_` is reduced to whether data is waiting,
since `Buffer` covers its content. `MaxSends` bounds the messages of each other
thread, `MaxLoopSends` those of the loop thread.

`StaleEventsIgnored` is about one dispatch: epoll may report a close together with
`EPOLLOUT`, and `HandleEventWithGuard` then makes the write callback after the close
with the `revents_` of before. It is `HandleWrite`'s test of `IsWriting()`
(`StillWriting`) that makes this harmless, also when a `Shutdown()` in another thread
stores to `state_` in between.

`ClosedForGood` and `DroppedAfterClose` speak of the behaviours in which only the
loop thread has called `Shutdown()` (`OnlyLoopCloses`): with `Shutdown()` in
another thread the first of them fails, which is the second disagreement below.

### TcpServer

`spc` is where the server is: up, in its destructor, gone. `started` stands for
`started_`, of which the code only asks whether it was 0. Loop 0 is the main loop,
1.. are the sub loops; each has its position (`lpc`), `quit_`, its functors
(`queue`, and `batch` with `pos` once they are swapped out) and the active channels
still to be handled: `active`, those with a close or a client to take, and `writable`,
those with a write callback to come, which is made last. A loop handles them one by
one in any order and runs its functors one by one. That a functor or a `Quit()` ends
the wait of a poll is what `EventLoop` shows, so here `Poll` is enabled by them;
`PollTraffic` is a return of the poll for data that need not come.

`Start` returns when every sub loop has been published, which is before its thread is
in `Loop()` (`src/event_loop_thread.cpp:40-45`): the loops are `entering` until
`EnterSub`, which resets `quit_`. Connections may be queued on them and the destructor
may call their `Quit()` meanwhile. In the latter case the `Quit()` is lost and the
destructor waits for the thread for ever (`JoinHangs`), the first disagreement below;
`ServerStops` names this case as its exception.

Clients are numbered in the order in which they connect, which is the order
`accept` returns them and `next_conn_id_` counts them. A connection is its
`state_`, its channel, its loop and what owns it: `connections_`, a
`TcpConnectionPtr` the application kept from the UP callback (`userRef`), the
functors that hold a `shared_ptr`, and the connection itself, since
`close_callback_` is a lambda with a copy of `conn_ptr` (`SelfReference`). A
functor of `Send` or `Shutdown` captures `this` and owns nothing. A connection that
is alive has its descriptor open (`OpenFds`), and `accept` fails with `EMFILE` when they reach `fdLimit`, which is chosen in `Init`.

The destructor is a step per connection (`DropConnection`), then per sub loop
`Quit()` and the wait for its thread (`QuitLoop`), then the acceptor
(`DestroyAcceptor`): the order of the members, last to first. The functors a loop
still has when it goes are destroyed with it; `fate` remembers whether a
`ConnectDestroyed` was among them.

Assumptions about the application: it destroys the server in the main thread
outside `Loop()`, it does not call `Send` or `Shutdown` once it has begun to, and it
does not run the main loop again afterwards (the removal functors left there
capture the server). `Used` are the connections on which it calls `Send` and `Shutdown`,
from callbacks (`CallbackCalls`) and from other threads.

A call in another thread is two steps, the test of `state_` (`UserTest`) and what
follows it (`UserAct`: the store of `Shutdown()`, the push), with any steps of the loops
in between. A store that overwrites `kDisconnected` is remembered in `revived`: from
there on a queued `SendInLoop` passes its test, may put the channel back into epoll
(`src/tcp_connection.cpp:227-228`), the next `EPOLLHUP` makes a second `HandleClose`,
with a second DOWN callback and a second `ConnectDestroyed`. The model has these
behaviours; `RemovedForGood`, `DestroyedOnce` and `ImplementsSessions` except the
revived connections by name, and no others.

Data is left out: `SendInLoop` and `HandleWrite` may or may not leave something in
`output_buffer_`, so they change the channel's interest or not; a client that has
closed makes its channel readable, or hung up when nothing but `EPOLLOUT` is asked
for. `ShutdownInLoop` sends FIN, which shows in nothing the module keeps.

### Buffer

`b` is the record `[mem, reader, writer]`. The k-th byte ever put in is the
number k, so that loss, repetition and reordering are visible; bytes of the
vector nobody wrote are 0. `ReadFd` is modelled with its split between the
vector and the stack buffer, and with the limit `readv` has. `TakeOut` covers
the functions that hand bytes over, with lengths up to what is readable.

### EventLoopThreadPool

`cpc` is the position of the creator, the thread that calls `SetThreadNum`,
`Start`, `GetNextLoop` and at last the destructor; `cur` is the `EventLoopThread`
it is busy with. `th[i]` is the i-th `EventLoopThread` with its thread: the
thread's position from the lambda in `Thread::Start` through `ThreadFunc` and
`Loop()` to the end, the promise (`ready`), `tid_`, `loop_`, the mutex, whether
the `EventLoopThread` and the `EventLoop` on the thread's stack exist, `quit_`
and the eventfd. The condition variable may wake up without a reason
(`SpuriousWakeup`). The destructor reads `loop_` without the mutex
(`Destructor`); since the build may read it again for the call, a pointer that
has been cleared in between is an outcome of its own (`DestructorQuitsNull`).
`Quit()` is two steps, the store and the wakeup. A use of something that no
longer exists is recorded in `faults`. Callbacks and functors may call `Quit()` on
their own loop; `selfQuit` remembers which did.

## 3. Runs

| Run | Shows | Instance |
|---|---|---|
| `event_loop` | `NoLostWakeup`, `QuitWakesPoll`, `ImplementsTaskQueue`, `QueuedFunctorRuns`, `QuitStopsLoop`, `TypeOK` | 2 threads, 3 functors, eventfd limit 2; 103,300 states |
| `event_loop_early_quit` | violation of `EveryQuitStops` | 1 thread |
| `epoll_poller` | `AllViewsAgree`, `ActiveStaysRegistered`, `ReadyIsServed`, `TypeOK` | 2 channels, list of 1; 457,200 states |
| `tcp_connection` | `StreamIntegrity`, `WriteInterest`, `NoTruncation`, `ClosedForGood`, `StaleEventsIgnored`, `DroppedAfterClose`, `TypeOK` | 2 messages of 1 other thread and 1 of the loop thread, of 2 units each, send buffer of 1, high water mark 3, the peer sends once; 1,153,522 states |
| `tcp_connection_live` | `OutputDrains`, `GracefulShutdown`, `PeerGoneIsNoticed` | 1 message each; 285,579 states |
| `tcp_connection_late_shutdown` | violation of `NoWriteAfterClose` | `Shutdown` in another thread |
| `tcp_connection_early_fin` | violation of `SentBeforeShutdown` | `Send`, `Shutdown` in another thread |
| `tcp_server` | `NoDanglingConnection`, `RemovedForGood`, `DestroyedOnce`, `EndReported`, `ImplementsSessions`, `ClientsAreServed`, `ServerStops`, `TypeOK` | 2 clients, no or 1 sub loop, 1 or 2 descriptors, 1 connection the application uses, 1 call of another thread at a time between its steps; 276,778 states |
| `tcp_server_fd_leak` | violation of `FdReleased` | 1 client |
| `buffer` | `ImplementsByteQueue`, `GrowsOnlyWhenFull`, `TypeOK` | prepend 2, size 3, stack buffer 2, 7 bytes; 6,269 states |
| `event_loop_thread_pool` | `PublishedIsAlive`, `Balanced`, `UsableUntilQuit`, `JoinedBeforeFreed`, `StartReturns`, `DestructorEnds`, `TypeOK` | up to 2 threads, each loop handed out up to 3 times; 13,653 states |
| `event_loop_thread_pool_quit` | violation of `LoopOutlivesUse` | 1 thread |

Why the bounds are enough to see the interesting cases:

* `WakeupMax = 2` with two threads and the owner lets the counter reach its
  limit and a write fail. Three functors are one in the batch, one behind it
  and one that arrives meanwhile.
* An event list of 1 with two channels is full at once, is doubled, and leaves a
  ready channel out.
* A message of 2 units and a send buffer of 1 make every first write partial; a
  high water mark of 3 is crossed by the second message and not by the first.
* A prepend of 2, a vector of 3 and a stack buffer of 2 make every branch of
  `MakeSpace` and `ReadFd` reachable, including exactly-full and one more.
* Two clients are both on the main loop or both on a sub loop next to it; with one
  descriptor the second client meets `EMFILE`, with two it does not. The application
  uses one of them. One call between its steps at a time is enough for the late
  store of `Shutdown()`: its test, the close, the store, and a `Send` that was queued
  before. That connections are dealt out to several sub loops in turn is
  `EventLoopThreadPool`'s `Balanced`; that they do not disturb each other is part of
  the proof, which is for any number of loops, clients and calls.
* Two threads let one end while the other is still to be stopped, and three
  turns each take `next_` round `loops_` three times.

`MaxSends`, `MaxReceives`, `MaxBytes` and `MaxLen` only bound how much the
environment asks for. The connection's runs do not check for deadlock, since a
connection whose callers are done and whose peer is silent rightly does nothing; nor do the pool's, which end with
the destructor (and, when a loop was told to quit before `Loop()`, in a `Join()`
that hangs, which is the first disagreement below). The server's run does: it may
stop only when the main loop has been destroyed, or in that same `Join()`.

Some properties say less than one might wish, because the code does less:

* `NoLostWakeup` excludes functors the owner queues before `Loop()`, which get no
  wakeup (`src/event_loop.cpp:106`) and wait for the first event or the timeout.
* `QuitStopsLoop` and `ServerStops` are about a `Quit()` that comes when `Loop()` has
  reset `quit_`: between `looping_ = true` and the reset, as before `Loop()`, it is lost.
* `RemovedForGood`, `DestroyedOnce` and `ImplementsSessions` leave out what happens to a
  connection after a `Shutdown()` of another thread has overwritten `kDisconnected`.
* `ClientsAreServed` lets a client wait while `accept` meets `EMFILE`.
* `EndReported` names the two cases in which an application that was told UP is
  never told DOWN: `ConnectDestroyed` finds `kDisconnecting`
  (`src/tcp_connection.cpp:57`), or its functor was queued behind the last
  `DoPendingFunctors` of its loop and is destroyed unrun.
* `NoDanglingConnection` holds only because a connection owns itself. The mutant
  that breaks the cycle, and changes nothing else, makes the functors that capture
  `this` run on a connection that is gone: whoever repairs the leak below has to
  repair these too.

**Fairness.** Liveness assumes that the scheduler runs every thread that can
run and that user callbacks return: weak fairness of the loop thread's own steps
and of each thread that is inside a call. The loop is never helped by the 10 s
poll timeout or by traffic. For connections also that the main loop runs its
queue and that a peer that has not reset the connection goes on reading, without
which output rightly waits. Nobody is obliged to call anything.
For the server: each loop's thread, and the main thread inside the destructor; the
application may stay outside `Loop()` for ever, a call of another thread may stop
between its steps, and clients and their traffic owe nothing (`PollTraffic` and
`CallbackCalls` are not fair).
For the pool: the creator inside `Start` and inside the destructor, and each
thread; not spurious wakeups, traffic or a self-quit.

### Where the code and its documentation disagree

1. `event_loop_early_quit`: `Loop()` resets `quit_` (`src/event_loop.cpp:53`), so
   a `Quit()` before it is lost. `EventLoopThread` publishes its loop before it
   calls `Loop()`, so its destructor can meet this case and hang in `Join()`.
2. `tcp_connection_late_shutdown`: `Shutdown()` in another thread tests `state_`
   and stores it in two steps (`src/tcp_connection.cpp:247-248`). If
   `HandleClose` comes between, `kDisconnected` is overwritten, and a queued send
   is written after the DOWN callback. In `TcpServer` the same store lets the
   connection be closed and destroyed a second time (`revived`).
3. `tcp_connection_early_fin`: `Shutdown()` makes `kDisconnecting` visible at
   once, while the same thread's earlier `Send` is still queued; a `HandleWrite`
   in between sends FIN (`src/tcp_connection.cpp:99`) and the message is lost.
4. `event_loop_thread_pool_quit`: `~EventLoopThread` calls `Quit()`
   (`src/event_loop_thread.cpp:16`), which stores `quit_` and then still uses the
   loop; in between the thread can leave `Loop()` and `ThreadFunc` and destroy
   it. The comment at line 45 takes the loop to be alive throughout.
5. `tcp_server_fd_leak`: `NewConnection` gives a connection a `close_callback_`
   that holds a `shared_ptr` to the same connection (`src/tcp_server.cpp:76-77`),
   and nothing resets it. A connection that was removed and that nobody else refers
   to is never destroyed, so its `Socket` never closes the descriptor, and the
   process ends at `EMFILE`. The header of `Socket` says that it closes its fd.

## 4. Proofs

All are checked by TLAPS with SMT, Zenon and, for the temporal steps, LS4. They
hold for every value of the constants; the assumptions are the `ASSUME`s of the
modules, which say that limits and sizes are natural numbers (positive where
zero makes no sense) and that the set of channels is finite. Every invariant,
action property and refinement that a passing run checks is also a theorem.

**EventLoopProofs** (`TypeCorrect`, `WakeupNeverLost`, `QuitNeverMissed`,
`LoopImplementsTaskQueue`). `NoLostWakeup` speaks of the moment the owner is in
`epoll_wait`, so it is not inductive. `IInv` adds

* `BatchInv`: where `functors` can be non-empty and where
  `calling_pending_functors_` is set, as functions of the owner's position;
* `WakeInv`: wherever the owner may be between two swaps, what is pending is
  either signalled, or was queued by the owner at a point after which a swap
  comes before the next poll, or was queued before `Loop()`.

Each step of the proof is one group of actions. The refinement follows from
`BatchInv`: the abstract queue is `functors \o pending`, a swap happens only
when `functors` is empty and so changes nothing, a push appends at the end and a
run takes the head.

**ChannelProofs** holds lemmas only: each call on a channel keeps its record's type
and the agreement of its three views (`CallAgrees`, `RemoveAgrees`), does to
`events_` what its name says (`CallEvents`), and takes the fd into or out of epoll
(`EntersEpoll`, `LeavesEpoll`).

**EpollPollerProofs** (`TypeCorrect`, `ViewsAlwaysAgree`, `ActiveAlwaysRegistered`)
rests on them. A channel reported by `epoll_wait` is in the interest list, hence in
`channels_`; no removal happens while `active` is not empty (`ActiveInPhase`).

**BufferProofs** (`TypeCorrect`, `BufferImplementsByteQueue`, `GrowthIsNeeded`).
`TypeOK` with the order of the indices is inductive as it stands. The refinement
rests on lemmas about the operators: `EnsureWritableBytes` keeps the content and
makes the room (`EnsureKeeps`), filling the writable bytes joins data to the
content (`FilledJoins`), so do `Append` and `ReadFd` (`AppendJoins`,
`ReadFdJoins`), and `Retrieve` drops a prefix (`RetrieveDrops`). They are about
sequences index by index; no induction is needed.

**EventLoopThreadPoolProofs** (`TypeCorrect`, `PublishedIsAliveCorrect`, `BalancedCorrect`,
`UsableUntilQuitCorrect`, `JoinedBeforeFreedCorrect`). `IInv` adds to the types
what a thread's position says about its flags (`PositionInv`), where the creator
is in the pool (`CreatorInv`), which threads have started and published
(`StartedInv`), and that `next_` divides `loops_` into the loops that have had
this round's turn, all equally often, and the others, all once less
(`RoundInv`). The thirteen actions of a thread are first shown to be instances of
one kind of step (`ThreadSteps`), which is then enough for every invariant. The
last two theorems add `StoppedInv` (a loop that was told to quit or has ended was
told by the destructor or by its own callback) and `ObjectInv` (the creator frees
an `EventLoopThread` whose loop did not quit by itself only when its thread is
gone): a loop nobody has stopped is running, so the destructor finds `loop_` set
and does join. For a loop that quits by itself the exception is needed, since
the destructor may find `loop_` cleared and free the members while the thread is
still in `ThreadFunc`.

**TcpConnectionProofs** (`TypeCorrect`, `WriteInterestCorrect`, `NoTruncationCorrect`,
`StreamIntegrityCorrect`). The first three come from one invariant, `DataInv`: none of them is inductive alone, since
`SendInLoop` and `HandleWrite` choose what to do by the channel's interest, and FIN
is withheld by it; `MessageInv` adds that queued sends carry real messages. What
`SendInLoop` and `HandleWrite` do, whichever of their branches is taken and however
much `write` takes, is stated once (`SendEffect`, `WriteEffect`), and the actions
cite it. The byte stream, `wire` followed by `output_buffer_`, changes in one way
only: a whole message is put behind it (`MovePrefix`: a partial write moves bytes
from the one to the other). For it to be in order, the messages of a thread must be
so all along their way: those in the stream before those in the queue before the
one it is about to queue. That is `OrderInv`; it is kept because functors enter the
queue at its end and leave it at its head (`QueueMoves`, `OrderKept`, `JoinMessage`).

**TcpConnectionEndProofs** (`ClosedForGoodCorrect`, `StaleEventsIgnoredCorrect`,
`DroppedAfterCloseCorrect`).
`CloseInv` adds to `DataInv` why a connection ends once: in the order of
`HandleEventWithGuard` at most one callback that may end the connection is to come,
and the channel is in epoll when it is (`TodoInv`); nothing touches the connection
before `ConnectEstablished`, which is the first functor (`StartInv`); once it is down
its state, its channel and the callbacks still to come are harmless (`EndInv`). Like
the properties, `EndInv` is about connections that only the loop thread shuts down:
the run `tcp_connection_late_shutdown` shows that it is false without that.
`StaleEventsIgnored` needs no such restriction: it follows from `TodoInv` and from
`LiveInv`: a channel that is out of epoll while callbacks are still to come asks for
nothing, whatever other threads store to `state_`.

**TcpServerProofs** (`TypeCorrect`, `NoDanglingConnectionCorrect`,
`RemovedForGoodCorrect`, `DestroyedOnceCorrect`, `EndReportedCorrect`,
`ImplementsSessionsCorrect`). `BaseInv` has the types, the agreement of the channels,
and which loops run in which phase of the server (`LifeInv`): for instance that a sub
loop is told to quit only when `connections_` is empty. On it stands one invariant
per connection, `ConnInv`. It is written in terms of `Pending(l)`, what loop `l` has
still to run: the rest of its batch followed by its queue, so that the swap of
`DoPendingFunctors` changes nothing, a push appends and a run takes the head.
Three parts hold for every connection:

* `FreshInv`: a connection that is not accepted yet is nowhere, and other threads call
  only one that was reported up;
* `PlaceInv`: functors and active channels are on the connection's own loop, but for
  removals, which are on the main loop and are for connections of other loops;
* `LeavingInv`: no connection has left `connections_` without its `ConnectDestroyed`.

The others, together `SteadyInv`, hold until a late store revives the connection; from
then on there is only `RevivedInv`, that it had been reported down:

* `StatusInv`: what the application was told goes with `state_` and with epoll;
* `ReportedInv`: a channel that is about to be handled is in epoll, or has nothing to
  write any more;
* `UpInv`: `ConnectEstablished` is queued once at most and before `ConnectDestroyed`,
  so UP comes before DOWN even when the destructor overtakes an accepted connection;
* `RemovalInv`: while the server is up, a closing connection's removal is queued once
  and finds it in `connections_`;
* `DownInv`: `ConnectDestroyed` is queued once at most, and only for a connection that
  has left `connections_`;
* `SendInv`: a queued `Send` is before `ConnectDestroyed`, or finds `kDisconnected`, or
  is on a main loop that does not run again.

`DestroyedOnce` is the count that `DownInv` and `LeavingInv` imply; by itself it is not
inductive, since it does not say why a removal that is still queued will not queue a
second `ConnectDestroyed`. `RemovedForGood` needs `SendInv` and `ReportedInv` in the same
way. A step concerns one connection or none: what it does to that one is a lemma per
operation (`AcceptConn`, `EstablishConn`, `CloseConn`, `RemoveConn`, `DestroyConn`,
`DropConn`, `DiscardConn`, `ActConn`), and every other connection keeps its invariant by
one lemma, `Bystander`. The refinement follows step by step from the invariant
(`SessionsNext`): `HandleClose` and a reporting `ConnectDestroyed` are `Down`,
`NewConnection` is `Accept` or `AcceptUp`, a run of `ConnectEstablished` is `Up`, the
store of a late `Shutdown` is `Revive`, everything else is a stutter, `Serve` or `Stop`.
`NoDanglingConnection` needs of `ConnInv` that whatever a loop comes to was accepted,
and of the code that a connection owns itself (section 3).

Only model-checked: the liveness properties (fairness is out of this prover's
reach): `QueuedFunctorRuns`, `QuitStopsLoop`, `ReadyIsServed`, `OutputDrains`,
`GracefulShutdown`, `PeerGoneIsNoticed`, `StartReturns`, `DestructorEnds`,
`ClientsAreServed`, `ServerStops`; and the five disagreements, which
are counterexamples.

## 5. Not modelled

* `Send(Buffer*)` from another thread: the functor reads and empties the caller's
  `Buffer` later, without synchronisation and without a claim on its lifetime
  (`src/tcp_connection.cpp:178`). Every property of it would be one about the
  caller's discipline, which nothing in the repository states.
* SIGPIPE, which the library does not ignore: a process that does not either ends
  at its first write to a connection that was reset.
* A removal functor that runs when the server is gone (`src/tcp_server.cpp:88`
  captures `this`): the application of the model does not run the main loop again.
* `bind`, the socket options, and addresses: a server that cannot bind ends in
  `LOG_FATAL` before anything the model has.
* `Channel::Tie` beyond what `TcpServer` needs: since a connection owns itself, the
  `weak_ptr` is never found expired.
* `FindCRLF`, `ToString`, `HasChannel`, `GetAllLoops`: they change nothing.
* `InetAddress`, `Timestamp`, `Logger`, `CurrentThread`, the type aliases and the
  echo example: formatting, system calls and output without state of their own.
* Allocation failure, and errors of system calls the code does not look at.

## 6. Plan

Done: all the components of section 2 modelled, with safety and liveness runs, the
abstract specifications `TaskQueue`, `ByteQueue` and `Sessions`, and proofs of every
safety property and refinement of the passing runs.

Next:

1. The safety steps that liveness rests on and that can be stated without fairness:
   which condition each waiting thread is left with a step for (for `DestructorEnds`
   and `ServerStops`).
2. Shorter proofs of `TcpServer`: the lemmas about `Has`, `Once` and `Before` are about
   any sequences and might serve `TcpConnectionProofs` too.
