----------------------------- MODULE TcpServer -----------------------------
(***************************************************************************)
(* A TcpServer with its Acceptor, its sub loops and its connections, from  *)
(* the constructor to the end of the destructor.                           *)
(*                                                                         *)
(* The main thread sets the server up, runs the main loop, and destroys    *)
(* the server while it is outside Loop(); each sub loop has a thread.  A   *)
(* loop polls, handles the active channels in any order and runs the       *)
(* functors it swapped out.  That a queued functor or Quit() ends the wait *)
(* of the poll is what EventLoop shows, and what a connection does with    *)
(* its data belongs to TcpConnection: here a connection is its state, its  *)
(* channel and the references that keep it alive, and its output comes and *)
(* goes as it likes.                                                       *)
(*                                                                         *)
(* Clients are numbered in the order in which they connect, which is the   *)
(* order in which accept returns them and next_conn_id_ names them.  The   *)
(* application may call Send and Shutdown from the callbacks, and may keep *)
(* a TcpConnectionPtr from the UP callback and call them in other threads; *)
(* it stops doing so before it destroys the server.                        *)
(***************************************************************************)
EXTENDS Naturals, Sequences, FiniteSets, Channel

CONSTANTS
    MaxClients,     \* clients that ever connect
    Used,           \* connections the application calls Send and Shutdown on
    MaxCalls,       \* calls of other threads under way on a connection at a time
    MaxThreads,     \* the largest argument of SetThreadNum
    MaxFds          \* the most descriptors a process has for connections

ASSUME ServerAssumption ==
    /\ {MaxClients, MaxCalls, MaxThreads, MaxFds} \subseteq Nat
    /\ Used \subseteq 1..MaxClients

Main     == 0
SubLoops == 1..MaxThreads
Loops    == 0..MaxThreads
Conns    == 1..MaxClients
Listener == 0           \* accept_channel_ in active_channels_

VARIABLES
    \* TcpServer, its thread pool and its Acceptor
    spc,            \* the server: "up", "closing" (in its destructor) or "gone"
    started,        \* started_ is not 0
    numThreads,     \* num_threads_
    next,           \* next_ of the thread pool
    nextConnId,     \* next_conn_id_
    connections,    \* connections_
    ach,            \* accept_channel_
    listening,      \* listenning_, and the socket is open
    fdLimit,        \* descriptors this process has for connections
    told,           \* how many of its threads' loops the destructor has told to quit
    \* the loops
    lpc,            \* see LoopPC
    quit,           \* quit_
    queue,          \* pending_functors_
    batch,          \* the functors DoPendingFunctors has swapped out
    pos,            \* how many of those have run
    active,         \* active_channels_ with a close, or a client, still to be handled
    writable,       \* those that were also, or only, reported writable
    \* the connections
    state,          \* state_
    ch,             \* channel_
    loopOf,         \* loop_
    userRef,        \* the application holds a TcpConnectionPtr
    inCall,         \* calls of other threads that have tested state_
    peer,           \* the client: "none", "open" or "closed"
    \* history
    calls,          \* calls of connection_callback_
    fate,           \* ConnectDestroyed: "due", "run" or, its functor, "lost"
    revived         \* connections whose kDisconnected a Shutdown has overwritten

serverVars == <<spc, started, numThreads, next, nextConnId, ach, listening, fdLimit,
                told>>
loopVars   == <<lpc, quit, batch, pos, active, writable>>
connVars   == <<state, ch, userRef, calls, fate>>
userVars   == <<inCall, revived>>
vars == <<serverVars, connections, loopVars, queue, connVars, userVars, loopOf,
          peer>>

\* Where a loop's thread is: not started, outside Loop(), about to enter it,
\* or inside, in epoll_wait, HandleEvent or DoPendingFunctors.
LoopPC == {"none", "out", "entering", "poll", "events", "batch", "gone"}

UserOps == {"send", "shutdown"}
FunctorOps == {"established", "destroyed", "removal"} \cup UserOps
Functors == [op : FunctorOps, conn : Conns]
Functor(op, c) == [op |-> op, conn |-> c]

TypeOK ==
    /\ spc \in {"up", "closing", "gone"}
    /\ started \in BOOLEAN
    /\ numThreads \in 0..MaxThreads
    /\ next = 0 \/ next \in 1..(numThreads - 1)
    /\ nextConnId \in 1..(MaxClients + 1)
    /\ connections \in SUBSET Conns
    /\ ach \in ChannelState
    /\ listening \in BOOLEAN
    /\ fdLimit \in 1..MaxFds
    /\ lpc \in [Loops -> LoopPC]
    /\ quit \in [Loops -> BOOLEAN]
    /\ queue \in [Loops -> Seq(Functors)]
    /\ batch \in [Loops -> Seq(Functors)]
    /\ \A l \in Loops : pos[l] \in 0..Len(batch[l])
    /\ active \in [Loops -> SUBSET (Conns \cup {Listener})]
    /\ writable \in [Loops -> SUBSET Conns]
    /\ told \in 0..numThreads
    /\ state \in [Conns -> {"kConnecting", "kConnected", "kDisconnecting", "kDisconnected"}]
    /\ ch \in [Conns -> ChannelState]
    /\ loopOf \in [Conns -> Loops]
    /\ userRef \in [Conns -> BOOLEAN]
    /\ inCall \in [Conns -> SUBSET UserOps]
    /\ peer \in [Conns -> {"none", "open", "closed"}]
    /\ calls \in [Conns -> Seq({"up", "down"})]
    /\ fate \in [Conns -> {"due", "run", "lost"}]
    /\ revived \in SUBSET Conns

\* The constructors of TcpServer, Acceptor and EventLoopThreadPool.
Init ==
    /\ spc = "up"
    /\ started = FALSE
    /\ numThreads = 0
    /\ next = 0
    /\ nextConnId = 1
    /\ connections = {}
    /\ ach = NewChannel
    /\ listening = FALSE
    /\ fdLimit \in 1..MaxFds
    /\ lpc = [l \in Loops |-> IF l = Main THEN "out" ELSE "none"]
    /\ quit = [l \in Loops |-> FALSE]
    /\ queue = [l \in Loops |-> <<>>]
    /\ batch = [l \in Loops |-> <<>>]
    /\ pos = [l \in Loops |-> 0]
    /\ active = [l \in Loops |-> {}]
    /\ writable = [l \in Loops |-> {}]
    /\ told = 0
    /\ state = [c \in Conns |-> "kConnecting"]
    /\ ch = [c \in Conns |-> NewChannel]
    /\ loopOf = [c \in Conns |-> Main]
    /\ userRef = [c \in Conns |-> FALSE]
    /\ inCall = [c \in Conns |-> {}]
    /\ peer = [c \in Conns |-> "none"]
    /\ calls = [c \in Conns |-> <<>>]
    /\ fate = [c \in Conns |-> "due"]
    /\ revived = {}

-----------------------------------------------------------------------------
(* References and descriptors                                              *)

Accepted(c) == c < nextConnId

NoSelfReference(c) == FALSE
\* close_callback_ of a connection is a lambda that NewConnection gave a
\* copy of conn_ptr, and nothing ever resets it.
SelfReference(c) == Accepted(c)

\* The functors a loop holds: DoPendingFunctors destroys those it has run
\* when it returns.
Held(l) == {queue[l][i] : i \in 1..Len(queue[l])} \cup {batch[l][i] : i \in 1..Len(batch[l])}

\* The owners of the connection's shared_ptr.  The functors of Send and
\* Shutdown capture this and own nothing.
Owned(c) ==
    \/ c \in connections
    \/ userRef[c]
    \/ \E l \in Loops : \E f \in Held(l) : f.conn = c /\ f.op \notin UserOps

Alive(c) == Owned(c) \/ SelfReference(c)

\* ~Socket closes the descriptor with its connection.
OpenFds == {c \in Conns : Alive(c)}

OutOfFds == Cardinality(OpenFds) >= fdLimit

-----------------------------------------------------------------------------
(* The operations of TcpConnection                                         *)

ConnectEstablished(c) ==
    /\ state' = [state EXCEPT ![c] = "kConnected"]
    /\ ch' = [ch EXCEPT ![c] = EnableReading(ch[c])]
    /\ calls' = [calls EXCEPT ![c] = Append(@, "up")]
    /\ \E keep \in BOOLEAN : (keep => c \in Used) /\ userRef' = [userRef EXCEPT ![c] = keep]
    /\ UNCHANGED fate

ConnectDestroyedReports(c) ==
    /\ state' = [state EXCEPT ![c] = "kDisconnected"]
    /\ ch' = [ch EXCEPT ![c] = RemoveChannel(DisableAll(ch[c]))]
    /\ calls' = [calls EXCEPT ![c] = Append(@, "down")]
    /\ fate' = [fate EXCEPT ![c] = "run"]
    /\ UNCHANGED userRef

ConnectDestroyedSilent(c) ==
    /\ ch' = [ch EXCEPT ![c] = RemoveChannel(ch[c])]
    /\ fate' = [fate EXCEPT ![c] = "run"]
    /\ UNCHANGED <<state, calls, userRef>>

\* One step: the test of state_ holds in the destructor only, when no other
\* thread calls Shutdown any more.
ConnectDestroyed(c) ==
    LET connected == state[c] = "kConnected"
        chan      == ch[c]
    IN  /\ state' = IF connected THEN [state EXCEPT ![c] = "kDisconnected"] ELSE state
        /\ ch' = [ch EXCEPT ![c] =
                    RemoveChannel(IF connected THEN DisableAll(chan) ELSE chan)]
        /\ calls' = IF connected THEN [calls EXCEPT ![c] = Append(@, "down")] ELSE calls
        /\ fate' = [fate EXCEPT ![c] = "run"]
        /\ UNCHANGED userRef

SendInLoopUntested(c) ==
    \/ UNCHANGED ch
    \/ /\ ~IsWriting(ch[c])
       /\ ch' = [ch EXCEPT ![c] = EnableWriting(ch[c])]

\* SendInLoop: the data, or some of it, may have to wait in output_buffer_.
SendInLoop(c) ==
    \/ UNCHANGED ch
    \/ /\ state[c] # "kDisconnected" /\ ~IsWriting(ch[c])
       /\ ch' = [ch EXCEPT ![c] = EnableWriting(ch[c])]

\* HandleWrite: it may write all of output_buffer_.
HandleWrite(c) ==
    \/ UNCHANGED ch
    \/ /\ IsWriting(ch[c])
       /\ ch' = [ch EXCEPT ![c] = DisableWriting(ch[c])]

-----------------------------------------------------------------------------
(* The operations of TcpServer                                             *)

Push(l, f) == queue' = [queue EXCEPT ![l] = Append(@, f)]

RemoveKeepsEntry(c) ==
    /\ connections' = connections
    /\ Push(loopOf[c], Functor("destroyed", c))

RemoveConnectionInLoop(c) ==
    /\ connections' = connections \ {c}
    /\ Push(loopOf[c], Functor("destroyed", c))

RemoveNothing(c) == UNCHANGED <<connections, queue>>

\* RunInLoop on the main loop, called by the thread of the connection.
RemoveConnection(c) ==
    IF loopOf[c] = Main
    THEN RemoveConnectionInLoop(c)
    ELSE Push(Main, Functor("removal", c)) /\ UNCHANGED connections

HandleClose(c) ==
    /\ state' = [state EXCEPT ![c] = "kDisconnected"]
    /\ ch' = [ch EXCEPT ![c] = DisableAll(ch[c])]
    /\ calls' = [calls EXCEPT ![c] = Append(@, "down")]
    /\ RemoveConnection(c)
    /\ UNCHANGED <<userRef, fate>>

\* EventLoopThreadPool::GetNextLoop
NextLoop == IF numThreads = 0 THEN Main ELSE next + 1
NextIndexTooFar == IF next + 1 > numThreads THEN 0 ELSE next + 1
NextIndex == IF next + 1 >= numThreads THEN 0 ELSE next + 1

NewConnection(c) ==
    /\ next' = IF numThreads = 0 THEN next ELSE NextIndex
    /\ nextConnId' = nextConnId + 1
    /\ loopOf' = [loopOf EXCEPT ![c] = NextLoop]
    /\ connections' = connections \cup {c}
    /\ IF NextLoop = Main
       THEN ConnectEstablished(c) /\ UNCHANGED queue
       ELSE Push(NextLoop, Functor("established", c)) /\ UNCHANGED connVars

-----------------------------------------------------------------------------
(* Setting the server up, in the main thread                               *)

SetThreadNum ==
    /\ lpc[Main] = "out" /\ spc = "up" /\ ~started
    /\ \E n \in 0..MaxThreads : numThreads' = n
    /\ UNCHANGED <<spc, started, next, nextConnId, ach, listening, fdLimit, told,
                   connections, loopVars, queue, connVars, userVars, loopOf, peer>>

\* Acceptor::Listen
Listen ==
    /\ listening' = TRUE
    /\ ach' = EnableReading(ach)

\* Start: the threads of the sub loops have published their loops and are
\* about to enter Loop(); Listen runs at once in this thread.  Only the first
\* call does anything.
Start ==
    /\ lpc[Main] = "out" /\ spc = "up"
    /\ started' = TRUE
    /\ IF ~started
       THEN /\ lpc' = [l \in Loops |-> IF l \in 1..numThreads THEN "entering" ELSE lpc[l]]
            /\ Listen
       ELSE UNCHANGED <<lpc, ach, listening>>
    /\ UNCHANGED <<spc, numThreads, next, nextConnId, fdLimit, told, connections,
                   quit, batch, pos, active, writable, queue, connVars, userVars,
                   loopOf, peer>>

\* Loop l enters Loop(), which resets quit_.
Enter(l) ==
    /\ lpc' = [lpc EXCEPT ![l] = "poll"]
    /\ quit' = [quit EXCEPT ![l] = FALSE]
    /\ UNCHANGED <<serverVars, connections, batch, pos, active, writable, queue,
                   connVars, userVars, loopOf, peer>>

\* The main thread calls Loop().
EnterLoop ==
    /\ lpc[Main] = "out" /\ spc = "up"
    /\ started
    /\ Enter(Main)

\* The application calls Quit() on the main loop.
QuitMain ==
    /\ lpc[Main] \in {"poll", "events", "batch"}
    /\ ~quit[Main]
    /\ quit' = [quit EXCEPT ![Main] = TRUE]
    /\ UNCHANGED <<serverVars, connections, lpc, batch, pos, active, writable, queue,
                   connVars, userVars, loopOf, peer>>

-----------------------------------------------------------------------------
(* The loops                                                               *)

\* ThreadFunc comes to Loop().
EnterSub(l) == lpc[l] = "entering" /\ Enter(l)

\* Clients whose connection waits to be accepted.
Backlog == {c \in Conns : peer[c] # "none" /\ ~Accepted(c)}

\* The channels of loop l that epoll reports because a client has closed or
\* has come, ...
Ready(l) ==
    {c \in Conns :
        /\ Accepted(c) /\ loopOf[c] = l
        /\ Revents(ch[c], IF peer[c] = "closed" THEN {"in"} ELSE {}) # {}}
    \cup {k \in {Listener} :
        l = Main /\ Revents(ach, IF Backlog # {} THEN {"in"} ELSE {}) # {}}

\* ... those it may report for EPOLLHUP, which a closed client may cause ...
MayHangUp(l) ==
    {c \in Conns :
        /\ Accepted(c) /\ loopOf[c] = l
        /\ ch[c].added /\ "in" \notin ch[c].mask /\ peer[c] = "closed"}

\* ... and those with room in their send buffers, perhaps.
MayWrite(l) ==
    {c \in Conns : Accepted(c) /\ loopOf[c] = l /\ Revents(ch[c], {"out"}) # {}}

\* QueueInLoop or Quit has written to the loop's wakeup_fd_.
Woken(l) == queue[l] # <<>> \/ quit[l]

PollReturns(l) ==
    /\ lpc[l] = "poll"
    /\ \E h \in SUBSET MayHangUp(l) : active' = [active EXCEPT ![l] = Ready(l) \cup h]
    /\ \E w \in SUBSET MayWrite(l) : writable' = [writable EXCEPT ![l] = w]
    /\ lpc' = [lpc EXCEPT ![l] = "events"]
    /\ UNCHANGED <<serverVars, connections, quit, batch, pos, queue, connVars,
                   userVars, loopOf, peer>>

Poll(l) ==
    /\ Ready(l) # {} \/ Woken(l)
    /\ PollReturns(l)

\* epoll_wait returns for traffic that need not come.
PollTraffic(l) ==
    /\ Ready(l) = {} /\ ~Woken(l)
    /\ \E c \in Conns : Accepted(c) /\ loopOf[c] = l /\ ch[c].added
    /\ PollReturns(l)

\* Channel::HandleEvent comes to channel k of active_channels_.
Event(l, k) ==
    /\ lpc[l] = "events"
    /\ k \in active[l]
    /\ active' = [active EXCEPT ![l] = @ \ {k}]
    /\ UNCHANGED <<lpc, quit, batch, pos, writable>>

\* HandleRead, or the close callback, of a connection whose client has closed.
ConnectionEvent(l) ==
    /\ \E c \in Conns : Event(l, c) /\ HandleClose(c)
    /\ UNCHANGED <<serverVars, userVars, loopOf, peer>>

\* The write callback, which HandleEventWithGuard makes last.
WriteEvent(l) ==
    /\ lpc[l] = "events"
    /\ \E c \in writable[l] \ active[l] :
         /\ writable' = [writable EXCEPT ![l] = @ \ {c}]
         /\ HandleWrite(c)
    /\ UNCHANGED <<serverVars, connections, lpc, quit, batch, pos, active, queue,
                   state, userRef, calls, fate, userVars, loopOf, peer>>

\* A message callback calls Send or Shutdown of its connection.
CallbackCalls(l) ==
    /\ lpc[l] = "events"
    /\ \E c \in Used :
         /\ loopOf[c] = l /\ state[c] = "kConnected"
         /\ \/ SendInLoop(c) /\ UNCHANGED state
            \/ state' = [state EXCEPT ![c] = "kDisconnecting"] /\ UNCHANGED ch
    /\ UNCHANGED <<serverVars, connections, loopVars, queue, userRef, calls, fate,
                   userVars, loopOf, peer>>

\* Acceptor::HandleRead with a descriptor left for the connection.
AcceptEvent(l) ==
    /\ Event(l, Listener)
    /\ ~OutOfFds
    /\ NewConnection(nextConnId)
    /\ UNCHANGED <<spc, started, numThreads, ach, listening, fdLimit, told, userVars,
                   peer>>

\* Acceptor::HandleRead when accept fails with EMFILE.
AcceptFails(l) ==
    /\ Event(l, Listener)
    /\ OutOfFds
    /\ UNCHANGED <<serverVars, connections, queue, connVars, userVars, loopOf, peer>>

\* DoPendingFunctors: the swap.
SwapFunctors(l) ==
    /\ lpc[l] = "events"
    /\ active[l] = {} /\ writable[l] = {}
    /\ batch' = [batch EXCEPT ![l] = queue[l]]
    /\ queue' = [queue EXCEPT ![l] = <<>>]
    /\ lpc' = [lpc EXCEPT ![l] = "batch"]
    /\ UNCHANGED <<serverVars, connections, quit, pos, active, writable, connVars,
                   userVars, loopOf, peer>>

\* DoPendingFunctors comes to a functor of kind op for connection c.
Run(l, op, c) ==
    /\ lpc[l] = "batch"
    /\ pos[l] < Len(batch[l])
    /\ batch[l][pos[l] + 1] = Functor(op, c)
    /\ pos' = [pos EXCEPT ![l] = @ + 1]
    /\ UNCHANGED <<lpc, quit, batch, active, writable>>

RunEstablished(l) ==
    /\ \E c \in Conns : Run(l, "established", c) /\ ConnectEstablished(c)
    /\ UNCHANGED <<serverVars, connections, queue, userVars, loopOf, peer>>

RunDestroyed(l) ==
    /\ \E c \in Conns : Run(l, "destroyed", c) /\ ConnectDestroyed(c)
    /\ UNCHANGED <<serverVars, connections, queue, userVars, loopOf, peer>>

RunRemoval(l) ==
    /\ \E c \in Conns : Run(l, "removal", c) /\ RemoveConnectionInLoop(c)
    /\ UNCHANGED <<serverVars, connVars, userVars, loopOf, peer>>

RunSend(l) ==
    /\ \E c \in Conns : Run(l, "send", c) /\ SendInLoop(c)
    /\ UNCHANGED <<serverVars, connections, queue, state, userRef, calls, fate,
                   userVars, loopOf, peer>>

\* ShutdownInLoop: nothing that shows here.
RunShutdown(l) ==
    /\ \E c \in Conns : Run(l, "shutdown", c)
    /\ UNCHANGED <<serverVars, connections, queue, connVars, userVars, loopOf, peer>>

\* Loop l ends and the functors it still holds are destroyed with it.
Discard(l) ==
    /\ queue' = [queue EXCEPT ![l] = <<>>]
    /\ fate' = [c \in Conns |->
                  IF /\ fate[c] = "due"
                     /\ Functor("destroyed", c) \in {queue[l][i] : i \in 1..Len(queue[l])}
                  THEN "lost" ELSE fate[c]]

SeesOwnQuit(l) == quit[l] /\ l = Main
\* while (!quit_), for a Quit() of any thread.
SeesQuit(l) == quit[l]

\* DoPendingFunctors returns and Loop() tests quit_.
BatchDone(l) ==
    /\ lpc[l] = "batch"
    /\ pos[l] = Len(batch[l])
    /\ batch' = [batch EXCEPT ![l] = <<>>]
    /\ pos' = [pos EXCEPT ![l] = 0]
    /\ lpc' = [lpc EXCEPT ![l] = CASE ~SeesQuit(l)            -> "poll"
                                   [] SeesQuit(l) /\ l = Main -> "out"
                                   [] SeesQuit(l) /\ l # Main -> "gone"]
    /\ IF SeesQuit(l) /\ l # Main THEN Discard(l) ELSE UNCHANGED <<queue, fate>>
    /\ UNCHANGED <<serverVars, connections, quit, active, writable, state, ch, userRef,
                   calls, userVars, loopOf, peer>>

LoopStep(l) ==
    \/ EnterSub(l) \/ Poll(l) \/ ConnectionEvent(l) \/ WriteEvent(l)
    \/ AcceptEvent(l) \/ AcceptFails(l)
    \/ SwapFunctors(l) \/ RunEstablished(l) \/ RunDestroyed(l) \/ RunRemoval(l)
    \/ RunSend(l) \/ RunShutdown(l) \/ BatchDone(l)

-----------------------------------------------------------------------------
(* The destructor, in the main thread outside Loop()                       *)

\* The application has stopped using the connections in other threads.
DestroyServer ==
    /\ lpc[Main] = "out" /\ spc = "up"
    /\ \A c \in Conns : inCall[c] = {}
    /\ spc' = "closing"
    /\ UNCHANGED <<started, numThreads, next, nextConnId, ach, listening, fdLimit,
                   told, connections, loopVars, queue, connVars, userVars, loopOf, peer>>

\* One turn of ~TcpServer's loop over connections_: RunInLoop on the
\* connection's loop.
DropConnection ==
    /\ spc = "closing"
    /\ \E c \in connections :
         /\ connections' = connections \ {c}
         /\ IF loopOf[c] = Main
            THEN ConnectDestroyed(c) /\ UNCHANGED queue
            ELSE Push(loopOf[c], Functor("destroyed", c)) /\ UNCHANGED connVars
    /\ UNCHANGED <<serverVars, loopVars, userVars, loopOf, peer>>

\* The sub loops that Start has started.
Started == IF started THEN 1..numThreads ELSE {}

\* thread_pool_ goes: ~EventLoopThread of each thread in turn, which calls
\* Quit() and waits for the thread.
QuitLoop ==
    /\ spc = "closing"
    /\ connections = {}
    /\ told + 1 \in Started
    /\ told > 0 => lpc[told] = "gone"
    /\ told' = told + 1
    /\ quit' = [quit EXCEPT ![told + 1] = TRUE]
    /\ UNCHANGED <<spc, started, numThreads, next, nextConnId, ach, listening, fdLimit,
                   connections, lpc, batch, pos, active, writable, queue, connVars,
                   userVars, loopOf, peer>>

\* acceptor_ goes, the last of the members that matter.
DestroyAcceptor ==
    /\ spc = "closing"
    /\ connections = {}
    /\ \A l \in SubLoops : lpc[l] \in {"none", "gone"}
    /\ ach' = RemoveChannel(DisableAll(ach))
    /\ listening' = FALSE
    /\ spc' = "gone"
    /\ UNCHANGED <<started, numThreads, next, nextConnId, fdLimit, told, connections,
                   loopVars, queue, connVars, userVars, loopOf, peer>>

Destructor == DropConnection \/ QuitLoop \/ DestroyAcceptor

\* The main loop, which outlives the server, is destroyed.
DestroyMainLoop ==
    /\ spc = "gone"
    /\ lpc[Main] = "out"
    /\ lpc' = [lpc EXCEPT ![Main] = "gone"]
    /\ Discard(Main)
    /\ UNCHANGED <<serverVars, connections, quit, batch, pos, active, writable, state,
                   ch, userRef, calls, userVars, loopOf, peer>>

-----------------------------------------------------------------------------
(* The clients and the application                                         *)

ClientConnects ==
    /\ listening
    /\ \E c \in Conns :
         /\ peer[c] = "none"
         /\ \A d \in Conns : d < c => peer[d] # "none"
         /\ peer' = [peer EXCEPT ![c] = "open"]
    /\ UNCHANGED <<serverVars, connections, loopVars, queue, connVars, userVars, loopOf>>

ClientCloses ==
    /\ \E c \in Conns :
         /\ peer[c] = "open"
         /\ peer' = [peer EXCEPT ![c] = "closed"]
    /\ UNCHANGED <<serverVars, connections, loopVars, queue, connVars, userVars, loopOf>>

\* A call of Send or Shutdown in a thread that is not the connection's finds
\* it up; at most one call of each kind is under way or queued at a time.
UserTest ==
    /\ spc = "up"
    /\ \E c \in Conns, op \in UserOps :
         /\ userRef[c] /\ state[c] = "kConnected"
         /\ op \notin inCall[c] /\ Functor(op, c) \notin Held(loopOf[c])
         /\ Cardinality(inCall[c]) < MaxCalls
         /\ inCall' = [inCall EXCEPT ![c] = @ \cup {op}]
    /\ UNCHANGED <<serverVars, connections, loopVars, queue, connVars, revived, loopOf,
                   peer>>

\* The call goes on, whatever the state is by now.  Shutdown stores
\* kDisconnecting; since ShutdownInLoop does nothing that shows here, the
\* push needs no step of its own.
UserAct ==
    /\ \E c \in Conns : \E op \in inCall[c] :
         /\ inCall' = [inCall EXCEPT ![c] = @ \ {op}]
         /\ Push(loopOf[c], Functor(op, c))
         /\ IF op = "shutdown"
            THEN /\ state' = [state EXCEPT ![c] = "kDisconnecting"]
                 /\ revived' = IF state[c] = "kDisconnected"
                               THEN revived \cup {c} ELSE revived
            ELSE UNCHANGED <<state, revived>>
    /\ UNCHANGED <<serverVars, connections, loopVars, ch, userRef, calls, fate,
                   loopOf, peer>>

UserDrops ==
    /\ \E c \in Conns :
         /\ userRef[c] /\ inCall[c] = {}
         /\ userRef' = [userRef EXCEPT ![c] = FALSE]
    /\ UNCHANGED <<serverVars, connections, loopVars, queue, state, ch, calls,
                   fate, userVars, loopOf, peer>>

\* A loop that was told to quit before it entered Loop() has forgotten it,
\* and the destructor waits for its thread.
JoinHangs ==
    /\ told > 0
    /\ lpc[told] \in {"poll", "events", "batch"} /\ ~quit[told]

\* The program has come to its end, or to that wait.
Stopped == (lpc[Main] = "gone" \/ JoinHangs) /\ UNCHANGED vars

-----------------------------------------------------------------------------
Next ==
    \/ SetThreadNum \/ Start \/ EnterLoop \/ QuitMain
    \/ \E l \in Loops : LoopStep(l) \/ PollTraffic(l) \/ CallbackCalls(l)
    \/ DestroyServer \/ Destructor \/ DestroyMainLoop
    \/ ClientConnects \/ ClientCloses \/ UserTest \/ UserAct \/ UserDrops
    \/ Stopped

Spec == Init /\ [][Next]_vars

(***************************************************************************)
(* The scheduler runs every loop's thread, and the main thread inside the  *)
(* destructor.  Nothing is assumed of the application, which may stay      *)
(* outside Loop() for ever, nor of the clients and their traffic.          *)
(***************************************************************************)
FairSpec ==
    /\ Spec
    /\ \A l \in Loops : WF_vars(LoopStep(l))
    /\ WF_vars(Destructor)

-----------------------------------------------------------------------------
(* Properties                                                              *)

\* The server as the application sees it, ...
phase ==
    CASE spc = "gone"             -> "gone"
      [] spc # "gone" /\ ~started -> "new"
      [] OTHER                    -> "serving"

\* ... and the callbacks of each connection.
session ==
    [c \in Conns |-> CASE ~Accepted(c)                   -> "none"
                       [] Accepted(c) /\ calls[c] = <<>> -> "accepted"
                       [] calls[c] = <<"up">>            -> "up"
                       [] c \in revived                  -> "revived"
                       [] calls[c] = <<"up", "down">> /\ c \notin revived -> "down"
                       [] OTHER                          -> "wrong"]

AbstractSessions == INSTANCE Sessions WITH Connections <- Conns

\* Whatever the order of closing clients, removals and the destructor, the
\* application is told UP once and then DOWN at most once, unless a Shutdown
\* of another thread revives the connection after that, and no thread calls
\* back once ~TcpServer has returned (ConnectEstablished, HandleClose,
\* ConnectDestroyed, Shutdown, ~TcpServer).
ImplementsSessions == AbstractSessions!Spec

\* No loop is about to use a connection that is gone: the connections of
\* queued functors, of those that capture this too, and of active channels
\* are alive (Send, Shutdown, RemoveConnectionInLoop, HandleEvent).
NoDanglingConnection ==
    \A l \in Loops :
        /\ \A i \in 1..Len(queue[l]) : Alive(queue[l][i].conn)
        /\ \A i \in 1..Len(batch[l]) : i > pos[l] => Alive(batch[l][i].conn)
        /\ \A c \in (active[l] \ {Listener}) \cup writable[l] : Alive(c)

\* Once ConnectDestroyed has run, the connection's channel stays out of
\* epoll: neither the Send of another thread that found the connection up
\* before, nor a write event, brings it back, unless a Shutdown of another
\* thread has overwritten kDisconnected (ConnectDestroyed, SendInLoop,
\* HandleWrite, ~TcpServer).
RemovedForGood ==
    \A c \in Conns \ revived : fate[c] = "run" => ~ch[c].added

DestroyPending(c) ==
    LET here(s) == Cardinality({i \in 1..Len(s) : s[i] = Functor("destroyed", c)})
        rest(l) == SubSeq(batch[l], pos[l] + 1, Len(batch[l]))
    IN  here(queue[loopOf[c]]) + here(rest(loopOf[c]))

\* How many times the connection is on its way out: in connections_, in a
\* ConnectDestroyed functor on its own loop, or behind it.
Places(c) ==
    (IF c \in connections THEN 1 ELSE 0) + DestroyPending(c)
        + (IF fate[c] # "due" THEN 1 ELSE 0)

\* The removal that HandleClose asks for and ~TcpServer, which both hand over
\* ConnectDestroyed, never do it twice for a connection, unless a Shutdown of
\* another thread has brought it back to be closed again, and never not at
\* all (RemoveConnectionInLoop, ~TcpServer).
DestroyedOnce ==
    \A c \in Conns :
        Accepted(c) => IF c \in revived THEN Places(c) >= 1 ELSE Places(c) = 1

\* When the server is gone, a connection that came up and whose end the
\* application was not told of had been shut down by it, or its
\* ConnectDestroyed was lost with its loop (~TcpServer, ConnectDestroyed).
EndReported ==
    spc = "gone" =>
        \A c \in Conns :
            calls[c] = <<"up">> => state[c] = "kDisconnecting" \/ fate[c] = "lost"

\* As long as the main loop runs, every client that waits is accepted, unless
\* no descriptor is left, and every connection whose client has closed, even
\* one that closed before it was accepted, is taken out of connections_ and
\* out of its poller (Listen, Acceptor::HandleRead, NewConnection,
\* HandleClose, RemoveConnection, RemoveConnectionInLoop, ConnectDestroyed).
ClientsAreServed ==
    LET waiting == Backlog # {} /\ ~OutOfFds
        leaving == \E c \in Conns : Accepted(c) /\ peer[c] = "closed" /\ fate[c] # "run"
    IN  (waiting \/ leaving)
            ~> ((~waiting /\ ~leaving) \/ lpc[Main] \in {"out", "gone"})

\* The destructor returns: every sub loop stops, whatever it was doing and
\* however many functors its connections still hand it (~TcpServer,
\* ~EventLoopThread), provided that they are all inside Loop() before the
\* first Quit(): one that is not may lose its Quit() to the reset of quit_, and
\* the destructor then waits for ever.
ServerStops ==
    (spc = "closing" /\ told = 0 /\ \A l \in SubLoops : lpc[l] # "entering")
        ~> spc = "gone"

\* A Socket "owns the fd and closes it when it is destroyed": once
\* ConnectDestroyed has run and nobody but the connection itself refers to
\* the connection, its descriptor is closed (NewConnection, ~Socket).
FdReleased ==
    \A c \in Conns : fate[c] = "run" /\ ~Owned(c) => c \notin OpenFds

=============================================================================
