--------------------------- MODULE TcpConnection ---------------------------
(***************************************************************************)
(* One TcpConnection from ConnectEstablished to ConnectDestroyed: the loop *)
(* thread that owns it, the threads that call Send and Shutdown on it, the *)
(* TcpServer that removes it and the socket with its peer.                 *)
(*                                                                         *)
(* The loop thread polls, makes the channel's callbacks in the order of    *)
(* HandleEventWithGuard, and runs the functors queued on it, one batch per *)
(* iteration.  That a queued functor ends the wait of the next poll is     *)
(* what module EventLoop shows.  A step of another thread is one access    *)
(* to state_ or one push to the loop's queue.                              *)
(*                                                                         *)
(* A message is <<caller, k>>, the k-th one its caller hands to Send; it   *)
(* is MsgLen units <<caller, k, i>> long, a unit being some bytes.  SIGPIPE*)
(* is taken to be ignored by the application.                              *)
(***************************************************************************)
EXTENDS Naturals, Sequences, FiniteSets, Channel

CONSTANTS
    LoopThread,     \* the thread that runs loop_
    Senders,        \* other threads that call Send
    Closers,        \* those of Senders that also call Shutdown
    NoMsg,          \* the argument of a functor that has no message
    MaxSends,       \* Send calls of a thread
    MaxLoopSends,   \* and of the loop thread
    MaxReceives,    \* times the peer sends something
    MsgLen,         \* units in a message
    SendBuffer,     \* units the kernel's send buffer holds
    HighWaterMark   \* high_water_mark_, in units

ASSUME ConnectionAssumption ==
    /\ LoopThread \notin Senders
    /\ Closers \subseteq Senders
    /\ {MsgLen, SendBuffer, HighWaterMark} \subseteq Nat \ {0}
    /\ {MaxSends, MaxReceives} \subseteq Nat
    /\ MaxLoopSends \in 0..MaxSends

VARIABLES
    state,      \* state_
    ch,         \* channel_, with the poller's and the kernel's view of it
    out,        \* output_buffer_
    lpc,        \* the loop thread: "poll", "events", "batch" or "destroy"
    todo,       \* callbacks HandleEventWithGuard has still to make
    queue,      \* functors queued on loop_
    batch,      \* how many of them the current DoPendingFunctors runs
    callback,   \* the user callback the loop thread is in, or "none"
    tpc,        \* the other threads
    sent,       \* Send calls made so far, per thread
    \* the socket
    wire,       \* units the kernel has taken
    room,       \* free space in its send buffer
    fin,        \* shutdown(SHUT_WR) was called
    peer,       \* "open", "closed" (its FIN arrived) or "reset"
    soerr,      \* a pending SO_ERROR
    inq,        \* received data is waiting
    received,   \* times the peer has sent
    \* TcpServer
    inMap,      \* the connection is in connections_
    removals,   \* RemoveConnectionInLoop functors queued on the main loop
    serverGone, \* ~TcpServer has run, and the main loop has stopped
    \* history
    down,       \* connection_callback_ calls made for the end of the connection
    closers     \* threads whose Shutdown has set kDisconnecting

loopVars   == <<lpc, todo, batch, callback>>
sockVars   == <<wire, room, soerr>>
peerVars   == <<peer, inq, received>>
serverVars == <<inMap, serverGone>>
callVars   == <<tpc, sent, closers>>
vars == <<state, ch, out, queue, fin, removals, down, loopVars, sockVars,
          peerVars, serverVars, callVars>>

Callers == Senders \cup {LoopThread}
Messages == Callers \X (1..MaxSends)
Units(m) == [i \in 1..MsgLen |-> <<m[1], m[2], i>>]
Unit == Callers \X (1..MaxSends) \X (1..MsgLen)

State == {"kConnecting", "kConnected", "kDisconnecting", "kDisconnected"}

FunctorOps == {"established", "destroyed", "send", "shutdown",
               "writeComplete", "highWater"}
Functor(op) == [op |-> op, msg |-> NoMsg]
SendFunctor(m) == [op |-> "send", msg |-> m]

Smaller(a, b) == IF a < b THEN a ELSE b

TypeOK ==
    /\ state \in State
    /\ ch \in ChannelState
    /\ out \in Seq(Unit)
    /\ lpc \in {"poll", "events", "batch", "destroy"}
    /\ todo \in Seq({"close", "error", "read", "write"})
    /\ queue \in Seq([op : FunctorOps, msg : Messages \cup {NoMsg}])
    /\ batch \in 0..Len(queue)
    /\ callback \in {"none", "up", "message", "writeComplete", "highWater"}
    /\ tpc \in [Senders -> {"idle", "send", "shutdown", "queue"}]
    /\ sent \in [Callers -> 0..MaxSends]
    /\ wire \in Seq(Unit)
    /\ room \in 0..SendBuffer
    /\ fin \in BOOLEAN
    /\ peer \in {"open", "closed", "reset"}
    /\ soerr \in BOOLEAN
    /\ inq \in BOOLEAN
    /\ received \in 0..MaxReceives
    /\ inMap \in BOOLEAN
    /\ removals \in Nat
    /\ serverGone \in BOOLEAN
    /\ down \in Nat
    /\ closers \in SUBSET Callers

\* TcpServer::NewConnection has stored the connection and handed
\* ConnectEstablished to its loop.
Init ==
    /\ state = "kConnecting"
    /\ ch = NewChannel
    /\ out = <<>>
    /\ lpc = "poll"
    /\ todo = <<>>
    /\ queue = <<Functor("established")>>
    /\ batch = 0
    /\ callback = "none"
    /\ tpc = [t \in Senders |-> "idle"]
    /\ sent = [t \in Callers |-> 0]
    /\ wire = <<>>
    /\ room = SendBuffer
    /\ fin = FALSE
    /\ peer = "open"
    /\ soerr = FALSE
    /\ inq = FALSE
    /\ received = 0
    /\ inMap = TRUE
    /\ removals = 0
    /\ serverGone = FALSE
    /\ down = 0
    /\ closers = {}

-----------------------------------------------------------------------------
(* The socket (kernel)                                                     *)

\* A write fails with EPIPE or ECONNRESET.
Broken == fin \/ peer = "reset"

\* The socket's condition as epoll sees it.
Ready ==
    (IF inq \/ peer # "open" THEN {"in"} ELSE {})
    \cup (IF room > 0 \/ Broken THEN {"out"} ELSE {})
    \cup (IF peer = "reset" \/ (fin /\ peer = "closed") THEN {"hup"} ELSE {})
    \cup (IF soerr THEN {"err"} ELSE {})

\* write(fd, data): the kernel takes what it has room for; a write that
\* fails consumes a pending SO_ERROR.
WriteLen(data) == IF Broken THEN 0 ELSE Smaller(Len(data), room)
WriteFd(data) ==
    /\ wire' = wire \o SubSeq(data, 1, WriteLen(data))
    /\ room' = room - WriteLen(data)
    /\ soerr' = (soerr /\ ~Broken)

PeerSends ==
    /\ peer = "open"
    /\ received < MaxReceives
    /\ inq' = TRUE
    /\ received' = received + 1
    /\ UNCHANGED <<state, ch, out, queue, fin, removals, down, loopVars,
                   sockVars, peer, serverVars, callVars>>

\* The peer acknowledges a unit, which leaves the send buffer.
PeerReads ==
    /\ peer # "reset"
    /\ room < SendBuffer
    /\ room' = room + 1
    /\ UNCHANGED <<state, ch, out, queue, fin, removals, down, loopVars,
                   wire, soerr, peerVars, serverVars, callVars>>

PeerCloses ==
    /\ peer = "open"
    /\ peer' = "closed"
    /\ UNCHANGED <<state, ch, out, queue, fin, removals, down, loopVars,
                   sockVars, inq, received, serverVars, callVars>>

PeerResets ==
    /\ peer # "reset"
    /\ peer' = "reset"
    /\ soerr' = TRUE
    /\ UNCHANGED <<state, ch, out, queue, fin, removals, down, loopVars,
                   wire, room, inq, received, serverVars, callVars>>

-----------------------------------------------------------------------------
(* The operations of TcpConnection, as the loop thread performs them.      *)

GiveUpNever == FALSE
\* SendInLoop gives up writing.
GiveUp == state = "kDisconnected"

WriteAlways == TRUE
\* SendInLoop may write to the socket itself.
WriteDirectly == ~IsWriting(ch) /\ out = <<>>

\* SendInLoop when the queue holds q.
SendInLoop(m, q) ==
    LET data   == Units(m)
        direct == WriteDirectly
        nwrote == IF direct THEN WriteLen(data) ELSE 0
        rest   == SubSeq(data, nwrote + 1, MsgLen)
        append == rest # <<>> /\ ~(direct /\ Broken)
        newLen == Len(out) + Len(rest)
        high   == append /\ newLen >= HighWaterMark /\ Len(out) < HighWaterMark
    IN  IF GiveUp
        THEN queue' = q /\ UNCHANGED <<out, ch, sockVars>>
        ELSE /\ IF direct THEN WriteFd(data) ELSE UNCHANGED sockVars
             /\ out' = IF append THEN out \o rest ELSE out
             /\ ch' = IF append /\ ~IsWriting(ch) THEN EnableWriting(ch) ELSE ch
             /\ queue' = q \o (IF rest = <<>> THEN <<Functor("writeComplete")>> ELSE <<>>)
                           \o (IF high THEN <<Functor("highWater")>> ELSE <<>>)

ShutdownAtOnce(c) == fin' = TRUE
\* ShutdownInLoop, channel_ being c.
ShutdownInLoop(c) == fin' = (fin \/ ~IsWriting(c))

NoLateShutdown(c) == UNCHANGED fin
\* The end of HandleWrite: output_buffer_ has been written out.
LateShutdown(c) ==
    IF state = "kDisconnecting" THEN ShutdownInLoop(c) ELSE UNCHANGED fin

HandleCloseStaysInEpoll ==
    /\ state' = "kDisconnected"
    /\ ch' = ch
    /\ down' = down + 1
    /\ removals' = removals + 1

HandleCloseUnreported ==
    /\ state' = "kDisconnected"
    /\ ch' = DisableAll(ch)
    /\ down' = down + 1
    /\ removals' = removals

\* HandleClose: the DOWN callback, then close_callback_, that is
\* TcpServer::RemoveConnection handing the removal to the main loop.
HandleClose ==
    /\ state' = "kDisconnected"
    /\ ch' = DisableAll(ch)
    /\ down' = down + 1
    /\ removals' = removals + 1

-----------------------------------------------------------------------------
(* The loop thread: EventLoop::Loop                                        *)

Poll ==
    /\ lpc = "poll"
    /\ Revents(ch, Ready) # {} \/ queue # <<>>
    /\ todo' = Dispatch(Revents(ch, Ready))
    /\ lpc' = "events"
    /\ UNCHANGED <<state, ch, out, queue, fin, removals, down, batch, callback,
                   sockVars, peerVars, serverVars, callVars>>

\* The loop thread is in HandleEventWithGuard and comes to callback e.
Event(e) ==
    /\ lpc = "events"
    /\ callback = "none"
    /\ todo # <<>>
    /\ Head(todo) = e
    /\ todo' = Tail(todo)

CloseEvent ==
    /\ Event("close")
    /\ HandleClose
    /\ UNCHANGED <<out, queue, fin, lpc, batch, callback, sockVars, peerVars,
                   serverVars, callVars>>

\* HandleError: getsockopt(SO_ERROR) clears the error.
ErrorEvent ==
    /\ Event("error")
    /\ soerr' = FALSE
    /\ UNCHANGED <<state, ch, out, queue, fin, removals, down, lpc, batch,
                   callback, wire, room, peerVars, serverVars, callVars>>

\* HandleRead with n > 0: the message callback.
ReadData ==
    /\ Event("read")
    /\ inq
    /\ inq' = FALSE
    /\ callback' = "message"
    /\ UNCHANGED <<state, ch, out, queue, fin, removals, down, lpc, batch,
                   sockVars, peer, received, serverVars, callVars>>

\* HandleRead with n < 0: HandleError.
ReadFails ==
    /\ Event("read")
    /\ ~inq
    /\ soerr \/ peer = "open"
    /\ soerr' = FALSE
    /\ UNCHANGED <<state, ch, out, queue, fin, removals, down, lpc, batch,
                   callback, wire, room, peerVars, serverVars, callVars>>

\* HandleRead with n = 0.
ReadEnd ==
    /\ Event("read")
    /\ ~inq
    /\ ~soerr /\ peer # "open"
    /\ HandleClose
    /\ UNCHANGED <<out, queue, fin, lpc, batch, callback, sockVars, peerVars,
                   serverVars, callVars>>

StillWritingAssumed == TRUE
\* HandleWrite finds that the channel still asks for EPOLLOUT.
StillWriting == IsWriting(ch)

\* HandleWrite
WriteEvent ==
    LET n       == WriteLen(out)
        drained == n > 0 /\ n = Len(out)
    IN  /\ Event("write")
        /\ IF ~StillWriting
           THEN UNCHANGED <<out, ch, queue, fin, sockVars>>
           ELSE /\ WriteFd(out)
                /\ out' = SubSeq(out, n + 1, Len(out))
                /\ IF drained
                   THEN /\ ch' = DisableWriting(ch)
                        /\ queue' = Append(queue, Functor("writeComplete"))
                        /\ LateShutdown(ch')
                   ELSE UNCHANGED <<ch, queue, fin>>
        /\ UNCHANGED <<state, removals, down, lpc, batch, callback, peerVars,
                       serverVars, callVars>>

SwapFunctorsOneTooMany ==
    /\ lpc = "events"
    /\ callback = "none"
    /\ todo = <<>>
    /\ batch' = Len(queue) + 1
    /\ lpc' = "batch"
    /\ UNCHANGED <<state, ch, out, queue, fin, removals, down, todo, callback,
                   sockVars, peerVars, serverVars, callVars>>

\* DoPendingFunctors: the swap.
SwapFunctors ==
    /\ lpc = "events"
    /\ callback = "none"
    /\ todo = <<>>
    /\ batch' = Len(queue)
    /\ lpc' = "batch"
    /\ UNCHANGED <<state, ch, out, queue, fin, removals, down, todo, callback,
                   sockVars, peerVars, serverVars, callVars>>

BatchDone ==
    /\ lpc = "batch"
    /\ callback = "none"
    /\ batch = 0
    /\ lpc' = "poll"
    /\ UNCHANGED <<state, ch, out, queue, fin, removals, down, todo, batch,
                   callback, sockVars, peerVars, serverVars, callVars>>

CallbackReturns ==
    /\ callback # "none"
    /\ callback' = "none"
    /\ UNCHANGED <<state, ch, out, queue, fin, removals, down, lpc, todo, batch,
                   sockVars, peerVars, serverVars, callVars>>

\* DoPendingFunctors comes to a functor of kind op.
Run(op) ==
    /\ lpc = "batch"
    /\ callback = "none"
    /\ batch > 0
    /\ Head(queue).op = op
    /\ batch' = batch - 1

ConnectEstablished ==
    /\ Run("established")
    /\ state' = "kConnected"
    /\ ch' = EnableReading(ch)
    /\ callback' = "up"
    /\ queue' = Tail(queue)
    /\ UNCHANGED <<out, fin, removals, down, lpc, todo, sockVars, peerVars,
                   serverVars, callVars>>

RunSend ==
    /\ Run("send")
    /\ SendInLoop(Head(queue).msg, Tail(queue))
    /\ UNCHANGED <<state, fin, removals, down, lpc, todo, callback, peerVars,
                   serverVars, callVars>>

RunShutdown ==
    /\ Run("shutdown")
    /\ ShutdownInLoop(ch)
    /\ queue' = Tail(queue)
    /\ UNCHANGED <<state, ch, out, removals, down, lpc, todo, callback,
                   sockVars, peerVars, serverVars, callVars>>

\* write_complete_callback_ or high_water_mark_callback_
RunCallback ==
    \E op \in {"writeComplete", "highWater"} :
        /\ Run(op)
        /\ callback' = op
        /\ queue' = Tail(queue)
        /\ UNCHANGED <<state, ch, out, fin, removals, down, lpc, todo,
                       sockVars, peerVars, serverVars, callVars>>

\* ConnectDestroyed: the test of state_ and, in a step of its own because
\* another thread's Shutdown may come between, what it does if it holds.
DestroyCheck ==
    /\ Run("destroyed")
    /\ queue' = Tail(queue)
    /\ IF state = "kConnected"
       THEN lpc' = "destroy" /\ UNCHANGED ch
       ELSE ch' = RemoveChannel(ch) /\ UNCHANGED lpc
    /\ UNCHANGED <<state, out, fin, removals, down, todo, callback, sockVars,
                   peerVars, serverVars, callVars>>

DestroyConnected ==
    /\ lpc = "destroy"
    /\ state' = "kDisconnected"
    /\ ch' = RemoveChannel(DisableAll(ch))
    /\ down' = down + 1
    /\ lpc' = "batch"
    /\ UNCHANGED <<out, queue, fin, removals, todo, batch, callback, sockVars,
                   peerVars, serverVars, callVars>>

-----------------------------------------------------------------------------
(* Calls of Send and Shutdown.  A call that finds the state other than     *)
(* kConnected does nothing and is left out.                                *)

\* From a user callback, that is in the loop thread.
LoopSend ==
    /\ callback # "none"
    /\ state = "kConnected"
    /\ sent[LoopThread] < MaxLoopSends
    /\ sent' = [sent EXCEPT ![LoopThread] = @ + 1]
    /\ SendInLoop(<<LoopThread, sent'[LoopThread]>>, queue)
    /\ UNCHANGED <<state, fin, removals, down, loopVars, peerVars, serverVars,
                   tpc, closers>>

LoopShutdown ==
    /\ callback # "none"
    /\ state = "kConnected"
    /\ state' = "kDisconnecting"
    /\ ShutdownInLoop(ch)
    /\ closers' = closers \cup {LoopThread}
    /\ UNCHANGED <<ch, out, queue, removals, down, loopVars, sockVars, peerVars,
                   serverVars, tpc, sent>>

\* From another thread.
threadUnchanged == <<ch, out, fin, removals, down, loopVars, sockVars, peerVars,
                     serverVars>>

SendCheck(t) ==
    /\ tpc[t] = "idle"
    /\ state = "kConnected"
    /\ sent[t] < MaxSends
    /\ sent' = [sent EXCEPT ![t] = @ + 1]
    /\ tpc' = [tpc EXCEPT ![t] = "send"]
    /\ UNCHANGED <<state, queue, closers, threadUnchanged>>

SendQueue(t) ==
    /\ tpc[t] = "send"
    /\ queue' = Append(queue, SendFunctor(<<t, sent[t]>>))
    /\ tpc' = [tpc EXCEPT ![t] = "idle"]
    /\ UNCHANGED <<state, sent, closers, threadUnchanged>>

ShutdownCheck(t) ==
    /\ tpc[t] = "idle"
    /\ state = "kConnected"
    /\ tpc' = [tpc EXCEPT ![t] = "shutdown"]
    /\ UNCHANGED <<state, queue, sent, closers, threadUnchanged>>

ShutdownSet(t) ==
    /\ tpc[t] = "shutdown"
    /\ state' = "kDisconnecting"
    /\ closers' = closers \cup {t}
    /\ tpc' = [tpc EXCEPT ![t] = "queue"]
    /\ UNCHANGED <<queue, sent, threadUnchanged>>

ShutdownQueue(t) ==
    /\ tpc[t] = "queue"
    /\ queue' = Append(queue, Functor("shutdown"))
    /\ tpc' = [tpc EXCEPT ![t] = "idle"]
    /\ UNCHANGED <<state, sent, closers, threadUnchanged>>

-----------------------------------------------------------------------------
(* TcpServer, in the main loop's thread                                    *)

RemoveConnectionInLoop ==
    /\ removals > 0
    /\ ~serverGone
    /\ removals' = removals - 1
    /\ inMap' = FALSE
    /\ queue' = Append(queue, Functor("destroyed"))
    /\ UNCHANGED <<state, ch, out, fin, down, loopVars, sockVars, peerVars,
                   serverGone, callVars>>

\* TcpServer::~TcpServer, called when the main loop has stopped.
ServerDestroyed ==
    /\ ~serverGone
    /\ serverGone' = TRUE
    /\ inMap' = FALSE
    /\ queue' = IF inMap THEN Append(queue, Functor("destroyed")) ELSE queue
    /\ UNCHANGED <<state, ch, out, fin, removals, down, loopVars, sockVars,
                   peerVars, callVars>>

-----------------------------------------------------------------------------
LoopStep ==
    \/ Poll \/ CloseEvent \/ ErrorEvent \/ ReadData \/ ReadFails \/ ReadEnd
    \/ WriteEvent \/ SwapFunctors \/ BatchDone \/ CallbackReturns
    \/ ConnectEstablished \/ RunSend \/ RunShutdown \/ RunCallback
    \/ DestroyCheck \/ DestroyConnected

ThreadStep(t) == SendQueue(t) \/ ShutdownSet(t) \/ ShutdownQueue(t)

Next ==
    \/ LoopStep
    \/ LoopSend \/ LoopShutdown
    \/ \E t \in Senders : SendCheck(t) \/ ThreadStep(t)
    \/ \E t \in Closers : ShutdownCheck(t)
    \/ RemoveConnectionInLoop \/ ServerDestroyed
    \/ PeerSends \/ PeerReads \/ PeerCloses \/ PeerResets

Spec == Init /\ [][Next]_vars

(***************************************************************************)
(* The scheduler runs the loop thread and every thread inside a call; user *)
(* callbacks return; the main loop runs its queue; a peer that has not     *)
(* reset the connection goes on reading.                                   *)
(***************************************************************************)
FairSpec ==
    /\ Spec
    /\ WF_vars(LoopStep)
    /\ \A t \in Senders : WF_vars(ThreadStep(t))
    /\ WF_vars(RemoveConnectionInLoop)
    /\ WF_vars(PeerReads)

-----------------------------------------------------------------------------
(* Properties                                                              *)

stream == wire \o out

\* The byte stream is what the callers sent: wire and output_buffer_
\* together hold whole messages one after the other, never two mixed, each
\* at most once and those of one thread in the order it sent them, however
\* partial writes, queued sends and HandleWrite interleave (SendInLoop).
StreamIntegrity ==
    /\ \A i \in 1..Len(stream) :
         LET u == stream[i]
         IN  u[3] > 1 => i > 1 /\ stream[i-1] = <<u[1], u[2], u[3] - 1>>
    /\ \A i, j \in 1..Len(stream) :
         i < j /\ stream[i][1] = stream[j][1] =>
             \/ stream[i][2] < stream[j][2]
             \/ stream[i][2] = stream[j][2] /\ stream[i][3] < stream[j][3]

\* Until the connection ends, the channel asks for EPOLLOUT exactly when
\* output_buffer_ holds something: otherwise data would wait for ever, or
\* the loop would spin (SendInLoop, HandleWrite).
WriteInterest == down = 0 => (IsWriting(ch) <=> out # <<>>)

\* FIN never overtakes output_buffer_: when shutdown(SHUT_WR) has been
\* called on a live connection, nothing is left in the buffer and nothing
\* more gets there (Shutdown, ShutdownInLoop, HandleWrite, SendInLoop).
NoTruncation == fin /\ down = 0 => out = <<>>

\* What HandleClose has ended stays ended for the rest of the dispatch: the
\* callbacks that epoll had reported together with the close, and the
\* functors and stores to state_ of other threads, neither touch the socket,
\* the channel or output_buffer_ nor report the end again
\* (HandleEventWithGuard, HandleClose, HandleWrite).
StaleEventsIgnored ==
    [][lpc = "events" /\ ~ch.added =>
         UNCHANGED <<ch, out, wire, fin, down>> /\ removals' <= removals]_vars

\* No Shutdown of another thread has been made, whose late store to state_
\* may bring a closed connection back.
OnlyLoopCloses == closers \subseteq {LoopThread}

\* The end of a connection is final: the DOWN callback is made once, no
\* message callback follows it, the state stays kDisconnected and the
\* channel stays out of epoll (HandleClose, ConnectDestroyed), as long as
\* only the loop thread calls Shutdown.
ClosedForGood ==
    OnlyLoopCloses =>
        /\ down <= 1
        /\ down = 1 => /\ state = "kDisconnected"
                       /\ ~ch.added
                       /\ callback # "message"

\* Data of a connection that has ended is dropped, whichever threads sent
\* it and however long it was queued, as long as only the loop thread calls
\* Shutdown (SendInLoop, HandleWrite).
DroppedAfterClose == [][OnlyLoopCloses /\ down > 0 => UNCHANGED wire]_vars

\* A connection that has ended gets no more data: "a connection that is
\* already down, do not send any more" (SendInLoop).
NoWriteAfterClose == [][down > 0 => UNCHANGED wire]_vars

\* Graceful close: when FIN goes out for the Shutdown of one thread, the
\* messages that thread handed to Send before have left the loop's queue.
SentBeforeShutdown ==
    \A t \in Callers :
        fin /\ closers = {t} /\ down = 0 =>
            \A i \in 1..Len(queue) : queue[i].op = "send" => queue[i].msg[1] # t

\* Buffered output is written as long as the peer reads, or the connection
\* ends (SendInLoop, HandleWrite).
OutputDrains == out # <<>> ~> (out = <<>> \/ down > 0 \/ serverGone)

\* A Shutdown that found the connection up leads to FIN, however much was
\* still buffered, unless the connection ends first (Shutdown, HandleWrite).
GracefulShutdown ==
    state = "kDisconnecting" ~> (fin \/ down > 0 \/ serverGone)

\* When the peer has closed or reset the connection, the application hears
\* of it and the channel is removed from its poller (HandleEventWithGuard,
\* HandleRead, HandleError, HandleClose, RemoveConnectionInLoop).
PeerGoneIsNoticed ==
    (peer # "open" /\ state # "kConnecting")
        ~> ((down > 0 /\ ch.index = kNew) \/ serverGone)

=============================================================================
