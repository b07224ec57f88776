----------------------- MODULE TcpConnectionEndProofs -----------------------
(***************************************************************************)
(* Proofs about the end of a TcpConnection: as long as only the loop       *)
(* thread calls Shutdown, a connection ends once and for good.             *)
(***************************************************************************)
EXTENDS TcpConnectionProofs

\* The order of HandleEventWithGuard: a callback that may end the connection
\* comes once, and after none but HandleError.
TodoOrder(s) ==
    \A i, j \in 1..Len(s) :
        i < j => s[j] # "close" /\ (s[j] = "read" => s[i] = "error")

\* No callback of s may end the connection.
Harmless(s) == \A i \in 1..Len(s) : s[i] \notin {"close", "read"}

\* The channel is still in epoll when a callback that may end the connection
\* is to come.
TodoInv ==
    /\ lpc # "events" => todo = <<>>
    /\ TodoOrder(todo)
    /\ Harmless(todo) \/ ch.added

\* ConnectEstablished is the first functor of q until it has run.
QueueStart(q, s) ==
    /\ s = "kConnecting" => Len(q) > 0 /\ q[1].op = "established"
    /\ \A i \in 1..Len(q) : q[i].op = "established" => i = 1 /\ s = "kConnecting"

\* Before ConnectEstablished nothing else has touched the connection.
StartInv ==
    /\ QueueStart(queue, state)
    /\ state = "kConnecting" => ~ch.added /\ down = 0 /\ todo = <<>>
    /\ \A t \in Senders : tpc[t] # "idle" => state # "kConnecting"
    /\ lpc = "destroy" => state # "kConnecting" /\ callback = "none"

\* What is true once the connection has ended, and why it ends once.
EndInv ==
    OnlyLoopCloses =>
        /\ down <= 1
        /\ lpc = "destroy" => down = 0
        /\ down = 1 => /\ state = "kDisconnected"
                       /\ ~ch.added /\ ch.events = {}
                       /\ callback # "message"
                       /\ Harmless(todo)

\* The inductive invariant.
CloseInv == DataInv /\ TodoInv /\ StartInv /\ EndInv

-----------------------------------------------------------------------------
(* The callbacks HandleEventWithGuard makes                                *)

TodoType == Seq({"close", "error", "read", "write"})

\* What is left when the first callback has been made; after one that may
\* end the connection or change the channel there is no more to end it.
LEMMA TodoTail ==
    ASSUME NEW s \in TodoType, s # <<>>, TodoOrder(s)
    PROVE  /\ TodoOrder(Tail(s)) /\ (Harmless(s) => Harmless(Tail(s)))
           /\ Head(s) # "error" => Harmless(Tail(s))
           /\ Head(s) \in {"close", "read"} => ~Harmless(s)
<1>1. Len(s) \in Nat \ {0}
  BY EmptySeq DEF TodoType
<1>2. /\ Len(Tail(s)) = Len(s) - 1
      /\ \A i \in 1..Len(Tail(s)) : Tail(s)[i] = s[i + 1]
  BY HeadTailProperties DEF TodoType
<1>3. Head(s) = s[1] /\ 1 \in 1..Len(s)
  BY <1>1
<1>4. \A i \in 1..Len(Tail(s)) : i + 1 \in 1..Len(s) /\ 1 < i + 1
  BY <1>1, <1>2
<1>5. \A i, j \in 1..Len(Tail(s)) : i < j => i + 1 < j + 1
  BY <1>1, <1>2
<1>6. TodoOrder(Tail(s))
  BY <1>2, <1>4, <1>5 DEF TodoOrder
<1>7. Harmless(s) => Harmless(Tail(s))
  BY <1>2, <1>4 DEF Harmless
<1>8. Head(s) # "error" => Harmless(Tail(s))
  BY <1>2, <1>3, <1>4 DEF Harmless, TodoOrder
<1>9. Head(s) \in {"close", "read"} => ~Harmless(s)
  BY <1>3 DEF Harmless
<1> QED
  BY <1>6, <1>7, <1>8, <1>9

\* One more callback in its place keeps the order.
LEMMA TodoAppend ==
    ASSUME NEW s \in TodoType, TodoOrder(s),
           NEW e \in {"close", "error", "read", "write"},
           e = "close" => s = <<>>,
           e = "read" => \A i \in 1..Len(s) : s[i] = "error"
    PROVE  s \o <<e>> \in TodoType /\ TodoOrder(s \o <<e>>)
<1>1. Append(s, e) = s \o <<e>>
  BY AppendIsConcat DEF TodoType
<1>2. /\ Append(s, e) \in TodoType /\ Len(Append(s, e)) = Len(s) + 1
      /\ \A i \in 1..Len(s) : Append(s, e)[i] = s[i]
      /\ Append(s, e)[Len(s) + 1] = e
  BY AppendProperties DEF TodoType
<1>3. Len(s) \in Nat
  BY DEF TodoType
<1>4. TodoOrder(Append(s, e))
  <2> SUFFICES ASSUME NEW i \in 1..(Len(s) + 1), NEW j \in 1..(Len(s) + 1), i < j
               PROVE  /\ Append(s, e)[j] # "close"
                      /\ Append(s, e)[j] = "read" => Append(s, e)[i] = "error"
    BY <1>2 DEF TodoOrder
  <2>1. i \in 1..Len(s)
    BY <1>3
  <2>2. CASE j \in 1..Len(s)
    BY <1>2, <2>1, <2>2 DEF TodoOrder
  <2>3. CASE j = Len(s) + 1
    BY <1>2, <2>1, <2>3
  <2> QED
    BY <1>3, <2>2, <2>3
<1> QED
  BY <1>1, <1>2, <1>4

\* What Poll prepares is in order, and nothing when nothing is reported.
LEMMA DispatchOrder ==
    ASSUME NEW r
    PROVE  TodoOrder(Dispatch(r)) /\ (r = {} => Dispatch(r) = <<>>)
<1> DEFINE a == IF "hup" \in r /\ "in" \notin r THEN <<"close">> ELSE <<>>
           b == a \o (IF "err" \in r THEN <<"error">> ELSE <<>>)
           c == b \o (IF "in"  \in r THEN <<"read">>  ELSE <<>>)
           d == c \o (IF "out" \in r THEN <<"write">> ELSE <<>>)
<1>1. Dispatch(r) = d
  BY DEF Dispatch
<1>2. \A s \in TodoType : s \o <<>> = s
  BY ConcatEmptySeq DEF TodoType
<1>3. a \in TodoType /\ TodoOrder(a) /\ ("in" \in r => a = <<>>)
  <2>1. <<>> \in TodoType /\ TodoOrder(<<>>)
    BY DEF TodoType, TodoOrder
  <2>2. <<"close">> \in TodoType
    BY DEF TodoType
  <2>3. Len(<<"close">>) = 1
    OBVIOUS
  <2>4. TodoOrder(<<"close">>)
    BY <2>3 DEF TodoOrder
  <2> QED
    BY <2>1, <2>2, <2>4
<1> HIDE DEF a
<1>4. b \in TodoType /\ TodoOrder(b)
  BY <1>2, <1>3, TodoAppend
<1>5. "in" \in r => \A i \in 1..Len(b) : b[i] = "error"
  BY <1>3
<1> HIDE DEF b
<1>6. c \in TodoType /\ TodoOrder(c)
  BY <1>2, <1>4, <1>5, TodoAppend
<1> HIDE DEF c
<1>7. d \in TodoType /\ TodoOrder(d)
  BY <1>2, <1>6, TodoAppend
<1>8. r = {} => Dispatch(r) = <<>>
  BY DEF Dispatch
<1> QED
  BY <1>1, <1>7, <1>8

-----------------------------------------------------------------------------
(* The functors around ConnectEstablished                                  *)

\* Functors queued behind it.
LEMMA StartMore ==
    ASSUME NEW q \in Seq(FunctorType), NEW s, QueueStart(q, s)
    PROVE  /\ \A f \in FunctorType :
                f.op # "established" => QueueStart(Append(q, f), s)
           /\ \A r : Extends(r, q) => QueueStart(r, s)
<1>1. Len(q) \in Nat
  OBVIOUS
<1>2. ASSUME NEW f \in FunctorType, f.op # "established"
      PROVE  QueueStart(Append(q, f), s)
  <2>1. /\ Len(Append(q, f)) = Len(q) + 1
        /\ \A i \in 1..Len(q) : Append(q, f)[i] = q[i]
        /\ Append(q, f)[Len(q) + 1] = f
    BY AppendProperties
  <2>2. \A i \in 1..(Len(q) + 1) : i \in 1..Len(q) \/ i = Len(q) + 1
    BY <1>1
  <2>3. Len(q) > 0 => 1 \in 1..Len(q) /\ Len(q) + 1 > 0
    BY <1>1
  <2> QED
    BY <1>2, <2>1, <2>2, <2>3 DEF QueueStart
<1>3. ASSUME NEW r, Extends(r, q)
      PROVE  QueueStart(r, s)
  <2>1. Len(r) \in Nat /\ Len(r) >= Len(q)
    BY <1>3 DEF Extends
  <2>2. \A i \in 1..Len(r) : i \in 1..Len(q) \/ i > Len(q)
    BY <1>1, <2>1
  <2>3. Len(q) > 0 => 1 \in 1..Len(q) /\ Len(r) > 0
    BY <1>1, <2>1
  <2> QED
    BY <1>3, <2>2, <2>3 DEF QueueStart, Extends
<1> QED
  BY <1>2, <1>3

\* The first functor taken off: only the first can be ConnectEstablished.
LEMMA StartTail ==
    ASSUME NEW q, QueueOK(q), Len(q) > 0, NEW s, QueueStart(q, s)
    PROVE  /\ \A u : u # "kConnecting" => QueueStart(Tail(q), u)
           /\ (Head(q).op = "established") <=> (s = "kConnecting")
<1>1. Head(q) = q[1] /\ 1 \in 1..Len(q)
  BY QueueTail
<1>2. /\ Len(Tail(q)) = Len(q) - 1 /\ Len(q) \in Nat
      /\ \A i \in 1..Len(Tail(q)) : Tail(q)[i] = q[i + 1]
  <2>1. q \in Seq(FunctorType) /\ q # <<>>
    BY DEF QueueOK
  <2> QED
    BY <2>1, HeadTailProperties
<1>3. \A i \in 1..Len(Tail(q)) : i + 1 \in 1..Len(q) /\ i + 1 # 1
  BY <1>2
<1>4. \A i \in 1..Len(Tail(q)) : Tail(q)[i].op # "established"
  BY <1>2, <1>3 DEF QueueStart
<1> QED
  BY <1>1, <1>4 DEF QueueStart

-----------------------------------------------------------------------------
(* The end of a connection                                                 *)

\* NewConnection leaves a connection for which the invariant holds.
LEMMA InitClose == Init => CloseInv
<1> SUFFICES ASSUME Init PROVE CloseInv
  OBVIOUS
<1>1. DataInv
  BY InitData
<1>2. TodoInv
  BY DEF Init, TodoInv, TodoOrder, Harmless
<1>3. QueueStart(queue, state)
  BY DEF Init, QueueStart, Functor
<1>4. ~NewChannel.added
  BY DEF NewChannel
<1>5. StartInv
  BY <1>3, <1>4 DEF Init, StartInv
<1>6. EndInv
  BY DEF Init, EndInv
<1> QED
  BY <1>1, <1>2, <1>5, <1>6 DEF CloseInv

\* A callback of HandleEventWithGuard is made.
LEMMA EventEffect ==
    ASSUME CloseInv, NEW e, Event(e)
    PROVE  /\ TodoOrder(todo') /\ (Harmless(todo) => Harmless(todo'))
           /\ e # "error" => Harmless(todo')
           /\ e \in {"close", "read"} =>
                /\ ch.added
                /\ OnlyLoopCloses => down = 0
           /\ state # "kConnecting"
<1>1. todo \in TodoType /\ todo # <<>> /\ TodoOrder(todo) /\ Head(todo) = e
      /\ todo' = Tail(todo)
  BY DEF CloseInv, DataInv, TypeOK, TodoType, TodoInv, Event
<1>2. /\ TodoOrder(todo') /\ (Harmless(todo) => Harmless(todo'))
      /\ e # "error" => Harmless(todo')
      /\ e \in {"close", "read"} => ~Harmless(todo)
  BY <1>1, TodoTail
<1>3. state # "kConnecting"
  BY <1>1 DEF CloseInv, StartInv
<1>4. ~Harmless(todo) => ch.added
  BY DEF CloseInv, TodoInv
<1>5. ~Harmless(todo) /\ OnlyLoopCloses => down = 0
  BY DEF CloseInv, DataInv, TypeOK, EndInv
<1> QED
  BY <1>2, <1>3, <1>4, <1>5

\* Every step keeps it.
LEMMA NextClose == CloseInv /\ [Next]_vars => CloseInv'
<1> SUFFICES ASSUME CloseInv, [Next]_vars PROVE CloseInv'
  OBVIOUS
<1> USE DEF loopVars, sockVars, peerVars, serverVars, callVars
<1>d. DataInv /\ DataInv'
  BY NextData DEF CloseInv
<1>i. TodoInv /\ StartInv /\ EndInv
  BY DEF CloseInv
<1> SUFFICES TodoInv' /\ StartInv' /\ EndInv'
  BY <1>d DEF CloseInv
<1>t. /\ TypeOK /\ ch \in ChannelState /\ ViewsAgree(ch) /\ down \in Nat
      /\ queue \in Seq(FunctorType) /\ QueueOK(queue) /\ QueueStart(queue, state)
      /\ Len(queue) \in Nat /\ batch \in 0..Len(queue)
  <2>1. TypeOK /\ MessageInv /\ ChannelConsistent
    BY <1>d DEF DataInv
  <2>2. QueueOK(queue) /\ queue \in Seq(FunctorType)
    BY <2>1 DEF MessageInv, QueueOK
  <2>3. ch \in ChannelState /\ down \in Nat /\ batch \in 0..Len(queue)
    BY <2>1 DEF TypeOK
  <2>4. QueueStart(queue, state)
    BY <1>i DEF StartInv
  <2>5. ViewsAgree(ch)
    BY <2>1 DEF ChannelConsistent
  <2>6. Len(queue) \in Nat
    BY <2>2
  <2> QED
    BY <2>1, <2>2, <2>3, <2>4, <2>5, <2>6
<1>e. OnlyLoopCloses /\ state # "kDisconnected" => down = 0
  BY <1>t, <1>i DEF EndInv
<1>1. CASE Poll
  <2>1. TodoOrder(todo') /\ (~ch.added => todo' = <<>>)
    BY <1>1, DispatchOrder DEF Poll, Revents
  <2>2. Harmless(<<>>)
    BY DEF Harmless
  <2> QED
    BY <1>1, <1>i, <2>1, <2>2 DEF Poll, TodoInv, StartInv, EndInv, OnlyLoopCloses
<1>2. CASE CloseEvent \/ ReadEnd
  <2>1. PICK e \in {"close", "read"} : Event(e)
    BY <1>2 DEF CloseEvent, ReadEnd
  <2>2. /\ TodoOrder(todo') /\ Harmless(todo') /\ ch.added
        /\ OnlyLoopCloses => down = 0
        /\ state # "kConnecting"
    BY <2>1, EventEffect
  <2>3. /\ HandleClose
        /\ UNCHANGED <<out, queue, fin, lpc, batch, callback, sockVars, peerVars,
                       serverVars, callVars>>
        /\ lpc = "events" /\ callback = "none"
    BY <1>2 DEF CloseEvent, ReadEnd, Event
  <2>4. ~ch'.added /\ ch'.events = {}
    <3>1. DisableAll(ch).events = {}
      BY <1>t, CallEvents
    <3>2. ~DisableAll(ch).added
      BY <1>t, <2>2, LeavesEpoll
    <3> QED
      BY <2>3, <3>1, <3>2 DEF HandleClose
  <2>5. QueueStart(queue', state')
    BY <1>t, <2>2, <2>3 DEF HandleClose, QueueStart
  <2>6. TodoInv' /\ StartInv'
    BY <1>i, <2>2, <2>3, <2>5 DEF TodoInv, StartInv, HandleClose
  <2> QED
    BY <2>2, <2>3, <2>4, <2>6 DEF EndInv, HandleClose, OnlyLoopCloses
<1>3. CASE ErrorEvent \/ ReadFails
  <2>1. PICK e : Event(e)
    BY <1>3 DEF ErrorEvent, ReadFails
  <2>2. /\ TodoOrder(todo') /\ (Harmless(todo) => Harmless(todo'))
        /\ state # "kConnecting" /\ lpc = "events"
    BY <2>1, EventEffect DEF Event
  <2>3. UNCHANGED <<state, ch, queue, lpc, callback, down, tpc, closers>>
    BY <1>3 DEF ErrorEvent, ReadFails
  <2> QED
    BY <1>i, <2>2, <2>3 DEF TodoInv, StartInv, EndInv, OnlyLoopCloses
<1>4. CASE ReadData
  <2>1. Event("read")
    BY <1>4 DEF ReadData
  <2>2. /\ TodoOrder(todo') /\ Harmless(todo') /\ lpc = "events"
        /\ OnlyLoopCloses => down = 0
        /\ state # "kConnecting"
    BY <2>1, EventEffect DEF Event
  <2>3. UNCHANGED <<state, ch, queue, lpc, down, tpc, closers>>
    BY <1>4 DEF ReadData
  <2> QED
    BY <1>i, <2>2, <2>3 DEF TodoInv, StartInv, EndInv, OnlyLoopCloses
<1>5. CASE WriteEvent
  <2>1. Event("write")
    BY <1>5 DEF WriteEvent
  <2>2. /\ TodoOrder(todo') /\ Harmless(todo') /\ lpc = "events"
        /\ state # "kConnecting"
    BY <2>1, EventEffect DEF Event
  <2>3. UNCHANGED <<state, lpc, callback, down, tpc, closers>>
    BY <1>5 DEF WriteEvent
  <2>4. Extends(queue', queue) /\ (~IsWriting(ch) => ch' = ch)
    BY <1>5, <1>d, WriteEffect DEF DataInv
  <2>5. QueueStart(queue', state')
    BY <1>t, <2>3, <2>4, StartMore
  <2>6. ch.events = {} => ch' = ch
    BY <2>4 DEF IsWriting
  <2> QED
    BY <1>i, <2>2, <2>3, <2>5, <2>6 DEF TodoInv, StartInv, EndInv, OnlyLoopCloses
<1>6. CASE SwapFunctors \/ BatchDone \/ CallbackReturns
  <2>1. UNCHANGED <<state, ch, queue, down, todo, tpc, closers>>
    BY <1>6 DEF SwapFunctors, BatchDone, CallbackReturns
  <2>2. /\ callback' \in {callback, "none"}
        /\ \/ lpc' = lpc
           \/ lpc' \in {"batch", "poll"} /\ todo = <<>>
    BY <1>6, <1>i DEF SwapFunctors, BatchDone, CallbackReturns, TodoInv
  <2> QED
    BY <1>i, <2>1, <2>2 DEF TodoInv, StartInv, EndInv, OnlyLoopCloses
<1>7. ASSUME NEW op, Run(op)
      PROVE  /\ lpc = "batch" /\ todo = <<>> /\ callback = "none"
             /\ QueueOK(Tail(queue))
             /\ \A u : u # "kConnecting" => QueueStart(Tail(queue), u)
             /\ (op = "established") <=> (state = "kConnecting")
             /\ Harmless(todo)
  <2>1. lpc = "batch" /\ callback = "none" /\ Len(queue) > 0 /\ Head(queue).op = op
    BY <1>7, <1>t DEF Run
  <2>2. todo = <<>>
    BY <2>1, <1>i DEF TodoInv
  <2> QED
    BY <2>1, <2>2, <1>t, QueueTail, StartTail DEF Harmless
<1>8. CASE ConnectEstablished
  <2>1. /\ todo = <<>> /\ Harmless(todo) /\ state = "kConnecting" /\ lpc = "batch"
        /\ QueueStart(Tail(queue), "kConnected")
    BY <1>7, <1>8 DEF ConnectEstablished
  <2>2. down = 0
    BY <2>1, <1>i DEF StartInv
  <2> QED
    BY <1>8, <1>i, <2>1, <2>2
       DEF ConnectEstablished, TodoInv, StartInv, EndInv, OnlyLoopCloses
<1>9. CASE RunSend
  <2>1. /\ todo = <<>> /\ Harmless(todo) /\ state # "kConnecting" /\ lpc = "batch"
        /\ QueueOK(Tail(queue)) /\ QueueStart(Tail(queue), state)
    BY <1>7, <1>9 DEF RunSend
  <2>2. Head(queue).msg \in Messages
    <3>1. Len(queue) > 0 /\ Head(queue) = queue[1] /\ 1 \in 1..Len(queue)
      BY <1>9, <1>t, QueueTail DEF RunSend, Run
    <3> QED
      BY <1>9, <1>t, <3>1 DEF RunSend, Run, QueueOK, Messages, Callers
  <2> DEFINE m == Head(queue).msg
             q == Tail(queue)
  <2>3. q \in Seq(FunctorType) /\ SendInLoop(m, q)
    BY <1>9, <2>1 DEF RunSend, QueueOK
  <2> HIDE DEF m, q
  <2>4. Extends(queue', q) /\ (state = "kDisconnected" => ch' = ch)
    BY <1>d, <2>2, <2>3, SendEffect DEF m, DataInv
  <2>5. QueueStart(queue', state)
    BY <2>1, <2>3, <2>4, StartMore DEF q
  <2>6. UNCHANGED <<state, lpc, todo, callback, down, tpc, closers>>
    BY <1>9 DEF RunSend
  <2> QED
    BY <1>i, <2>1, <2>4, <2>5, <2>6 DEF TodoInv, StartInv, EndInv, OnlyLoopCloses
<1>10. CASE RunShutdown \/ RunCallback
  <2>1. PICK op \in {"shutdown", "writeComplete", "highWater"} :
          Run(op) /\ callback' \in {callback, "writeComplete", "highWater"}
    BY <1>10 DEF RunShutdown, RunCallback
  <2>2. /\ todo = <<>> /\ state # "kConnecting" /\ lpc = "batch"
        /\ QueueStart(Tail(queue), state)
    BY <1>7, <2>1
  <2>3. UNCHANGED <<state, ch, lpc, todo, down, tpc, closers>> /\ queue' = Tail(queue)
    BY <1>10 DEF RunShutdown, RunCallback
  <2> QED
    BY <1>i, <2>1, <2>2, <2>3 DEF TodoInv, StartInv, EndInv, OnlyLoopCloses
<1>11. CASE DestroyCheck
  <2>1. /\ todo = <<>> /\ Harmless(todo) /\ state # "kConnecting" /\ lpc = "batch"
        /\ QueueStart(Tail(queue), state) /\ callback = "none"
    BY <1>7, <1>11 DEF DestroyCheck
  <2>2. ~RemoveChannel(ch).added /\ RemoveChannel(ch).events = ch.events
    <3>1. ~RemoveChannel(ch).added
      BY <1>t, LeavesEpoll
    <3> QED
      BY <1>t, <3>1, EventsKept
  <2>3. /\ UNCHANGED <<state, todo, callback, down, tpc, closers>>
        /\ queue' = Tail(queue)
    BY <1>11 DEF DestroyCheck
  <2>4. CASE state = "kConnected"
    <3>1. lpc' = "destroy" /\ ch' = ch
      BY <1>11, <2>4 DEF DestroyCheck
    <3> QED
      BY <1>e, <1>i, <2>1, <2>3, <2>4, <3>1
         DEF TodoInv, StartInv, EndInv, OnlyLoopCloses
  <2>5. CASE state # "kConnected"
    <3>1. lpc' = lpc /\ ch' = RemoveChannel(ch)
      BY <1>11, <2>5 DEF DestroyCheck
    <3> QED
      BY <1>i, <2>1, <2>2, <2>3, <3>1 DEF TodoInv, StartInv, EndInv, OnlyLoopCloses
  <2> QED
    BY <2>4, <2>5
<1>12. CASE DestroyConnected
  <2>1. /\ todo = <<>> /\ state # "kConnecting" /\ callback = "none"
        /\ OnlyLoopCloses => down = 0
    BY <1>12, <1>i DEF DestroyConnected, TodoInv, StartInv, EndInv
  <2>2. ~ch'.added /\ ch'.events = {}
    <3>1. /\ DisableAll(ch) \in ChannelState /\ ViewsAgree(DisableAll(ch))
      BY <1>t, CallAgrees
    <3>2. DisableAll(ch).events = {}
      BY <1>t, CallEvents
    <3>3. ~RemoveChannel(DisableAll(ch)).added
      BY <3>1, LeavesEpoll
    <3>4. RemoveChannel(DisableAll(ch)).events = {}
      BY <3>1, <3>2, EventsKept
    <3> QED
      BY <1>12, <3>3, <3>4 DEF DestroyConnected
  <2>3. QueueStart(queue', state')
    BY <1>12, <1>t, <2>1 DEF DestroyConnected, QueueStart
  <2>4. Harmless(todo')
    BY <1>12, <2>1 DEF DestroyConnected, Harmless
  <2> QED
    BY <1>12, <1>i, <2>1, <2>2, <2>3, <2>4
       DEF DestroyConnected, TodoInv, StartInv, EndInv, OnlyLoopCloses
<1>13. CASE LoopSend
  <2>1. <<LoopThread, sent'[LoopThread]>> \in Messages
    <3>1. sent'[LoopThread] \in 0..MaxSends /\ sent'[LoopThread] = sent[LoopThread] + 1
          /\ sent[LoopThread] \in Nat
      BY <1>13, <1>d, ConnectionAssumption DEF LoopSend, DataInv, TypeOK, Callers
    <3> QED
      BY <3>1 DEF Messages, Callers
  <2> DEFINE m == <<LoopThread, sent'[LoopThread]>>
  <2>2. SendInLoop(m, queue)
    BY <1>13 DEF LoopSend
  <2> HIDE DEF m
  <2>3. Extends(queue', queue) /\ (ch.added => ch'.added)
    BY <1>d, <1>t, <2>1, <2>2, SendEffect DEF m, DataInv
  <2>4. QueueStart(queue', state)
    BY <1>t, <2>3, StartMore
  <2>5. UNCHANGED <<state, lpc, todo, callback, down, tpc, closers>> /\ state = "kConnected"
    BY <1>13 DEF LoopSend
  <2> QED
    BY <1>e, <1>i, <2>3, <2>4, <2>5 DEF TodoInv, StartInv, EndInv, OnlyLoopCloses
<1>14. CASE LoopShutdown
  <2>1. /\ state = "kConnected" /\ state' = "kDisconnecting" /\ callback # "none"
        /\ UNCHANGED <<ch, queue, lpc, todo, callback, down, tpc>>
        /\ closers \subseteq closers'
    BY <1>14 DEF LoopShutdown
  <2>2. QueueStart(queue', state')
    BY <1>t, <2>1 DEF QueueStart
  <2> QED
    BY <1>e, <1>i, <2>1, <2>2 DEF TodoInv, StartInv, EndInv, OnlyLoopCloses
<1>15. ASSUME NEW t \in Senders, SendCheck(t) \/ ShutdownCheck(t)
       PROVE  TodoInv' /\ StartInv' /\ EndInv'
  <2>1. /\ state = "kConnected"
        /\ UNCHANGED <<state, ch, queue, lpc, todo, callback, down, closers>>
    BY <1>15 DEF SendCheck, ShutdownCheck, threadUnchanged
  <2> QED
    BY <1>i, <2>1 DEF TodoInv, StartInv, EndInv, OnlyLoopCloses
<1>16. ASSUME NEW t \in Senders, SendQueue(t) \/ ShutdownQueue(t)
       PROVE  TodoInv' /\ StartInv' /\ EndInv'
  <2>1. PICK f \in FunctorType : f.op # "established" /\ queue' = Append(queue, f)
    <3>1. CASE SendQueue(t)
      <4>1. sent[t] \in 1..MaxSends
        BY <1>d, <3>1 DEF SendQueue, DataInv, MessageInv
      <4>2. /\ SendFunctor(<<t, sent[t]>>) \in FunctorType
            /\ SendFunctor(<<t, sent[t]>>).op # "established"
        BY <4>1 DEF SendFunctor, FunctorType, FunctorOps, Messages, Callers
      <4> QED
        BY <3>1, <4>2 DEF SendQueue
    <3>2. CASE ShutdownQueue(t)
      BY <3>2, FunctorTypes DEF ShutdownQueue, FunctorOps
    <3> QED
      BY <1>16, <3>1, <3>2
  <2>2. QueueStart(queue', state)
    BY <1>t, <2>1, StartMore
  <2>3. /\ UNCHANGED <<state, ch, lpc, todo, callback, down, closers>>
        /\ \A u \in Senders : tpc'[u] # "idle" => tpc[u] # "idle"
    BY <1>16, <1>t DEF SendQueue, ShutdownQueue, threadUnchanged, TypeOK
  <2> QED
    BY <1>i, <2>2, <2>3 DEF TodoInv, StartInv, EndInv, OnlyLoopCloses
<1>17. ASSUME NEW t \in Senders, ShutdownSet(t)
       PROVE  TodoInv' /\ StartInv' /\ EndInv'
  <2>1. ~OnlyLoopCloses'
    BY <1>17, ConnectionAssumption DEF ShutdownSet, OnlyLoopCloses
  <2>2. /\ state # "kConnecting" /\ state' = "kDisconnecting"
        /\ UNCHANGED <<ch, queue, lpc, todo, callback, down>>
    BY <1>17, <1>i DEF ShutdownSet, threadUnchanged, StartInv
  <2>3. QueueStart(queue', state')
    BY <1>t, <2>2 DEF QueueStart
  <2> QED
    BY <1>i, <2>1, <2>2, <2>3 DEF TodoInv, StartInv, EndInv
<1>18. CASE RemoveConnectionInLoop \/ ServerDestroyed
  <2>1. queue' \in {queue, Append(queue, Functor("destroyed"))}
    BY <1>18 DEF RemoveConnectionInLoop, ServerDestroyed
  <2>2. QueueStart(Append(queue, Functor("destroyed")), state)
    BY <1>t, FunctorTypes, StartMore DEF FunctorOps
  <2>3. QueueStart(queue', state)
    BY <1>t, <2>1, <2>2
  <2>4. UNCHANGED <<state, ch, lpc, todo, callback, down, tpc, closers>>
    BY <1>18 DEF RemoveConnectionInLoop, ServerDestroyed
  <2> QED
    BY <1>i, <2>3, <2>4 DEF TodoInv, StartInv, EndInv, OnlyLoopCloses
<1>19. CASE PeerSends \/ PeerReads \/ PeerCloses \/ PeerResets \/ UNCHANGED vars
  <2>1. UNCHANGED <<state, ch, queue, lpc, todo, callback, down, tpc, closers>>
    BY <1>19 DEF PeerSends, PeerReads, PeerCloses, PeerResets, vars
  <2> QED
    BY <1>i, <2>1 DEF TodoInv, StartInv, EndInv, OnlyLoopCloses
<1> QED
  BY <1>1, <1>2, <1>3, <1>4, <1>5, <1>6, <1>8, <1>9, <1>10, <1>11, <1>12, <1>13,
     <1>14, <1>15, <1>16, <1>17, <1>18, <1>19, ConnectionAssumption
     DEF Next, LoopStep, ThreadStep

\* The end of a connection is final: DOWN is reported once, no message
\* callback follows, state_ stays kDisconnected and the channel stays out of
\* epoll, whatever was queued or reported when the end came (HandleClose,
\* ConnectDestroyed), as long as only the loop thread calls Shutdown.
THEOREM ClosedForGoodCorrect == Spec => []ClosedForGood
<1>1. CloseInv => ClosedForGood
  BY DEF CloseInv, EndInv, ClosedForGood
<1> QED
  BY <1>1, InitClose, NextClose, PTL DEF Spec

\* No step writes data of a connection that has ended.
LEMMA DropStep ==
    ASSUME CloseInv, Next, OnlyLoopCloses, down > 0
    PROVE  wire' = wire
<1> USE DEF loopVars, sockVars, peerVars, serverVars, callVars
<1>1. /\ TypeOK /\ ChannelConsistent /\ QueueOK(queue) /\ Len(queue) \in Nat
      /\ batch \in 0..Len(queue)
  BY DEF CloseInv, DataInv, TypeOK, MessageInv
<1>2. state = "kDisconnected" /\ ch.events = {}
  BY <1>1 DEF CloseInv, EndInv, TypeOK
<1>3. CASE WriteEvent
  BY <1>1, <1>2, <1>3, WriteEffect DEF IsWriting
<1>4. CASE RunSend
  <2>1. /\ Head(queue) = queue[1] /\ 1 \in 1..Len(queue) /\ QueueOK(Tail(queue))
        /\ queue[1].op = "send"
    BY <1>1, <1>4, QueueTail DEF RunSend, Run
  <2>2. Head(queue).msg \in Messages /\ Tail(queue) \in Seq(FunctorType)
    BY <1>1, <2>1 DEF QueueOK, Messages, Callers
  <2> QED
    BY <1>1, <1>2, <1>4, <2>2, SendEffect DEF RunSend
<1>5. CASE LoopSend
  BY <1>2, <1>5 DEF LoopSend
<1>6. CASE ~WriteEvent /\ ~RunSend /\ ~LoopSend
  BY <1>6 DEF Next, LoopStep, ThreadStep, threadUnchanged, Poll, CloseEvent, ErrorEvent,
              ReadData, ReadFails, ReadEnd, SwapFunctors, BatchDone, CallbackReturns,
              ConnectEstablished, RunShutdown, RunCallback, DestroyCheck,
              DestroyConnected, LoopShutdown, SendCheck, SendQueue, ShutdownCheck,
              ShutdownSet, ShutdownQueue, RemoveConnectionInLoop, ServerDestroyed,
              PeerSends, PeerReads, PeerCloses, PeerResets
<1> QED
  BY <1>3, <1>4, <1>5, <1>6

\* Data of a connection that has ended is dropped: neither a send that was
\* queued before nor a write event that was reported before reaches the
\* socket (SendInLoop, HandleWrite), as long as only the loop thread calls
\* Shutdown.
THEOREM DroppedAfterCloseCorrect == Spec => DroppedAfterClose
<1>1. CloseInv /\ [Next]_vars => [OnlyLoopCloses /\ down > 0 => UNCHANGED wire]_vars
  BY DropStep
<1> QED
  BY <1>1, InitClose, NextClose, PTL DEF Spec, DroppedAfterClose

-----------------------------------------------------------------------------
(* The rest of a dispatch                                                  *)

\* A connection that is up is in epoll for reading, and a channel that is
\* not in epoll during a dispatch asks for nothing.
LiveInv ==
    /\ state = "kConnected" => ch.added /\ "in" \in ch.events
    /\ todo # <<>> => ch.added \/ ch.events = {}

\* What SendInLoop and HandleWrite do to the channel.
LEMMA ChannelEffect ==
    ASSUME NEW c \in ChannelState, ViewsAgree(c)
    PROVE  /\ EnableWriting(c).added
           /\ "in" \in c.events => /\ "in" \in EnableWriting(c).events
                                  /\ "in" \in DisableWriting(c).events
           /\ c.added => DisableWriting(c).added \/ DisableWriting(c).events = {}
<1>1. /\ EnableWriting(c).events = c.events \cup {"out"}
      /\ DisableWriting(c).events = c.events \ {"out"}
  BY CallEvents
<1> QED
  BY <1>1, EntersEpoll, StaysInEpoll

\* Every step keeps it.
LEMMA NextLive == CloseInv /\ LiveInv /\ [Next]_vars => LiveInv'
<1> SUFFICES ASSUME CloseInv, LiveInv, [Next]_vars PROVE LiveInv'
  OBVIOUS
<1> USE DEF loopVars, sockVars, peerVars, serverVars, callVars
<1>t. ch \in ChannelState /\ ViewsAgree(ch) /\ TodoInv
  BY DEF CloseInv, DataInv, TypeOK, ChannelConsistent
<1>1. CASE Poll
  <2>1. ~ch.added => todo' = <<>>
    BY <1>1, DispatchOrder DEF Poll, Revents
  <2> QED
    BY <1>1, <2>1 DEF Poll, LiveInv
<1>2. CASE CloseEvent \/ ReadEnd
  <2>1. state' = "kDisconnected" /\ ch' = DisableAll(ch)
    BY <1>2 DEF CloseEvent, ReadEnd, HandleClose
  <2>2. DisableAll(ch).events = {}
    BY <1>t, CallEvents
  <2> QED
    BY <2>1, <2>2 DEF LiveInv
<1>3. CASE ErrorEvent \/ ReadFails \/ ReadData
  BY <1>3 DEF ErrorEvent, ReadFails, ReadData, Event, LiveInv
<1>4. CASE WriteEvent
  <2>1. /\ state' = state /\ todo # <<>> /\ ch' \in {ch, DisableWriting(ch)}
        /\ ~IsWriting(ch) => ch' = ch
    BY <1>4 DEF WriteEvent, StillWriting, Event
  <2>2. /\ "in" \in ch.events => "in" \in DisableWriting(ch).events
        /\ ch.added => DisableWriting(ch).added \/ DisableWriting(ch).events = {}
    BY <1>t, ChannelEffect
  <2>3. CASE ch' = ch
    BY <2>1, <2>3 DEF LiveInv
  <2>4. CASE ch' = DisableWriting(ch) /\ IsWriting(ch)
    <3>1. ch.added
      BY <2>1, <2>4 DEF LiveInv, IsWriting
    <3> QED
      BY <2>1, <2>2, <2>4, <3>1 DEF LiveInv
  <2> QED
    BY <2>1, <2>3, <2>4
<1>5. ASSUME state' = state, todo' = todo, ch' \in {ch, EnableWriting(ch)}
      PROVE  LiveInv'
  <2>1. /\ EnableWriting(ch).added
        /\ "in" \in ch.events => "in" \in EnableWriting(ch).events
    BY <1>t, ChannelEffect
  <2> QED
    BY <1>5, <2>1 DEF LiveInv
<1>6. CASE RunSend \/ LoopSend
  BY <1>5, <1>6 DEF RunSend, LoopSend, SendInLoop
<1>7. CASE ConnectEstablished
  <2>1. EnableReading(ch).added /\ EnableReading(ch).events = ch.events \cup {"in"}
    BY <1>t, EntersEpoll, CallEvents
  <2> QED
    BY <1>7, <2>1 DEF ConnectEstablished, LiveInv
<1>8. CASE DestroyCheck
  <2>1. lpc = "batch" /\ todo = <<>>
    BY <1>8, <1>t DEF DestroyCheck, Run, TodoInv
  <2> QED
    BY <1>8, <2>1 DEF DestroyCheck, LiveInv
<1>9. CASE DestroyConnected
  <2>1. todo = <<>>
    BY <1>9, <1>t DEF DestroyConnected, TodoInv
  <2> QED
    BY <1>9, <2>1 DEF DestroyConnected, LiveInv
<1>10. CASE LoopShutdown \/ \E t \in Senders : ShutdownSet(t)
  BY <1>10 DEF LoopShutdown, ShutdownSet, threadUnchanged, LiveInv
<1>11. ASSUME UNCHANGED <<state, ch, todo>> PROVE LiveInv'
  BY <1>11 DEF LiveInv
<1>12. CASE \E t \in Senders : \/ SendCheck(t) \/ SendQueue(t)
                                 \/ ShutdownCheck(t) \/ ShutdownQueue(t)
  BY <1>11, <1>12 DEF SendCheck, SendQueue, ShutdownCheck, ShutdownQueue, threadUnchanged
<1>13. CASE SwapFunctors \/ BatchDone \/ CallbackReturns \/ RunShutdown \/ RunCallback
  BY <1>11, <1>13 DEF SwapFunctors, BatchDone, CallbackReturns, RunShutdown, RunCallback
<1>14. CASE RemoveConnectionInLoop \/ ServerDestroyed
  BY <1>11, <1>14 DEF RemoveConnectionInLoop, ServerDestroyed
<1>15. CASE PeerSends \/ PeerReads \/ PeerCloses \/ PeerResets \/ UNCHANGED vars
  BY <1>11, <1>15 DEF PeerSends, PeerReads, PeerCloses, PeerResets, vars
<1> QED
  BY <1>1, <1>2, <1>3, <1>4, <1>6, <1>7, <1>8, <1>9, <1>10, <1>12, <1>13, <1>14,
     <1>15, ConnectionAssumption DEF Next, LoopStep, ThreadStep

\* A step in the rest of a dispatch.
LEMMA StaleStep ==
    ASSUME CloseInv, LiveInv, Next, lpc = "events", ~ch.added
    PROVE  UNCHANGED <<ch, out, wire, fin, down>> /\ removals' <= removals
<1> USE DEF loopVars, sockVars, peerVars, serverVars, callVars
<1>1. /\ TypeOK /\ ChannelConsistent /\ removals \in Nat
      /\ state # "kConnected"
  BY DEF CloseInv, DataInv, TypeOK, LiveInv
<1>2. removals <= removals /\ removals - 1 <= removals
  BY <1>1
<1>3. ~CloseEvent /\ ~ReadEnd
  BY EventEffect DEF CloseEvent, ReadEnd
<1>4. CASE WriteEvent
  <2>1. ~IsWriting(ch)
    BY <1>4 DEF WriteEvent, Event, LiveInv, IsWriting
  <2> QED
    BY <1>1, <1>2, <1>4, <2>1, WriteEffect DEF WriteEvent
<1>5. CASE RemoveConnectionInLoop
  BY <1>2, <1>5 DEF RemoveConnectionInLoop
<1>6. CASE ~WriteEvent /\ ~RemoveConnectionInLoop
  <2>1. UNCHANGED <<ch, out, wire, fin, down, removals>>
    BY <1>1, <1>3, <1>6
       DEF Next, LoopStep, ThreadStep, threadUnchanged, Poll, ErrorEvent, ReadData,
           ReadFails, SwapFunctors, BatchDone, CallbackReturns, Run,
           ConnectEstablished, RunSend, RunShutdown, RunCallback, DestroyCheck,
           DestroyConnected, LoopSend, LoopShutdown, SendCheck, SendQueue,
           ShutdownCheck, ShutdownSet, ShutdownQueue, ServerDestroyed, PeerSends,
           PeerReads, PeerCloses, PeerResets
  <2> QED
    BY <1>2, <2>1
<1> QED
  BY <1>4, <1>5, <1>6

\* Once HandleClose has run, the callbacks that epoll reported with the close
\* find nothing to do, whatever other threads store to state_ or queue in
\* the meantime (HandleEventWithGuard, HandleClose, HandleWrite).
THEOREM StaleEventsIgnoredCorrect == Spec => StaleEventsIgnored
<1>1. Init => LiveInv
  BY DEF Init, LiveInv
<1>2. CloseInv /\ LiveInv /\ [Next]_vars =>
        [lpc = "events" /\ ~ch.added =>
           UNCHANGED <<ch, out, wire, fin, down>> /\ removals' <= removals]_vars
  BY StaleStep
<1> QED
  BY <1>1, <1>2, InitClose, NextClose, NextLive, PTL DEF Spec, StaleEventsIgnored

=============================================================================
