-------------------------- MODULE TcpServerProofs --------------------------
(***************************************************************************)
(* Proofs about TcpServer, for any number of clients, threads, descriptors *)
(* and connections the application uses.                                   *)
(***************************************************************************)
EXTENDS TcpServer, ChannelProofs, SequenceTheorems, FiniteSetTheorems

-----------------------------------------------------------------------------
(* Types, channels and loops                                               *)

\* The functors loop l may hold: removals are for the main loop.
FunctorsOf(l) == {f \in Functors : f.op = "removal" => l = Main}

\* The parts of the state are well-formed: the server, ...
ServerOK ==
    /\ spc \in {"up", "closing", "gone"}
    /\ started \in BOOLEAN
    /\ numThreads \in 0..MaxThreads
    /\ next = 0 \/ next \in 1..(numThreads - 1)
    /\ nextConnId \in 1..(MaxClients + 1)
    /\ ach \in ChannelState /\ ViewsAgree(ach)
    /\ listening \in BOOLEAN
    /\ fdLimit \in 1..MaxFds
    /\ told \in 0..numThreads

\* ... the loops, which hold reported channels and swapped-out functors only
\* in the phase that handles them, ...
LoopOK ==
    /\ lpc \in [Loops -> LoopPC]
    /\ quit \in [Loops -> BOOLEAN]
    /\ batch \in [Loops -> Seq(Functors)]
    /\ pos \in [Loops -> Nat]
    /\ \A l \in Loops : batch[l] \in Seq(FunctorsOf(l)) /\ pos[l] \in 0..Len(batch[l])
    /\ active \in [Loops -> SUBSET (Conns \cup {Listener})]
    /\ writable \in [Loops -> SUBSET Conns]
    /\ \A l \in Loops : lpc[l] # "batch" => batch[l] = <<>>
    /\ \A l \in Loops : lpc[l] # "events" => active[l] = {} /\ writable[l] = {}

\* ... and the connections, with their channels in order.
ConnOK ==
    /\ state \in [Conns -> {"kConnecting", "kConnected", "kDisconnecting", "kDisconnected"}]
    /\ ch \in [Conns -> ChannelState] /\ \A c \in Conns : ViewsAgree(ch[c])
    /\ userRef \in [Conns -> BOOLEAN]
    /\ calls \in [Conns -> Seq({"up", "down"})]
    /\ fate \in [Conns -> {"due", "run", "lost"}]

\* Queues hold functors a loop may hold, and the rest has its type.
QueueOK ==
    /\ queue \in [Loops -> Seq(Functors)]
    /\ \A l \in Loops : queue[l] \in Seq(FunctorsOf(l))

UserOK ==
    /\ inCall \in [Conns -> SUBSET UserOps]
    /\ revived \in SUBSET Conns
    /\ \A c \in Conns : inCall[c] # {} => spc = "up"

OtherOK ==
    /\ connections \in SUBSET Conns
    /\ loopOf \in [Conns -> Loops]
    /\ peer \in [Conns -> {"none", "open", "closed"}]

\* When the main loop comes to accept_channel_, a client waits.
AcceptInv ==
    \A l \in Loops : Listener \in active[l] => l = Main /\ nextConnId \in Conns

\* Loop l is in its Loop().
Running(l) == lpc[l] \in {"poll", "events", "batch"}

\* Which loops run in which phase of the server.
LifeInv ==
    /\ lpc[Main] # "none" /\ lpc[Main] # "entering"
    /\ Running(Main) => spc = "up" /\ started
    /\ lpc[Main] = "gone" => spc = "gone"
    /\ ~started => /\ next = 0 /\ nextConnId = 1 /\ told = 0
                   /\ \A l \in SubLoops : lpc[l] = "none"
    /\ started => \A l \in 1..numThreads : lpc[l] # "none"
    /\ \A l \in SubLoops : /\ lpc[l] # "out"
                           /\ Running(l) \/ lpc[l] = "entering" => spc # "gone" /\ started
    /\ \A l \in SubLoops : quit[l] \/ lpc[l] = "gone" => spc # "up" /\ connections = {}
    /\ \A l \in SubLoops : lpc[l] = "gone" => queue[l] = <<>>
    /\ spc = "gone" => connections = {}

\* The inductive invariant behind types and channels.
BaseInv ==
    ServerOK /\ LoopOK /\ ConnOK /\ QueueOK /\ UserOK /\ OtherOK /\ AcceptInv /\ LifeInv

\* Loops and connections are numbers, and the main loop and the listener are
\* 0 among them.
LEMMA Numbers ==
    /\ MaxClients \in Nat /\ MaxThreads \in Nat /\ MaxFds \in Nat
    /\ Main \in Loops /\ \A l \in Loops : l \in Nat /\ (l # Main => l \in SubLoops)
    /\ \A l \in SubLoops : l \in Loops /\ l # Main
    /\ \A c \in Conns : c \in Nat /\ c # Listener
BY ServerAssumption DEF Main, Loops, SubLoops, Conns, Listener

\* Queueing a functor.
LEMMA PushType ==
    ASSUME QueueOK, NEW l \in Loops, NEW op \in FunctorOps, NEW c \in Conns,
           op = "removal" => l = Main, Push(l, Functor(op, c))
    PROVE  QueueOK' /\ \A m \in Loops : m # l => queue'[m] = queue[m]
<1>1. PICK f \in Functors : f = Functor(op, c) /\ f \in FunctorsOf(l)
  BY DEF Functor, Functors, FunctorsOf
<1>2. /\ queue[l] \in Seq(Functors) /\ queue[l] \in Seq(FunctorsOf(l))
      /\ queue' = [queue EXCEPT ![l] = Append(queue[l], f)]
  BY <1>1 DEF Push, QueueOK
<1>3. Append(queue[l], f) \in Seq(Functors) /\ Append(queue[l], f) \in Seq(FunctorsOf(l))
  BY <1>1, <1>2
<1> QED
  BY <1>2, <1>3 DEF QueueOK

\* The operations on a connection leave it well-formed.
LEMMA ConnOps ==
    ASSUME ConnOK, NEW c \in Conns,
           ConnectEstablished(c) \/ ConnectDestroyed(c) \/ HandleClose(c)
    PROVE  ConnOK'
<1>0. ch[c] \in ChannelState /\ ViewsAgree(ch[c])
  BY DEF ConnOK
<1>1. \A s \in Seq({"up", "down"}), x \in {"up", "down"} :
        Append(s, x) \in Seq({"up", "down"})
  OBVIOUS
<1>2. CASE ConnectEstablished(c)
  <2>1. EnableReading(ch[c]) \in ChannelState /\ ViewsAgree(EnableReading(ch[c]))
    BY <1>0, CallAgrees
  <2> QED
    BY <1>1, <1>2, <2>1 DEF ConnectEstablished, ConnOK
<1>3. CASE HandleClose(c)
  <2>1. DisableAll(ch[c]) \in ChannelState /\ ViewsAgree(DisableAll(ch[c]))
    BY <1>0, CallAgrees
  <2> QED
    BY <1>1, <1>3, <2>1 DEF HandleClose, ConnOK
<1>4. CASE ConnectDestroyed(c)
  <2>1. PICK d : /\ d \in ChannelState /\ ViewsAgree(d)
                 /\ d = IF state[c] = "kConnected" THEN DisableAll(ch[c]) ELSE ch[c]
    BY <1>0, CallAgrees
  <2>2. RemoveChannel(d) \in ChannelState /\ ViewsAgree(RemoveChannel(d))
    BY <2>1, RemoveAgrees
  <2>3. ch' = [ch EXCEPT ![c] = RemoveChannel(d)]
    BY <1>4, <2>1 DEF ConnectDestroyed
  <2>4. ch' \in [Conns -> ChannelState] /\ \A k \in Conns : ViewsAgree(ch'[k])
    BY <2>2, <2>3 DEF ConnOK
  <2> QED
    BY <1>1, <1>4, <2>4 DEF ConnectDestroyed, ConnOK
<1> QED
  BY <1>2, <1>3, <1>4

\* So do those that only touch its channel.
LEMMA ChannelOps ==
    ASSUME ConnOK, NEW c \in Conns, SendInLoop(c) \/ HandleWrite(c)
    PROVE  /\ ch' \in [Conns -> ChannelState] /\ \A d \in Conns : ViewsAgree(ch'[d])
           /\ \A d \in Conns \ {c} : ch'[d] = ch[d]
<1>0. ch[c] \in ChannelState /\ ViewsAgree(ch[c])
  BY DEF ConnOK
<1>1. PICK x \in ChannelState : ViewsAgree(x) /\ (ch' = ch \/ ch' = [ch EXCEPT ![c] = x])
  <2>1. CASE SendInLoop(c)
    BY <1>0, <2>1, CallAgrees DEF SendInLoop
  <2>2. CASE HandleWrite(c)
    BY <1>0, <2>2, CallAgrees DEF HandleWrite
  <2> QED
    BY <2>1, <2>2
<1>2. CASE ch' = ch
  BY <1>2 DEF ConnOK
<1>3. CASE ch' = [ch EXCEPT ![c] = x]
  BY <1>1, <1>3 DEF ConnOK
<1> QED
  BY <1>1, <1>2, <1>3

\* The constructors leave a server for which the invariant holds.
LEMMA InitBase == Init => BaseInv
<1> SUFFICES ASSUME Init PROVE BaseInv
  OBVIOUS
<1> USE Numbers DEF Init
<1>1. ServerOK
  <2>1. /\ nextConnId \in 1..(MaxClients + 1) /\ numThreads \in 0..MaxThreads
        /\ told \in 0..numThreads
    OBVIOUS
  <2>2. ach \in ChannelState /\ ViewsAgree(ach)
    BY NewAgrees
  <2> QED
    BY <2>1, <2>2 DEF ServerOK
<1>2. LoopOK
  BY DEF LoopOK, LoopPC
<1>3. ConnOK
  BY NewAgrees DEF ConnOK
<1>4. QueueOK /\ UserOK /\ OtherOK /\ AcceptInv
  BY DEF QueueOK, UserOK, OtherOK, AcceptInv
<1>5. LifeInv
  BY DEF LifeInv, Running
<1> QED
  BY <1>1, <1>2, <1>3, <1>4, <1>5 DEF BaseInv

\* Loop l comes to one of its active channels or to a functor.
LEMMA LoopMoves ==
    ASSUME LoopOK, NEW l \in Loops,
           (\E k : Event(l, k)) \/ (\E op, c : Run(l, op, c))
    PROVE  /\ LoopOK' /\ UNCHANGED <<lpc, quit, batch>> /\ Running(l)
           /\ \A m \in Loops : active'[m] \subseteq active[m]
<1>1. ASSUME NEW k, Event(l, k)
      PROVE  /\ LoopOK' /\ UNCHANGED <<lpc, quit, batch>> /\ Running(l)
             /\ \A m \in Loops : active'[m] \subseteq active[m]
  BY <1>1 DEF Event, LoopOK, Running
<1>2. ASSUME NEW op, NEW c, Run(l, op, c)
      PROVE  /\ LoopOK' /\ UNCHANGED <<lpc, quit, batch>> /\ Running(l)
             /\ \A m \in Loops : active'[m] \subseteq active[m]
  <2>1. /\ pos[l] \in Nat /\ pos[l] < Len(batch[l]) /\ Len(batch[l]) \in Nat
        /\ pos' = [pos EXCEPT ![l] = pos[l] + 1]
        /\ UNCHANGED <<lpc, quit, batch, active, writable>> /\ lpc[l] = "batch"
    BY <1>2 DEF Run, LoopOK
  <2>2. pos' \in [Loops -> Nat] /\ \A m \in Loops : pos'[m] \in 0..Len(batch[m])
    BY <2>1 DEF LoopOK
  <2> QED
    BY <2>1, <2>2 DEF LoopOK, Running
<1> QED
  BY <1>1, <1>2

\* Every step keeps it.
LEMMA NextBase == BaseInv /\ [Next]_vars => BaseInv'
<1> SUFFICES ASSUME BaseInv, [Next]_vars PROVE BaseInv'
  OBVIOUS
<1> USE Numbers DEF serverVars, loopVars, connVars, userVars
<1>0. /\ ServerOK /\ LoopOK /\ ConnOK /\ QueueOK /\ UserOK /\ OtherOK /\ AcceptInv
      /\ LifeInv
  BY DEF BaseInv
<1>s. UNCHANGED serverVars => ServerOK'
  BY <1>0 DEF ServerOK
<1>l. UNCHANGED loopVars => LoopOK'
  BY <1>0 DEF LoopOK
<1>c. UNCHANGED connVars => ConnOK'
  BY <1>0 DEF ConnOK
<1>q. UNCHANGED queue => QueueOK'
  BY <1>0 DEF QueueOK
<1>u. UNCHANGED userVars /\ (spc' = spc \/ \A c \in Conns : inCall[c] = {}) => UserOK'
  BY <1>0 DEF UserOK
<1>o. UNCHANGED <<connections, loopOf, peer>> => OtherOK'
  BY <1>0 DEF OtherOK
<1>1. CASE SetThreadNum
  <2>1. ServerOK' /\ AcceptInv'
    BY <1>0, <1>1 DEF SetThreadNum, ServerOK, LifeInv, AcceptInv
  <2>2. LifeInv'
    BY <1>0, <1>1 DEF SetThreadNum, LifeInv, Running
  <2> QED
    BY <1>u, <1>1, <1>l, <1>c, <1>q, <1>o, <2>1, <2>2 DEF SetThreadNum, BaseInv
<1>2. CASE Start
  <2>1. ach' \in ChannelState /\ ViewsAgree(ach')
    BY <1>0, <1>2, CallAgrees DEF Start, Listen, ServerOK
  <2>2. ServerOK' /\ AcceptInv'
    BY <1>0, <1>2, <2>1 DEF Start, Listen, ServerOK, AcceptInv
  <2>3. LoopOK'
    <3>1. \A l \in Loops : lpc'[l] = lpc[l] \/ lpc'[l] = "entering"
      BY <1>0, <1>2 DEF Start, LoopOK
    <3>2. lpc' \in [Loops -> LoopPC]
      BY <1>0, <1>2 DEF Start, LoopOK, LoopPC
    <3>3. \A l \in Loops : /\ lpc'[l] # "batch" => batch'[l] = <<>>
                           /\ lpc'[l] # "events" => active'[l] = {} /\ writable'[l] = {}
      <4>1. \A l \in Loops : lpc[l] \notin {"batch", "events"} \/ lpc'[l] = lpc[l]
        BY <1>0, <1>2 DEF Start, LoopOK, LifeInv
      <4> QED
        BY <1>0, <1>2, <3>1, <4>1 DEF Start, LoopOK
    <3> QED
      BY <1>0, <1>2, <3>2, <3>3 DEF Start, LoopOK
  <2>4. LifeInv'
    <3>1. /\ started' /\ spc = "up" /\ lpc[Main] = "out" /\ lpc'[Main] = "out"
          /\ UNCHANGED <<spc, numThreads, next, nextConnId, told, connections, quit, queue>>
          /\ \A l \in Loops : lpc'[l] = lpc[l] \/ (lpc'[l] = "entering" /\ l \in 1..numThreads)
      BY <1>0, <1>2 DEF Start, LoopOK, Main
    <3>2. \A l \in 1..numThreads : lpc'[l] # "none"
      <4>1. \A l \in 1..numThreads : l \in Loops
        BY <1>0 DEF ServerOK, Loops
      <4> QED
        BY <1>0, <1>2, <4>1 DEF Start, LifeInv
    <3> QED
      BY <1>0, <3>1, <3>2 DEF LifeInv, Running
  <2> QED
    BY <1>u, <1>2, <1>c, <1>q, <1>o, <2>2, <2>3, <2>4 DEF Start, BaseInv
<1>3. CASE EnterLoop \/ QuitMain
  <2>1. LoopOK' /\ AcceptInv'
    BY <1>0, <1>3 DEF EnterLoop, Enter, QuitMain, LoopOK, LoopPC, AcceptInv
  <2>2. /\ spc = "up" /\ started
        /\ UNCHANGED <<spc, started, numThreads, next, nextConnId, told, connections, queue>>
        /\ lpc'[Main] \in {"poll", "events", "batch"}
        /\ \A l \in Loops : l # Main => lpc'[l] = lpc[l] /\ quit'[l] = quit[l]
    BY <1>0, <1>3 DEF EnterLoop, Enter, QuitMain, LifeInv, Running, LoopOK
  <2>3. \A l \in 1..numThreads : l \in Loops /\ l # Main
    BY <1>0 DEF ServerOK, Loops, Main
  <2>4. LifeInv'
    BY <1>0, <2>2, <2>3 DEF LifeInv, Running
  <2> QED
    BY <1>u, <1>3, <1>s, <1>c, <1>q, <1>o, <2>1, <2>4 DEF EnterLoop, Enter, QuitMain, BaseInv
<1>21. ASSUME NEW l \in Loops, EnterSub(l) PROVE BaseInv'
  <2>1. LoopOK' /\ AcceptInv'
    BY <1>0, <1>21 DEF EnterSub, Enter, LoopOK, LoopPC, AcceptInv
  <2>2. /\ UNCHANGED <<spc, started, numThreads, next, nextConnId, told, connections, queue>>
        /\ lpc[l] = "entering" /\ lpc'[l] = "poll" /\ ~quit'[l]
        /\ \A m \in Loops : m # l => lpc'[m] = lpc[m] /\ quit'[m] = quit[m]
    BY <1>0, <1>21 DEF EnterSub, Enter, LoopOK
  <2>3. l \in SubLoops /\ spc # "gone" /\ started
    BY <1>0, <2>2 DEF LifeInv
  <2>4. \A m \in 1..numThreads : m \in Loops
    BY <1>0 DEF ServerOK, Loops
  <2>5. LifeInv'
    BY <1>0, <2>2, <2>3, <2>4 DEF LifeInv, Running
  <2> QED
    BY <1>u, <1>21, <1>s, <1>c, <1>q, <1>o, <2>1, <2>5 DEF EnterSub, Enter, BaseInv
<1>4. ASSUME NEW l \in Loops, PollReturns(l) PROVE BaseInv'
  <2>1. PICK k \in SUBSET MayHangUp(l), w \in SUBSET MayWrite(l) :
          /\ active' = [active EXCEPT ![l] = Ready(l) \cup k]
          /\ writable' = [writable EXCEPT ![l] = w]
    BY <1>4 DEF PollReturns
  <2>2. /\ Ready(l) \cup k \in SUBSET (Conns \cup {Listener}) /\ w \in SUBSET Conns
        /\ k \in SUBSET Conns
    BY DEF Ready, MayHangUp, MayWrite
  <2>3. Listener \in Ready(l) \cup k => l = Main /\ nextConnId \in Conns
    <3>1. Listener \in Ready(l) => l = Main /\ Backlog # {}
      BY DEF Ready, Revents
    <3>2. Backlog # {} => nextConnId \in Conns
      BY <1>0 DEF Backlog, Accepted, ServerOK, Conns
    <3> QED
      BY <2>2, <3>1, <3>2
  <2>4. /\ lpc[l] = "poll" /\ lpc' = [lpc EXCEPT ![l] = "events"]
        /\ UNCHANGED <<serverVars, connections, quit, batch, pos, queue, connVars,
                       userVars, loopOf, peer>>
    BY <1>4 DEF PollReturns
  <2>5. LoopOK'
    <3>1. /\ lpc' \in [Loops -> LoopPC] /\ active' \in [Loops -> SUBSET (Conns \cup {Listener})]
          /\ writable' \in [Loops -> SUBSET Conns]
      BY <1>0, <2>1, <2>2, <2>4 DEF LoopOK, LoopPC
    <3>2. \A m \in Loops : m # l => /\ lpc'[m] = lpc[m] /\ active'[m] = active[m]
                                    /\ writable'[m] = writable[m]
      BY <1>0, <2>1, <2>4 DEF LoopOK
    <3>3. lpc'[l] = "events"
      BY <1>0, <2>4 DEF LoopOK
    <3> QED
      BY <1>0, <2>4, <3>1, <3>2, <3>3 DEF LoopOK
  <2>6. AcceptInv'
    BY <1>0, <2>1, <2>3, <2>4 DEF LoopOK, AcceptInv
  <2>7. LifeInv'
    BY <1>0, <2>4 DEF LifeInv, Running, LoopOK
  <2> QED
    BY <1>s, <1>c, <1>q, <1>u, <1>o, <2>4, <2>5, <2>6, <2>7 DEF BaseInv
<1>5. ASSUME NEW l \in Loops, ConnectionEvent(l) PROVE BaseInv'
  <2>1. PICK c \in Conns : Event(l, c) /\ HandleClose(c)
    BY <1>5 DEF ConnectionEvent
  <2>2. /\ LoopOK' /\ UNCHANGED <<lpc, quit, batch>>
        /\ \A m \in Loops : active'[m] \subseteq active[m]
    BY <1>0, <2>1, LoopMoves
  <2>3. ConnOK'
    BY <1>0, <2>1, ConnOps
  <2>4. /\ connections' \subseteq connections /\ QueueOK'
        /\ \A m \in SubLoops : queue'[m] = queue[m]
    <3>1. CASE loopOf[c] = Main
      <4>1. Push(Main, Functor("destroyed", c)) /\ connections' = connections \ {c}
        BY <2>1, <3>1 DEF HandleClose, RemoveConnection, RemoveConnectionInLoop
      <4> QED
        BY <1>0, <4>1, PushType DEF FunctorOps
    <3>2. CASE loopOf[c] # Main
      <4>1. Push(Main, Functor("removal", c)) /\ connections' = connections
        BY <2>1, <3>2 DEF HandleClose, RemoveConnection
      <4> QED
        BY <1>0, <4>1, PushType DEF FunctorOps
    <3> QED
      BY <3>1, <3>2
  <2>5. UNCHANGED <<serverVars, userVars, loopOf, peer>>
    BY <1>5 DEF ConnectionEvent
  <2>6. OtherOK' /\ AcceptInv'
    BY <1>0, <2>2, <2>4, <2>5 DEF OtherOK, AcceptInv
  <2>7. LifeInv'
    BY <1>0, <2>2, <2>4, <2>5 DEF LifeInv, Running
  <2> QED
    BY <1>u, <1>s, <2>2, <2>3, <2>4, <2>5, <2>6, <2>7 DEF BaseInv
<1>22. ASSUME NEW l \in Loops, WriteEvent(l) \/ CallbackCalls(l) PROVE BaseInv'
  <2>1. PICK c \in Conns :
          \/ HandleWrite(c) /\ UNCHANGED state
          \/ SendInLoop(c) /\ UNCHANGED state
          \/ UNCHANGED ch /\ state' = [state EXCEPT ![c] = "kDisconnecting"]
    <3>1. CASE WriteEvent(l)
      BY <1>0, <3>1 DEF WriteEvent, LoopOK
    <3>2. CASE CallbackCalls(l)
      <4>1. Used \subseteq Conns
        BY ServerAssumption DEF Conns
      <4> QED
        BY <3>2, <4>1 DEF CallbackCalls
    <3> QED
      BY <1>22, <3>1, <3>2
  <2>2. UNCHANGED <<serverVars, connections, lpc, quit, batch, pos, active, queue, userRef,
                    calls, fate, userVars, loopOf, peer>>
    BY <1>22 DEF WriteEvent, CallbackCalls
  <2>3. ConnOK'
    BY <1>0, <2>1, <2>2, ChannelOps DEF ConnOK
  <2>4. writable' \in [Loops -> SUBSET Conns] /\ \A m \in Loops : writable'[m] \subseteq writable[m]
    <3>0. writable \in [Loops -> SUBSET Conns]
      BY <1>0 DEF LoopOK
    <3>1. CASE WriteEvent(l)
      BY <3>0, <3>1 DEF WriteEvent
    <3>2. CASE CallbackCalls(l)
      BY <3>0, <3>2 DEF CallbackCalls, loopVars
    <3> QED
      BY <1>22, <3>1, <3>2
  <2>5. LoopOK' /\ AcceptInv' /\ LifeInv'
    BY <1>0, <2>2, <2>4 DEF LoopOK, AcceptInv, LifeInv, Running
  <2> QED
    BY <1>s, <1>q, <1>u, <1>o, <2>2, <2>3, <2>5 DEF BaseInv
<1>6. ASSUME NEW l \in Loops, AcceptEvent(l) PROVE BaseInv'
  <2>1. /\ Event(l, Listener) /\ NewConnection(nextConnId)
        /\ UNCHANGED <<spc, started, numThreads, ach, listening, fdLimit, told, userVars, peer>>
    BY <1>6 DEF AcceptEvent
  <2>2. /\ LoopOK' /\ UNCHANGED <<lpc, quit, batch>> /\ Running(l)
        /\ \A m \in Loops : active'[m] \subseteq active[m]
    BY <1>0, <2>1, LoopMoves
  <2>3. l = Main /\ nextConnId \in Conns
    BY <1>0, <2>1 DEF Event, AcceptInv
  <2>4. spc = "up" /\ started
    BY <1>0, <2>2, <2>3 DEF LifeInv
  <2>5. PICK c \in Conns : c = nextConnId
    BY <2>3
  <2>6. NewConnection(c)
    BY <2>1, <2>5
  <2>7. NextLoop \in Loops
    BY <1>0 DEF NextLoop, ServerOK, Main, Loops
  <2>8. ServerOK'
    BY <1>0, <2>1, <2>5, <2>6 DEF NewConnection, NextIndex, ServerOK, Conns
  <2>9. OtherOK'
    BY <1>0, <2>1, <2>6, <2>7 DEF NewConnection, OtherOK
  <2>10. ConnOK' /\ QueueOK'
    <3>1. CASE NextLoop = Main
      BY <1>0, <1>q, <2>6, <3>1, ConnOps DEF NewConnection
    <3>2. CASE NextLoop # Main
      BY <1>0, <1>c, <2>6, <2>7, <3>2, PushType DEF NewConnection, FunctorOps
    <3> QED
      BY <3>1, <3>2
  <2>11. \A m \in Loops : Listener \notin active'[m]
    BY <1>0, <2>1, <2>2, <2>3 DEF Event, AcceptInv, LoopOK
  <2>12. LifeInv'
    BY <1>0, <2>1, <2>2, <2>4 DEF LifeInv, Running
  <2> QED
    BY <1>u, <2>1, <2>2, <2>8, <2>9, <2>10, <2>11, <2>12 DEF BaseInv, AcceptInv
<1>7. ASSUME NEW l \in Loops, AcceptFails(l) PROVE BaseInv'
  <2>1. /\ LoopOK' /\ UNCHANGED <<lpc, quit, batch>>
        /\ \A m \in Loops : active'[m] \subseteq active[m]
    BY <1>0, <1>7, LoopMoves DEF AcceptFails
  <2>2. UNCHANGED <<serverVars, connections, queue, connVars, userVars, loopOf, peer>>
    BY <1>7 DEF AcceptFails
  <2>3. AcceptInv' /\ LifeInv'
    BY <1>0, <2>1, <2>2 DEF AcceptInv, LifeInv, Running
  <2> QED
    BY <1>u, <1>s, <1>c, <1>q, <1>o, <2>1, <2>2, <2>3 DEF BaseInv
<1>8. ASSUME NEW l \in Loops, SwapFunctors(l) PROVE BaseInv'
  <2>1. batch[l] = <<>> /\ pos[l] = 0
    <3>1. batch[l] = <<>> /\ pos[l] \in 0..Len(batch[l])
      BY <1>0, <1>8 DEF SwapFunctors, LoopOK
    <3> QED
      BY <3>1
  <2>2. LoopOK'
    <3>1. /\ lpc' \in [Loops -> LoopPC]
          /\ batch' \in [Loops -> Seq(Functors)]
          /\ \A m \in Loops : batch'[m] \in Seq(FunctorsOf(m))
          /\ UNCHANGED <<quit, pos, active, writable>>
          /\ lpc'[l] = "batch" /\ active[l] = {} /\ writable[l] = {}
          /\ \A m \in Loops : m # l => lpc'[m] = lpc[m] /\ batch'[m] = batch[m]
      BY <1>0, <1>8 DEF SwapFunctors, LoopOK, LoopPC, QueueOK
    <3>2. Len(batch'[l]) \in Nat
      BY <3>1
    <3>3. ASSUME NEW m \in Loops PROVE pos'[m] \in 0..Len(batch'[m])
      <4>1. CASE m = l
        BY <2>1, <3>1, <3>2, <4>1
      <4>2. CASE m # l
        BY <1>0, <3>1, <4>2 DEF LoopOK
      <4> QED
        BY <4>1, <4>2
    <3> QED
      BY <1>0, <3>1, <3>3 DEF LoopOK
  <2>3. QueueOK' /\ \A m \in Loops : queue'[m] \in {queue[m], <<>>}
    BY <1>0, <1>8 DEF SwapFunctors, QueueOK
  <2>4. AcceptInv'
    BY <1>0, <1>8 DEF SwapFunctors, AcceptInv
  <2>5. LifeInv'
    BY <1>0, <1>8, <2>3 DEF SwapFunctors, LifeInv, Running, LoopOK
  <2> QED
    BY <1>u, <1>8, <1>s, <1>c, <1>o, <2>2, <2>3, <2>4, <2>5 DEF SwapFunctors, BaseInv
<1>9. ASSUME NEW l \in Loops,
             RunEstablished(l) \/ RunDestroyed(l) \/ RunSend(l) \/ RunShutdown(l)
      PROVE  BaseInv'
  <2>1. /\ LoopOK' /\ UNCHANGED <<lpc, quit, batch>>
        /\ \A m \in Loops : active'[m] \subseteq active[m]
    BY <1>0, <1>9, LoopMoves DEF RunEstablished, RunDestroyed, RunSend, RunShutdown
  <2>2. UNCHANGED <<serverVars, connections, queue, userVars, loopOf, peer>>
    BY <1>9 DEF RunEstablished, RunDestroyed, RunSend, RunShutdown
  <2>3. ConnOK'
    <3>1. CASE RunEstablished(l) \/ RunDestroyed(l)
      BY <1>0, <3>1, ConnOps DEF RunEstablished, RunDestroyed
    <3>2. CASE RunSend(l)
      <4>1. ch' \in [Conns -> ChannelState] /\ \A d \in Conns : ViewsAgree(ch'[d])
        BY <1>0, <3>2, ChannelOps DEF RunSend
      <4> QED
        BY <1>0, <3>2, <4>1 DEF RunSend, ConnOK
    <3>3. CASE RunShutdown(l)
      BY <1>c, <3>3 DEF RunShutdown
    <3> QED
      BY <1>9, <3>1, <3>2, <3>3
  <2>4. AcceptInv' /\ LifeInv'
    BY <1>0, <2>1, <2>2 DEF AcceptInv, LifeInv, Running
  <2> QED
    BY <1>s, <1>q, <1>u, <1>o, <2>1, <2>2, <2>3, <2>4 DEF BaseInv
<1>10. ASSUME NEW l \in Loops, RunRemoval(l) PROVE BaseInv'
  <2>1. PICK c \in Conns : Run(l, "removal", c) /\ RemoveConnectionInLoop(c)
    BY <1>10 DEF RunRemoval
  <2>2. /\ LoopOK' /\ UNCHANGED <<lpc, quit, batch>> /\ Running(l)
        /\ \A m \in Loops : active'[m] \subseteq active[m]
    BY <1>0, <2>1, LoopMoves
  <2>3. l = Main
    <3>1. /\ batch[l] \in Seq(FunctorsOf(l)) /\ pos[l] + 1 \in 1..Len(batch[l])
          /\ batch[l][pos[l] + 1].op = "removal"
      BY <1>0, <2>1 DEF Run, LoopOK, Functor
    <3>2. batch[l][pos[l] + 1] \in FunctorsOf(l)
      BY <3>1
    <3> QED
      BY <3>1, <3>2 DEF FunctorsOf
  <2>4. spc = "up" /\ started
    BY <1>0, <2>2, <2>3 DEF LifeInv
  <2>5. connections' = connections \ {c} /\ QueueOK'
    <3>1. loopOf[c] \in Loops /\ Push(loopOf[c], Functor("destroyed", c))
      BY <1>0, <2>1 DEF RemoveConnectionInLoop, OtherOK
    <3> QED
      BY <1>0, <2>1, <3>1, PushType DEF RemoveConnectionInLoop, FunctorOps
  <2>6. UNCHANGED <<serverVars, connVars, userVars, loopOf, peer>>
    BY <1>10 DEF RunRemoval
  <2>7. OtherOK' /\ AcceptInv'
    BY <1>0, <2>2, <2>5, <2>6 DEF OtherOK, AcceptInv
  <2>8. LifeInv'
    BY <1>0, <2>2, <2>4, <2>5, <2>6 DEF LifeInv, Running
  <2> QED
    BY <1>u, <1>s, <1>c, <2>2, <2>5, <2>6, <2>7, <2>8 DEF BaseInv
<1>11. ASSUME NEW l \in Loops, BatchDone(l) PROVE BaseInv'
  <2>1. /\ lpc'[l] \in {"poll", "out", "gone"} /\ (lpc'[l] = "out" => l = Main)
        /\ lpc'[l] = "gone" => l # Main /\ quit[l] /\ Discard(l)
        /\ lpc'[l] # "gone" => UNCHANGED <<queue, fate>>
        /\ lpc[l] = "batch" /\ lpc' = [lpc EXCEPT ![l] = lpc'[l]]
    BY <1>0, <1>11 DEF BatchDone, SeesQuit, LoopOK
  <2>2. LoopOK'
    BY <1>0, <1>11, <2>1 DEF BatchDone, LoopOK, LoopPC
  <2>3. ConnOK'
    <3>1. UNCHANGED <<state, ch, userRef, calls>>
      BY <1>11 DEF BatchDone
    <3>2. fate' \in [Conns -> {"due", "run", "lost"}]
      <4>1. CASE lpc'[l] = "gone"
        BY <1>0, <2>1, <4>1 DEF ConnOK, Discard
      <4>2. CASE lpc'[l] # "gone"
        BY <1>0, <2>1, <4>2 DEF ConnOK
      <4> QED
        BY <4>1, <4>2
    <3> QED
      BY <1>0, <3>1, <3>2 DEF ConnOK
  <2>4. /\ QueueOK' /\ \A m \in Loops : queue'[m] \in {queue[m], <<>>}
        /\ lpc'[l] = "gone" => queue'[l] = <<>>
    <3>1. CASE lpc'[l] # "gone"
      BY <1>0, <1>q, <2>1, <3>1
    <3>2. CASE lpc'[l] = "gone"
      <4>1. queue' = [queue EXCEPT ![l] = <<>>]
        BY <2>1, <3>2 DEF Discard
      <4> QED
        BY <1>0, <4>1 DEF QueueOK
    <3> QED
      BY <3>1, <3>2
  <2>5. UNCHANGED <<serverVars, connections, quit, active, writable, userVars, loopOf, peer>>
    BY <1>11 DEF BatchDone
  <2>6. AcceptInv'
    BY <1>0, <2>5 DEF AcceptInv
  <2>7. LifeInv'
    <3>1. \A m \in Loops : m # l => lpc'[m] = lpc[m]
      BY <1>0, <2>1 DEF LoopOK
    <3>2. \A m \in 1..numThreads : m \in SubLoops
      BY <1>0 DEF ServerOK, SubLoops
    <3>3. CASE l = Main
      BY <1>0, <2>1, <2>4, <2>5, <3>1, <3>2, <3>3 DEF LifeInv, Running
    <3>4. CASE l # Main
      <4>1. Running(l) /\ l \in SubLoops
        BY <2>1, <3>4 DEF Running
      <4>2. spc # "gone" /\ started /\ (quit[l] => spc # "up" /\ connections = {})
        BY <1>0, <4>1 DEF LifeInv
      <4> QED
        BY <1>0, <2>1, <2>4, <2>5, <3>1, <3>2, <3>4, <4>2 DEF LifeInv, Running
    <3> QED
      BY <3>3, <3>4
  <2> QED
    BY <1>u, <1>s, <1>o, <2>2, <2>3, <2>4, <2>5, <2>6, <2>7 DEF BaseInv
<1>12. CASE DestroyServer
  <2>1. ServerOK' /\ AcceptInv' /\ LifeInv'
    BY <1>0, <1>12 DEF DestroyServer, ServerOK, AcceptInv, LifeInv, Running
  <2> QED
    BY <1>u, <1>12, <1>l, <1>c, <1>q, <1>o, <2>1 DEF DestroyServer, BaseInv
<1>13. CASE DropConnection
  <2>1. PICK c \in connections :
          /\ connections' = connections \ {c}
          /\ IF loopOf[c] = Main
             THEN ConnectDestroyed(c) /\ UNCHANGED queue
             ELSE Push(loopOf[c], Functor("destroyed", c)) /\ UNCHANGED connVars
    BY <1>13 DEF DropConnection
  <2>2. c \in Conns /\ loopOf[c] \in Loops
    BY <1>0 DEF OtherOK
  <2>3. ConnOK' /\ QueueOK'
    <3>1. CASE loopOf[c] = Main
      BY <1>0, <1>q, <2>1, <2>2, <3>1, ConnOps
    <3>2. CASE loopOf[c] # Main
      BY <1>0, <1>c, <2>1, <2>2, <3>2, PushType DEF FunctorOps
    <3> QED
      BY <3>1, <3>2
  <2>4. UNCHANGED <<serverVars, loopVars, userVars, loopOf, peer>>
    BY <1>13 DEF DropConnection
  <2>5. OtherOK' /\ AcceptInv'
    BY <1>0, <2>1, <2>4 DEF OtherOK, AcceptInv
  <2>6. \A l \in SubLoops : lpc[l] # "gone" /\ ~quit[l]
    BY <1>0, <2>1 DEF LifeInv
  <2>7. LifeInv'
    BY <1>0, <2>1, <2>4, <2>6 DEF LifeInv, Running
  <2> QED
    BY <1>u, <1>s, <1>l, <2>3, <2>4, <2>5, <2>7 DEF BaseInv
<1>14. CASE QuitLoop
  <2>1. LoopOK' /\ AcceptInv'
    BY <1>0, <1>14 DEF QuitLoop, LoopOK, AcceptInv
  <2>2. told + 1 \in 1..numThreads /\ started /\ told + 1 \in SubLoops
    BY <1>0, <1>14 DEF QuitLoop, Started, ServerOK, SubLoops
  <2>3. ServerOK'
    BY <1>0, <1>14, <2>2 DEF QuitLoop, ServerOK
  <2>4. LifeInv'
    BY <1>0, <1>14, <2>2 DEF QuitLoop, LifeInv, Running, LoopOK
  <2> QED
    BY <1>u, <1>14, <1>c, <1>q, <1>o, <2>1, <2>3, <2>4 DEF QuitLoop, BaseInv
<1>15. CASE DestroyAcceptor
  <2>1. DisableAll(ach) \in ChannelState /\ ViewsAgree(DisableAll(ach))
    BY <1>0, CallAgrees DEF ServerOK
  <2>2. /\ RemoveChannel(DisableAll(ach)) \in ChannelState
        /\ ViewsAgree(RemoveChannel(DisableAll(ach)))
    BY <2>1, RemoveAgrees
  <2>3. ServerOK' /\ AcceptInv'
    BY <1>0, <1>15, <2>2 DEF DestroyAcceptor, ServerOK, AcceptInv
  <2>4. LifeInv'
    BY <1>0, <1>15 DEF DestroyAcceptor, LifeInv, Running
  <2>5. UserOK'
    BY <1>0, <1>15 DEF DestroyAcceptor, UserOK
  <2> QED
    BY <1>15, <1>l, <1>c, <1>q, <1>o, <2>3, <2>4, <2>5 DEF DestroyAcceptor, BaseInv
<1>16. CASE DestroyMainLoop
  <2>1. LoopOK' /\ AcceptInv' /\ LifeInv'
    <3>1. QueueOK' /\ \A m \in Loops : m # Main => queue'[m] = queue[m]
      BY <1>0, <1>16 DEF DestroyMainLoop, Discard, QueueOK
    <3>2. LoopOK' /\ AcceptInv'
      BY <1>0, <1>16 DEF DestroyMainLoop, LoopOK, LoopPC, AcceptInv
    <3>3. LifeInv'
      <4>1. /\ spc = "gone" /\ UNCHANGED <<spc, started, numThreads, next, nextConnId, told, connections,
                            quit>>
            /\ lpc'[Main] = "gone" /\ \A l \in Loops : l # Main => lpc'[l] = lpc[l]
        BY <1>0, <1>16 DEF DestroyMainLoop, LoopOK
      <4>2. \A m \in 1..numThreads : m \in SubLoops
        BY <1>0 DEF ServerOK, SubLoops
      <4> QED
        BY <1>0, <3>1, <4>1, <4>2 DEF LifeInv, Running
    <3> QED
      BY <3>2, <3>3
  <2>2. QueueOK' /\ ConnOK'
    BY <1>0, <1>16 DEF DestroyMainLoop, Discard, QueueOK, ConnOK
  <2> QED
    BY <1>u, <1>16, <1>s, <1>o, <2>1, <2>2 DEF DestroyMainLoop, BaseInv
<1>17. CASE ClientConnects \/ ClientCloses
  <2>1. OtherOK'
    BY <1>0, <1>17 DEF ClientConnects, ClientCloses, OtherOK
  <2>2. AcceptInv' /\ LifeInv'
    BY <1>0, <1>17 DEF ClientConnects, ClientCloses, AcceptInv, LifeInv, Running
  <2> QED
    BY <1>u, <1>17, <1>s, <1>l, <1>c, <1>q, <2>1, <2>2 DEF ClientConnects, ClientCloses, BaseInv
<1>18. CASE UserAct
  <2>1. PICK c \in Conns, op \in UserOps :
          /\ op \in inCall[c] /\ Push(loopOf[c], Functor(op, c))
          /\ inCall' = [inCall EXCEPT ![c] = inCall[c] \ {op}]
          /\ state' = state \/ state' = [state EXCEPT ![c] = "kDisconnecting"]
          /\ revived' = revived \/ revived' = revived \cup {c}
    BY <1>0, <1>18 DEF UserAct, UserOK
  <2>2. UNCHANGED <<serverVars, connections, loopVars, ch, userRef, calls, fate, loopOf, peer>>
    BY <1>18 DEF UserAct
  <2>3. /\ QueueOK' /\ spc = "up"
    <3>1. loopOf[c] \in Loops /\ op \in FunctorOps /\ op # "removal"
      BY <1>0, <2>1 DEF OtherOK, FunctorOps, UserOps
    <3>2. spc = "up"
      BY <1>0, <2>1 DEF UserOK
    <3> QED
      BY <1>0, <2>1, <3>1, <3>2, PushType
  <2>4. ConnOK' /\ UserOK'
    BY <1>0, <2>1, <2>2 DEF ConnOK, UserOK
  <2>5. AcceptInv' /\ LifeInv'
    BY <1>0, <2>2, <2>3 DEF AcceptInv, LifeInv, Running
  <2> QED
    BY <1>s, <1>l, <1>o, <2>2, <2>3, <2>4, <2>5 DEF BaseInv
<1>23. CASE UserTest
  <2>1. UserOK'
    BY <1>0, <1>23 DEF UserTest, UserOK
  <2>2. AcceptInv' /\ LifeInv'
    BY <1>0, <1>23 DEF UserTest, AcceptInv, LifeInv, Running
  <2> QED
    BY <1>23, <1>s, <1>l, <1>c, <1>q, <1>o, <2>1, <2>2 DEF UserTest, BaseInv
<1>19. CASE UserDrops
  <2>1. ConnOK'
    BY <1>0, <1>19 DEF UserDrops, ConnOK
  <2>2. AcceptInv' /\ LifeInv'
    BY <1>0, <1>19 DEF UserDrops, AcceptInv, LifeInv, Running
  <2> QED
    BY <1>u, <1>19, <1>s, <1>l, <1>q, <1>o, <2>1, <2>2 DEF UserDrops, BaseInv
<1>20. CASE UNCHANGED vars
  <2>1. AcceptInv' /\ LifeInv'
    BY <1>0, <1>20 DEF vars, AcceptInv, LifeInv, Running
  <2> QED
    BY <1>u, <1>20, <1>s, <1>l, <1>c, <1>q, <1>o, <2>1 DEF vars, BaseInv
<1> QED
  BY <1>1, <1>2, <1>3, <1>4, <1>5, <1>6, <1>7, <1>8, <1>9, <1>10, <1>11, <1>12,
     <1>13, <1>14, <1>15, <1>16, <1>17, <1>18, <1>19, <1>20, <1>21, <1>22, <1>23
     DEF Next, LoopStep, Poll, PollTraffic, Destructor, Stopped

\* The state of the server, its loops and its connections stays well-formed
\* (NewConnection, HandleClose, ConnectDestroyed, DoPendingFunctors).
THEOREM TypeCorrect == Spec => []TypeOK
<1>1. BaseInv => TypeOK
  BY DEF BaseInv, TypeOK, ServerOK, LoopOK, ConnOK, QueueOK, OtherOK, UserOK
<1> QED
  BY <1>1, InitBase, NextBase, PTL DEF Spec

-----------------------------------------------------------------------------
(* The functors on their way                                               *)

\* The functors loop l has still to run: the rest of those it has swapped
\* out, then those queued since.
Pending(l) == SubSeq(batch[l], pos[l] + 1, Len(batch[l])) \o queue[l]

\* f is in s; it is there once at most; every f in s comes before every g.
Has(s, f) == \E i \in 1..Len(s) : s[i] = f
Once(s, f) == \A i, j \in 1..Len(s) : s[i] = f /\ s[j] = f => i = j
Before(s, f, g) == \A i, j \in 1..Len(s) : s[i] = f /\ s[j] = g => i < j

\* Queueing g behind s.
LEMMA AppendFacts ==
    ASSUME NEW S, NEW s \in Seq(S), NEW g \in S
    PROVE  /\ \A f : Has(Append(s, g), f) <=> Has(s, f) \/ f = g
           /\ \A f : Once(s, f) /\ (f # g \/ ~Has(s, f)) => Once(Append(s, g), f)
           /\ \A f, h : Before(s, f, h) /\ f # g => Before(Append(s, g), f, h)
           /\ \A f, h : ~Has(s, h) /\ h # g => Before(Append(s, g), f, h)
<1> DEFINE r == Append(s, g)
           n == Len(s)
<1>1. /\ n \in Nat /\ Len(r) = n + 1 /\ r[n + 1] = g
      /\ \A i \in 1..n : r[i] = s[i]
  BY AppendProperties
<1>2. \A i \in 1..(n + 1) : i \in 1..n \/ i = n + 1
  BY <1>1
<1>3. n + 1 \in 1..(n + 1) /\ \A i \in 1..n : i \in 1..(n + 1) /\ i < n + 1
  BY <1>1
<1> HIDE DEF r
<1>4. ASSUME NEW f PROVE Has(r, f) <=> Has(s, f) \/ f = g
  BY <1>1, <1>2, <1>3 DEF Has
<1>5. ASSUME NEW f, Once(s, f), f # g \/ ~Has(s, f) PROVE Once(r, f)
  BY <1>1, <1>2, <1>5 DEF Once, Has
<1>6. ASSUME NEW f, NEW h, Before(s, f, h), f # g PROVE Before(r, f, h)
  BY <1>1, <1>2, <1>3, <1>6 DEF Before
<1>7. ASSUME NEW f, NEW h, ~Has(s, h), h # g PROVE Before(r, f, h)
  BY <1>1, <1>2, <1>3, <1>7 DEF Before, Has
<1> QED
  BY <1>4, <1>5, <1>6, <1>7 DEF r

\* Taking the first one off.
LEMMA TailFacts ==
    ASSUME NEW S, NEW s \in Seq(S), s # <<>>
    PROVE  /\ \A f : Has(s, f) <=> f = s[1] \/ Has(Tail(s), f)
           /\ \A f : Once(s, f) => Once(Tail(s), f)
           /\ \A f : Once(s, f) /\ f = s[1] => ~Has(Tail(s), f)
           /\ \A f, h : Before(s, f, h) => Before(Tail(s), f, h)
           /\ \A f, h : Before(s, f, h) /\ h = s[1] => ~Has(s, f)
<1> DEFINE r == Tail(s)
           n == Len(s)
<1>1. /\ n \in Nat \ {0} /\ Len(r) = n - 1
      /\ \A i \in 1..(n - 1) : r[i] = s[i + 1]
  BY HeadTailProperties, EmptySeq
<1>2. \A i \in 1..n : i = 1 \/ (i - 1 \in 1..(n - 1) /\ (i - 1) + 1 = i)
  BY <1>1
<1>3. 1 \in 1..n /\ \A i \in 1..(n - 1) : i \in Nat /\ i + 1 \in 1..n /\ i + 1 # 1
  BY <1>1
<1> HIDE DEF r
<1>4. ASSUME NEW f PROVE Has(s, f) <=> f = s[1] \/ Has(r, f)
  <2>1. Has(s, f) => f = s[1] \/ Has(r, f)
    <3> SUFFICES ASSUME NEW i \in 1..n, s[i] = f, f # s[1] PROVE Has(r, f)
      BY DEF Has
    <3>1. i - 1 \in 1..(n - 1) /\ (i - 1) + 1 = i
      BY <1>2
    <3>2. r[i - 1] = f
      BY <1>1, <3>1
    <3> QED
      BY <1>1, <3>1, <3>2 DEF Has
  <2>2. Has(r, f) => Has(s, f)
    BY <1>1, <1>3 DEF Has
  <2>3. f = s[1] => Has(s, f)
    BY <1>3 DEF Has
  <2> QED
    BY <2>1, <2>2, <2>3
<1>5. ASSUME NEW f, Once(s, f) PROVE Once(r, f) /\ (f = s[1] => ~Has(r, f))
  <2>1. ASSUME NEW i \in 1..Len(r), NEW j \in 1..Len(r), r[i] = f, r[j] = f
        PROVE  i = j
    <3>1. i + 1 = j + 1
      BY <1>1, <1>3, <1>5, <2>1 DEF Once
    <3> QED
      BY <1>1, <1>3, <3>1
  <2>2. f = s[1] => ~Has(r, f)
    BY <1>1, <1>3, <1>5 DEF Once, Has
  <2> QED
    BY <2>1, <2>2 DEF Once
<1>6. ASSUME NEW f, NEW h, Before(s, f, h) PROVE Before(r, f, h)
  <2>1. ASSUME NEW i \in 1..Len(r), NEW j \in 1..Len(r), r[i] = f, r[j] = h
        PROVE  i < j
    <3>1. i + 1 < j + 1
      BY <1>1, <1>3, <1>6, <2>1 DEF Before
    <3> QED
      BY <1>1, <1>3, <3>1
  <2> QED
    BY <2>1 DEF Before
<1>7. ASSUME NEW f, NEW h, Before(s, f, h), h = s[1] PROVE ~Has(s, f)
  BY <1>1, <1>3, <1>7 DEF Before, Has
<1> QED
  BY <1>4, <1>5, <1>6, <1>7 DEF r

\* A sequence with an element put in front.
LEMMA ConsFacts ==
    ASSUME NEW S, NEW x \in S, NEW u \in Seq(S)
    PROVE  <<x>> \o u # <<>> /\ (<<x>> \o u)[1] = x /\ Tail(<<x>> \o u) = u
<1>1. PICK v \in Seq(S) : v = <<x>> \o u
  BY <<x>> \in Seq(S), ConcatProperties
<1>2. PICK n \in Nat : n = Len(u)
  OBVIOUS
<1>3. Len(v) = 1 + n /\ v[1] = x /\ \A i \in 1..n : v[i + 1] = u[i]
  <2>1. /\ Len(v) = 1 + n
        /\ \A i \in 1..(1 + n) : v[i] = IF i <= 1 THEN <<x>>[i] ELSE u[i - 1]
    BY <1>1, <1>2, <<x>> \in Seq(S), Len(<<x>>) = 1, ConcatProperties
  <2>2. 1 \in 1..(1 + n)
    BY <1>2
  <2>3. \A i \in 1..n : i + 1 \in 1..(1 + n) /\ ~(i + 1 <= 1) /\ (i + 1) - 1 = i
    BY <1>2
  <2> QED
    BY <2>1, <2>2, <2>3
<1>4. v # <<>>
  BY <1>2, <1>3
<1>5. /\ Tail(v) \in Seq(S) /\ Len(Tail(v)) = n
      /\ \A i \in 1..Len(Tail(v)) : Tail(v)[i] = u[i]
  BY <1>2, <1>3, <1>4, HeadTailProperties
<1>6. Tail(v) = u
  BY <1>2, <1>5, SeqEqual
<1> QED
  BY <1>1, <1>3, <1>4, <1>6

\* What loop l has still to run is a sequence of functors, what is queued
\* when the batch is through.
LEMMA PendingType ==
    ASSUME LoopOK, QueueOK, NEW l \in Loops
    PROVE  /\ Pending(l) \in Seq(Functors)
           /\ pos[l] = Len(batch[l]) => Pending(l) = queue[l]
           /\ lpc[l] # "batch" => pos[l] = Len(batch[l])
<1>1. /\ batch[l] \in Seq(Functors) /\ queue[l] \in Seq(Functors)
      /\ pos[l] \in 0..Len(batch[l]) /\ Len(batch[l]) \in Nat
  BY DEF LoopOK, QueueOK
<1>2. PICK p \in Nat : p = pos[l] /\ p <= Len(batch[l])
  BY <1>1
<1>3. PICK b \in Seq(Functors) : b = batch[l]
  BY <1>1
<1>4. SubSeq(b, p + 1, Len(b)) \in Seq(Functors)
  <2>1. \A i \in (p + 1)..Len(b) : b[i] \in Functors
    BY <1>2, <1>3
  <2> QED
    BY <1>1, <1>2, <1>3, <2>1, SubSeqProperties
<1>5. p = Len(b) => SubSeq(b, p + 1, Len(b)) = <<>>
  <2>1. p = Len(b) => Len(b) < p + 1
    BY <1>2
  <2> QED
    BY <1>1, <1>2, <1>3, <2>1, SubSeqEmpty
<1>6. lpc[l] # "batch" => pos[l] = Len(batch[l])
  <2>1. lpc[l] # "batch" => Len(batch[l]) = 0
    BY DEF LoopOK
  <2> QED
    BY <1>1, <2>1
<1>7. PICK r \in Seq(Functors) : /\ r = SubSeq(b, p + 1, Len(b))
                                 /\ Pending(l) = r \o queue[l]
  BY <1>2, <1>3, <1>4 DEF Pending
<1>8. PICK q \in Seq(Functors) : q = queue[l]
  BY <1>1
<1>9. r \o q \in Seq(Functors) /\ <<>> \o q = q
  BY ConcatEmptySeq, ConcatProperties
<1>10. pos[l] = Len(batch[l]) => r = <<>>
  BY <1>2, <1>3, <1>5, <1>7
<1> QED
  BY <1>6, <1>7, <1>8, <1>9, <1>10

\* Queueing puts a functor behind all the others.
LEMMA PendingPush ==
    ASSUME LoopOK, QueueOK, NEW l \in Loops, NEW f \in Functors,
           queue'[l] = Append(queue[l], f),
           batch'[l] = batch[l], pos'[l] = pos[l]
    PROVE  Pending(l)' = Append(Pending(l), f)
<1>1. batch[l] \in Seq(Functors) /\ queue[l] \in Seq(Functors) /\ pos[l] \in 0..Len(batch[l])
  BY DEF LoopOK, QueueOK
<1>2. PICK r : r = SubSeq(batch[l], pos[l] + 1, Len(batch[l]))
  OBVIOUS
<1>3. r \in Seq(Functors)
  <2>1. pos[l] \in Nat /\ Len(batch[l]) \in Nat
    BY <1>1
  <2>2. \A i \in (pos[l] + 1)..Len(batch[l]) : batch[l][i] \in Functors
    BY <1>1, <2>1
  <2> QED
    BY <1>1, <1>2, <2>1, <2>2, SubSeqProperties
<1>4. PICK q \in Seq(Functors) : q = queue[l]
  BY <1>1
<1>5. Pending(l) = r \o q /\ Pending(l)' = r \o Append(q, f)
  BY <1>2, <1>4 DEF Pending
<1>6. Append(q, f) = q \o <<f>> /\ Append(r \o q, f) = (r \o q) \o <<f>>
  BY <1>3, AppendIsConcat, ConcatProperties
<1>7. (r \o q) \o <<f>> = r \o (q \o <<f>>)
  BY <1>3, <<f>> \in Seq(Functors), ConcatAssociative
<1> QED
  BY <1>5, <1>6, <1>7

\* Running one takes off the first.
LEMMA PendingRun ==
    ASSUME LoopOK, QueueOK, NEW l \in Loops, NEW op, NEW c, Run(l, op, c),
           queue'[l] = queue[l]
    PROVE  /\ Pending(l) # <<>> /\ Pending(l)[1] = Functor(op, c)
           /\ Pending(l)' = Tail(Pending(l))
<1>1. PICK b \in Seq(Functors) : b = batch[l] /\ b = batch'[l]
  BY DEF LoopOK, Run
<1>2. PICK p \in Nat : /\ p = pos[l] /\ pos'[l] = p + 1 /\ p < Len(b)
                       /\ b[p + 1] = Functor(op, c)
  BY <1>1 DEF LoopOK, Run
<1>3. PICK q \in Seq(Functors) : q = queue[l] /\ q = queue'[l]
  BY DEF QueueOK
<1>4. PICK n \in Nat : n = Len(b)
  OBVIOUS
<1>5. PICK t \in Seq(Functors) : t = SubSeq(b, (p + 1) + 1, n)
  <2>1. (p + 1) + 1 \in Int /\ n \in Int /\ \A i \in ((p + 1) + 1)..n : i \in 1..Len(b)
    BY <1>4
  <2>2. \A i \in ((p + 1) + 1)..n : b[i] \in Functors
    BY <2>1
  <2>3. SubSeq(b, (p + 1) + 1, n) \in Seq(Functors)
    BY <2>1, <2>2, SubSeqProperties
  <2> QED
    BY <2>3
<1>6. SubSeq(b, p + 1, n) = <<b[p + 1]>> \o t
  <2>1. p + 1 \in 1..Len(b) /\ n \in (p + 1)..Len(b)
    BY <1>2, <1>4
  <2> QED
    BY <1>5, <2>1, SubSeqRecursiveFirst
<1>7. PICK f \in Functors : f = Functor(op, c) /\ f = b[p + 1]
  BY <1>2, p + 1 \in 1..Len(b)
<1>8. Pending(l) = (<<f>> \o t) \o q /\ Pending(l)' = t \o q
  BY <1>1, <1>2, <1>3, <1>4, <1>5, <1>6, <1>7 DEF Pending
<1>9. PICK u \in Seq(Functors) : u = t \o q
  BY ConcatProperties
<1>10. Pending(l) = <<f>> \o u /\ Pending(l)' = u
  BY <1>8, <1>9, <<f>> \in Seq(Functors), ConcatAssociative
<1> QED
  BY <1>7, <1>10, ConsFacts

-----------------------------------------------------------------------------
(* The connections                                                         *)

\* What the connection's own loop has still to run.
Home(c) == Pending(loopOf[c])

\* The functors about connection c: ConnectEstablished, ConnectDestroyed, its
\* removal, and a Send or a Shutdown of the application.
E(c) == Functor("established", c)
D(c) == Functor("destroyed", c)
R(c) == Functor("removal", c)
T(c) == Functor("send", c)
H(c) == Functor("shutdown", c)

\* A connection before it is accepted, the loop of one that is, and the calls
\* of other threads, which come after the UP callback.
FreshInv(c) ==
    /\ ~Accepted(c) => /\ c \notin connections /\ calls[c] = <<>> /\ fate[c] = "due"
                       /\ ~ch[c].added /\ c \notin revived
    /\ Accepted(c) => lpc[loopOf[c]] # "none"
    /\ inCall[c] # {} => calls[c] # <<>>

\* Functors are for accepted connections, and but for removals they are on
\* the connection's own loop; so are reported channels.
PlaceInv(c) ==
    \A l \in Loops :
        /\ \A f \in {E(c), D(c), T(c), H(c)} :
             Has(Pending(l), f) => Accepted(c) /\ l = loopOf[c]
        /\ Has(Pending(l), E(c)) => l # Main
        /\ Has(Pending(l), R(c)) => Accepted(c) /\ loopOf[c] # Main
        /\ c \in active[l] \cup writable[l] => Accepted(c) /\ l = loopOf[c]

\* ConnectDestroyed is on its way, or behind.
LeavingInv(c) ==
    Accepted(c) => c \in connections \/ Has(Home(c), D(c)) \/ fate[c] # "due"

\* What the application has been told goes with state_ and with epoll.
StatusInv(c) ==
    /\ \/ calls[c] = <<>> /\ state[c] = "kConnecting"
       \/ calls[c] = <<"up">> /\ state[c] \in {"kConnected", "kDisconnecting"}
       \/ calls[c] = <<"up", "down">> /\ state[c] = "kDisconnected"
    /\ ch[c].added => calls[c] = <<"up">>
    /\ fate[c] = "run" => state[c] # "kConnected" /\ ~ch[c].added

\* A channel that a loop is about to handle is in epoll, unless it has
\* nothing to write any more.
ReportedInv(c) ==
    \A l \in Loops :
        /\ c \in active[l] => ch[c].added
        /\ c \in writable[l] /\ IsWriting(ch[c]) => ch[c].added

\* ConnectEstablished comes once, and before anything else.
UpInv(c) ==
    /\ Has(Home(c), E(c)) => calls[c] = <<>> /\ fate[c] = "due"
    /\ Once(Home(c), E(c))
    /\ Before(Home(c), E(c), D(c))
    /\ Accepted(c) /\ calls[c] = <<>> => Has(Home(c), E(c)) \/ fate[c] = "lost"

\* The removal HandleClose asks for comes once, and while the server is up
\* it finds the connection in connections_, which nothing else leaves.
RemovalInv(c) ==
    /\ Has(Pending(Main), R(c)) => calls[c] = <<"up", "down">>
    /\ spc = "up" =>
         /\ Has(Pending(Main), R(c)) => c \in connections
         /\ Once(Pending(Main), R(c))
         /\ Accepted(c) /\ calls[c] # <<"up", "down">> => c \in connections

\* ConnectDestroyed comes once, when the connection has left connections_.
DownInv(c) ==
    /\ Once(Home(c), D(c))
    /\ c \in connections => ~Has(Home(c), D(c)) /\ fate[c] = "due"
    /\ Has(Home(c), D(c)) => fate[c] = "due"
    /\ Has(Home(c), D(c)) /\ loopOf[c] = Main => calls[c] = <<"up", "down">>

\* A Send that waits comes before ConnectDestroyed, or finds the connection
\* disconnected, or is on a main loop that does not run again.
SendInv(c) ==
    /\ Has(Home(c), T(c)) => calls[c] # <<>>
    /\ state[c] # "kDisconnected" =>
         /\ Before(Home(c), T(c), D(c))
         /\ Has(Home(c), T(c)) /\ fate[c] = "run" => loopOf[c] = Main /\ spc # "up"

\* What is true of a connection that no Shutdown has revived, ...
SteadyInv(c) ==
    /\ StatusInv(c) /\ ReportedInv(c) /\ UpInv(c)
    /\ RemovalInv(c) /\ DownInv(c) /\ SendInv(c)

\* ... and of one that was.
RevivedInv(c) == Accepted(c) /\ calls[c] # <<>> /\ calls[c] # <<"up">>

\* All that is true of a connection.
ConnInv(c) ==
    /\ FreshInv(c) /\ PlaceInv(c) /\ LeavingInv(c)
    /\ IF c \in revived THEN RevivedInv(c) ELSE SteadyInv(c)

\* The inductive invariant.
IInv == BaseInv /\ \A c \in Conns : ConnInv(c)

\* The functors about connection c.
About(c) == {E(c), D(c), R(c), T(c), H(c)}

\* Functors differ when their kinds or their connections do.
LEMMA FunctorFacts ==
    /\ \A c \in Conns : About(c) \subseteq Functors
    /\ \A c : /\ E(c) # D(c) /\ E(c) # R(c) /\ E(c) # T(c) /\ E(c) # H(c)
              /\ D(c) # R(c) /\ D(c) # T(c) /\ D(c) # H(c)
              /\ R(c) # T(c) /\ R(c) # H(c) /\ T(c) # H(c)
    /\ \A c, d : c # d => About(c) \cap About(d) = {}
<1>1. \A c : /\ E(c).op = "established" /\ D(c).op = "destroyed"
             /\ R(c).op = "removal" /\ T(c).op = "send" /\ H(c).op = "shutdown"
             /\ E(c).conn = c /\ D(c).conn = c /\ R(c).conn = c /\ T(c).conn = c
             /\ H(c).conn = c
  BY DEF E, D, R, T, H, Functor
<1>2. \A c \in Conns : About(c) \subseteq Functors
  BY DEF About, E, D, R, T, H, Functor, Functors, FunctorOps, UserOps
<1>3. \A c : /\ E(c) # D(c) /\ E(c) # R(c) /\ E(c) # T(c) /\ E(c) # H(c)
             /\ D(c) # R(c) /\ D(c) # T(c) /\ D(c) # H(c)
             /\ R(c) # T(c) /\ R(c) # H(c) /\ T(c) # H(c)
  BY <1>1
<1>4. ASSUME NEW c, NEW d, c # d, NEW f \in About(c) \cap About(d) PROVE FALSE
  <2>1. f.conn = c
    BY <1>1 DEF About
  <2>2. f.conn = d
    BY <1>1 DEF About
  <2> QED
    BY <1>4, <2>1, <2>2
<1> QED
  BY <1>2, <1>3, <1>4

\* From s to r the coming and going of connection d is not concerned, ...
Keeps(s, r, d) ==
    /\ \A f \in {E(d), D(d), R(d)} : Has(r, f) <=> Has(s, f)
    /\ \A f \in {E(d), D(d), R(d)} : Once(s, f) => Once(r, f)
    /\ Before(s, E(d), D(d)) => Before(r, E(d), D(d))

\* ... and no Send or Shutdown of it is queued either.
Spares(s, r, d) ==
    /\ Keeps(s, r, d)
    /\ \A f \in {T(d), H(d)} : Has(r, f) => Has(s, f)
    /\ Before(s, T(d), D(d)) => Before(r, T(d), D(d))

\* Queueing or running a functor of another connection spares a connection;
\* so does running its Send or Shutdown.
LEMMA KeepsFacts ==
    ASSUME NEW d \in Conns, NEW s \in Seq(Functors)
    PROVE  /\ Spares(s, s, d)
           /\ \A f \in Functors \ {E(d), D(d), R(d)} : Keeps(s, Append(s, f), d)
           /\ \A f \in Functors \ About(d) : Spares(s, Append(s, f), d)
           /\ s # <<>> /\ s[1] \notin {E(d), D(d), R(d)} => Spares(s, Tail(s), d)
<1>1. Spares(s, s, d)
  BY DEF Keeps, Spares
<1>2. ASSUME NEW f \in Functors \ {E(d), D(d), R(d)} PROVE Keeps(s, Append(s, f), d)
  BY AppendFacts DEF Keeps
<1>3. ASSUME NEW f \in Functors \ About(d) PROVE Spares(s, Append(s, f), d)
  <2>1. f \notin {E(d), D(d), R(d)} /\ f # T(d) /\ f # H(d)
    BY <1>3 DEF About
  <2>2. Keeps(s, Append(s, f), d)
    BY <1>2, <2>1
  <2>3. \A g \in {T(d), H(d)} : Has(Append(s, f), g) => Has(s, g)
    BY <2>1, AppendFacts
  <2>4. Before(s, T(d), D(d)) => Before(Append(s, f), T(d), D(d))
    BY <2>1, AppendFacts
  <2> QED
    BY <2>2, <2>3, <2>4 DEF Spares
<1>4. ASSUME s # <<>>, s[1] \notin {E(d), D(d), R(d)} PROVE Spares(s, Tail(s), d)
  <2>1. Keeps(s, Tail(s), d)
    BY <1>4, TailFacts DEF Keeps
  <2>2. \A g \in {T(d), H(d)} : Has(Tail(s), g) => Has(s, g)
    BY <1>4, TailFacts
  <2>3. Before(s, T(d), D(d)) => Before(Tail(s), T(d), D(d))
    BY <1>4, TailFacts
  <2> QED
    BY <2>1, <2>2, <2>3 DEF Spares
<1> QED
  BY <1>1, <1>2, <1>3, <1>4

\* Where functors and reported channels may come to be.
LEMMA PlaceStep ==
    ASSUME NEW c \in Conns, PlaceInv(c), Accepted(c), Accepted(c)', loopOf'[c] = loopOf[c],
           \A l \in Loops : c \in active'[l] \cup writable'[l] =>
               c \in active[l] \cup writable[l] \/ l = loopOf[c],
           \A l \in Loops : \A f \in {D(c), T(c), H(c)} :
               Has(Pending(l)', f) => Has(Pending(l), f) \/ l = loopOf[c],
           \A l \in Loops : Has(Pending(l)', E(c)) => Has(Pending(l), E(c)),
           \A l \in Loops : Has(Pending(l)', R(c)) => Has(Pending(l), R(c)) \/ loopOf[c] # Main
    PROVE  PlaceInv(c)'
<1> SUFFICES ASSUME NEW l \in Loops
             PROVE  /\ \A f \in {E(c), D(c), T(c), H(c)} :
                         Has(Pending(l)', f) => Accepted(c)' /\ l = loopOf'[c]
                    /\ Has(Pending(l)', E(c)) => l # Main
                    /\ Has(Pending(l)', R(c)) => Accepted(c)' /\ loopOf'[c] # Main
                    /\ c \in active'[l] \cup writable'[l] => Accepted(c)' /\ l = loopOf'[c]
  BY DEF PlaceInv, E, D, T, R, H
<1>1. /\ \A f \in {E(c), D(c), T(c), H(c)} : Has(Pending(l), f) => l = loopOf[c]
      /\ Has(Pending(l), E(c)) => l # Main
      /\ Has(Pending(l), R(c)) => loopOf[c] # Main
      /\ c \in active[l] \cup writable[l] => l = loopOf[c]
  BY DEF PlaceInv
<1> QED
  BY <1>1

\* The callbacks of a revived connection only get more.
LEMMA RevivedStep ==
    ASSUME ConnOK, NEW c \in Conns, RevivedInv(c), Accepted(c)',
           calls'[c] = calls[c] \/ \E x \in {"up", "down"} : calls'[c] = Append(calls[c], x)
    PROVE  RevivedInv(c)'
<1>1. CASE calls'[c] = calls[c]
  BY <1>1 DEF RevivedInv
<1>2. ASSUME NEW x \in {"up", "down"}, calls'[c] = Append(calls[c], x) PROVE RevivedInv(c)'
  <2>1. PICK s \in Seq({"up", "down"}) : s = calls[c] /\ s # <<>>
    BY DEF ConnOK, RevivedInv
  <2>2. Len(s) \in Nat \ {0} /\ Len(Append(s, x)) = Len(s) + 1
    BY <2>1, EmptySeq, AppendProperties
  <2>3. Len(Append(s, x)) > 1
    BY <2>2
  <2>4. Append(s, x) # <<>> /\ Append(s, x) # <<"up">>
    BY <2>3, Len(<<>>) = 0, Len(<<"up">>) = 1
  <2> QED
    BY <1>2, <2>1, <2>4 DEF RevivedInv
<1> QED
  BY <1>1, <1>2

\* The functors of the connection's own loop.
LEMMA HomeFacts ==
    ASSUME BaseInv, NEW c \in Conns, loopOf'[c] = loopOf[c]
    PROVE  \E h \in Loops : h = loopOf[c] /\ Home(c) = Pending(h) /\ Home(c)' = Pending(h)'
<1>1. PICK h \in Loops : h = loopOf[c]
  BY DEF BaseInv, OtherOK
<1>2. Home(c) = Pending(h) /\ Home(c)' = Pending(h)'
  BY <1>1 DEF Home, Pending
<1> QED
  BY <1>1, <1>2

\* Where the coming and going of d is not concerned, what is said of it stays.
LEMMA CoreStep ==
    ASSUME BaseInv, NEW d \in Conns, UpInv(d), RemovalInv(d), DownInv(d),
           calls'[d] = calls[d], fate'[d] = fate[d], loopOf'[d] = loopOf[d],
           d \in connections' <=> d \in connections,
           Accepted(d)' <=> Accepted(d), spc' = "up" => spc = "up",
           \A l \in Loops : Keeps(Pending(l), Pending(l)', d)
    PROVE  UpInv(d)' /\ RemovalInv(d)' /\ DownInv(d)'
<1>1. Keeps(Home(d), Home(d)', d)
  BY HomeFacts
<1>2. UpInv(d)'
  BY <1>1 DEF UpInv, Keeps, E, D
<1>3. RemovalInv(d)'
  <2>1. Keeps(Pending(Main), Pending(Main)', d)
    BY Numbers
  <2> QED
    BY <2>1 DEF RemovalInv, Keeps, R
<1>4. DownInv(d)'
  BY <1>1 DEF DownInv, Keeps, D
<1> QED
  BY <1>2, <1>3, <1>4

\* A step that does not concern connection d keeps its invariant; a Shutdown
\* that its own thread calls is no concern, and its channel may change.
LEMMA Bystander ==
    ASSUME BaseInv, BaseInv', NEW d \in Conns, ConnInv(d),
           calls'[d] = calls[d], fate'[d] = fate[d], loopOf'[d] = loopOf[d],
           \/ state'[d] = state[d]
           \/ state[d] = "kConnected" /\ state'[d] = "kDisconnecting",
           \/ ch'[d] = ch[d]
           \/ Accepted(d) /\ (d \notin revived => StatusInv(d)' /\ ReportedInv(d)'),
           d \in connections' <=> d \in connections,
           d \in revived' <=> d \in revived,
           Accepted(d)' <=> Accepted(d),
           inCall'[d] # {} => inCall[d] # {} \/ calls[d] # <<>>,
           spc' = "up" => spc = "up",
           lpc[loopOf[d]] # "none" => lpc'[loopOf[d]] # "none",
           \A l \in Loops : d \in active'[l] =>
               d \in active[l] \/ (Accepted(d) /\ l = loopOf[d] /\ ch[d].added),
           \A l \in Loops : d \in writable'[l] =>
               d \in writable[l] \/ (Accepted(d) /\ l = loopOf[d] /\ ch[d].added),
           \A l \in Loops : Spares(Pending(l), Pending(l)', d)
    PROVE  ConnInv(d)'
<1>0. FreshInv(d) /\ PlaceInv(d) /\ LeavingInv(d)
  BY DEF ConnInv
<1>1. FreshInv(d)'
  BY <1>0 DEF FreshInv
<1>2. \A l \in Loops : Keeps(Pending(l), Pending(l)', d)
  BY DEF Spares
<1>3. PlaceInv(d)'
  <2> SUFFICES ASSUME NEW l \in Loops
               PROVE  /\ \A f \in {E(d), D(d), T(d), H(d)} :
                           Has(Pending(l)', f) => Accepted(d)' /\ l = loopOf'[d]
                      /\ Has(Pending(l)', E(d)) => l # Main
                      /\ Has(Pending(l)', R(d)) => Accepted(d)' /\ loopOf'[d] # Main
                      /\ d \in active'[l] \cup writable'[l] => Accepted(d)' /\ l = loopOf'[d]
    BY DEF PlaceInv, E, D, T, R, H
  <2>1. /\ \A f \in {E(d), D(d), T(d), H(d)} :
             Has(Pending(l), f) => Accepted(d) /\ l = loopOf[d]
        /\ Has(Pending(l), E(d)) => l # Main
        /\ Has(Pending(l), R(d)) => Accepted(d) /\ loopOf[d] # Main
        /\ d \in active[l] \cup writable[l] => Accepted(d) /\ l = loopOf[d]
    BY <1>0 DEF PlaceInv
  <2>2. \A f \in {E(d), D(d), R(d), T(d), H(d)} : Has(Pending(l)', f) => Has(Pending(l), f)
    BY <1>2 DEF Keeps, Spares
  <2> QED
    BY <2>1, <2>2
<1>4. PICK h \in Loops : h = loopOf[d] /\ Home(d) = Pending(h) /\ Home(d)' = Pending(h)'
  BY HomeFacts
<1>5. LeavingInv(d)'
  BY <1>0, <1>2, <1>4 DEF LeavingInv, Keeps, D
<1>6. CASE d \in revived
  <2>1. RevivedInv(d)
    BY <1>6 DEF ConnInv
  <2>2. RevivedInv(d)'
    BY <2>1 DEF RevivedInv
  <2> QED
    BY <1>1, <1>3, <1>5, <1>6, <2>2 DEF ConnInv
<1>7. CASE d \notin revived
  <2>0. SteadyInv(d)
    BY <1>7 DEF ConnInv
  <2>1. UpInv(d)' /\ RemovalInv(d)' /\ DownInv(d)'
    BY <1>2, <2>0, CoreStep DEF SteadyInv
  <2>2. StatusInv(d)' /\ ReportedInv(d)'
    <3>1. CASE ch'[d] = ch[d]
      <4>1. StatusInv(d)'
        BY <2>0, <3>1 DEF SteadyInv, StatusInv
      <4>2. ReportedInv(d)'
        BY <2>0, <3>1 DEF SteadyInv, ReportedInv
      <4> QED
        BY <4>1, <4>2
    <3>2. CASE ch'[d] # ch[d]
      BY <1>7, <3>2
    <3> QED
      BY <3>1, <3>2
  <2>3. SendInv(d)'
    <3>1. Spares(Home(d), Home(d)', d)
      BY <1>4
    <3> QED
      BY <2>0, <3>1 DEF SteadyInv, SendInv, Spares, T, D
  <2> QED
    BY <1>1, <1>3, <1>5, <1>7, <2>1, <2>2, <2>3 DEF ConnInv, SteadyInv
<1> QED
  BY <1>6, <1>7

-----------------------------------------------------------------------------
(* What the steps do to the functors that wait                             *)

\* A step that touches neither queues nor batches.
LEMMA StillEffect ==
    ASSUME UNCHANGED <<queue, batch, pos>>
    PROVE  \A l \in Loops : Pending(l)' = Pending(l)
BY DEF Pending

\* Queueing functor f on loop l.
LEMMA PushEffect ==
    ASSUME BaseInv, NEW l \in Loops, NEW f \in Functors, Push(l, f), UNCHANGED <<batch, pos>>
    PROVE  /\ Pending(l) \in Seq(Functors) /\ Pending(l)' = Append(Pending(l), f)
           /\ \A m \in Loops : m # l => Pending(m)' = Pending(m)
<1>1. LoopOK /\ QueueOK /\ queue \in [Loops -> Seq(Functors)]
  BY DEF BaseInv, QueueOK
<1>2. queue'[l] = Append(queue[l], f) /\ \A m \in Loops : m # l => queue'[m] = queue[m]
  BY <1>1 DEF Push
<1>3. Pending(l)' = Append(Pending(l), f)
  BY <1>1, <1>2, PendingPush
<1>4. \A m \in Loops : m # l => Pending(m)' = Pending(m)
  BY <1>2 DEF Pending
<1> QED
  BY <1>1, <1>3, <1>4, PendingType

\* Running the next functor of loop l.
LEMMA RunEffect ==
    ASSUME BaseInv, NEW l \in Loops, NEW op, NEW c, Run(l, op, c), queue'[l] = queue[l]
    PROVE  /\ Pending(l) \in Seq(Functors) /\ Pending(l) # <<>>
           /\ Pending(l)[1] = Functor(op, c) /\ Pending(l)' = Tail(Pending(l))
           /\ \A m \in Loops : m # l => batch'[m] = batch[m] /\ pos'[m] = pos[m]
<1>1. LoopOK /\ QueueOK
  BY DEF BaseInv
<1>2. \A m \in Loops : m # l => batch'[m] = batch[m] /\ pos'[m] = pos[m]
  BY <1>1 DEF Run, LoopOK
<1> QED
  BY <1>1, <1>2, PendingRun, PendingType

\* The same, with nothing else done to the queues.
LEMMA RunOnlyEffect ==
    ASSUME BaseInv, NEW l \in Loops, NEW op, NEW c, Run(l, op, c), UNCHANGED queue
    PROVE  /\ Pending(l) \in Seq(Functors) /\ Pending(l) # <<>>
           /\ Pending(l)[1] = Functor(op, c) /\ Pending(l)' = Tail(Pending(l))
           /\ \A m \in Loops : m # l => Pending(m)' = Pending(m)
<1>1. \A m \in Loops : m # l => batch'[m] = batch[m] /\ pos'[m] = pos[m]
  BY RunEffect
<1>2. \A m \in Loops : m # l => Pending(m)' = Pending(m)
  BY <1>1 DEF Pending
<1> QED
  BY <1>2, RunEffect

\* The swap of DoPendingFunctors loses and reorders nothing.
LEMMA SwapEffect ==
    ASSUME BaseInv, NEW l \in Loops, SwapFunctors(l)
    PROVE  \A m \in Loops : Pending(m)' = Pending(m)
<1>1. LoopOK /\ QueueOK /\ LoopOK' /\ QueueOK' 
  <2>1. BaseInv'
    BY NextBase DEF Next, LoopStep
  <2> QED
    BY <2>1 DEF BaseInv
<1>2. Pending(l) = queue[l]
  BY <1>1, PendingType DEF SwapFunctors
<1>3. PICK q \in Seq(Functors) : q = queue[l]
  BY <1>1 DEF QueueOK
<1>4. batch'[l] = q /\ queue'[l] = <<>> /\ pos'[l] = 0
  <2>1. pos[l] = 0
    <3>1. pos[l] = Len(batch[l]) /\ batch[l] = <<>>
      BY <1>1, PendingType DEF SwapFunctors, LoopOK
    <3> QED
      BY <3>1
  <2> QED
    BY <1>1, <1>3, <2>1 DEF SwapFunctors, LoopOK, QueueOK
<1>5. Pending(l)' = SubSeq(q, 0 + 1, Len(q)) \o <<>>
  BY <1>4 DEF Pending
<1>6. SubSeq(q, 0 + 1, Len(q)) = q /\ q \o <<>> = q
  BY SubSeqFull, ConcatEmptySeq
<1>7. ASSUME NEW m \in Loops, m # l PROVE Pending(m)' = Pending(m)
  BY <1>1, <1>7 DEF Pending, SwapFunctors, LoopOK, QueueOK
<1> QED
  BY <1>2, <1>3, <1>5, <1>6, <1>7

\* The end of a batch, and of a loop, whose functors go with it.
LEMMA DoneEffect ==
    ASSUME BaseInv, BaseInv', NEW l \in Loops,
           pos[l] = Len(batch[l]), pos'[l] = Len(batch'[l]),
           \A m \in Loops : m # l =>
               batch'[m] = batch[m] /\ pos'[m] = pos[m] /\ queue'[m] = queue[m]
    PROVE  /\ Pending(l) = queue[l] /\ Pending(l)' = queue'[l]
           /\ \A m \in Loops : m # l => Pending(m)' = Pending(m)
<1>1. LoopOK /\ QueueOK /\ LoopOK' /\ QueueOK'
  BY DEF BaseInv
<1>2. Pending(l) = queue[l]
  BY <1>1, PendingType
<1>3. Pending(l)' = queue'[l]
  <2>1. PICK b \in Seq(Functors), q \in Seq(Functors) : b = batch'[l] /\ q = queue'[l]
    BY <1>1 DEF LoopOK, QueueOK
  <2>2. PICK n \in Nat : n = Len(b) /\ pos'[l] = n
    BY <2>1
  <2>3. Pending(l)' = SubSeq(b, n + 1, n) \o q
    BY <2>1, <2>2 DEF Pending
  <2>4. SubSeq(b, n + 1, n) = <<>>
    BY SubSeqEmpty
  <2> QED
    BY <2>1, <2>3, <2>4, ConcatEmptySeq
<1>4. \A m \in Loops : m # l => Pending(m)' = Pending(m)
  BY DEF Pending
<1> QED
  BY <1>2, <1>3, <1>4

-----------------------------------------------------------------------------
(* The operations on a connection                                          *)

\* The calls of connection_callback_ a connection can have had.
LEMMA CallsFacts ==
    /\ <<"up">> # <<>> /\ <<"up", "down">> # <<>> /\ <<"up">> # <<"up", "down">>
    /\ Append(<<>>, "up") = <<"up">> /\ Append(<<"up">>, "down") = <<"up", "down">>
<1>1. Len(<<>>) = 0 /\ Len(<<"up">>) = 1 /\ Len(<<"up", "down">>) = 2
  OBVIOUS
<1>2. <<"up">> # <<>> /\ <<"up", "down">> # <<>> /\ <<"up">> # <<"up", "down">>
  BY <1>1
<1>3. Append(<<>>, "up") = <<"up">>
  OBVIOUS
<1>4. Append(<<"up">>, "down") = <<"up", "down">>
  <2> DEFINE S == {"up", "down"}
             s == Append(<<"up">>, "down")
             t == <<"up", "down">>
  <2>1. <<"up">> \in Seq(S) /\ t \in Seq(S) /\ Len(t) = 2 /\ t[1] = "up" /\ t[2] = "down"
    OBVIOUS
  <2>2. s \in Seq(S) /\ Len(s) = 2 /\ s[1] = "up" /\ s[2] = "down"
    BY <2>1, AppendProperties
  <2> HIDE DEF S, s, t
  <2>3. \A i \in 1..Len(s) : s[i] = t[i]
    BY <2>1, <2>2
  <2>4. s = t
    BY <2>1, <2>2, <2>3, SeqEqual
  <2> QED
    BY <2>4 DEF s, t
<1> QED
  BY <1>2, <1>3, <1>4

\* A functor that is not there is there once at most, and in order.
LEMMA NoneFacts ==
    ASSUME NEW s, NEW f, ~Has(s, f)
    PROVE  Once(s, f) /\ \A g : Before(s, f, g) /\ Before(s, g, f)
BY DEF Has, Once, Before

\* HandleClose, called for an active channel.
LEMMA CloseConn ==
    ASSUME BaseInv, BaseInv', NEW c \in Conns, ConnInv(c), NEW l \in Loops,
           Event(l, c), HandleClose(c),
           UNCHANGED <<spc, nextConnId, loopOf, inCall, revived>>
    PROVE  ConnInv(c)'
<1>0. FreshInv(c) /\ PlaceInv(c) /\ LeavingInv(c)
  BY DEF ConnInv
<1>b. LoopOK /\ ConnOK /\ OtherOK /\ LifeInv
  BY DEF BaseInv
<1>1. Accepted(c) /\ l = loopOf[c] /\ Accepted(c)'
  BY <1>0 DEF Event, PlaceInv, Accepted
<1>2. /\ state'[c] = "kDisconnected" /\ calls'[c] = Append(calls[c], "down")
      /\ fate'[c] = fate[c] /\ ch'[c] = DisableAll(ch[c])
      /\ UNCHANGED <<batch, pos, lpc, writable>>
  BY <1>b DEF HandleClose, ConnOK, Event
<1>3. \A m \in Loops : c \notin active'[m] /\ active'[m] \subseteq active[m]
  BY <1>0, <1>1, <1>b DEF Event, PlaceInv, LoopOK
<1>4. calls'[c] # <<>>
  <2>1. PICK s \in Seq({"up", "down"}) : s = calls[c]
    BY <1>b DEF ConnOK
  <2>2. Len(Append(s, "down")) = Len(s) + 1 /\ Len(s) \in Nat
    BY <2>1, AppendProperties
  <2> QED
    BY <1>2, <2>1, <2>2
<1>5. FreshInv(c)'
  BY <1>0, <1>1, <1>2, <1>4 DEF FreshInv
<1>6. PICK f \in {D(c), R(c)} :
        /\ Push(Main, f)
        /\ f = D(c) => loopOf[c] = Main /\ connections' = connections \ {c}
        /\ f = R(c) => loopOf[c] # Main /\ connections' = connections
  <2>1. CASE loopOf[c] = Main
    BY <2>1, FunctorFacts DEF HandleClose, RemoveConnection, RemoveConnectionInLoop, D
  <2>2. CASE loopOf[c] # Main
    BY <2>2, FunctorFacts DEF HandleClose, RemoveConnection, R
  <2> QED
    BY <2>1, <2>2
<1>7. PICK s \in Seq(Functors) : /\ s = Pending(Main) /\ Pending(Main)' = Append(s, f)
                                 /\ \A m \in Loops : m # Main => Pending(m)' = Pending(m)
  <2>1. f \in Functors
    BY FunctorFacts DEF About
  <2> QED
    BY <1>2, <1>6, <2>1, Numbers, PushEffect
<1>8. \A g : Has(Append(s, f), g) <=> Has(s, g) \/ g = f
  <2>1. f \in Functors
    BY FunctorFacts DEF About
  <2> QED
    BY <2>1, AppendFacts
<1>9. PlaceInv(c)'
  <2>1. \A m \in Loops : \A g : Has(Pending(m)', g) => Has(Pending(m), g) \/ (g = f /\ m = Main)
    BY <1>7, <1>8
  <2>2. \A m \in Loops : \A g \in {D(c), T(c), H(c)} :
          Has(Pending(m)', g) => Has(Pending(m), g) \/ m = loopOf[c]
    BY <1>6, <2>1, FunctorFacts
  <2>3. \A m \in Loops : Has(Pending(m)', E(c)) => Has(Pending(m), E(c))
    BY <1>6, <2>1, FunctorFacts
  <2>4. \A m \in Loops : Has(Pending(m)', R(c)) => Has(Pending(m), R(c)) \/ loopOf[c] # Main
    BY <1>6, <2>1, FunctorFacts
  <2> QED
    BY <1>0, <1>1, <1>2, <1>3, <2>2, <2>3, <2>4, PlaceStep
<1>10. PICK h \in Loops : h = loopOf[c] /\ Home(c) = Pending(h) /\ Home(c)' = Pending(h)'
  BY HomeFacts
<1>11. LeavingInv(c)'
  <2>1. CASE f = D(c)
    BY <1>6, <1>7, <1>8, <1>10, <2>1 DEF LeavingInv, D
  <2>2. CASE f = R(c)
    BY <1>0, <1>1, <1>2, <1>6, <1>7, <1>10, <2>2 DEF LeavingInv, D
  <2> QED
    BY <2>1, <2>2
<1>12. CASE c \in revived
  <2>1. RevivedInv(c)
    BY <1>12 DEF ConnInv
  <2>2. RevivedInv(c)'
    BY <1>1, <1>2, <1>b, <2>1, RevivedStep
  <2> QED
    BY <1>5, <1>9, <1>11, <1>12, <2>2 DEF ConnInv
<1>13. CASE c \notin revived
  <2>0. /\ StatusInv(c) /\ ReportedInv(c) /\ UpInv(c) /\ RemovalInv(c) /\ DownInv(c)
        /\ SendInv(c)
    BY <1>13 DEF ConnInv, SteadyInv
  <2>1. ch[c].added /\ calls[c] = <<"up">> /\ calls[c] # <<>> /\ calls[c] # <<"up", "down">>
    BY <2>0, CallsFacts DEF Event, ReportedInv, StatusInv
  <2>2. calls'[c] = <<"up", "down">>
    BY <1>2, <2>1, CallsFacts
  <2>3. ~ch'[c].added /\ ~IsWriting(ch'[c])
    <3>1. ch[c] \in ChannelState /\ ViewsAgree(ch[c])
      BY <1>b DEF ConnOK
    <3>2. ~DisableAll(ch[c]).added /\ DisableAll(ch[c]).events = {}
      BY <2>1, <3>1, LeavesEpoll, CallEvents
    <3> QED
      BY <1>2, <3>2 DEF IsWriting
  <2>4. ~Has(Home(c), E(c)) /\ ~Has(Pending(Main), R(c)) /\ (spc = "up" => c \in connections)
    BY <1>1, <2>0, <2>1 DEF UpInv, RemovalInv
  <2>5. StatusInv(c)' /\ ReportedInv(c)'
    <3>1. StatusInv(c)'
      BY <1>2, <2>2, <2>3 DEF StatusInv
    <3>2. ReportedInv(c)'
      BY <1>3, <2>3 DEF ReportedInv
    <3> QED
      BY <3>1, <3>2
  <2>6. SendInv(c)'
    BY <1>2, <1>4 DEF SendInv
  <2>7. CASE f = D(c)
    <3>1. loopOf[c] = Main /\ connections' = connections \ {c} /\ h = Main
      BY <1>6, <1>10, <2>7
    <3>2. spc = "up" /\ c \in connections
      BY <1>1, <1>b, <2>4, <3>1 DEF Event, LifeInv, Running
    <3>3. Home(c) = s /\ Home(c)' = Append(s, D(c))
      BY <1>7, <1>10, <2>7, <3>1
    <3>4. ~Has(s, D(c)) /\ fate[c] = "due"
      BY <2>0, <3>2, <3>3 DEF DownInv
    <3>5. /\ Once(Append(s, D(c)), E(c)) /\ Once(Append(s, D(c)), D(c))
          /\ Once(Append(s, D(c)), R(c)) /\ Before(Append(s, D(c)), E(c), D(c))
      <4>1. Once(s, E(c)) /\ Once(s, D(c)) /\ Once(s, R(c)) /\ Before(s, E(c), D(c))
        BY <1>7, <2>0, <3>2, <3>3 DEF UpInv, DownInv, RemovalInv
      <4>2. D(c) \in Functors
        BY FunctorFacts DEF About
      <4> QED
        BY <3>4, <4>1, <4>2, AppendFacts, FunctorFacts
    <3>6. ~Has(Home(c)', E(c)) /\ ~Has(Pending(Main)', R(c)) /\ Has(Home(c)', D(c))
      BY <1>7, <1>8, <2>4, <2>7, <3>3, FunctorFacts
    <3>7. UpInv(c)'
      BY <1>4, <3>3, <3>5, <3>6 DEF UpInv, E, D
    <3>8. RemovalInv(c)'
      BY <1>7, <2>2, <2>7, <3>5, <3>6 DEF RemovalInv, R
    <3>9. DownInv(c)'
      BY <1>2, <2>2, <3>1, <3>3, <3>4, <3>5, <3>6 DEF DownInv, D
    <3> QED
      BY <1>5, <1>9, <1>11, <1>13, <2>5, <2>6, <3>7, <3>8, <3>9 DEF ConnInv, SteadyInv
  <2>8. CASE f = R(c)
    <3>1. loopOf[c] # Main /\ connections' = connections /\ Home(c)' = Home(c)
      BY <1>6, <1>7, <1>10, <2>8
    <3>2. spc = "up" => Once(Append(s, R(c)), R(c))
      <4>1. spc = "up" => Once(s, R(c))
        BY <1>7, <2>0 DEF RemovalInv
      <4>2. R(c) \in Functors
        BY FunctorFacts DEF About
      <4> QED
        BY <1>7, <2>4, <4>1, <4>2, AppendFacts
    <3>3. UpInv(c)'
      BY <1>4, <2>0, <2>4, <3>1 DEF UpInv, E, D
    <3>4. RemovalInv(c)'
      BY <1>7, <2>2, <2>4, <2>8, <3>1, <3>2 DEF RemovalInv, R
    <3>5. DownInv(c)'
      BY <1>2, <2>0, <3>1 DEF DownInv, D
    <3> QED
      BY <1>5, <1>9, <1>11, <1>13, <2>5, <2>6, <3>3, <3>4, <3>5 DEF ConnInv, SteadyInv
  <2> QED
    BY <2>7, <2>8
<1> QED
  BY <1>12, <1>13

\* NewConnection.
LEMMA AcceptConn ==
    ASSUME BaseInv, BaseInv', NEW c \in Conns, ConnInv(c), c = nextConnId,
           Running(Main), NewConnection(c),
           UNCHANGED <<spc, lpc, batch, pos, writable, inCall, revived>>,
           \A l \in Loops : active'[l] \subseteq active[l]
    PROVE  ConnInv(c)'
<1>b. LoopOK /\ ConnOK /\ OtherOK /\ LifeInv /\ ServerOK /\ QueueOK
  BY DEF BaseInv
<1>1. ~Accepted(c) /\ Accepted(c)'
  <2>1. nextConnId' = nextConnId + 1 /\ nextConnId \in Nat
    BY Numbers DEF NewConnection
  <2> QED
    BY <2>1 DEF Accepted
<1>0. FreshInv(c) /\ PlaceInv(c) /\ c \notin revived /\ StatusInv(c)
  BY <1>1 DEF ConnInv, FreshInv, SteadyInv
<1>2. /\ c \notin connections /\ calls[c] = <<>> /\ fate[c] = "due" /\ inCall[c] = {}
      /\ state[c] = "kConnecting" /\ ~ch[c].added
  BY <1>0, <1>1, CallsFacts DEF FreshInv, StatusInv
<1>3. \A m \in Loops : /\ \A f \in About(c) : ~Has(Pending(m), f)
                       /\ c \notin active'[m] /\ c \notin writable'[m]
  BY <1>0, <1>1 DEF PlaceInv, About
<1>4. PICK h \in Loops : h = NextLoop /\ loopOf'[c] = h /\ lpc'[h] # "none"
  <2>1. NextLoop \in Loops /\ (NextLoop = Main \/ NextLoop \in 1..numThreads)
    BY <1>b, Numbers DEF NextLoop, ServerOK, Main, Loops
  <2>2. loopOf'[c] = NextLoop
    BY <1>b DEF NewConnection, OtherOK
  <2>3. lpc[NextLoop] # "none"
    BY <1>b, <2>1 DEF LifeInv
  <2> QED
    BY <2>1, <2>2, <2>3
<1>5. c \in connections' /\ Home(c)' = Pending(h)'
  BY <1>4 DEF NewConnection, Home, Pending
<1>6. LeavingInv(c)' /\ ReportedInv(c)'
  BY <1>3, <1>5 DEF LeavingInv, ReportedInv
<1>7. CASE h = Main
  <2>1. ConnectEstablished(c) /\ UNCHANGED queue
    BY <1>4, <1>7 DEF NewConnection
  <2>2. /\ state'[c] = "kConnected" /\ calls'[c] = <<"up">> /\ fate'[c] = "due"
        /\ ch'[c].added
    <3>1. calls'[c] = Append(calls[c], "up")
      BY <1>b, <2>1 DEF ConnectEstablished, ConnOK
    <3>2. EnableReading(ch[c]).added
      BY <1>b, EntersEpoll DEF ConnOK
    <3>3. calls'[c] = <<"up">>
      BY <1>2, <3>1, CallsFacts
    <3> QED
      BY <1>2, <1>b, <2>1, <3>2, <3>3 DEF ConnectEstablished, ConnOK
  <2>3. \A m \in Loops : Pending(m)' = Pending(m)
    BY <2>1, StillEffect
  <2>4. \A m \in Loops : \A f \in About(c) : ~Has(Pending(m)', f) /\ Once(Pending(m)', f)
    BY <1>3, <2>3, NoneFacts
  <2>5. Before(Home(c)', E(c), D(c)) /\ Before(Home(c)', T(c), D(c))
    BY <1>5, <2>4, NoneFacts DEF About
  <2>6. FreshInv(c)' /\ StatusInv(c)'
    BY <1>1, <1>2, <1>4, <2>2 DEF FreshInv, StatusInv
  <2>7. PlaceInv(c)'
    BY <1>3, <2>4 DEF PlaceInv, About, E, D, R, T, H
  <2>8. UpInv(c)'
    BY <1>5, <2>2, <2>4, <2>5, CallsFacts DEF UpInv, About, E, D
  <2>9. RemovalInv(c)'
    BY <1>5, <2>4, Numbers DEF RemovalInv, About, R
  <2>10. DownInv(c)'
    BY <1>5, <2>2, <2>4 DEF DownInv, About, D
  <2>11. SendInv(c)'
    BY <1>5, <2>4, <2>5 DEF SendInv, About, T, D
  <2> QED
    BY <1>0, <1>6, <2>6, <2>7, <2>8, <2>9, <2>10, <2>11 DEF ConnInv, SteadyInv
<1>8. CASE h # Main
  <2>1. Push(h, E(c)) /\ UNCHANGED <<state, ch, calls, fate>>
    BY <1>4, <1>8 DEF NewConnection, connVars, E
  <2>2. PICK s \in Seq(Functors) : /\ s = Pending(h) /\ Pending(h)' = Append(s, E(c))
                                   /\ \A m \in Loops : m # h => Pending(m)' = Pending(m)
    <3>1. E(c) \in Functors
      BY FunctorFacts DEF About
    <3> QED
      BY <2>1, <3>1, PushEffect
  <2>3. /\ \A f : Has(Append(s, E(c)), f) <=> Has(s, f) \/ f = E(c)
        /\ Once(Append(s, E(c)), E(c)) /\ Before(Append(s, E(c)), E(c), D(c))
    <3>1. ~Has(s, E(c)) /\ ~Has(s, D(c)) /\ Once(s, E(c)) /\ E(c) \in Functors
      BY <1>3, <2>2, NoneFacts, FunctorFacts DEF About
    <3> QED
      BY <3>1, AppendFacts, FunctorFacts
  <2>4. /\ Has(Home(c)', E(c)) /\ ~Has(Home(c)', D(c)) /\ Once(Home(c)', D(c))
        /\ ~Has(Home(c)', T(c)) /\ Before(Home(c)', T(c), D(c))
        /\ \A m \in Loops : \A f \in {D(c), R(c), T(c), H(c)} : ~Has(Pending(m)', f)
        /\ \A m \in Loops : Has(Pending(m)', E(c)) => m = h
    <3>1. \A m \in Loops : \A f \in {D(c), R(c), T(c), H(c)} : ~Has(Pending(m)', f)
      <4>1. ASSUME NEW m \in Loops, NEW f \in {D(c), R(c), T(c), H(c)}
            PROVE  ~Has(Pending(m)', f)
        <5>1. f \in About(c) /\ f # E(c)
          BY <4>1, FunctorFacts DEF About
        <5>2. ~Has(Pending(m), f)
          BY <1>3, <5>1
        <5> QED
          BY <2>2, <2>3, <5>1, <5>2
      <4> QED
        BY <4>1
    <3>2. \A m \in Loops : Has(Pending(m)', E(c)) => m = h
      BY <1>3, <2>2 DEF About
    <3>3. Has(Home(c)', E(c)) /\ ~Has(Home(c)', D(c)) /\ ~Has(Home(c)', T(c))
      BY <1>5, <2>2, <2>3, <3>1
    <3> QED
      BY <3>1, <3>2, <3>3, NoneFacts
  <2>5. FreshInv(c)' /\ StatusInv(c)'
    BY <1>1, <1>2, <1>4, <2>1 DEF FreshInv, StatusInv
  <2>6. PlaceInv(c)'
    BY <1>1, <1>3, <1>4, <1>8, <2>4 DEF PlaceInv, E, D, R, T, H
  <2>7. UpInv(c)'
    BY <1>2, <1>5, <2>1, <2>2, <2>3, <2>4 DEF UpInv, E, D
  <2>8. RemovalInv(c)'
    BY <1>5, <2>4, Numbers, NoneFacts DEF RemovalInv, R
  <2>9. DownInv(c)'
    BY <1>2, <1>5, <2>1, <2>4 DEF DownInv, D
  <2>10. SendInv(c)'
    BY <2>4 DEF SendInv, T, D
  <2> QED
    BY <1>0, <1>6, <2>5, <2>6, <2>7, <2>8, <2>9, <2>10 DEF ConnInv, SteadyInv
<1> QED
  BY <1>7, <1>8

\* ConnectEstablished, run by a sub loop.
LEMMA EstablishConn ==
    ASSUME BaseInv, BaseInv', NEW c \in Conns, ConnInv(c), NEW l \in Loops,
           Run(l, "established", c), ConnectEstablished(c),
           UNCHANGED <<spc, nextConnId, connections, queue, loopOf, inCall, revived>>
    PROVE  ConnInv(c)'
<1>0. FreshInv(c) /\ PlaceInv(c) /\ LeavingInv(c)
  BY DEF ConnInv
<1>b. LoopOK /\ ConnOK
  BY DEF BaseInv
<1>1. PICK s \in Seq(Functors) : /\ s = Pending(l) /\ s # <<>> /\ s[1] = E(c)
                                 /\ Pending(l)' = Tail(s)
                                 /\ \A m \in Loops : m # l => Pending(m)' = Pending(m)
  BY RunOnlyEffect DEF E
<1>2. Has(s, E(c)) /\ \A f : Has(Tail(s), f) => Has(s, f)
  BY <1>1, TailFacts
<1>3. Accepted(c) /\ l = loopOf[c] /\ l # Main /\ Accepted(c)'
  BY <1>0, <1>1, <1>2 DEF PlaceInv, Accepted
<1>4. Home(c) = s /\ Home(c)' = Tail(s) /\ Pending(Main)' = Pending(Main)
  <2>1. Home(c) = Pending(l) /\ Home(c)' = Pending(l)'
    BY <1>3 DEF Home, Pending
  <2> QED
    BY <1>1, <1>3, <2>1, Numbers
<1>5. /\ state'[c] = "kConnected" /\ calls'[c] = Append(calls[c], "up") /\ fate'[c] = fate[c]
      /\ ch'[c].added /\ UNCHANGED <<lpc, active, writable>>
  <2>1. EnableReading(ch[c]).added
    BY <1>b, EntersEpoll DEF ConnOK
  <2> QED
    BY <1>b, <2>1 DEF ConnectEstablished, ConnOK, Run
<1>6. calls'[c] # <<>>
  <2>1. PICK r \in Seq({"up", "down"}) : r = calls[c]
    BY <1>b DEF ConnOK
  <2>2. Len(Append(r, "up")) = Len(r) + 1 /\ Len(r) \in Nat
    BY <2>1, AppendProperties
  <2>3. Append(r, "up") # <<>>
    BY <2>2, Len(<<>>) = 0
  <2> QED
    BY <1>5, <2>1, <2>3
<1>7. FreshInv(c)'
  BY <1>0, <1>3, <1>5, <1>6 DEF FreshInv
<1>8. PlaceInv(c)'
  <2>1. \A m \in Loops : \A f : Has(Pending(m)', f) => Has(Pending(m), f)
    BY <1>1, <1>2
  <2> QED
    BY <1>0, <1>3, <1>5, <2>1, PlaceStep
<1>9. Has(Tail(s), D(c)) <=> Has(s, D(c))
  BY <1>1, TailFacts, FunctorFacts
<1>10. LeavingInv(c)'
  BY <1>0, <1>3, <1>4, <1>5, <1>9 DEF LeavingInv, D
<1>11. CASE c \in revived
  <2>1. RevivedInv(c)
    BY <1>11 DEF ConnInv
  <2>2. RevivedInv(c)'
    BY <1>3, <1>5, <1>b, <2>1, RevivedStep
  <2> QED
    BY <1>7, <1>8, <1>10, <1>11, <2>2 DEF ConnInv
<1>12. CASE c \notin revived
  <2>0. UpInv(c) /\ RemovalInv(c) /\ DownInv(c) /\ SendInv(c)
    BY <1>12 DEF ConnInv, SteadyInv
  <2>1. calls[c] = <<>> /\ fate[c] = "due" /\ ~Has(Pending(Main), R(c))
    BY <1>2, <1>4, <2>0, CallsFacts DEF UpInv, RemovalInv
  <2>2. calls'[c] = <<"up">>
    BY <1>5, <2>1, CallsFacts
  <2>3. StatusInv(c)' /\ ReportedInv(c)'
    BY <1>5, <2>1, <2>2 DEF StatusInv, ReportedInv
  <2>4. /\ ~Has(Tail(s), E(c)) /\ Once(Tail(s), E(c)) /\ Once(Tail(s), D(c))
        /\ Before(Tail(s), E(c), D(c))
    <3>1. Once(s, E(c)) /\ Once(s, D(c)) /\ Before(s, E(c), D(c))
      BY <1>4, <2>0 DEF UpInv, DownInv
    <3> QED
      BY <1>1, <3>1, TailFacts
  <2>5. UpInv(c)'
    BY <1>4, <2>2, <2>4, CallsFacts DEF UpInv, E, D
  <2>6. RemovalInv(c)'
    BY <1>3, <1>4, <2>0, <2>1, CallsFacts DEF RemovalInv, R
  <2>7. DownInv(c)'
    BY <1>3, <1>4, <1>5, <1>9, <2>0, <2>1, <2>4 DEF DownInv, D
  <2>8. SendInv(c)'
    <3>1. ~Has(s, T(c))
      BY <1>4, <2>0, <2>1 DEF SendInv
    <3>2. ~Has(Home(c)', T(c))
      BY <1>2, <1>4, <3>1
    <3>3. Before(Home(c)', T(c), D(c))
      BY <3>2, NoneFacts
    <3> QED
      BY <3>2, <3>3 DEF SendInv, T, D
  <2> QED
    BY <1>7, <1>8, <1>10, <1>12, <2>3, <2>5, <2>6, <2>7, <2>8 DEF ConnInv, SteadyInv
<1> QED
  BY <1>11, <1>12

\* What ConnectDestroyed does to a connection, ...
LEMMA DestroyEffect ==
    ASSUME BaseInv, NEW c \in Conns, ConnectDestroyed(c)
    PROVE  /\ fate'[c] = "run" /\ ~ch'[c].added
           /\ state[c] = "kConnected" => /\ state'[c] = "kDisconnected"
                                         /\ calls'[c] = Append(calls[c], "down")
           /\ state[c] # "kConnected" => state'[c] = state[c] /\ calls'[c] = calls[c]
<1>b. ConnOK
  BY DEF BaseInv
<1>1. PICK d : /\ d \in ChannelState /\ ViewsAgree(d)
               /\ d = IF state[c] = "kConnected" THEN DisableAll(ch[c]) ELSE ch[c]
  BY <1>b, CallAgrees DEF ConnOK
<1>2. ~RemoveChannel(d).added
  BY <1>1, LeavesEpoll
<1>3. ch' = [ch EXCEPT ![c] = RemoveChannel(d)]
  BY <1>1 DEF ConnectDestroyed
<1>4. fate'[c] = "run" /\ ~ch'[c].added
  BY <1>b, <1>2, <1>3 DEF ConnectDestroyed, ConnOK
<1>5. CASE state[c] = "kConnected"
  BY <1>4, <1>5, <1>b DEF ConnectDestroyed, ConnOK
<1>6. CASE state[c] # "kConnected"
  BY <1>4, <1>6 DEF ConnectDestroyed
<1> QED
  BY <1>5, <1>6

\* ... and to what is known of one that has been up.
LEMMA DestroyStatus ==
    ASSUME BaseInv, NEW c \in Conns, StatusInv(c), calls[c] # <<>>, ConnectDestroyed(c)
    PROVE  /\ calls'[c] # <<>> /\ StatusInv(c)'
           /\ calls'[c] = calls[c] \/ calls'[c] = <<"up", "down">>
           /\ state'[c] # "kDisconnected" => state[c] # "kDisconnected"
<1>1. CASE state[c] = "kConnected"
  <2>1. calls[c] = <<"up">>
    BY <1>1 DEF StatusInv
  <2>2. /\ state'[c] = "kDisconnected" /\ calls'[c] = <<"up", "down">> /\ ~ch'[c].added
    BY <1>1, <2>1, CallsFacts, DestroyEffect
  <2> QED
    BY <2>2, CallsFacts DEF StatusInv
<1>2. CASE state[c] # "kConnected"
  <2>1. state'[c] = state[c] /\ calls'[c] = calls[c] /\ ~ch'[c].added
    BY <1>2, DestroyEffect
  <2> QED
    BY <1>2, <2>1 DEF StatusInv
<1> QED
  BY <1>1, <1>2

\* ConnectDestroyed, run as a functor.
LEMMA DestroyConn ==
    ASSUME BaseInv, BaseInv', NEW c \in Conns, ConnInv(c), NEW l \in Loops,
           Run(l, "destroyed", c), ConnectDestroyed(c),
           UNCHANGED <<spc, nextConnId, connections, queue, loopOf, inCall, revived>>
    PROVE  ConnInv(c)'
<1>0. FreshInv(c) /\ PlaceInv(c) /\ LeavingInv(c)
  BY DEF ConnInv
<1>b. LoopOK /\ ConnOK
  BY DEF BaseInv
<1>1. PICK s \in Seq(Functors) : /\ s = Pending(l) /\ s # <<>> /\ s[1] = D(c)
                                 /\ Pending(l)' = Tail(s)
                                 /\ \A m \in Loops : m # l => Pending(m)' = Pending(m)
  BY RunOnlyEffect DEF D
<1>2. Has(s, D(c)) /\ \A f : Has(Tail(s), f) => Has(s, f)
  BY <1>1, TailFacts
<1>3. Accepted(c) /\ l = loopOf[c] /\ Accepted(c)'
  BY <1>0, <1>1, <1>2 DEF PlaceInv, Accepted
<1>4. Home(c) = s /\ Home(c)' = Tail(s)
  <2>1. Home(c) = Pending(l) /\ Home(c)' = Pending(l)'
    BY <1>3 DEF Home, Pending
  <2> QED
    BY <1>1, <2>1
<1>5. /\ fate'[c] = "run" /\ ~ch'[c].added
      /\ calls'[c] = calls[c] \/ calls'[c] = Append(calls[c], "down")
  BY DestroyEffect
<1>6. calls[c] # <<>> => calls'[c] # <<>>
  <2>1. PICK r \in Seq({"up", "down"}) : r = calls[c]
    BY <1>b DEF ConnOK
  <2>2. Len(Append(r, "down")) = Len(r) + 1 /\ Len(r) \in Nat
    BY <2>1, AppendProperties
  <2> QED
    BY <1>5, <2>1, <2>2
<1>7. FreshInv(c)'
  BY <1>0, <1>3, <1>6 DEF FreshInv, Run
<1>8. \A m \in Loops : c \notin active'[m] /\ c \notin writable'[m]
  BY <1>0, <1>3, <1>b DEF PlaceInv, Run, LoopOK
<1>9. PlaceInv(c)'
  <2>1. \A m \in Loops : \A f : Has(Pending(m)', f) => Has(Pending(m), f)
    BY <1>1, <1>2
  <2> QED
    BY <1>0, <1>3, <1>8, <2>1, PlaceStep
<1>10. LeavingInv(c)'
  BY <1>5 DEF LeavingInv
<1>11. CASE c \in revived
  <2>1. RevivedInv(c)
    BY <1>11 DEF ConnInv
  <2>2. RevivedInv(c)'
    BY <1>3, <1>5, <1>b, <2>1, RevivedStep
  <2> QED
    BY <1>7, <1>9, <1>10, <1>11, <2>2 DEF ConnInv
<1>12. CASE c \notin revived
  <2>0. StatusInv(c) /\ UpInv(c) /\ RemovalInv(c) /\ DownInv(c) /\ SendInv(c)
    BY <1>12 DEF ConnInv, SteadyInv
  <2>1. /\ ~Has(s, E(c)) /\ Once(Tail(s), E(c)) /\ Before(Tail(s), E(c), D(c))
        /\ ~Has(Tail(s), D(c)) /\ Once(Tail(s), D(c))
        /\ Once(s, R(c)) => Once(Tail(s), R(c))
    <3>1. Once(s, E(c)) /\ Once(s, D(c)) /\ Before(s, E(c), D(c))
      BY <1>4, <2>0 DEF UpInv, DownInv
    <3> QED
      BY <1>1, <3>1, TailFacts
  <2>2. fate[c] = "due" /\ c \notin connections /\ calls[c] # <<>>
    BY <1>2, <1>3, <1>4, <2>0, <2>1 DEF DownInv, UpInv
  <2>3. /\ calls'[c] # <<>> /\ StatusInv(c)'
        /\ calls'[c] = calls[c] \/ calls'[c] = <<"up", "down">>
        /\ state'[c] # "kDisconnected" => state[c] # "kDisconnected"
    BY <2>0, <2>2, DestroyStatus
  <2>4. ReportedInv(c)'
    BY <1>8 DEF ReportedInv
  <2>5. UpInv(c)'
    BY <1>2, <1>4, <2>1, <2>3 DEF UpInv, E, D
  <2>6. RemovalInv(c)'
    <3>1. /\ Has(Pending(Main)', R(c)) => Has(Pending(Main), R(c))
          /\ Once(Pending(Main), R(c)) => Once(Pending(Main)', R(c))
      <4>1. CASE l = Main
        BY <1>1, <1>2, <2>1, <4>1
      <4>2. CASE l # Main
        BY <1>1, <4>2, Numbers
      <4> QED
        BY <4>1, <4>2
    <3> QED
      BY <1>3, <2>0, <2>2, <2>3, <3>1 DEF RemovalInv, R
  <2>7. DownInv(c)'
    BY <1>4, <1>5, <2>1, <2>2 DEF DownInv, D
  <2>8. SendInv(c)'
    <3>1. state'[c] # "kDisconnected" => ~Has(s, T(c))
      <4>1. state'[c] # "kDisconnected" => Before(s, T(c), D(c))
        BY <1>4, <2>0, <2>3 DEF SendInv
      <4> QED
        BY <1>1, <4>1, TailFacts
    <3>2. state'[c] # "kDisconnected" => ~Has(Home(c)', T(c)) /\ Before(Home(c)', T(c), D(c))
      BY <1>2, <1>4, <3>1, NoneFacts
    <3> QED
      BY <2>3, <3>2 DEF SendInv, T, D
  <2> QED
    BY <1>7, <1>9, <1>10, <1>12, <2>3, <2>4, <2>5, <2>6, <2>7, <2>8 DEF ConnInv, SteadyInv
<1> QED
  BY <1>11, <1>12


\* A removal, run by the main loop.
LEMMA RemoveConn ==
    ASSUME BaseInv, BaseInv', NEW c \in Conns, ConnInv(c),
           Run(Main, "removal", c), RemoveConnectionInLoop(c),
           UNCHANGED <<spc, nextConnId, state, ch, userRef, calls, fate, loopOf, inCall, revived>>
    PROVE  /\ ConnInv(c)'
           /\ \A d \in Conns \ {c} : \A m \in Loops : Spares(Pending(m), Pending(m)', d)
<1>0. FreshInv(c) /\ PlaceInv(c) /\ LeavingInv(c)
  BY DEF ConnInv
<1>b. LoopOK /\ QueueOK /\ LifeInv /\ OtherOK /\ ConnOK
  BY DEF BaseInv
<1>1. PICK h \in Loops : h = loopOf[c] /\ Push(h, D(c)) /\ connections' = connections \ {c}
  BY <1>b DEF RemoveConnectionInLoop, OtherOK, D
<1>2. h # Main
  <2>1. PICK p \in 1..Len(batch[Main]) : p > pos[Main] /\ batch[Main][p] = R(c)
    <3>1. /\ pos[Main] \in Nat /\ Len(batch[Main]) \in Nat
          /\ pos[Main] < Len(batch[Main]) /\ batch[Main][pos[Main] + 1] = R(c)
      BY <1>b, Numbers DEF Run, LoopOK, R
    <3>2. pos[Main] + 1 \in 1..Len(batch[Main]) /\ pos[Main] + 1 > pos[Main]
      BY <3>1
    <3> QED
      BY <3>1, <3>2
  <2>2. Has(Pending(Main), R(c))
    <3>1. PICK b \in Seq(Functors), q \in Seq(Functors) : b = batch[Main] /\ q = queue[Main]
      BY <1>b, Numbers DEF LoopOK, QueueOK
    <3>2. PICK k \in Nat, n \in Nat : k = pos[Main] /\ n = Len(b) /\ k <= n
      BY <1>b, <3>1, Numbers DEF LoopOK
    <3>3. PICK r : r = SubSeq(b, k + 1, n)
      OBVIOUS
    <3>4. /\ r \in Seq(Functors) /\ p - k \in 1..Len(r) /\ r[p - k] = R(c)
      <4>1. \A i \in (k + 1)..n : b[i] \in Functors
        BY <3>2
      <4>2. k + 1 <= n /\ p - k \in 1..(n - (k + 1) + 1) /\ (k + 1) + (p - k) - 1 = p
        BY <2>1, <3>1, <3>2, SMTT(20)
      <4>3. /\ r \in Seq(Functors) /\ Len(r) = n - (k + 1) + 1
            /\ \A i \in 1..(n - (k + 1) + 1) : r[i] = b[(k + 1) + i - 1]
        BY <3>3, <4>1, <4>2, SubSeqProperties
      <4> QED
        BY <2>1, <3>1, <4>2, <4>3
    <3>5. Pending(Main) = r \o q
      BY <3>1, <3>2, <3>3 DEF Pending
    <3>6. p - k \in 1..Len(r \o q) /\ (r \o q)[p - k] = r[p - k]
      BY <3>4, ConcatProperties
    <3> QED
      BY <3>4, <3>5, <3>6 DEF Has
  <2> QED
    BY <1>0, <1>1, <2>2, Numbers DEF PlaceInv
<1>3. queue'[Main] = queue[Main] /\ queue'[h] = Append(queue[h], D(c))
      /\ \A m \in Loops : m # h => queue'[m] = queue[m]
  BY <1>1, <1>2, <1>b, Numbers DEF Push, QueueOK
<1>4. PICK s \in Seq(Functors) : /\ s = Pending(Main) /\ s # <<>> /\ s[1] = R(c)
                                 /\ Pending(Main)' = Tail(s)
  BY <1>3, Numbers, RunEffect DEF R
<1>5. \A m \in Loops : m # Main => batch'[m] = batch[m] /\ pos'[m] = pos[m]
  BY <1>3, Numbers, RunEffect
<1>6. PICK t \in Seq(Functors) : t = Pending(h) /\ Pending(h)' = Append(t, D(c))
  <2>1. D(c) \in Functors
    BY FunctorFacts DEF About
  <2>2. Pending(h)' = Append(Pending(h), D(c))
    BY <1>2, <1>3, <1>5, <1>b, <2>1, PendingPush
  <2> QED
    BY <1>b, <2>2, PendingType
<1>7. \A m \in Loops : m # Main /\ m # h => Pending(m)' = Pending(m)
  BY <1>3, <1>5 DEF Pending
<1>8. Home(c) = t /\ Home(c)' = Append(t, D(c))
  <2>1. Home(c) = Pending(h) /\ Home(c)' = Pending(h)'
    BY <1>1 DEF Home, Pending
  <2> QED
    BY <1>6, <2>1
<1>9. Has(s, R(c)) /\ \A f : Has(Tail(s), f) => Has(s, f)
  BY <1>4, TailFacts
<1>10. \A f : Has(Append(t, D(c)), f) <=> Has(t, f) \/ f = D(c)
  <2>1. D(c) \in Functors
    BY FunctorFacts DEF About
  <2> QED
    BY <2>1, AppendFacts
<1>11. Accepted(c) /\ Accepted(c)' /\ spc = "up" /\ UNCHANGED <<active, writable, lpc>>
  <2>1. spc = "up"
    BY <1>b DEF Run, LifeInv, Running
  <2> QED
    BY <1>0, <1>4, <1>9, <2>1, Numbers DEF PlaceInv, Accepted, Run
<1>12. FreshInv(c)'
  BY <1>0, <1>11 DEF FreshInv
<1>13. PlaceInv(c)'
  <2>1. ASSUME NEW m \in Loops, NEW f, Has(Pending(m)', f)
        PROVE  Has(Pending(m), f) \/ (f = D(c) /\ m = loopOf[c])
    <3>1. CASE m = Main
      BY <1>4, <1>9, <2>1, <3>1
    <3>2. CASE m = h
      BY <1>1, <1>6, <1>10, <2>1, <3>2
    <3>3. CASE m # Main /\ m # h
      BY <1>7, <2>1, <3>3
    <3> QED
      BY <3>1, <3>2, <3>3
  <2>2. D(c) # E(c) /\ D(c) # R(c)
    BY FunctorFacts
  <2> QED
    BY <1>0, <1>11, <2>1, <2>2, PlaceStep
<1>14. LeavingInv(c)'
  BY <1>8, <1>10 DEF LeavingInv, D
<1>15. ASSUME c \in revived PROVE ConnInv(c)'
  <2>1. RevivedInv(c)
    BY <1>15 DEF ConnInv
  <2>2. RevivedInv(c)'
    BY <1>11, <2>1 DEF RevivedInv
  <2> QED
    BY <1>12, <1>13, <1>14, <1>15, <2>2 DEF ConnInv
<1>16. ASSUME c \notin revived PROVE ConnInv(c)'
  <2>0. /\ StatusInv(c) /\ ReportedInv(c) /\ UpInv(c) /\ RemovalInv(c) /\ DownInv(c)
        /\ SendInv(c)
    BY <1>16 DEF ConnInv, SteadyInv
  <2>1. calls[c] = <<"up", "down">> /\ c \in connections /\ state[c] = "kDisconnected"
    BY <1>4, <1>9, <1>11, <2>0, CallsFacts DEF RemovalInv, StatusInv
  <2>2. ~Has(t, D(c)) /\ ~Has(t, E(c)) /\ fate[c] = "due"
    BY <1>8, <2>0, <2>1, CallsFacts DEF DownInv, UpInv
  <2>3. /\ Once(Append(t, D(c)), E(c)) /\ Once(Append(t, D(c)), D(c))
        /\ Before(Append(t, D(c)), E(c), D(c))
    <3>1. Once(t, E(c)) /\ Once(t, D(c)) /\ Before(t, E(c), D(c))
      BY <1>8, <2>0 DEF UpInv, DownInv
    <3>2. D(c) \in Functors /\ E(c) # D(c)
      BY FunctorFacts DEF About
    <3> QED
      BY <2>2, <3>1, <3>2, AppendFacts
  <2>4. ~Has(Tail(s), R(c)) /\ Once(Tail(s), R(c))
    <3>1. Once(s, R(c))
      BY <1>4, <1>11, <2>0 DEF RemovalInv
    <3> QED
      BY <1>4, <3>1, TailFacts
  <2>5. StatusInv(c)' /\ ReportedInv(c)'
    BY <1>11, <2>0 DEF StatusInv, ReportedInv
  <2>6. UpInv(c)'
    <3>1. ~Has(Append(t, D(c)), E(c))
      BY <1>10, <2>2, FunctorFacts
    <3> QED
      BY <1>8, <2>1, <2>3, <3>1, CallsFacts DEF UpInv, E, D
  <2>7. RemovalInv(c)'
    BY <1>4, <2>1, <2>4 DEF RemovalInv, R
  <2>8. DownInv(c)'
    BY <1>1, <1>2, <1>8, <2>2, <2>3 DEF DownInv, D
  <2>9. SendInv(c)'
    BY <2>1, CallsFacts DEF SendInv
  <2> QED
    BY <1>12, <1>13, <1>14, <1>16, <2>5, <2>6, <2>7, <2>8, <2>9 DEF ConnInv, SteadyInv
<1>17. ASSUME NEW d \in Conns \ {c}, NEW m \in Loops
       PROVE  Spares(Pending(m), Pending(m)', d)
  <2>0. R(c) \notin {E(d), D(d), R(d)} /\ D(c) \in Functors \ About(d)
    BY <1>17, FunctorFacts DEF About
  <2>1. CASE m = Main
    BY <1>4, <2>0, <2>1, KeepsFacts
  <2>2. CASE m = h
    BY <1>6, <2>0, <2>2, KeepsFacts
  <2>3. CASE m # Main /\ m # h
    BY <1>7, <1>b, <2>3, KeepsFacts, PendingType
  <2> QED
    BY <2>1, <2>2, <2>3
<1> QED
  BY <1>15, <1>16, <1>17

\* One turn of the destructor's loop over connections_.
LEMMA DropConn ==
    ASSUME BaseInv, BaseInv', NEW c \in Conns, ConnInv(c), c \in connections,
           spc = "closing", connections' = connections \ {c},
           IF loopOf[c] = Main
           THEN ConnectDestroyed(c) /\ UNCHANGED queue
           ELSE Push(loopOf[c], D(c)) /\ UNCHANGED <<state, ch, userRef, calls, fate>>,
           UNCHANGED <<spc, nextConnId, loopOf, lpc, batch, pos, active, writable, inCall,
                       revived>>
    PROVE  ConnInv(c)'
<1>0. FreshInv(c) /\ PlaceInv(c) /\ LeavingInv(c)
  BY DEF ConnInv
<1>b. LoopOK /\ LifeInv /\ OtherOK /\ ConnOK
  BY DEF BaseInv
<1>1. Accepted(c) /\ Accepted(c)'
  BY <1>0 DEF FreshInv, Accepted
<1>2. CASE loopOf[c] = Main
  <2>1. \A m \in Loops : Pending(m)' = Pending(m)
    BY <1>2, StillEffect
  <2>2. Home(c) = Pending(Main) /\ Home(c)' = Pending(Main) /\ Pending(Main)' = Pending(Main)
    BY <1>2, <2>1, Numbers DEF Home, Pending
  <2>3. ~Has(Pending(Main), E(c)) /\ ~Has(Pending(Main), R(c))
    BY <1>0, <1>2, Numbers DEF PlaceInv
  <2>4. /\ fate'[c] = "run" /\ ~ch'[c].added
        /\ calls'[c] = calls[c] \/ calls'[c] = Append(calls[c], "down")
    BY <1>2, DestroyEffect
  <2>5. \A m \in Loops : c \notin active'[m] /\ c \notin writable'[m]
    BY <1>0, <1>2, <1>b DEF PlaceInv, LoopOK, LifeInv, Running
  <2>6. FreshInv(c)'
    <3>1. inCall'[c] = {}
      BY DEF BaseInv, UserOK
    <3> QED
      BY <1>0, <1>1, <3>1 DEF FreshInv
  <2>7. PlaceInv(c)'
    BY <1>0, <1>1, <2>1, PlaceStep
  <2>8. LeavingInv(c)'
    BY <2>4 DEF LeavingInv
  <2>9. CASE c \in revived
    <3>1. RevivedInv(c)
      BY <2>9 DEF ConnInv
    <3>2. RevivedInv(c)'
      BY <1>1, <1>b, <2>4, <3>1, RevivedStep
    <3> QED
      BY <2>6, <2>7, <2>8, <2>9, <3>2 DEF ConnInv
  <2>10. CASE c \notin revived
    <3>0. /\ StatusInv(c) /\ UpInv(c) /\ RemovalInv(c) /\ DownInv(c) /\ SendInv(c)
      BY <2>10 DEF ConnInv, SteadyInv
    <3>1. fate[c] = "due" /\ ~Has(Pending(Main), D(c))
      BY <2>2, <3>0 DEF DownInv
    <3>2. calls[c] # <<>>
      BY <1>1, <2>2, <2>3, <3>0, <3>1 DEF UpInv
    <3>3. /\ calls'[c] # <<>> /\ StatusInv(c)'
          /\ calls'[c] = calls[c] \/ calls'[c] = <<"up", "down">>
          /\ state'[c] # "kDisconnected" => state[c] # "kDisconnected"
      BY <1>2, <3>0, <3>2, DestroyStatus
    <3>4. ReportedInv(c)'
      BY <2>5 DEF ReportedInv
    <3>5. UpInv(c)'
      BY <2>2, <2>3, <3>0, <3>3 DEF UpInv, E, D
    <3>6. RemovalInv(c)'
      BY <2>2, <2>3 DEF RemovalInv, R
    <3>7. DownInv(c)'
      BY <2>2, <3>0, <3>1 DEF DownInv, D
    <3>8. SendInv(c)'
      BY <1>2, <2>2, <3>0, <3>3 DEF SendInv, T, D
    <3> QED
      BY <2>6, <2>7, <2>8, <2>10, <3>3, <3>4, <3>5, <3>6, <3>7, <3>8 DEF ConnInv, SteadyInv
  <2> QED
    BY <2>9, <2>10
<1>3. CASE loopOf[c] # Main
  <2>0. D(c) \in Functors /\ D(c) # E(c) /\ D(c) # R(c) /\ D(c) # T(c)
    BY FunctorFacts DEF About
  <2>1. PICK h \in Loops : h = loopOf[c] /\ h # Main /\ Push(h, D(c))
    BY <1>3, <1>b DEF OtherOK
  <2>2. PICK s \in Seq(Functors) : /\ s = Pending(h) /\ Pending(h)' = Append(s, D(c))
                                   /\ \A m \in Loops : m # h => Pending(m)' = Pending(m)
    BY <2>0, <2>1, PushEffect
  <2>3. Home(c) = s /\ Home(c)' = Append(s, D(c)) /\ Pending(Main)' = Pending(Main)
    <3>1. Home(c) = Pending(h) /\ Home(c)' = Pending(h)'
      BY <2>1 DEF Home, Pending
    <3> QED
      BY <2>1, <2>2, <3>1, Numbers
  <2>4. \A f : Has(Append(s, D(c)), f) <=> Has(s, f) \/ f = D(c)
    BY <2>0, AppendFacts
  <2>5. UNCHANGED <<state, ch, userRef, calls, fate>>
    BY <1>3
  <2>6. FreshInv(c)'
    BY <1>0, <1>1, <2>5 DEF FreshInv
  <2>7. PlaceInv(c)'
    <3>1. \A m \in Loops : \A f : Has(Pending(m)', f) =>
            Has(Pending(m), f) \/ (f = D(c) /\ m = loopOf[c])
      BY <2>1, <2>2, <2>4
    <3> QED
      BY <1>0, <1>1, <2>0, <3>1, PlaceStep
  <2>8. LeavingInv(c)'
    BY <2>3, <2>4 DEF LeavingInv, D
  <2>9. CASE c \in revived
    <3>1. RevivedInv(c)
      BY <2>9 DEF ConnInv
    <3>2. RevivedInv(c)'
      BY <1>1, <2>5, <3>1 DEF RevivedInv
    <3> QED
      BY <2>6, <2>7, <2>8, <2>9, <3>2 DEF ConnInv
  <2>10. CASE c \notin revived
    <3>0. /\ StatusInv(c) /\ ReportedInv(c) /\ UpInv(c) /\ RemovalInv(c) /\ DownInv(c)
          /\ SendInv(c)
      BY <2>10 DEF ConnInv, SteadyInv
    <3>1. fate[c] = "due" /\ ~Has(s, D(c))
      BY <2>3, <3>0 DEF DownInv
    <3>2. /\ Once(Append(s, D(c)), E(c)) /\ Once(Append(s, D(c)), D(c))
          /\ Before(Append(s, D(c)), E(c), D(c))
      <4>1. Once(s, E(c)) /\ Once(s, D(c)) /\ Before(s, E(c), D(c))
        BY <2>3, <3>0 DEF UpInv, DownInv
      <4> QED
        BY <2>0, <3>1, <4>1, AppendFacts
    <3>3. StatusInv(c)' /\ ReportedInv(c)'
      BY <2>5, <3>0 DEF StatusInv, ReportedInv
    <3>4. UpInv(c)'
      BY <1>1, <2>0, <2>3, <2>4, <2>5, <3>0, <3>2 DEF UpInv, E, D
    <3>5. RemovalInv(c)'
      BY <2>3, <2>5, <3>0 DEF RemovalInv, R
    <3>6. DownInv(c)'
      BY <1>3, <2>3, <2>5, <3>1, <3>2 DEF DownInv, D
    <3>7. SendInv(c)'
      <4>1. Before(s, T(c), D(c)) => Before(Append(s, D(c)), T(c), D(c))
        BY <2>0, AppendFacts
      <4>2. Has(Append(s, D(c)), T(c)) <=> Has(s, T(c))
        BY <2>0, <2>4
      <4> QED
        BY <2>3, <2>5, <3>0, <4>1, <4>2 DEF SendInv, T, D
    <3> QED
      BY <2>6, <2>7, <2>8, <2>10, <3>3, <3>4, <3>5, <3>6, <3>7 DEF ConnInv, SteadyInv
  <2> QED
    BY <2>9, <2>10
<1> QED
  BY <1>2, <1>3

\* The end of a loop, which comes when no connection is in connections_: a
\* ConnectDestroyed it still held is lost.
LEMMA DiscardConn ==
    ASSUME BaseInv, BaseInv', NEW c \in Conns, ConnInv(c), NEW l \in Loops,
           Discard(l), connections = {}, spc # "up", lpc'[l] = "gone",
           Pending(l) = queue[l], Pending(l)' = queue'[l],
           \A m \in Loops : m # l => Pending(m)' = Pending(m) /\ lpc'[m] = lpc[m],
           UNCHANGED <<spc, nextConnId, connections, active, writable, state, ch, userRef,
                       calls, loopOf, inCall, revived>>
    PROVE  ConnInv(c)'
<1>0. FreshInv(c) /\ PlaceInv(c) /\ LeavingInv(c)
  BY DEF ConnInv
<1>b. ConnOK /\ OtherOK /\ QueueOK
  BY DEF BaseInv
<1>1. Pending(l)' = <<>> /\ \A f : ~Has(<<>>, f) /\ Once(<<>>, f)
      /\ \A g : Before(<<>>, f, g)
  <2>1. queue'[l] = <<>>
    BY <1>b DEF Discard, QueueOK
  <2>2. \A f : ~Has(<<>>, f)
    BY DEF Has
  <2> QED
    BY <2>1, <2>2, NoneFacts
<1>2. fate'[c] = IF fate[c] = "due" /\ Has(Pending(l), D(c)) THEN "lost" ELSE fate[c]
  BY <1>b DEF Discard, ConnOK, Has, D
<1>3. Accepted(c)' <=> Accepted(c)
  BY DEF Accepted
<1>4. PICK h \in Loops : h = loopOf[c] /\ Home(c) = Pending(h) /\ Home(c)' = Pending(h)'
  BY HomeFacts
<1>5. h # l => fate'[c] = fate[c] /\ Home(c)' = Home(c)
  BY <1>0, <1>2, <1>4 DEF PlaceInv
<1>6. FreshInv(c)'
  <2>1. ~Accepted(c) => fate'[c] = fate[c]
    BY <1>0, <1>2 DEF PlaceInv
  <2>2. lpc[h] # "none" => lpc'[h] # "none"
    BY <1>4
  <2> QED
    BY <1>0, <1>3, <1>4, <2>1, <2>2 DEF FreshInv
<1>7. PlaceInv(c)'
  <2>1. \A m \in Loops : \A f : Has(Pending(m)', f) => Has(Pending(m), f)
    BY <1>1
  <2>2. CASE Accepted(c)
    BY <1>0, <1>3, <2>1, <2>2, PlaceStep
  <2>3. CASE ~Accepted(c)
    BY <1>0, <1>3, <2>1, <2>3 DEF PlaceInv, E, D, T, R, H
  <2> QED
    BY <2>2, <2>3
<1>8. LeavingInv(c)'
  <2>1. CASE h = l
    BY <1>0, <1>2, <1>3, <1>4, <2>1 DEF LeavingInv, D
  <2>2. CASE h # l
    BY <1>0, <1>3, <1>5, <2>2 DEF LeavingInv, D
  <2> QED
    BY <2>1, <2>2
<1>9. CASE c \in revived
  <2>1. RevivedInv(c)
    BY <1>9 DEF ConnInv
  <2>2. RevivedInv(c)'
    BY <1>3, <2>1 DEF RevivedInv
  <2> QED
    BY <1>6, <1>7, <1>8, <1>9, <2>2 DEF ConnInv
<1>10. CASE c \notin revived
  <2>0. /\ StatusInv(c) /\ ReportedInv(c) /\ UpInv(c) /\ RemovalInv(c) /\ DownInv(c)
        /\ SendInv(c)
    BY <1>10 DEF ConnInv, SteadyInv
  <2>1. StatusInv(c)' /\ ReportedInv(c)'
    <3>1. StatusInv(c)'
      BY <1>2, <2>0 DEF StatusInv
    <3>2. ReportedInv(c)'
      BY <2>0 DEF ReportedInv
    <3> QED
      BY <3>1, <3>2
  <2>2. RemovalInv(c)'
    <3>1. Has(Pending(Main)', R(c)) => Has(Pending(Main), R(c))
      BY <1>1, Numbers
    <3> QED
      BY <2>0, <3>1 DEF RemovalInv, R
  <2>3. CASE h = l
    <3>1. Home(c)' = <<>>
      BY <1>1, <1>4, <2>3
    <3>2. Accepted(c) => fate'[c] # "due"
      BY <1>0, <1>2, <1>4, <2>3 DEF LeavingInv
    <3>3. Accepted(c) /\ calls[c] = <<>> => fate'[c] = "lost"
      <4>1. Accepted(c) /\ calls[c] = <<>> /\ fate[c] # "lost" => Has(Pending(l), D(c)) /\ fate[c] = "due"
        BY <1>0, <1>4, <2>0, <2>3 DEF UpInv, LeavingInv
      <4> QED
        BY <1>2, <4>1
    <3>4. UpInv(c)'
      BY <1>1, <1>3, <3>1, <3>3 DEF UpInv, E, D
    <3>5. DownInv(c)'
      BY <1>1, <1>3, <3>1, <3>2 DEF DownInv, D
    <3>6. SendInv(c)'
      BY <1>1, <3>1 DEF SendInv, T, D
    <3> QED
      BY <1>6, <1>7, <1>8, <1>10, <2>1, <2>2, <3>4, <3>5, <3>6 DEF ConnInv, SteadyInv
  <2>4. CASE h # l
    <3>1. UpInv(c)' /\ DownInv(c)' /\ SendInv(c)'
      BY <1>3, <1>5, <2>0, <2>4 DEF UpInv, DownInv, SendInv, E, D, T
    <3> QED
      BY <1>6, <1>7, <1>8, <1>10, <2>1, <2>2, <3>1 DEF ConnInv, SteadyInv
  <2> QED
    BY <2>3, <2>4
<1> QED
  BY <1>9, <1>10

\* A Send or a Shutdown of another thread goes on.
LEMMA ActConn ==
    ASSUME BaseInv, BaseInv', NEW c \in Conns, ConnInv(c), NEW op \in inCall[c],
           inCall' = [inCall EXCEPT ![c] = @ \ {op}],
           Push(loopOf[c], Functor(op, c)),
           IF op = "shutdown"
           THEN /\ state' = [state EXCEPT ![c] = "kDisconnecting"]
                /\ revived' = IF state[c] = "kDisconnected" THEN revived \cup {c} ELSE revived
           ELSE UNCHANGED <<state, revived>>,
           UNCHANGED <<spc, nextConnId, connections, lpc, batch, pos, active, writable, ch,
                       userRef, calls, fate, loopOf>>
    PROVE  ConnInv(c)'
<1>0. FreshInv(c) /\ PlaceInv(c) /\ LeavingInv(c)
  BY DEF ConnInv
<1>b. OtherOK /\ ConnOK /\ UserOK
  BY DEF BaseInv
<1>1. spc = "up" /\ calls[c] # <<>> /\ Accepted(c) /\ Accepted(c)'
  BY <1>0, <1>b DEF UserOK, FreshInv, Accepted
<1>2. PICK f \in {T(c), H(c)} : f = Functor(op, c)
  BY <1>b DEF UserOK, UserOps, T, H
<1>3. f \in Functors /\ f # E(c) /\ f # D(c) /\ f # R(c)
  BY FunctorFacts DEF About
<1>4. PICK h \in Loops : h = loopOf[c] /\ Home(c) = Pending(h) /\ Home(c)' = Pending(h)'
  BY HomeFacts
<1>5. PICK s \in Seq(Functors) : /\ s = Pending(h) /\ Pending(h)' = Append(s, f)
                                 /\ \A m \in Loops : m # h => Pending(m)' = Pending(m)
  BY <1>2, <1>3, <1>4, PushEffect
<1>6. \A g : Has(Append(s, f), g) <=> Has(s, g) \/ g = f
  BY <1>3, AppendFacts
<1>7. FreshInv(c)'
  BY <1>0, <1>1 DEF FreshInv
<1>8. PlaceInv(c)'
  <2>1. \A m \in Loops : \A g : Has(Pending(m)', g) =>
          Has(Pending(m), g) \/ (g = f /\ m = loopOf[c])
    BY <1>4, <1>5, <1>6
  <2> QED
    BY <1>0, <1>1, <1>3, <2>1, PlaceStep
<1>9. LeavingInv(c)'
  BY <1>0, <1>1, <1>4, <1>5, <1>6 DEF LeavingInv, D
<1>10. /\ state'[c] = state[c] \/ state'[c] = "kDisconnecting"
       /\ c \notin revived' => c \notin revived /\ (state'[c] = state[c] \/ state[c] # "kDisconnected")
       /\ c \in revived' => c \in revived \/ state[c] = "kDisconnected"
  <2>1. CASE op = "shutdown"
    BY <1>b, <2>1 DEF ConnOK
  <2>2. CASE op # "shutdown"
    BY <2>2
  <2> QED
    BY <2>1, <2>2
<1>11. CASE c \in revived'
  <2>1. calls[c] # <<"up">>
    <3>1. CASE c \in revived
      BY <3>1 DEF ConnInv, RevivedInv
    <3>2. CASE c \notin revived
      BY <1>10, <1>11, <3>2, CallsFacts DEF ConnInv, SteadyInv, StatusInv
    <3> QED
      BY <3>1, <3>2
  <2>2. RevivedInv(c)'
    BY <1>1, <2>1 DEF RevivedInv
  <2> QED
    BY <1>7, <1>8, <1>9, <1>11, <2>2 DEF ConnInv
<1>12. CASE c \notin revived'
  <2>0. /\ StatusInv(c) /\ ReportedInv(c) /\ UpInv(c) /\ RemovalInv(c) /\ DownInv(c)
        /\ SendInv(c)
    BY <1>10, <1>12 DEF ConnInv, SteadyInv
  <2>1. StatusInv(c)'
    BY <1>1, <1>10, <1>12, <2>0, CallsFacts DEF StatusInv
  <2>2. ReportedInv(c)'
    BY <2>0 DEF ReportedInv
  <2>3. UpInv(c)' /\ RemovalInv(c)' /\ DownInv(c)'
    <3>1. ASSUME NEW m \in Loops PROVE Keeps(Pending(m), Pending(m)', c)
      <4>1. CASE m = h
        BY <1>3, <1>5, <4>1, KeepsFacts
      <4>2. CASE m # h
        <5>1. Pending(m) \in Seq(Functors)
          BY PendingType DEF BaseInv
        <5> QED
          BY <1>5, <4>2, <5>1, KeepsFacts DEF Spares
      <4> QED
        BY <4>1, <4>2
    <3>2. Accepted(c)' <=> Accepted(c)
      BY <1>1
    <3> QED
      BY <2>0, <3>1, <3>2, CoreStep
  <2>4. SendInv(c)'
    <3>1. state'[c] # "kDisconnected" => ~Has(s, D(c)) /\ fate[c] = "due"
      BY <1>1, <1>4, <1>5, <1>10, <1>12, <2>0, CallsFacts DEF StatusInv, RemovalInv, DownInv
    <3>2. state'[c] # "kDisconnected" => Before(Append(s, f), T(c), D(c))
      BY <1>3, <3>1, AppendFacts
    <3> QED
      BY <1>1, <1>4, <1>5, <3>1, <3>2 DEF SendInv, T, D
  <2> QED
    BY <1>7, <1>8, <1>9, <1>12, <2>1, <2>2, <2>3, <2>4 DEF ConnInv, SteadyInv
<1> QED
  BY <1>11, <1>12

\* SendInLoop, of a connection that was not destroyed or is disconnected.
LEMMA SendStatus ==
    ASSUME BaseInv, NEW c \in Conns, StatusInv(c), ReportedInv(c), SendInLoop(c),
           calls[c] # <<>>, state[c] # "kDisconnected" => fate[c] # "run",
           UNCHANGED <<state, calls, fate, active, writable>>
    PROVE  StatusInv(c)' /\ ReportedInv(c)'
<1>1. CASE ch' = ch
  <2>1. StatusInv(c)'
    BY <1>1 DEF StatusInv
  <2>2. ReportedInv(c)'
    BY <1>1 DEF ReportedInv
  <2> QED
    BY <2>1, <2>2
<1>2. CASE ch' # ch
  <2>1. state[c] # "kDisconnected" /\ ch' = [ch EXCEPT ![c] = EnableWriting(ch[c])]
    BY <1>2 DEF SendInLoop
  <2>2. ch[c] \in ChannelState /\ ViewsAgree(ch[c]) /\ ch \in [Conns -> ChannelState]
    BY DEF BaseInv, ConnOK
  <2>3. ch'[c].added
    BY <2>1, <2>2, EntersEpoll
  <2>4. StatusInv(c)'
    BY <2>1, <2>3 DEF StatusInv
  <2>5. ReportedInv(c)'
    BY <2>3 DEF ReportedInv
  <2> QED
    BY <2>4, <2>5
<1> QED
  BY <1>1, <1>2

\* HandleWrite, for a channel that was reported writable and has nothing else
\* to handle.
LEMMA WriteStatus ==
    ASSUME BaseInv, NEW c \in Conns, StatusInv(c), ReportedInv(c), HandleWrite(c),
           NEW l \in Loops, c \in writable[l], \A m \in Loops : c \notin active[m],
           \A m \in Loops : writable'[m] \subseteq writable[m],
           UNCHANGED <<state, calls, fate, active>>
    PROVE  StatusInv(c)' /\ ReportedInv(c)'
<1>1. CASE ch' = ch
  <2>1. StatusInv(c)'
    BY <1>1 DEF StatusInv
  <2>2. ReportedInv(c)'
    BY <1>1 DEF ReportedInv
  <2> QED
    BY <2>1, <2>2
<1>2. CASE ch' # ch
  <2>1. IsWriting(ch[c]) /\ ch' = [ch EXCEPT ![c] = DisableWriting(ch[c])]
    BY <1>2 DEF HandleWrite
  <2>2. ch[c].added /\ calls[c] = <<"up">> /\ fate[c] # "run"
    BY <2>1 DEF ReportedInv, StatusInv
  <2>3. ch[c] \in ChannelState /\ ch \in [Conns -> ChannelState]
    BY DEF BaseInv, ConnOK
  <2>4. ~IsWriting(ch'[c])
    BY <2>1, <2>3, CallEvents DEF IsWriting
  <2>5. StatusInv(c)'
    BY <2>2 DEF StatusInv
  <2>6. ReportedInv(c)'
    BY <2>4 DEF ReportedInv
  <2> QED
    BY <2>5, <2>6
<1> QED
  BY <1>1, <1>2

-----------------------------------------------------------------------------
(* Every step keeps the invariant of every connection                      *)

\* Where nothing happens to the functors of the loops, no connection is
\* concerned.
LEMMA StillKeeps ==
    ASSUME BaseInv, NEW d \in Conns, \A l \in Loops : Pending(l)' = Pending(l)
    PROVE  \A l \in Loops : Spares(Pending(l), Pending(l)', d)
<1>1. LoopOK /\ QueueOK
  BY DEF BaseInv
<1> QED
  BY <1>1, PendingType, KeepsFacts

\* Queueing a functor that is not about d.
LEMMA PushKeeps ==
    ASSUME BaseInv, NEW d \in Conns, NEW l \in Loops,
           NEW f \in Functors \ About(d), Push(l, f), UNCHANGED <<batch, pos>>
    PROVE  \A m \in Loops : Spares(Pending(m), Pending(m)', d)
<1>1. LoopOK /\ QueueOK
  BY DEF BaseInv
<1>2. PICK s \in Seq(Functors) : /\ s = Pending(l) /\ Pending(l)' = Append(s, f)
                                 /\ \A m \in Loops : m # l => Pending(m)' = Pending(m)
  BY PushEffect
<1>3. Spares(s, Append(s, f), d)
  BY KeepsFacts
<1>4. ASSUME NEW m \in Loops, m # l PROVE Spares(Pending(m), Pending(m)', d)
  BY <1>1, <1>2, <1>4, PendingType, KeepsFacts
<1> QED
  BY <1>2, <1>3, <1>4

\* Running a functor that is not about the coming or going of d.
LEMMA RunKeeps ==
    ASSUME BaseInv, NEW d \in Conns, NEW l \in Loops, NEW op, NEW c, Run(l, op, c),
           Functor(op, c) \notin {E(d), D(d), R(d)}, UNCHANGED queue
    PROVE  \A m \in Loops : Spares(Pending(m), Pending(m)', d)
<1>1. LoopOK /\ QueueOK
  BY DEF BaseInv
<1>2. PICK s \in Seq(Functors) : /\ s = Pending(l) /\ s # <<>> /\ s[1] = Functor(op, c)
                                 /\ Pending(l)' = Tail(s)
                                 /\ \A m \in Loops : m # l => Pending(m)' = Pending(m)
  BY RunOnlyEffect
<1>3. Spares(s, Tail(s), d)
  BY <1>2, KeepsFacts
<1>4. ASSUME NEW m \in Loops, m # l PROVE Spares(Pending(m), Pending(m)', d)
  BY <1>1, <1>2, <1>4, PendingType, KeepsFacts
<1> QED
  BY <1>2, <1>3, <1>4

\* A step that leaves every connection and every functor alone.
LEMMA QuietStep ==
    ASSUME BaseInv, BaseInv', NEW d \in Conns, ConnInv(d),
           UNCHANGED <<connections, nextConnId, state, ch, calls, fate, loopOf, revived>>,
           inCall'[d] # {} => inCall[d] # {} \/ calls[d] # <<>>,
           spc' = "up" => spc = "up",
           \A l \in Loops : lpc[l] # "none" => lpc'[l] # "none",
           \A l \in Loops : d \in active'[l] =>
               d \in active[l] \/ (Accepted(d) /\ l = loopOf[d] /\ ch[d].added),
           \A l \in Loops : d \in writable'[l] =>
               d \in writable[l] \/ (Accepted(d) /\ l = loopOf[d] /\ ch[d].added),
           \A l \in Loops : Pending(l)' = Pending(l)
    PROVE  ConnInv(d)'
<1>1. PICK h \in Loops : h = loopOf[d]
  BY DEF BaseInv, OtherOK
<1>2. lpc[loopOf[d]] # "none" => lpc'[loopOf[d]] # "none"
  BY <1>1
<1>3. Accepted(d)' <=> Accepted(d)
  BY DEF Accepted
<1>4. \A l \in Loops : Spares(Pending(l), Pending(l)', d)
  BY StillKeeps
<1> QED
  BY <1>2, <1>3, <1>4, Bystander

\* Before anything happens.
LEMMA InitConn == Init => \A c \in Conns : ConnInv(c)
<1> SUFFICES ASSUME Init, NEW c \in Conns PROVE ConnInv(c)
  OBVIOUS
<1>1. BaseInv /\ LoopOK /\ QueueOK
  BY InitBase DEF BaseInv
<1>2. ~Accepted(c)
  BY Numbers DEF Init, Accepted, Conns
<1>3. \A l \in Loops : Pending(l) = <<>>
  <2>1. ASSUME NEW l \in Loops PROVE Pending(l) = <<>>
    <3>1. lpc[l] # "batch" /\ queue[l] = <<>>
      BY DEF Init
    <3> QED
      BY <1>1, <3>1, PendingType
  <2> QED
    BY <2>1
<1>4. \A f : ~Has(<<>>, f) /\ Once(<<>>, f) /\ \A g : Before(<<>>, f, g)
  <2>1. \A f : ~Has(<<>>, f)
    BY DEF Has
  <2> QED
    BY <2>1, NoneFacts
<1>5. Home(c) = <<>> /\ Pending(Main) = <<>>
  BY <1>1, <1>3, Numbers DEF Home, BaseInv, OtherOK
<1>6. FreshInv(c) /\ LeavingInv(c) /\ c \notin revived
  BY <1>2 DEF Init, FreshInv, LeavingInv, NewChannel
<1>7. StatusInv(c) /\ ReportedInv(c)
  BY DEF Init, StatusInv, ReportedInv, NewChannel
<1>8. PlaceInv(c)
  BY <1>3, <1>4 DEF Init, PlaceInv
<1>9. UpInv(c) /\ RemovalInv(c) /\ DownInv(c) /\ SendInv(c)
  BY <1>2, <1>4, <1>5 DEF Init, UpInv, RemovalInv, DownInv, SendInv
<1> QED
  BY <1>6, <1>7, <1>8, <1>9 DEF ConnInv, SteadyInv

\* The steps that concern no connection.
LEMMA QuietConn ==
    ASSUME BaseInv, BaseInv', NEW d \in Conns, ConnInv(d),
           \/ SetThreadNum \/ Start \/ EnterLoop \/ QuitMain \/ DestroyServer \/ QuitLoop
           \/ DestroyAcceptor \/ ClientConnects \/ ClientCloses \/ UserTest \/ UserDrops
           \/ UNCHANGED vars
           \/ \E l \in Loops : EnterSub(l) \/ PollReturns(l) \/ AcceptFails(l) \/ SwapFunctors(l)
    PROVE  ConnInv(d)'
<1> USE DEF serverVars, loopVars, connVars, userVars
<1>b. LoopOK /\ ConnOK /\ OtherOK /\ UserOK
  BY DEF BaseInv
<1>1. CASE \/ SetThreadNum \/ QuitMain \/ DestroyServer \/ QuitLoop
           \/ DestroyAcceptor \/ ClientConnects \/ ClientCloses \/ UserDrops \/ UNCHANGED vars
  <2>1. /\ UNCHANGED <<connections, nextConnId, state, ch, calls, fate, loopOf, revived>>
        /\ UNCHANGED <<lpc, active, writable, queue, batch, pos, inCall>>
        /\ spc' = "up" => spc = "up"
    BY <1>1 DEF SetThreadNum, QuitMain, DestroyServer, QuitLoop, DestroyAcceptor,
                ClientConnects, ClientCloses, UserDrops, vars
  <2>2. \A l \in Loops : Pending(l)' = Pending(l)
    BY <2>1, StillEffect
  <2> QED
    BY <2>1, <2>2, QuietStep
<1>2. CASE Start \/ EnterLoop \/ \E l \in Loops : EnterSub(l)
  <2>1. /\ UNCHANGED <<connections, nextConnId, state, ch, calls, fate, loopOf, revived>>
        /\ UNCHANGED <<spc, active, writable, queue, batch, pos, inCall>>
    BY <1>2 DEF Start, EnterLoop, EnterSub, Enter
  <2>2. \A l \in Loops : lpc[l] # "none" => lpc'[l] # "none"
    BY <1>2, <1>b DEF Start, EnterLoop, EnterSub, Enter, LoopOK
  <2>3. \A l \in Loops : Pending(l)' = Pending(l)
    BY <2>1, StillEffect
  <2> QED
    BY <2>1, <2>2, <2>3, QuietStep
<1>3. CASE UserTest
  <2>1. /\ UNCHANGED <<connections, nextConnId, state, ch, calls, fate, loopOf, revived>>
        /\ UNCHANGED <<spc, lpc, active, writable, queue, batch, pos>>
    BY <1>3 DEF UserTest
  <2>2. PICK c \in Conns, op \in UserOps :
          state[c] = "kConnected" /\ inCall' = [inCall EXCEPT ![c] = @ \cup {op}]
    BY <1>3 DEF UserTest
  <2>3. inCall'[d] # {} => inCall[d] # {} \/ calls[d] # <<>>
    <3>1. state[d] = "kConnected" => calls[d] # <<>>
      BY CallsFacts DEF ConnInv, SteadyInv, RevivedInv, StatusInv
    <3> QED
      BY <1>b, <2>2, <3>1 DEF UserOK
  <2>4. \A l \in Loops : Pending(l)' = Pending(l)
    BY <2>1, StillEffect
  <2> QED
    BY <2>1, <2>3, <2>4, QuietStep
<1>4. ASSUME NEW l \in Loops, PollReturns(l) PROVE ConnInv(d)'
  <2>1. /\ UNCHANGED <<connections, nextConnId, state, ch, calls, fate, loopOf, revived>>
        /\ UNCHANGED <<spc, queue, batch, pos, inCall>>
        /\ \A m \in Loops : lpc[m] # "none" => lpc'[m] # "none"
    BY <1>4, <1>b DEF PollReturns, LoopOK
  <2>2. /\ \A m \in Loops : m # l => active'[m] = active[m] /\ writable'[m] = writable[m]
        /\ active'[l] \subseteq Ready(l) \cup MayHangUp(l) /\ writable'[l] \subseteq MayWrite(l)
    BY <1>4, <1>b DEF PollReturns, LoopOK
  <2>3. d \in Ready(l) \cup MayHangUp(l) \cup MayWrite(l)
          => Accepted(d) /\ l = loopOf[d] /\ ch[d].added
    BY Numbers DEF Ready, MayHangUp, MayWrite, Revents
  <2>4. \A m \in Loops : d \in active'[m] =>
          d \in active[m] \/ (Accepted(d) /\ m = loopOf[d] /\ ch[d].added)
    BY <2>2, <2>3
  <2>5. \A m \in Loops : d \in writable'[m] =>
          d \in writable[m] \/ (Accepted(d) /\ m = loopOf[d] /\ ch[d].added)
    BY <2>2, <2>3
  <2>6. \A m \in Loops : Pending(m)' = Pending(m)
    BY <2>1, StillEffect
  <2> QED
    BY <2>1, <2>4, <2>5, <2>6, QuietStep
<1>5. ASSUME NEW l \in Loops, AcceptFails(l) PROVE ConnInv(d)'
  <2>1. /\ UNCHANGED <<connections, nextConnId, state, ch, calls, fate, loopOf, revived>>
        /\ UNCHANGED <<spc, lpc, writable, queue, batch, pos, inCall>>
        /\ \A m \in Loops : active'[m] \subseteq active[m]
    BY <1>5, <1>b DEF AcceptFails, Event, LoopOK
  <2>2. \A m \in Loops : Pending(m)' = Pending(m)
    BY <2>1, StillEffect
  <2> QED
    BY <2>1, <2>2, QuietStep
<1>6. ASSUME NEW l \in Loops, SwapFunctors(l) PROVE ConnInv(d)'
  <2>1. /\ UNCHANGED <<connections, nextConnId, state, ch, calls, fate, loopOf, revived>>
        /\ UNCHANGED <<spc, active, writable, inCall>>
        /\ \A m \in Loops : lpc[m] # "none" => lpc'[m] # "none"
    BY <1>6, <1>b DEF SwapFunctors, LoopOK
  <2>2. \A m \in Loops : Pending(m)' = Pending(m)
    BY <1>6, SwapEffect
  <2> QED
    BY <2>1, <2>2, QuietStep
<1> QED
  BY <1>1, <1>2, <1>3, <1>4, <1>5, <1>6

\* The steps of a loop that open, close or destroy a connection.
LEMMA EventConn ==
    ASSUME BaseInv, BaseInv', NEW d \in Conns, \A c \in Conns : ConnInv(c),
           NEW l \in Loops,
           \/ ConnectionEvent(l) \/ AcceptEvent(l) \/ RunEstablished(l)
           \/ RunDestroyed(l) \/ RunRemoval(l)
    PROVE  ConnInv(d)'
<1> USE DEF serverVars, connVars, userVars
<1>b. LoopOK /\ ConnOK /\ OtherOK /\ QueueOK /\ AcceptInv /\ ServerOK
  BY DEF BaseInv
<1>1. CASE ConnectionEvent(l)
  <2>1. PICK c \in Conns : Event(l, c) /\ HandleClose(c)
    BY <1>1 DEF ConnectionEvent
  <2>2. UNCHANGED <<spc, nextConnId, loopOf, inCall, revived>> /\ (Accepted(d)' <=> Accepted(d))
    BY <1>1 DEF ConnectionEvent, Accepted
  <2>3. CASE d = c
    BY <2>1, <2>2, <2>3, CloseConn
  <2>4. CASE d # c
    <3>1. /\ calls'[d] = calls[d] /\ fate'[d] = fate[d] /\ ch'[d] = ch[d]
          /\ state'[d] = state[d]
      BY <1>b, <2>1, <2>4 DEF HandleClose, ConnOK
    <3>2. /\ UNCHANGED <<lpc, batch, pos, writable>>
          /\ \A m \in Loops : active'[m] \subseteq active[m]
      BY <1>b, <2>1 DEF Event, LoopOK
    <3>3. PICK f \in {D(c), R(c)} : Push(Main, f) /\ (d \in connections' <=> d \in connections)
      BY <2>1, <2>4 DEF HandleClose, RemoveConnection, RemoveConnectionInLoop, D, R
    <3>4. f \in Functors \ About(d)
      BY <2>4, FunctorFacts DEF About
    <3>5. \A m \in Loops : Spares(Pending(m), Pending(m)', d)
      BY <3>2, <3>3, <3>4, PushKeeps, Numbers
    <3> QED
      BY <2>2, <3>1, <3>2, <3>3, <3>5, Bystander
  <2> QED
    BY <2>3, <2>4
<1>2. CASE AcceptEvent(l)
  <2>1. /\ Event(l, Listener) /\ NewConnection(nextConnId) /\ UNCHANGED <<spc, inCall, revived>>
    BY <1>2 DEF AcceptEvent
  <2>2. l = Main /\ nextConnId \in Conns
    BY <1>b, <2>1 DEF Event, AcceptInv
  <2>3. PICK c \in Conns : c = nextConnId /\ NewConnection(c)
    BY <2>1, <2>2
  <2>4. /\ UNCHANGED <<lpc, batch, pos, writable>> /\ Running(Main)
        /\ \A m \in Loops : active'[m] \subseteq active[m]
    BY <1>b, <2>1, <2>2 DEF Event, LoopOK, Running
  <2>5. CASE d = c
    BY <2>1, <2>3, <2>4, <2>5, AcceptConn
  <2>6. CASE d # c
    <3>1. Accepted(d)' <=> Accepted(d)
      BY <1>b, <2>3, <2>6, Numbers DEF NewConnection, Accepted
    <3>2. /\ calls'[d] = calls[d] /\ fate'[d] = fate[d] /\ ch'[d] = ch[d]
          /\ state'[d] = state[d]
      BY <1>b, <2>3, <2>6 DEF NewConnection, ConnectEstablished, ConnOK
    <3>3. loopOf'[d] = loopOf[d] /\ (d \in connections' <=> d \in connections)
      BY <1>b, <2>3, <2>6 DEF NewConnection, OtherOK
    <3>4. \A m \in Loops : Spares(Pending(m), Pending(m)', d)
      <4>1. CASE NextLoop = Main
        <5>1. \A m \in Loops : Pending(m)' = Pending(m)
          BY <2>3, <2>4, <4>1, StillEffect DEF NewConnection
        <5> QED
          BY <5>1, StillKeeps
      <4>2. CASE NextLoop # Main
        <5>1. NextLoop \in Loops
          BY <1>b, Numbers DEF NextLoop, ServerOK, Main, Loops
        <5>2. Push(NextLoop, E(c))
          BY <2>3, <4>2 DEF NewConnection, E
        <5>3. E(c) \in Functors \ About(d)
          BY <2>6, FunctorFacts DEF About
        <5> QED
          BY <2>4, <5>1, <5>2, <5>3, PushKeeps
      <4> QED
        BY <4>1, <4>2
    <3> QED
      BY <2>1, <2>4, <3>1, <3>2, <3>3, <3>4, Bystander
  <2> QED
    BY <2>5, <2>6
<1>3. CASE RunEstablished(l) \/ RunDestroyed(l)
  <2>1. PICK c \in Conns : \/ Run(l, "established", c) /\ ConnectEstablished(c)
                           \/ Run(l, "destroyed", c) /\ ConnectDestroyed(c)
    BY <1>3 DEF RunEstablished, RunDestroyed
  <2>2. /\ UNCHANGED <<spc, nextConnId, connections, queue, loopOf, inCall, revived>>
        /\ Accepted(d)' <=> Accepted(d)
    BY <1>3 DEF RunEstablished, RunDestroyed, Accepted
  <2>3. CASE d = c
    BY <2>1, <2>2, <2>3, EstablishConn, DestroyConn
  <2>4. CASE d # c
    <3>1. /\ calls'[d] = calls[d] /\ fate'[d] = fate[d] /\ ch'[d] = ch[d]
          /\ state'[d] = state[d]
      <4>1. CASE ConnectEstablished(c)
        BY <1>b, <2>4, <4>1 DEF ConnectEstablished, ConnOK
      <4>2. CASE ConnectDestroyed(c)
        BY <1>b, <2>4, <4>2 DEF ConnectDestroyed, ConnOK
      <4> QED
        BY <2>1, <4>1, <4>2
    <3>2. UNCHANGED <<lpc, active, writable>>
      BY <2>1 DEF Run
    <3>3. {E(c), D(c)} \cap {E(d), D(d), R(d)} = {}
      BY <2>4, FunctorFacts DEF About
    <3>4. \A m \in Loops : Spares(Pending(m), Pending(m)', d)
      <4>1. CASE Run(l, "established", c)
        BY <2>2, <3>3, <4>1, RunKeeps DEF E
      <4>2. CASE Run(l, "destroyed", c)
        BY <2>2, <3>3, <4>2, RunKeeps DEF D
      <4> QED
        BY <2>1, <4>1, <4>2
    <3> QED
      BY <2>2, <3>1, <3>2, <3>4, Bystander
  <2> QED
    BY <2>3, <2>4
<1>4. CASE RunRemoval(l)
  <2>1. PICK c \in Conns : Run(l, "removal", c) /\ RemoveConnectionInLoop(c)
    BY <1>4 DEF RunRemoval
  <2>2. l = Main
    <3>1. /\ batch[l] \in Seq(FunctorsOf(l)) /\ pos[l] + 1 \in 1..Len(batch[l])
          /\ batch[l][pos[l] + 1].op = "removal"
      BY <1>b, <2>1 DEF Run, LoopOK, Functor
    <3>2. batch[l][pos[l] + 1] \in FunctorsOf(l)
      BY <3>1
    <3> QED
      BY <3>1, <3>2 DEF FunctorsOf
  <2>3. Run(Main, "removal", c)
    BY <2>1, <2>2
  <2>4. /\ UNCHANGED <<spc, nextConnId, state, ch, userRef, calls, fate, loopOf, inCall,
                       revived>>
        /\ Accepted(d)' <=> Accepted(d)
    BY <1>4 DEF RunRemoval, Accepted
  <2>5. /\ ConnInv(c)'
        /\ \A k \in Conns \ {c} : \A m \in Loops : Spares(Pending(m), Pending(m)', k)
    BY <2>1, <2>3, <2>4, RemoveConn
  <2>6. CASE d # c
    <3>1. UNCHANGED <<lpc, active, writable>> /\ (d \in connections' <=> d \in connections)
      BY <2>1, <2>6 DEF Run, RemoveConnectionInLoop
    <3>2. \A m \in Loops : Spares(Pending(m), Pending(m)', d)
      BY <2>5, <2>6
    <3> QED
      BY <2>4, <3>1, <3>2, Bystander
  <2> QED
    BY <2>5, <2>6
<1> QED
  BY <1>1, <1>2, <1>3, <1>4

\* The steps of a loop that send, write or shut down.
LEMMA TrafficConn ==
    ASSUME BaseInv, BaseInv', NEW d \in Conns, \A c \in Conns : ConnInv(c),
           NEW l \in Loops,
           WriteEvent(l) \/ CallbackCalls(l) \/ RunSend(l) \/ RunShutdown(l)
    PROVE  ConnInv(d)'
<1> USE DEF serverVars, loopVars, connVars, userVars
<1>b. LoopOK /\ ConnOK /\ OtherOK /\ LifeInv
  BY DEF BaseInv
<1>0. FreshInv(d) /\ PlaceInv(d) /\ (d \notin revived => SteadyInv(d))
      /\ (d \in revived => RevivedInv(d))
  BY DEF ConnInv
<1>a. /\ UNCHANGED <<spc, nextConnId, connections, lpc, active, queue, calls, fate, loopOf,
                     inCall, revived>>
      /\ Accepted(d)' <=> Accepted(d)
  BY DEF WriteEvent, CallbackCalls, RunSend, RunShutdown, Run, Accepted
<1>1. CASE WriteEvent(l)
  <2>1. PICK c \in writable[l] \ active[l] : /\ writable' = [writable EXCEPT ![l] = @ \ {c}]
                                             /\ HandleWrite(c)
    BY <1>1 DEF WriteEvent
  <2>2. UNCHANGED <<state, batch, pos>>
    BY <1>1 DEF WriteEvent
  <2>3. c \in Conns /\ \A m \in Loops : writable'[m] \subseteq writable[m]
    BY <1>b, <2>1 DEF LoopOK
  <2>4. \/ ch'[d] = ch[d]
        \/ Accepted(d) /\ (d \notin revived => StatusInv(d)' /\ ReportedInv(d)')
    <3>1. CASE d = c
      <4>1. Accepted(d) /\ \A m \in Loops : d \notin active[m]
        BY <1>0, <2>1, <3>1 DEF PlaceInv
      <4>2. d \notin revived => StatusInv(d)' /\ ReportedInv(d)'
        BY <1>0, <1>a, <2>1, <2>2, <2>3, <3>1, <4>1, WriteStatus DEF SteadyInv
      <4> QED
        BY <4>1, <4>2
    <3>2. CASE d # c
      BY <1>b, <2>1, <2>3, <3>2, ChannelOps
    <3> QED
      BY <3>1, <3>2
  <2>5. \A m \in Loops : Spares(Pending(m), Pending(m)', d)
    <3>1. \A m \in Loops : Pending(m)' = Pending(m)
      BY <1>a, <2>2, StillEffect
    <3> QED
      BY <3>1, StillKeeps
  <2> QED
    BY <1>a, <2>2, <2>3, <2>4, <2>5, Bystander
<1>2. CASE CallbackCalls(l)
  <2>1. PICK c \in Used :
          /\ state[c] = "kConnected"
          /\ \/ SendInLoop(c) /\ UNCHANGED state
             \/ state' = [state EXCEPT ![c] = "kDisconnecting"] /\ UNCHANGED ch
    BY <1>2 DEF CallbackCalls
  <2>2. UNCHANGED <<writable, batch, pos>> /\ c \in Conns
    BY <1>2, ServerAssumption DEF CallbackCalls, Conns
  <2>3. \/ state'[d] = state[d]
        \/ state[d] = "kConnected" /\ state'[d] = "kDisconnecting"
    BY <1>b, <2>1, <2>2 DEF ConnOK
  <2>4. \/ ch'[d] = ch[d]
        \/ Accepted(d) /\ (d \notin revived => StatusInv(d)' /\ ReportedInv(d)')
    <3>1. CASE d = c /\ ch' # ch
      <4>1. SendInLoop(d) /\ UNCHANGED state /\ state[d] = "kConnected"
        BY <2>1, <3>1
      <4>2. d \notin revived => calls[d] # <<>> /\ fate[d] # "run"
        BY <1>0, <4>1, CallsFacts DEF SteadyInv, StatusInv
      <4>3. Accepted(d)
        BY <1>0, <4>2 DEF FreshInv, RevivedInv
      <4>4. d \notin revived => StatusInv(d)' /\ ReportedInv(d)'
        BY <1>0, <1>a, <2>2, <4>1, <4>2, SendStatus DEF SteadyInv
      <4> QED
        BY <4>3, <4>4
    <3>2. CASE ch' = ch
      BY <3>2
    <3>3. CASE d # c /\ ch' # ch
      BY <1>b, <2>1, <2>2, <3>3, ChannelOps
    <3> QED
      BY <3>1, <3>2, <3>3
  <2>5. \A m \in Loops : Spares(Pending(m), Pending(m)', d)
    <3>1. \A m \in Loops : Pending(m)' = Pending(m)
      BY <1>a, <2>2, StillEffect
    <3> QED
      BY <3>1, StillKeeps
  <2> QED
    BY <1>a, <2>2, <2>3, <2>4, <2>5, Bystander
<1>3. CASE RunSend(l)
  <2>1. PICK c \in Conns : Run(l, "send", c) /\ SendInLoop(c)
    BY <1>3 DEF RunSend
  <2>2. UNCHANGED <<state, writable>> /\ Running(l)
    BY <1>3, <2>1 DEF RunSend, Run, Running
  <2>3. \/ ch'[d] = ch[d]
        \/ Accepted(d) /\ (d \notin revived => StatusInv(d)' /\ ReportedInv(d)')
    <3>1. CASE d = c
      <4>1. PICK s \in Seq(Functors) : s = Pending(l) /\ s # <<>> /\ s[1] = T(c)
        BY <1>a, <2>1, RunOnlyEffect DEF T
      <4>2. Has(Pending(l), T(d))
        BY <3>1, <4>1, TailFacts
      <4>3. Accepted(d) /\ l = loopOf[d]
        BY <1>0, <4>2 DEF PlaceInv
      <4>4. d \notin revived => /\ calls[d] # <<>>
                                /\ state[d] # "kDisconnected" => fate[d] # "run"
        <5>1. Home(d) = Pending(l) /\ (loopOf[d] = Main => spc = "up")
          BY <1>b, <2>2, <4>3 DEF Home, LifeInv
        <5> QED
          BY <1>0, <4>2, <5>1 DEF SteadyInv, SendInv
      <4>5. d \notin revived => StatusInv(d)' /\ ReportedInv(d)'
        BY <1>0, <1>a, <2>1, <2>2, <3>1, <4>4, SendStatus DEF SteadyInv
      <4> QED
        BY <4>3, <4>5
    <3>2. CASE d # c
      BY <1>b, <2>1, <3>2, ChannelOps
    <3> QED
      BY <3>1, <3>2
  <2>4. \A m \in Loops : Spares(Pending(m), Pending(m)', d)
    <3>1. T(c) \notin {E(d), D(d), R(d)}
      <4>1. CASE c = d
        BY <4>1, FunctorFacts
      <4>2. CASE c # d
        BY <4>2, FunctorFacts DEF About
      <4> QED
        BY <4>1, <4>2
    <3> QED
      BY <1>a, <2>1, <3>1, RunKeeps DEF T
  <2> QED
    BY <1>a, <2>2, <2>3, <2>4, Bystander
<1>4. CASE RunShutdown(l)
  <2>1. PICK c \in Conns : Run(l, "shutdown", c)
    BY <1>4 DEF RunShutdown
  <2>2. UNCHANGED <<state, ch, writable>>
    BY <1>4, <2>1 DEF RunShutdown, Run
  <2>3. \A m \in Loops : Spares(Pending(m), Pending(m)', d)
    <3>1. H(c) \notin {E(d), D(d), R(d)}
      <4>1. CASE c = d
        BY <4>1, FunctorFacts
      <4>2. CASE c # d
        BY <4>2, FunctorFacts DEF About
      <4> QED
        BY <4>1, <4>2
    <3> QED
      BY <1>a, <2>1, <3>1, RunKeeps DEF H
  <2> QED
    BY <1>a, <2>2, <2>3, Bystander
<1> QED
  BY <1>1, <1>2, <1>3, <1>4

\* A Send or Shutdown of another thread, a turn of the destructor's loop, and
\* the ends of batches and loops.
LEMMA EndConn ==
    ASSUME BaseInv, BaseInv', NEW d \in Conns, \A c \in Conns : ConnInv(c),
           \/ UserAct \/ DropConnection \/ DestroyMainLoop
           \/ \E l \in Loops : BatchDone(l)
    PROVE  ConnInv(d)'
<1> USE DEF serverVars, loopVars, connVars, userVars
<1>b. LoopOK /\ ConnOK /\ OtherOK /\ QueueOK /\ UserOK /\ LifeInv /\ LoopOK'
  BY DEF BaseInv
<1>1. CASE UserAct
  <2>0. PICK c \in Conns : \E op \in inCall[c] :
          /\ inCall' = [inCall EXCEPT ![c] = @ \ {op}]
          /\ Push(loopOf[c], Functor(op, c))
          /\ IF op = "shutdown"
             THEN /\ state' = [state EXCEPT ![c] = "kDisconnecting"]
                  /\ revived' = IF state[c] = "kDisconnected"
                                THEN revived \cup {c} ELSE revived
             ELSE UNCHANGED <<state, revived>>
    BY <1>1 DEF UserAct
  <2>1. PICK op \in inCall[c] :
          /\ inCall' = [inCall EXCEPT ![c] = @ \ {op}]
          /\ Push(loopOf[c], Functor(op, c))
          /\ IF op = "shutdown"
             THEN /\ state' = [state EXCEPT ![c] = "kDisconnecting"]
                  /\ revived' = IF state[c] = "kDisconnected"
                                THEN revived \cup {c} ELSE revived
             ELSE UNCHANGED <<state, revived>>
    BY <2>0
  <2>2. /\ UNCHANGED <<spc, nextConnId, connections, lpc, batch, pos, active, writable, ch,
                       userRef, calls, fate, loopOf>>
        /\ Accepted(d)' <=> Accepted(d)
    BY <1>1 DEF UserAct, Accepted
  <2>3. CASE d = c
    BY <2>1, <2>2, <2>3, ActConn
  <2>4. CASE d # c
    <3>1. state'[d] = state[d] /\ (d \in revived' <=> d \in revived)
      <4>1. CASE op = "shutdown"
        BY <1>b, <2>1, <2>4, <4>1 DEF ConnOK
      <4>2. CASE op # "shutdown"
        BY <2>1, <4>2
      <4> QED
        BY <4>1, <4>2
    <3>2. inCall'[d] = inCall[d]
      BY <1>b, <2>1, <2>4 DEF UserOK
    <3>3. PICK f \in {T(c), H(c)} : f = Functor(op, c)
      BY <1>b DEF UserOK, UserOps, T, H
    <3>4. f \in Functors \ About(d) /\ loopOf[c] \in Loops
      BY <1>b, <2>4, FunctorFacts DEF About, OtherOK
    <3>5. \A m \in Loops : Spares(Pending(m), Pending(m)', d)
      BY <2>1, <2>2, <3>3, <3>4, PushKeeps
    <3> QED
      BY <2>2, <3>1, <3>2, <3>5, Bystander
  <2> QED
    BY <2>3, <2>4
<1>2. CASE DropConnection
  <2>1. PICK c \in connections :
          /\ connections' = connections \ {c}
          /\ IF loopOf[c] = Main
             THEN ConnectDestroyed(c) /\ UNCHANGED queue
             ELSE Push(loopOf[c], D(c)) /\ UNCHANGED <<state, ch, userRef, calls, fate>>
    BY <1>2 DEF DropConnection, D
  <2>2. /\ UNCHANGED <<spc, nextConnId, loopOf, lpc, batch, pos, active, writable, inCall,
                       revived>>
        /\ spc = "closing" /\ (Accepted(d)' <=> Accepted(d))
    BY <1>2 DEF DropConnection, Accepted
  <2>3. c \in Conns /\ loopOf[c] \in Loops
    BY <1>b DEF OtherOK
  <2>4. CASE d = c
    BY <2>1, <2>2, <2>4, DropConn
  <2>5. CASE d # c
    <3>1. d \in connections' <=> d \in connections
      BY <2>1, <2>5
    <3>2. CASE loopOf[c] = Main
      <4>1. /\ calls'[d] = calls[d] /\ fate'[d] = fate[d] /\ ch'[d] = ch[d]
            /\ state'[d] = state[d]
        BY <1>b, <2>1, <2>5, <3>2 DEF ConnectDestroyed, ConnOK
      <4>2. \A m \in Loops : Pending(m)' = Pending(m)
        BY <2>1, <2>2, <3>2, StillEffect
      <4>3. \A m \in Loops : Spares(Pending(m), Pending(m)', d)
        BY <4>2, StillKeeps
      <4> QED
        BY <2>2, <3>1, <4>1, <4>3, Bystander
    <3>3. CASE loopOf[c] # Main
      <4>1. Push(loopOf[c], D(c)) /\ UNCHANGED <<state, ch, userRef, calls, fate>>
        BY <2>1, <3>3
      <4>2. D(c) \in Functors \ About(d)
        BY <2>3, <2>5, FunctorFacts DEF About
      <4>3. \A m \in Loops : Spares(Pending(m), Pending(m)', d)
        BY <2>2, <2>3, <4>1, <4>2, PushKeeps
      <4> QED
        BY <2>2, <3>1, <4>1, <4>3, Bystander
    <3> QED
      BY <3>2, <3>3
  <2> QED
    BY <2>4, <2>5
<1>3. ASSUME NEW l \in Loops, BatchDone(l) PROVE ConnInv(d)'
  <2>1. /\ UNCHANGED <<spc, nextConnId, connections, active, writable, state, ch, userRef,
                       calls, loopOf, inCall, revived>>
        /\ pos[l] = Len(batch[l]) /\ batch'[l] = <<>> /\ pos'[l] = 0 /\ lpc[l] = "batch"
        /\ \A m \in Loops : m # l => /\ batch'[m] = batch[m] /\ pos'[m] = pos[m]
                                     /\ lpc'[m] = lpc[m]
    BY <1>3, <1>b DEF BatchDone, LoopOK
  <2>2. /\ quit[l] /\ l # Main => Discard(l) /\ lpc'[l] = "gone"
        /\ ~(quit[l] /\ l # Main) => UNCHANGED <<queue, fate>> /\ lpc'[l] \in {"poll", "out"}
    BY <1>3, <1>b DEF BatchDone, SeesQuit, LoopOK
  <2>3. \A m \in Loops : m # l => queue'[m] = queue[m]
    BY <2>2, <1>b DEF Discard, QueueOK
  <2>4. pos'[l] = Len(batch'[l])
    BY <2>1
  <2>5. /\ Pending(l) = queue[l] /\ Pending(l)' = queue'[l]
        /\ \A m \in Loops : m # l => Pending(m)' = Pending(m)
    BY <2>1, <2>3, <2>4, DoneEffect
  <2>6. CASE quit[l] /\ l # Main
    <3>1. spc # "up" /\ connections = {}
      BY <1>b, <2>6, Numbers DEF LifeInv
    <3> QED
      BY <2>1, <2>2, <2>5, <2>6, <3>1, DiscardConn
  <2>7. CASE ~(quit[l] /\ l # Main)
    <3>1. \A m \in Loops : Pending(m)' = Pending(m)
      BY <2>2, <2>5, <2>7
    <3>2. \A m \in Loops : lpc[m] # "none" => lpc'[m] # "none"
      BY <2>1, <2>2, <2>7
    <3> QED
      BY <2>1, <2>2, <2>7, <3>1, <3>2, QuietStep
  <2> QED
    BY <2>6, <2>7
<1>4. CASE DestroyMainLoop
  <2>1. /\ UNCHANGED <<spc, nextConnId, connections, active, writable, state, ch, userRef,
                       calls, loopOf, batch, pos, inCall, revived>>
        /\ spc = "gone" /\ lpc[Main] = "out" /\ lpc'[Main] = "gone" /\ Discard(Main)
        /\ \A m \in Loops : m # Main => lpc'[m] = lpc[m]
    BY <1>4, <1>b, Numbers DEF DestroyMainLoop, LoopOK
  <2>2. connections = {}
    BY <1>b, <2>1 DEF LifeInv
  <2>3. \A m \in Loops : m # Main => queue'[m] = queue[m]
    BY <2>1, <1>b DEF Discard, QueueOK
  <2>4. pos[Main] = Len(batch[Main]) /\ pos'[Main] = Len(batch'[Main])
    BY <1>b, <2>1, PendingType, Numbers
  <2>5. /\ Pending(Main) = queue[Main] /\ Pending(Main)' = queue'[Main]
        /\ \A m \in Loops : m # Main => Pending(m)' = Pending(m)
    BY <2>1, <2>3, <2>4, DoneEffect, Numbers
  <2>6. spc # "up"
    BY <2>1
  <2> QED
    BY <2>1, <2>2, <2>5, <2>6, DiscardConn, Numbers
<1> QED
  BY <1>1, <1>2, <1>3, <1>4

\* Every step keeps the inductive invariant.
LEMMA NextInv == IInv /\ [Next]_vars => IInv'
<1> SUFFICES ASSUME IInv, [Next]_vars PROVE IInv'
  OBVIOUS
<1>1. BaseInv /\ BaseInv' /\ \A c \in Conns : ConnInv(c)
  BY NextBase DEF IInv
<1>2. ASSUME NEW d \in Conns PROVE ConnInv(d)'
  <2>0. ConnInv(d)
    BY <1>1
  <2>1. CASE \/ SetThreadNum \/ Start \/ EnterLoop \/ QuitMain \/ DestroyServer \/ QuitLoop
             \/ DestroyAcceptor \/ ClientConnects \/ ClientCloses \/ UserTest \/ UserDrops
             \/ UNCHANGED vars
             \/ \E l \in Loops : EnterSub(l) \/ PollReturns(l) \/ AcceptFails(l) \/ SwapFunctors(l)
    BY <1>1, <2>0, <2>1, QuietConn
  <2>2. ASSUME NEW l \in Loops,
               \/ ConnectionEvent(l) \/ AcceptEvent(l) \/ RunEstablished(l)
               \/ RunDestroyed(l) \/ RunRemoval(l)
        PROVE  ConnInv(d)'
    BY <1>1, <2>2, EventConn
  <2>3. ASSUME NEW l \in Loops,
               WriteEvent(l) \/ CallbackCalls(l) \/ RunSend(l) \/ RunShutdown(l)
        PROVE  ConnInv(d)'
    BY <1>1, <2>3, TrafficConn
  <2>4. CASE \/ UserAct \/ DropConnection \/ DestroyMainLoop
             \/ \E l \in Loops : BatchDone(l)
    BY <1>1, <2>4, EndConn
  <2> QED
    BY <2>1, <2>2, <2>3, <2>4 DEF Next, LoopStep, Poll, PollTraffic, Destructor, Stopped
<1> QED
  BY <1>1, <1>2 DEF IInv

\* The inductive invariant holds throughout.
LEMMA Inductive == Spec => []IInv
<1>1. Init => IInv
  BY InitBase, InitConn DEF IInv
<1> QED
  BY <1>1, NextInv, PTL DEF Spec

-----------------------------------------------------------------------------
(* What the invariant says                                                 *)

\* Two sequences of functors, one behind the other.
LEMMA JoinFacts ==
    ASSUME NEW S, NEW r \in Seq(S), NEW q \in Seq(S), NEW f
    PROVE  /\ Has(r \o q, f) <=> Has(r, f) \/ Has(q, f)
           /\ Once(r \o q, f) => /\ Once(r, f) /\ Once(q, f)
                                 /\ ~(Has(r, f) /\ Has(q, f))
<1>1. PICK s \in Seq(S) : s = r \o q
  BY ConcatProperties
<1>2. PICK n \in Nat, k \in Nat : n = Len(r) /\ k = Len(q)
  OBVIOUS
<1>3. /\ Len(s) = n + k
      /\ \A i \in 1..(n + k) : s[i] = IF i <= n THEN r[i] ELSE q[i - n]
  BY <1>1, <1>2, ConcatProperties
<1>4. \A i \in 1..n : i \in 1..(n + k) /\ i <= n /\ s[i] = r[i]
  BY <1>2, <1>3
<1>5. \A i \in 1..k : n + i \in 1..(n + k) /\ ~(n + i <= n) /\ s[n + i] = q[i]
  <2>1. \A i \in 1..k : n + i \in 1..(n + k) /\ ~(n + i <= n) /\ (n + i) - n = i
    BY <1>2
  <2> QED
    BY <1>3, <2>1
<1>6. \A i \in 1..(n + k) : i \in 1..n \/ (i - n \in 1..k /\ n + (i - n) = i)
  BY <1>2
<1>7. Has(s, f) => Has(r, f) \/ Has(q, f)
  <2> SUFFICES ASSUME NEW i \in 1..(n + k), s[i] = f PROVE Has(r, f) \/ Has(q, f)
    BY <1>3 DEF Has
  <2>1. CASE i \in 1..n
    BY <1>2, <1>4, <2>1 DEF Has
  <2>2. CASE i - n \in 1..k /\ n + (i - n) = i
    BY <1>2, <1>5, <2>2 DEF Has
  <2> QED
    BY <1>6, <2>1, <2>2
<1>8. (Has(r, f) => Has(s, f)) /\ (Has(q, f) => Has(s, f))
  BY <1>2, <1>3, <1>4, <1>5 DEF Has
<1>9. ASSUME Once(s, f) PROVE Once(r, f) /\ Once(q, f) /\ ~(Has(r, f) /\ Has(q, f))
  <2>1. Once(r, f)
    BY <1>2, <1>3, <1>4, <1>9 DEF Once
  <2>2. Once(q, f)
    <3> SUFFICES ASSUME NEW i \in 1..k, NEW j \in 1..k, q[i] = f, q[j] = f PROVE i = j
      BY <1>2 DEF Once
    <3>1. n + i = n + j
      BY <1>3, <1>5, <1>9 DEF Once
    <3> QED
      BY <1>2, <3>1
  <2>3. ASSUME NEW i \in 1..n, NEW j \in 1..k, r[i] = f, q[j] = f PROVE FALSE
    <3>1. i = n + j
      BY <1>3, <1>4, <1>5, <1>9, <2>3 DEF Once
    <3> QED
      BY <1>4, <1>5, <3>1
  <2> QED
    BY <1>2, <2>1, <2>2, <2>3 DEF Has
<1> QED
  BY <1>1, <1>7, <1>8, <1>9

\* How often a functor is in a sequence.
LEMMA CountFacts ==
    ASSUME NEW s, Len(s) \in Nat, NEW f
    PROVE  LET n == Cardinality({i \in 1..Len(s) : s[i] = f})
           IN  /\ n \in Nat
               /\ ~Has(s, f) => n = 0
               /\ Has(s, f) => n >= 1
               /\ Has(s, f) /\ Once(s, f) => n = 1
<1> DEFINE I == {i \in 1..Len(s) : s[i] = f}
<1>0. IsFiniteSet(I) /\ Cardinality(I) \in Nat
  <2>1. IsFiniteSet(1..Len(s))
    BY FS_Interval
  <2>2. I \subseteq 1..Len(s)
    OBVIOUS
  <2>3. IsFiniteSet(I)
    BY <2>1, <2>2, FS_Subset
  <2> QED
    BY <2>3, FS_CardinalityType
<1>1. ASSUME ~Has(s, f) PROVE Cardinality(I) = 0
  <2>1. I = {}
    BY <1>1 DEF Has
  <2> QED
    BY <2>1, FS_EmptySet
<1>2. ASSUME Has(s, f) PROVE Cardinality(I) >= 1
  <2>1. I # {}
    BY <1>2 DEF Has
  <2>2. Cardinality(I) # 0
    BY <1>0, <2>1, FS_EmptySet
  <2> QED
    BY <1>0, <2>2
<1>3. ASSUME Has(s, f), Once(s, f) PROVE Cardinality(I) = 1
  <2>1. PICK k \in 1..Len(s) : s[k] = f
    BY <1>3 DEF Has
  <2>2. I = {k}
    BY <1>3, <2>1 DEF Once
  <2> QED
    BY <2>2, FS_Singleton
<1> QED
  BY <1>0, <1>1, <1>2, <1>3

\* What a loop has still to run, in its batch and in its queue.
LEMMA PendingParts ==
    ASSUME BaseInv, NEW l \in Loops
    PROVE  \E r \in Seq(Functors) :
             /\ r = SubSeq(batch[l], pos[l] + 1, Len(batch[l]))
             /\ queue[l] \in Seq(Functors) /\ Pending(l) = r \o queue[l]
             /\ \A i \in 1..Len(batch[l]) : i > pos[l] => Has(r, batch[l][i])
<1>b. LoopOK /\ QueueOK
  BY DEF BaseInv
<1>1. PICK b \in Seq(Functors), k \in Nat, n \in Nat :
        b = batch[l] /\ k = pos[l] /\ n = Len(b) /\ k <= n
  BY <1>b DEF LoopOK
<1>2. PICK r : r = SubSeq(b, k + 1, n)
  OBVIOUS
<1>3. r \in Seq(Functors)
  <2>1. \A i \in (k + 1)..n : b[i] \in Functors
    BY <1>1
  <2> QED
    BY <1>1, <1>2, <2>1, SubSeqProperties
<1>4. ASSUME NEW i \in 1..n, i > k PROVE Has(r, b[i])
  <2>1. \A j \in (k + 1)..n : b[j] \in Functors
    BY <1>1
  <2>2. k + 1 <= n /\ i - k \in 1..(n - (k + 1) + 1) /\ (k + 1) + (i - k) - 1 = i
    BY <1>1, <1>4, SMTT(20)
  <2>3. /\ r \in Seq(Functors) /\ Len(r) = n - (k + 1) + 1
        /\ \A j \in 1..(n - (k + 1) + 1) : r[j] = b[(k + 1) + j - 1]
    BY <1>2, <2>1, <2>2, SubSeqProperties, SMTT(20)
  <2> QED
    BY <2>2, <2>3 DEF Has
<1>5. Pending(l) = r \o queue[l] /\ queue[l] \in Seq(Functors)
  BY <1>1, <1>2, <1>b DEF Pending, QueueOK
<1> QED
  BY <1>1, <1>2, <1>3, <1>4, <1>5

\* No loop ever comes to a functor or a reported channel of a connection that
\* is gone, not even to a functor of Send or Shutdown, which keeps nothing
\* alive (Send, Shutdown, RemoveConnectionInLoop, HandleEvent).
THEOREM NoDanglingConnectionCorrect == Spec => []NoDanglingConnection
<1>1. IInv => NoDanglingConnection
  <2> SUFFICES ASSUME IInv, NEW l \in Loops
               PROVE  /\ \A i \in 1..Len(queue[l]) : Alive(queue[l][i].conn)
                      /\ \A i \in 1..Len(batch[l]) : i > pos[l] => Alive(batch[l][i].conn)
                      /\ \A c \in (active[l] \ {Listener}) \cup writable[l] : Alive(c)
    BY DEF NoDanglingConnection
  <2>0. BaseInv /\ LoopOK /\ QueueOK /\ \A c \in Conns : PlaceInv(c)
    BY DEF IInv, BaseInv, ConnInv
  <2>1. ASSUME NEW f \in Functors, Has(Pending(l), f) PROVE Alive(f.conn)
    <3>1. PICK c \in Conns : c = f.conn
      BY DEF Functors
    <3>2. f \in {E(c), D(c), R(c), T(c), H(c)}
      BY <3>1 DEF Functors, FunctorOps, UserOps, E, D, R, T, H, Functor
    <3>3. Accepted(c)
      BY <2>0, <2>1, <3>2 DEF PlaceInv
    <3> QED
      BY <3>1, <3>3 DEF Alive, SelfReference
  <2>2. PICK r \in Seq(Functors) :
          /\ queue[l] \in Seq(Functors) /\ Pending(l) = r \o queue[l]
          /\ \A i \in 1..Len(batch[l]) : i > pos[l] => Has(r, batch[l][i])
    BY <2>0, PendingParts
  <2>3. ASSUME NEW i \in 1..Len(queue[l]) PROVE Alive(queue[l][i].conn)
    <3>1. queue[l][i] \in Functors /\ Has(queue[l], queue[l][i])
      BY <2>2, SMTT(20) DEF Has
    <3>2. Has(Pending(l), queue[l][i])
      BY <2>2, <3>1, JoinFacts
    <3> QED
      BY <2>1, <3>1, <3>2
  <2>4. ASSUME NEW i \in 1..Len(batch[l]), i > pos[l] PROVE Alive(batch[l][i].conn)
    <3>1. batch[l][i] \in Functors
      BY <2>0 DEF LoopOK
    <3>2. Has(Pending(l), batch[l][i])
      BY <2>2, <2>4, JoinFacts
    <3> QED
      BY <2>1, <3>1, <3>2
  <2>5. ASSUME NEW c \in (active[l] \ {Listener}) \cup writable[l] PROVE Alive(c)
    BY <2>0, <2>5 DEF LoopOK, PlaceInv, Alive, SelfReference
  <2> QED
    BY <2>3, <2>4, <2>5
<1> QED
  BY <1>1, Inductive, PTL

\* A channel that ConnectDestroyed has removed never comes back to epoll,
\* whatever Sends of other threads were under way, unless a Shutdown has
\* overwritten kDisconnected (ConnectDestroyed, SendInLoop, HandleWrite).
THEOREM RemovedForGoodCorrect == Spec => []RemovedForGood
<1>1. IInv => RemovedForGood
  <2> SUFFICES ASSUME IInv, NEW c \in Conns \ revived, fate[c] = "run" PROVE ~ch[c].added
    BY DEF RemovedForGood
  <2>1. StatusInv(c)
    BY DEF IInv, ConnInv, SteadyInv
  <2> QED
    BY <2>1 DEF StatusInv
<1> QED
  BY <1>1, Inductive, PTL

\* The removal a closing connection asks for and the destructor never hand
\* ConnectDestroyed over twice, unless a Shutdown of another thread has
\* revived the connection, and one of them does it, however many connections
\* and loops there are (RemoveConnectionInLoop, ~TcpServer).
THEOREM DestroyedOnceCorrect == Spec => []DestroyedOnce
<1>1. IInv => DestroyedOnce
  <2> SUFFICES ASSUME IInv, NEW c \in Conns, Accepted(c)
               PROVE  IF c \in revived THEN Places(c) >= 1 ELSE Places(c) = 1
    BY DEF DestroyedOnce
  <2>0. BaseInv /\ OtherOK /\ LeavingInv(c)
    BY DEF IInv, BaseInv, ConnInv
  <2>1. PICK h \in Loops : h = loopOf[c]
    BY <2>0 DEF OtherOK
  <2>2. PICK r \in Seq(Functors) :
          /\ r = SubSeq(batch[h], pos[h] + 1, Len(batch[h]))
          /\ queue[h] \in Seq(Functors) /\ Pending(h) = r \o queue[h]
    BY <2>0, PendingParts
  <2>3. PICK q \in Seq(Functors) : q = queue[h]
    BY <2>2
  <2>4. PICK x : x = Cardinality({i \in 1..Len(q) : q[i] = D(c)})
    OBVIOUS
  <2>5. PICK y : y = Cardinality({i \in 1..Len(r) : r[i] = D(c)})
    OBVIOUS
  <2>6. DestroyPending(c) = x + y
    BY <2>1, <2>2, <2>3, <2>4, <2>5 DEF DestroyPending, D
  <2>7. /\ x \in Nat /\ (~Has(q, D(c)) => x = 0) /\ (Has(q, D(c)) => x >= 1)
        /\ Has(q, D(c)) /\ Once(q, D(c)) => x = 1
    <3>1. Len(q) \in Nat
      OBVIOUS
    <3> QED
      BY <2>4, <3>1, CountFacts
  <2>8. /\ y \in Nat /\ (~Has(r, D(c)) => y = 0) /\ (Has(r, D(c)) => y >= 1)
        /\ Has(r, D(c)) /\ Once(r, D(c)) => y = 1
    <3>1. Len(r) \in Nat
      OBVIOUS
    <3> QED
      BY <2>5, <3>1, CountFacts
  <2>9. Home(c) = r \o q
    BY <2>1, <2>2, <2>3 DEF Home
  <2>10. Has(Home(c), D(c)) <=> Has(r, D(c)) \/ Has(q, D(c))
    BY <2>9, JoinFacts
  <2>11. Places(c) = (IF c \in connections THEN 1 ELSE 0) + (x + y)
                       + (IF fate[c] # "due" THEN 1 ELSE 0)
    BY <2>6 DEF Places
  <2>12. CASE c \in revived
    <3>1. c \in connections \/ Has(Home(c), D(c)) \/ fate[c] # "due"
      BY <2>0 DEF LeavingInv
    <3>2. c \in connections \/ x + y >= 1 \/ fate[c] # "due"
      BY <2>7, <2>8, <2>10, <3>1
    <3> QED
      BY <2>7, <2>8, <2>11, <2>12, <3>2
  <2>13. CASE c \notin revived
    <3>0. DownInv(c)
      BY <2>13 DEF IInv, ConnInv, SteadyInv
    <3>1. Once(r, D(c)) /\ Once(q, D(c)) /\ ~(Has(r, D(c)) /\ Has(q, D(c)))
      BY <2>9, <3>0, JoinFacts DEF DownInv
    <3>2. x + y = IF Has(Home(c), D(c)) THEN 1 ELSE 0
      BY <2>7, <2>8, <2>10, <3>1
    <3>3. Has(Home(c), D(c)) => c \notin connections /\ fate[c] = "due"
      BY <3>0 DEF DownInv
    <3>4. c \in connections => fate[c] = "due"
      BY <3>0 DEF DownInv
    <3>5. c \in connections \/ Has(Home(c), D(c)) \/ fate[c] # "due"
      BY <2>0 DEF LeavingInv
    <3> QED
      BY <2>11, <2>13, <3>2, <3>3, <3>4, <3>5
  <2> QED
    BY <2>12, <2>13
<1> QED
  BY <1>1, Inductive, PTL

\* When the server is gone, the application has been told of the end of every
\* connection that came up, but for those it had shut down itself and those
\* whose ConnectDestroyed was lost with its loop (~TcpServer,
\* ConnectDestroyed).
THEOREM EndReportedCorrect == Spec => []EndReported
<1>1. IInv => EndReported
  <2> SUFFICES ASSUME IInv, spc = "gone", NEW c \in Conns, calls[c] = <<"up">>,
                      state[c] # "kDisconnecting", fate[c] # "lost"
               PROVE  FALSE
    BY DEF EndReported
  <2>a. c \notin revived
    BY DEF IInv, ConnInv, RevivedInv
  <2>0. /\ BaseInv /\ LifeInv /\ LoopOK /\ QueueOK /\ OtherOK /\ ConnOK
        /\ FreshInv(c) /\ LeavingInv(c) /\ StatusInv(c) /\ DownInv(c)
    BY <2>a DEF IInv, BaseInv, ConnInv, SteadyInv
  <2>1. state[c] = "kConnected" /\ fate[c] = "due"
    BY <2>0, CallsFacts DEF StatusInv, ConnOK
  <2>2. Accepted(c) /\ c \notin connections
    BY <2>0, CallsFacts DEF FreshInv, LifeInv
  <2>3. Has(Home(c), D(c)) /\ loopOf[c] # Main
    BY <2>0, <2>1, <2>2, CallsFacts DEF DownInv, LeavingInv
  <2>4. PICK h \in Loops : h = loopOf[c] /\ h # Main
    BY <2>0, <2>3 DEF OtherOK
  <2>5. lpc[h] = "gone"
    <3>1. lpc[h] # "none" /\ h \in SubLoops
      BY <2>0, <2>2, <2>4, Numbers DEF FreshInv
    <3>2. ~Running(h) /\ lpc[h] # "entering" /\ lpc[h] # "out"
      BY <2>0, <3>1 DEF LifeInv
    <3>3. lpc[h] \in LoopPC
      BY <2>0 DEF LoopOK
    <3> QED
      BY <3>1, <3>2, <3>3 DEF Running, LoopPC
  <2>6. Pending(h) = <<>>
    <3>1. queue[h] = <<>> /\ lpc[h] # "batch"
      BY <2>0, <2>4, <2>5, Numbers DEF LifeInv
    <3> QED
      BY <2>0, <3>1, PendingType
  <2>7. Home(c) = <<>>
    BY <2>4, <2>6 DEF Home
  <2> QED
    BY <2>3, <2>7 DEF Has
<1> QED
  BY <1>1, Inductive, PTL

-----------------------------------------------------------------------------
(* The refinement of Sessions                                              *)

\* A connection is accepted only by a server that has started, and a loop
\* that runs belongs to one that has not gone.
LEMMA Serving ==
    ASSUME BaseInv, \/ \E l \in Loops : Running(l)
                    \/ spc # "gone" /\ \E c \in Conns : Accepted(c)
    PROVE  phase = "serving"
<1>1. LifeInv
  BY DEF BaseInv
<1>2. started /\ spc # "gone"
  <2>1. ASSUME NEW l \in Loops, Running(l) PROVE started /\ spc # "gone"
    BY <1>1, <2>1, Numbers DEF LifeInv
  <2>2. ASSUME spc # "gone", NEW c \in Conns, Accepted(c) PROVE started /\ spc # "gone"
    BY <1>1, <2>2 DEF LifeInv, Accepted, Conns
  <2> QED
    BY <2>1, <2>2
<1> QED
  BY <1>2 DEF phase

\* What the application sees of a connection.
LEMMA SessionValue ==
    ASSUME IInv, NEW c \in Conns
    PROVE  /\ ~Accepted(c) => session[c] = "none"
           /\ Accepted(c) /\ calls[c] = <<>> => session[c] = "accepted"
           /\ calls[c] = <<"up">> => session[c] = "up"
           /\ calls[c] = <<"up", "down">> /\ c \notin revived => session[c] = "down"
           /\ c \in revived => session[c] = "revived"
<1>1. FreshInv(c) /\ (c \in revived => RevivedInv(c))
  BY DEF IInv, ConnInv
<1>2. session[c] = CASE ~Accepted(c)                   -> "none"
                     [] Accepted(c) /\ calls[c] = <<>> -> "accepted"
                     [] calls[c] = <<"up">>            -> "up"
                     [] c \in revived                  -> "revived"
                     [] calls[c] = <<"up", "down">> /\ c \notin revived -> "down"
                     [] OTHER                          -> "wrong"
  BY DEF session
<1>3. /\ calls[c] # <<>> => Accepted(c)
      /\ c \in revived => Accepted(c) /\ calls[c] # <<>> /\ calls[c] # <<"up">>
  BY <1>1 DEF FreshInv, RevivedInv
<1> QED
  BY <1>2, <1>3, CallsFacts

\* A step after which connection c may stand differently, and no other does.
LEMMA SessionStep ==
    ASSUME IInv, IInv', NEW c \in Conns, Accepted(c)',
           \A d \in Conns \ {c} : /\ calls'[d] = calls[d] /\ (Accepted(d)' <=> Accepted(d))
                                  /\ d \in revived' <=> d \in revived,
           NEW v, \/ calls'[c] = <<>> /\ v = "accepted"
                  \/ calls'[c] = <<"up">> /\ v = "up"
                  \/ calls'[c] = <<"up", "down">> /\ c \notin revived' /\ v = "down"
                  \/ c \in revived' /\ v = "revived"
    PROVE  session' = [session EXCEPT ![c] = v]
<1>1. session' = [d \in Conns |->
                    CASE ~Accepted(d)'                   -> "none"
                      [] Accepted(d)' /\ calls'[d] = <<>> -> "accepted"
                      [] calls'[d] = <<"up">>          -> "up"
                      [] d \in revived'                -> "revived"
                      [] calls'[d] = <<"up", "down">> /\ d \notin revived' -> "down"
                      [] OTHER                         -> "wrong"]
  BY DEF session
<1>2. session'[c] = v
  <2>1. session'[c] = CASE ~Accepted(c)'                   -> "none"
                        [] Accepted(c)' /\ calls'[c] = <<>> -> "accepted"
                        [] calls'[c] = <<"up">>          -> "up"
                        [] c \in revived'                -> "revived"
                        [] calls'[c] = <<"up", "down">> /\ c \notin revived' -> "down"
                        [] OTHER                         -> "wrong"
    BY <1>1
  <2>2. c \in revived' => calls'[c] # <<>> /\ calls'[c] # <<"up">>
    BY DEF IInv, ConnInv, RevivedInv
  <2> QED
    BY <2>1, <2>2, CallsFacts
<1>3. \A d \in Conns \ {c} : session'[d] = session[d]
  BY DEF session
<1>4. session = [d \in Conns |-> session[d]] /\ session' = [d \in Conns |-> session'[d]]
  BY DEF session
<1> QED
  BY <1>2, <1>3, <1>4

\* Nothing more is promised of a connection that was revived.
LEMMA RevivedUnseen ==
    ASSUME IInv, IInv', NEW c \in revived, UNCHANGED <<spc, started, nextConnId, revived>>,
           \A d \in Conns \ {c} : calls'[d] = calls[d]
    PROVE  UNCHANGED <<phase, session>>
<1>1. c \in Conns /\ Accepted(c)'
  <2>1. c \in Conns
    BY DEF IInv, BaseInv, UserOK
  <2> QED
    BY <2>1 DEF IInv, ConnInv, RevivedInv
<1>2. session' = [session EXCEPT ![c] = "revived"]
  <2>1. \A d \in Conns \ {c} : Accepted(d)' <=> Accepted(d)
    BY DEF Accepted
  <2> QED
    BY <1>1, <2>1, SessionStep
<1>3. session[c] = "revived"
  BY <1>1, SessionValue
<1>4. session = [d \in Conns |-> session[d]]
  BY DEF session
<1>5. session' = session
  BY <1>2, <1>3, <1>4
<1>6. phase' = phase
  BY DEF phase
<1> QED
  BY <1>5, <1>6

\* Where neither the calls nor the count of connections nor the server's phase
\* changes, the application sees nothing.
LEMMA Unseen ==
    ASSUME UNCHANGED <<calls, nextConnId, started, revived>>,
           spc' = spc \/ (spc # "gone" /\ spc' # "gone")
    PROVE  UNCHANGED <<phase, session>>
<1>1. phase' = phase
  BY DEF phase
<1>2. session' = session
  BY DEF session, Accepted
<1> QED
  BY <1>1, <1>2

\* ConnectDestroyed reports the end of a connection that is up, or nothing.
LEMMA DestroySession ==
    ASSUME IInv, IInv', NEW c \in Conns, ConnectDestroyed(c), phase = "serving",
           UNCHANGED <<spc, started, nextConnId, revived>>
    PROVE  AbstractSessions!Down(c) \/ UNCHANGED <<phase, session>>
<1>0. ConnOK /\ FreshInv(c)
  BY DEF IInv, BaseInv, ConnInv
<1>1. CASE state[c] = "kConnected" /\ c \notin revived
  <2>0. StatusInv(c)
    BY <1>1 DEF IInv, ConnInv, SteadyInv
  <2>1. calls[c] = <<"up">> /\ Accepted(c)
    BY <1>0, <1>1, <2>0, CallsFacts DEF StatusInv, FreshInv
  <2>2. calls'[c] = <<"up", "down">> /\ \A d \in Conns \ {c} : calls'[d] = calls[d]
    <3>1. calls' = [calls EXCEPT ![c] = Append(calls[c], "down")]
      BY <1>1 DEF ConnectDestroyed
    <3> QED
      BY <1>0, <2>1, <3>1, CallsFacts DEF ConnOK
  <2>3. session' = [session EXCEPT ![c] = "down"]
    <3>1. Accepted(c)' /\ \A d \in Conns \ {c} : Accepted(d)' <=> Accepted(d)
      BY <2>1 DEF Accepted
    <3> QED
      BY <1>1, <2>2, <3>1, SessionStep
  <2>4. session[c] = "up" /\ phase' = phase
    BY <2>1, SessionValue DEF phase
  <2> QED
    BY <2>3, <2>4 DEF AbstractSessions!Down, AbstractSessions!Step
<1>2. CASE c \in revived
  <2>1. \A d \in Conns \ {c} : calls'[d] = calls[d]
    BY <1>0 DEF ConnectDestroyed, ConnOK
  <2> QED
    BY <1>2, <2>1, RevivedUnseen
<1>3. CASE state[c] # "kConnected"
  BY <1>3, Unseen DEF ConnectDestroyed
<1> QED
  BY <1>1, <1>2, <1>3

\* A Shutdown that overwrites kDisconnected revives the connection, any other
\* call of another thread shows nothing.
LEMMA ActSession ==
    ASSUME IInv, IInv', UserAct
    PROVE  AbstractSessions!Next \/ UNCHANGED <<phase, session>>
<1> USE DEF serverVars
<1>1. PICK c \in Conns : \E op \in inCall[c] :
        IF op = "shutdown"
        THEN revived' = IF state[c] = "kDisconnected" THEN revived \cup {c} ELSE revived
        ELSE revived' = revived
  BY DEF UserAct
<1>2. UNCHANGED <<spc, started, nextConnId, calls>> /\ inCall[c] # {}
  BY <1>1 DEF UserAct
<1>3. CASE revived' = revived
  BY <1>2, <1>3, Unseen
<1>4. CASE revived' # revived
  <2>1. state[c] = "kDisconnected" /\ c \notin revived /\ revived' = revived \cup {c}
    BY <1>1, <1>4
  <2>2. StatusInv(c) /\ FreshInv(c) /\ BaseInv /\ spc = "up"
    BY <1>2, <2>1 DEF IInv, ConnInv, SteadyInv, BaseInv, UserOK
  <2>3. calls[c] = <<"up", "down">> /\ Accepted(c) /\ Accepted(c)'
    BY <1>2, <2>1, <2>2, CallsFacts DEF StatusInv, FreshInv, Accepted
  <2>4. session' = [session EXCEPT ![c] = "revived"]
    <3>1. \A d \in Conns \ {c} : /\ calls'[d] = calls[d] /\ (Accepted(d)' <=> Accepted(d))
                                 /\ d \in revived' <=> d \in revived
      BY <1>2, <2>1 DEF Accepted
    <3> QED
      BY <2>1, <2>3, <3>1, SessionStep
  <2>5. session[c] = "down" /\ phase = "serving" /\ phase' = phase
    BY <1>2, <2>1, <2>2, <2>3, SessionValue, Serving DEF phase
  <2>6. AbstractSessions!Revive(c)
    BY <2>4, <2>5 DEF AbstractSessions!Revive, AbstractSessions!Step
  <2> QED
    BY <2>6 DEF AbstractSessions!Next
<1> QED
  BY <1>3, <1>4

\* Every step is one that Sessions allows.
LEMMA SessionsNext ==
    IInv /\ IInv' /\ [Next]_vars => [AbstractSessions!Next]_<<phase, session>>
<1> SUFFICES ASSUME IInv, IInv', [Next]_vars
             PROVE  AbstractSessions!Next \/ UNCHANGED <<phase, session>>
  OBVIOUS
<1> USE DEF serverVars, loopVars, connVars, userVars
<1>0. BaseInv /\ BaseInv' /\ ConnOK /\ LoopOK /\ LifeInv /\ OtherOK /\ AcceptInv
      /\ \A c \in Conns : ConnInv(c)
  BY DEF IInv, BaseInv
<1>1. CASE Start
  <2>1. UNCHANGED <<spc, calls, nextConnId, revived>> /\ spc = "up" /\ started'
    BY <1>1 DEF Start
  <2>2. CASE started
    BY <1>0, <2>1, <2>2, Unseen DEF ServerOK, BaseInv
  <2>3. CASE ~started
    <3>1. phase = "new" /\ phase' = "serving"
      BY <2>1, <2>3 DEF phase
    <3>2. session' = session
      BY <2>1 DEF session, Accepted
    <3> QED
      BY <3>1, <3>2 DEF AbstractSessions!Next, AbstractSessions!Serve
  <2> QED
    BY <2>2, <2>3
<1>2. CASE DestroyAcceptor
  <2>1. phase' = "gone"
    BY <1>2 DEF DestroyAcceptor, phase
  <2>2. session' = session
    BY <1>2 DEF DestroyAcceptor, session, Accepted
  <2> QED
    BY <2>1, <2>2 DEF AbstractSessions!Next, AbstractSessions!Stop
<1>3. CASE \/ SetThreadNum \/ EnterLoop \/ QuitMain \/ DestroyServer \/ QuitLoop
           \/ DestroyMainLoop \/ ClientConnects \/ ClientCloses \/ UserTest \/ UserDrops
           \/ UNCHANGED vars
  <2>1. /\ UNCHANGED <<calls, nextConnId, started, revived>>
        /\ spc' = spc \/ (spc # "gone" /\ spc' # "gone")
    BY <1>3 DEF SetThreadNum, EnterLoop, Enter, QuitMain, DestroyServer, QuitLoop,
                DestroyMainLoop, ClientConnects, ClientCloses, UserTest, UserDrops, vars
  <2> QED
    BY <2>1, Unseen
<1>4. ASSUME NEW l \in Loops,
             \/ EnterSub(l) \/ PollReturns(l) \/ AcceptFails(l) \/ SwapFunctors(l)
             \/ RunRemoval(l) \/ RunSend(l) \/ RunShutdown(l) \/ BatchDone(l)
             \/ WriteEvent(l) \/ CallbackCalls(l)
      PROVE  UNCHANGED <<phase, session>>
  <2>1. UNCHANGED <<calls, nextConnId, started, spc, revived>>
    BY <1>4 DEF EnterSub, Enter, PollReturns, AcceptFails, SwapFunctors, RunRemoval,
                RunSend, RunShutdown, BatchDone, WriteEvent, CallbackCalls
  <2> QED
    BY <2>1, Unseen
<1>5. ASSUME NEW l \in Loops, ConnectionEvent(l)
      PROVE  AbstractSessions!Next \/ UNCHANGED <<phase, session>>
  <2>1. PICK c \in Conns : Event(l, c) /\ HandleClose(c)
    BY <1>5 DEF ConnectionEvent
  <2>2. UNCHANGED <<spc, started, nextConnId, revived>>
    BY <1>5 DEF ConnectionEvent
  <2>3. /\ calls' = [calls EXCEPT ![c] = Append(calls[c], "down")]
        /\ \A d \in Conns \ {c} : calls'[d] = calls[d]
    BY <1>0, <2>1 DEF HandleClose, ConnOK
  <2>4. CASE c \in revived
    BY <2>2, <2>3, <2>4, RevivedUnseen
  <2>5. CASE c \notin revived
    <3>1. Accepted(c) /\ calls[c] = <<"up">>
      BY <1>0, <2>1, <2>5 DEF Event, ConnInv, SteadyInv, PlaceInv, ReportedInv, StatusInv
    <3>2. calls'[c] = <<"up", "down">>
      BY <1>0, <2>3, <3>1, CallsFacts DEF ConnOK
    <3>3. Accepted(c)' /\ \A d \in Conns \ {c} : Accepted(d)' <=> Accepted(d)
      BY <2>2, <3>1 DEF Accepted
    <3>4. session' = [session EXCEPT ![c] = "down"]
      BY <2>2, <2>3, <2>5, <3>2, <3>3, SessionStep
    <3>5. Running(l)
      BY <2>1 DEF Event, Running
    <3>6. session[c] = "up" /\ phase = "serving" /\ phase' = phase
      BY <1>0, <2>2, <3>1, <3>5, SessionValue, Serving DEF phase
    <3>7. AbstractSessions!Down(c)
      BY <3>4, <3>6 DEF AbstractSessions!Down, AbstractSessions!Step
    <3> QED
      BY <3>7 DEF AbstractSessions!Next
  <2> QED
    BY <2>4, <2>5
<1>6. ASSUME NEW l \in Loops, AcceptEvent(l) PROVE AbstractSessions!Next
  <2>1. Event(l, Listener) /\ NewConnection(nextConnId) /\ UNCHANGED <<spc, started, revived>>
    BY <1>6 DEF AcceptEvent
  <2>2. PICK c \in Conns : c = nextConnId /\ NewConnection(c)
    BY <1>0, <2>1 DEF Event, AcceptInv
  <2>3. /\ ~Accepted(c) /\ Accepted(c)' /\ \A d \in Conns : d < c => Accepted(d)
        /\ \A d \in Conns \ {c} : Accepted(d)' <=> Accepted(d)
    <3>1. nextConnId' = c + 1 /\ c \in Nat /\ \A d \in Conns : d \in Nat
      BY <2>2, Numbers DEF NewConnection
    <3> QED
      BY <2>2, <3>1 DEF Accepted
  <2>4. calls[c] = <<>>
    BY <1>0, <2>3 DEF ConnInv, FreshInv
  <2>5. Running(l)
    BY <2>1 DEF Event, Running
  <2>6. phase = "serving" /\ phase' = phase /\ session[c] = "none"
    BY <1>0, <2>1, <2>3, <2>5, SessionValue, Serving DEF phase
  <2>7. \A d \in Conns : d < c => session[d] # "none"
    <3>1. ASSUME NEW d \in Conns, Accepted(d) PROVE session[d] # "none"
      <4>1. \/ calls[d] = <<>> \/ calls[d] = <<"up">> \/ calls[d] = <<"up", "down">>
            \/ d \in revived
        BY <1>0 DEF ConnInv, SteadyInv, StatusInv
      <4> QED
        BY <3>1, <4>1, SessionValue
    <3> QED
      BY <2>3, <3>1
  <2>8. CASE NextLoop = Main
    <3>1. calls' = [calls EXCEPT ![c] = Append(calls[c], "up")]
      BY <2>2, <2>8 DEF NewConnection, ConnectEstablished
    <3>2. calls'[c] = <<"up">> /\ \A d \in Conns \ {c} : calls'[d] = calls[d]
      BY <1>0, <2>4, <3>1, CallsFacts DEF ConnOK
    <3>3. session' = [session EXCEPT ![c] = "up"]
      BY <2>1, <2>3, <3>2, SessionStep
    <3>4. AbstractSessions!AcceptUp(c)
      BY <2>6, <2>7, <3>3 DEF AbstractSessions!AcceptUp, AbstractSessions!Step
    <3> QED
      BY <3>4 DEF AbstractSessions!Next
  <2>9. CASE NextLoop # Main
    <3>1. calls' = calls
      BY <2>2, <2>9 DEF NewConnection
    <3>2. session' = [session EXCEPT ![c] = "accepted"]
      BY <2>1, <2>3, <2>4, <3>1, SessionStep
    <3>3. AbstractSessions!Accept(c)
      BY <2>6, <2>7, <3>2 DEF AbstractSessions!Accept, AbstractSessions!Step
    <3> QED
      BY <3>3 DEF AbstractSessions!Next
  <2> QED
    BY <2>8, <2>9
<1>7. ASSUME NEW l \in Loops, RunEstablished(l)
      PROVE  AbstractSessions!Next \/ UNCHANGED <<phase, session>>
  <2>1. PICK c \in Conns : Run(l, "established", c) /\ ConnectEstablished(c)
    BY <1>7 DEF RunEstablished
  <2>2. UNCHANGED <<spc, started, nextConnId, queue, revived>>
    BY <1>7 DEF RunEstablished
  <2>3. /\ calls' = [calls EXCEPT ![c] = Append(calls[c], "up")]
        /\ \A d \in Conns \ {c} : calls'[d] = calls[d]
    BY <1>0, <2>1 DEF ConnectEstablished, ConnOK
  <2>4. CASE c \in revived
    BY <2>2, <2>3, <2>4, RevivedUnseen
  <2>5. CASE c \notin revived
    <3>1. Accepted(c) /\ calls[c] = <<>>
      <4>1. PICK s \in Seq(Functors) : s = Pending(l) /\ s # <<>> /\ s[1] = E(c)
        BY <1>0, <2>1, <2>2, RunOnlyEffect DEF E
      <4>2. Has(Pending(l), E(c))
        BY <4>1, TailFacts
      <4>3. Accepted(c) /\ l = loopOf[c]
        BY <1>0, <4>2 DEF ConnInv, PlaceInv
      <4>4. UpInv(c)
        BY <1>0, <2>5 DEF ConnInv, SteadyInv
      <4> QED
        BY <4>2, <4>3, <4>4 DEF UpInv, Home
    <3>2. calls'[c] = <<"up">>
      BY <1>0, <2>3, <3>1, CallsFacts DEF ConnOK
    <3>3. Accepted(c)' /\ \A d \in Conns \ {c} : Accepted(d)' <=> Accepted(d)
      BY <2>2, <3>1 DEF Accepted
    <3>4. session' = [session EXCEPT ![c] = "up"]
      BY <2>2, <2>3, <3>2, <3>3, SessionStep
    <3>5. Running(l)
      BY <2>1 DEF Run, Running
    <3>6. session[c] = "accepted" /\ phase = "serving" /\ phase' = phase
      BY <1>0, <2>2, <3>1, <3>5, SessionValue, Serving DEF phase
    <3>7. AbstractSessions!Up(c)
      BY <3>4, <3>6 DEF AbstractSessions!Up, AbstractSessions!Step
    <3> QED
      BY <3>7 DEF AbstractSessions!Next
  <2> QED
    BY <2>4, <2>5
<1>8. ASSUME NEW l \in Loops, RunDestroyed(l)
      PROVE  AbstractSessions!Next \/ UNCHANGED <<phase, session>>
  <2>1. PICK c \in Conns : Run(l, "destroyed", c) /\ ConnectDestroyed(c)
    BY <1>8 DEF RunDestroyed
  <2>2. UNCHANGED <<spc, started, nextConnId, revived>> /\ Running(l)
    BY <1>8, <2>1 DEF RunDestroyed, Run, Running
  <2>3. AbstractSessions!Down(c) \/ UNCHANGED <<phase, session>>
    BY <1>0, <2>1, <2>2, Serving, DestroySession
  <2> QED
    BY <2>3 DEF AbstractSessions!Next
<1>9. CASE DropConnection
  <2>1. PICK c \in Conns :
          /\ c \in connections
          /\ IF loopOf[c] = Main THEN ConnectDestroyed(c) ELSE UNCHANGED calls
    BY <1>0, <1>9 DEF DropConnection, OtherOK
  <2>2. UNCHANGED <<spc, started, nextConnId, revived>> /\ spc = "closing"
    BY <1>9 DEF DropConnection
  <2>3. Accepted(c)
    BY <1>0, <2>1 DEF ConnInv, FreshInv
  <2>4. phase = "serving"
    BY <1>0, <2>2, <2>3, Serving
  <2>5. AbstractSessions!Down(c) \/ UNCHANGED <<phase, session>>
    BY <2>1, <2>2, <2>4, DestroySession, Unseen
  <2> QED
    BY <2>5 DEF AbstractSessions!Next
<1>10. CASE UserAct
  BY <1>10, ActSession
<1> QED
  BY <1>1, <1>2, <1>3, <1>4, <1>5, <1>6, <1>7, <1>8, <1>9, <1>10
     DEF Next, LoopStep, Poll, PollTraffic, Destructor, Stopped

\* Whatever the number of loops and clients and the order of closing clients,
\* removals and the destructor, the application is told UP once and then DOWN
\* at most once, unless a Shutdown of another thread then revives the
\* connection, and nothing once ~TcpServer has returned (ConnectEstablished,
\* HandleClose, ConnectDestroyed, Shutdown, ~TcpServer).
THEOREM ImplementsSessionsCorrect == Spec => ImplementsSessions
<1>1. Init => AbstractSessions!Init
  <2> SUFFICES ASSUME Init PROVE AbstractSessions!Init
    OBVIOUS
  <2>1. phase = "new"
    BY DEF Init, phase
  <2>2. \A c \in Conns : ~Accepted(c)
    BY Numbers DEF Init, Accepted, Conns
  <2>3. session = [c \in Conns |-> "none"]
    <3>1. session = [c \in Conns |-> session[c]]
      BY DEF session
    <3>2. \A c \in Conns : session[c] = "none"
      <4>1. IInv
        BY InitBase, InitConn DEF IInv
      <4> QED
        BY <2>2, <4>1, SessionValue
    <3> QED
      BY <3>1, <3>2
  <2> QED
    BY <2>1, <2>3 DEF AbstractSessions!Init
<1> QED
  BY <1>1, Inductive, SessionsNext, PTL DEF Spec, ImplementsSessions, AbstractSessions!Spec

=============================================================================
