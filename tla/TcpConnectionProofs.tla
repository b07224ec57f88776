------------------------ MODULE TcpConnectionProofs ------------------------
(***************************************************************************)
(* Proofs about TcpConnection, for any number of threads, messages and     *)
(* units and any sizes of the buffers.                                     *)
(***************************************************************************)
EXTENDS TcpConnection, ChannelProofs, SequenceTheorems

FunctorType == [op : FunctorOps, msg : Messages \cup {NoMsg}]

\* The functors of q, each send among them with a message of another thread.
QueueOK(q) ==
    /\ q \in Seq(FunctorType)
    /\ \A i \in 1..Len(q) : q[i].op = "send" => q[i].msg \in Senders \X (1..MaxSends)

\* Queued sends carry messages of other threads, and a thread on its way to
\* queue one has counted it.
MessageInv ==
    /\ QueueOK(queue)
    /\ \A t \in Senders : tpc[t] = "send" => sent[t] \in 1..MaxSends

\* index_, channels_ and epoll agree on the channel.
ChannelConsistent == ViewsAgree(ch)

\* The inductive invariant behind what the channel and output_buffer_ do.
DataInv == TypeOK /\ MessageInv /\ ChannelConsistent /\ WriteInterest /\ NoTruncation

-----------------------------------------------------------------------------
(* The operators of the model                                              *)

\* Cutting a sequence in two and joining the parts gives it back.
LEMMA CutSeq ==
    ASSUME NEW S, NEW s \in Seq(S), NEW n \in 0..Len(s)
    PROVE  /\ SubSeq(s, 1, n) \in Seq(S) /\ Len(SubSeq(s, 1, n)) = n
           /\ SubSeq(s, n + 1, Len(s)) \in Seq(S)
           /\ Len(SubSeq(s, n + 1, Len(s))) = Len(s) - n
           /\ SubSeq(s, 1, n) \o SubSeq(s, n + 1, Len(s)) = s
<1>1. Len(s) \in Nat /\ n \in Nat /\ n <= Len(s)
  OBVIOUS
<1>2. \A i \in 1..Len(s) : s[i] \in S
  OBVIOUS
<1>3. SubSeq(s, 1, n) \in Seq(S) /\ Len(SubSeq(s, 1, n)) = n
  BY <1>1, <1>2, SubSeqProperties
<1>4. /\ SubSeq(s, n + 1, Len(s)) \in Seq(S)
      /\ Len(SubSeq(s, n + 1, Len(s))) = Len(s) - n
  BY <1>1, <1>2, SubSeqProperties
<1>5. SubSeq(s, 1, n) \o SubSeq(s, n + 1, Len(s)) = SubSeq(s, 1, Len(s))
  <2>1. 1 \in 1..(Len(s) + 1) /\ n \in (1 - 1)..Len(s) /\ Len(s) \in n..Len(s)
    BY <1>1
  <2> QED
    BY <2>1, ConcatAdjacentSubSeq
<1> QED
  BY <1>3, <1>4, <1>5, SubSeqFull

\* Moving a prefix of one sequence to the end of another changes nothing of
\* the two together.
LEMMA MovePrefix ==
    ASSUME NEW S, NEW w \in Seq(S), NEW s \in Seq(S), NEW n \in 0..Len(s)
    PROVE  /\ w \o SubSeq(s, 1, n) \in Seq(S)
           /\ (w \o SubSeq(s, 1, n)) \o SubSeq(s, n + 1, Len(s)) = w \o s
<1>1. PICK t \in Seq(S) : t = SubSeq(s, 1, n)
  BY CutSeq
<1>2. PICK u \in Seq(S) : u = SubSeq(s, n + 1, Len(s))
  BY CutSeq
<1>3. t \o u = s
  BY <1>1, <1>2, CutSeq
<1>4. (w \o t) \o u = w \o (t \o u) /\ w \o t \in Seq(S)
  BY ConcatAssociative
<1> QED
  BY <1>1, <1>2, <1>3, <1>4

\* The units of a message.
LEMMA UnitsSeq ==
    ASSUME NEW m \in Messages
    PROVE  /\ Units(m) \in Seq(Unit) /\ Len(Units(m)) = MsgLen
           /\ \A i \in 1..MsgLen : Units(m)[i] = <<m[1], m[2], i>>
<1>1. MsgLen \in Nat
  BY ConnectionAssumption
<1>2. Units(m) \in [1..MsgLen -> Unit]
  BY DEF Units, Messages, Unit
<1> QED
  BY <1>1, <1>2 DEF Units

\* write takes a prefix of the data, nothing if the socket is broken.
LEMMA WriteLenRange ==
    ASSUME TypeOK, NEW data \in Seq(Unit)
    PROVE  /\ WriteLen(data) \in 0..Len(data) /\ WriteLen(data) <= room
           /\ Broken => WriteLen(data) = 0
BY DEF TypeOK, WriteLen, Smaller

\* write leaves the socket in order.
LEMMA WriteFdEffect ==
    ASSUME TypeOK, NEW data \in Seq(Unit), WriteFd(data)
    PROVE  /\ wire' \in Seq(Unit) /\ room' \in 0..SendBuffer /\ soerr' \in BOOLEAN
           /\ wire' \o SubSeq(data, WriteLen(data) + 1, Len(data)) = wire \o data
<1> DEFINE n == WriteLen(data)
<1>1. n \in 0..Len(data) /\ n <= room
  BY WriteLenRange
<1>2. wire \in Seq(Unit) /\ room \in 0..SendBuffer /\ SendBuffer \in Nat
  BY ConnectionAssumption DEF TypeOK
<1>3. wire' = wire \o SubSeq(data, 1, n) /\ room' = room - n /\ soerr' \in BOOLEAN
  BY DEF WriteFd
<1> HIDE DEF n
<1>4. /\ wire \o SubSeq(data, 1, n) \in Seq(Unit)
      /\ (wire \o SubSeq(data, 1, n)) \o SubSeq(data, n + 1, Len(data)) = wire \o data
  BY <1>1, <1>2, MovePrefix
<1>5. room' \in 0..SendBuffer
  BY <1>1, <1>2, <1>3
<1> QED
  BY <1>3, <1>4, <1>5 DEF n

\* q with functors behind it that call back the user.
Extends(r, q) ==
    /\ r \in Seq(FunctorType) /\ Len(r) >= Len(q)
    /\ \A i \in 1..Len(q) : r[i] = q[i]
    /\ \A i \in 1..Len(r) : i > Len(q) => r[i].op \in {"writeComplete", "highWater"}

\* Appending such a functor, or nothing, extends a queue.
LEMMA ExtendsMore ==
    ASSUME NEW q \in Seq(FunctorType), NEW r, Extends(r, q),
           NEW op \in {"writeComplete", "highWater"}
    PROVE  Extends(r \o <<Functor(op)>>, q) /\ Extends(r \o <<>>, q)
<1>1. Functor(op) \in FunctorType /\ Functor(op).op = op
  BY DEF Functor, FunctorType, FunctorOps
<1>2. r \in Seq(FunctorType) /\ Len(r) >= Len(q) /\ Len(r) \in Nat /\ Len(q) \in Nat
  BY DEF Extends
<1>3. PICK f \in FunctorType : f = Functor(op)
  BY <1>1
<1>4. r \o <<f>> = Append(r, f)
  BY <1>2, AppendIsConcat
<1>5. Extends(Append(r, f), q)
  BY <1>1, <1>2, <1>3, AppendProperties DEF Extends
<1>6. r \o <<>> = r
  BY <1>2, ConcatEmptySeq
<1> QED
  BY <1>3, <1>4, <1>5, <1>6

\* What SendInLoop does, whichever way it takes: it keeps the channel in
\* order, takes the message whole or not at all, asks for EPOLLOUT exactly
\* when it leaves something in output_buffer_, leaves nothing there after
\* FIN, and does nothing on a connection that is down.
LEMMA SendEffect ==
    ASSUME TypeOK, ChannelConsistent, NEW m \in Messages,
           NEW q \in Seq(FunctorType), SendInLoop(m, q)
    PROVE  /\ out' \in Seq(Unit) /\ wire' \in Seq(Unit)
           /\ room' \in 0..SendBuffer /\ soerr' \in BOOLEAN
           /\ ch' \in ChannelState /\ ViewsAgree(ch') /\ (ch.added => ch'.added)
           /\ Extends(queue', q)
           /\ (IsWriting(ch) <=> out # <<>>) => (IsWriting(ch') <=> out' # <<>>)
           /\ fin /\ out = <<>> /\ ~IsWriting(ch) => out' = <<>>
           /\ stream' \in {stream, stream \o Units(m)}
           /\ state = "kDisconnected" => UNCHANGED <<out, ch, wire>>
<1> DEFINE data   == Units(m)
           nwrote == IF WriteDirectly THEN WriteLen(data) ELSE 0
           rest   == SubSeq(data, nwrote + 1, MsgLen)
           append == rest # <<>> /\ ~(WriteDirectly /\ Broken)
<1>0. /\ out \in Seq(Unit) /\ wire \in Seq(Unit) /\ room \in 0..SendBuffer
      /\ soerr \in BOOLEAN /\ ch \in ChannelState /\ ViewsAgree(ch)
  BY DEF TypeOK, ChannelConsistent
<1>1. Extends(q, q)
  BY DEF Extends
<1>2. CASE GiveUp
  <2>1. UNCHANGED <<out, ch, wire, room, soerr>> /\ queue' = q
    BY <1>2 DEF SendInLoop, sockVars
  <2> QED
    BY <1>0, <1>1, <2>1 DEF stream
<1>3. CASE ~GiveUp
  <2>1. data \in Seq(Unit) /\ Len(data) = MsgLen /\ MsgLen \in Nat \ {0}
    BY UnitsSeq, ConnectionAssumption
  <2>2. /\ nwrote \in 0..Len(data)
        /\ WriteDirectly /\ Broken => nwrote = 0
    BY <2>1, WriteLenRange
  <2>3. rest \in Seq(Unit) /\ Len(rest) = MsgLen - nwrote
    BY <2>1, <2>2, CutSeq
  <2>4. /\ IF WriteDirectly THEN WriteFd(data) ELSE UNCHANGED <<wire, room, soerr>>
        /\ out' = IF append THEN out \o rest ELSE out
        /\ ch' = IF append /\ ~IsWriting(ch) THEN EnableWriting(ch) ELSE ch
    BY <1>3 DEF SendInLoop, sockVars
  <2>5. Extends(queue', q)
    <3>1. \E high \in BOOLEAN :
            queue' = q \o (IF rest = <<>> THEN <<Functor("writeComplete")>> ELSE <<>>)
                       \o (IF high THEN <<Functor("highWater")>> ELSE <<>>)
      BY <1>3 DEF SendInLoop
    <3> HIDE DEF rest
    <3>2. PICK r : /\ r = q \o (IF rest = <<>> THEN <<Functor("writeComplete")>> ELSE <<>>)
                   /\ Extends(r, q)
      BY <1>1, ExtendsMore
    <3>3. queue' \in {r \o <<Functor("highWater")>>, r \o <<>>}
      BY <3>1, <3>2
    <3> QED
      BY <3>2, <3>3, ExtendsMore
  <2>6. wire' \in Seq(Unit) /\ room' \in 0..SendBuffer /\ soerr' \in BOOLEAN
    BY <1>0, <2>1, <2>4, WriteFdEffect
  <2>7. out' \in Seq(Unit)
    <3> HIDE DEF rest, append
    <3> QED
      BY <1>0, <2>3, <2>4
  <2>8. /\ ch' \in ChannelState /\ ViewsAgree(ch') /\ (ch.added => ch'.added)
        /\ IsWriting(ch') <=> IsWriting(ch) \/ append
    <3>1. EnableWriting(ch) \in ChannelState /\ ViewsAgree(EnableWriting(ch))
      BY <1>0, CallAgrees
    <3>2. EnableWriting(ch).added
      BY <1>0, EntersEpoll
    <3>3. IsWriting(EnableWriting(ch))
      BY <1>0, CallEvents DEF IsWriting
    <3> HIDE DEF append
    <3> QED
      BY <1>0, <2>4, <3>1, <3>2, <3>3
  <2>9. (IsWriting(ch) <=> out # <<>>) => (IsWriting(ch') <=> out' # <<>>)
    <3> HIDE DEF rest
    <3>1. append => out \o rest # <<>>
      BY <1>0, <2>3, ConcatEqualIffEmpty DEF append
    <3> HIDE DEF append
    <3> QED
      BY <2>4, <2>8, <3>1
  <2>10. fin /\ out = <<>> /\ ~IsWriting(ch) => out' = <<>>
    <3>1. fin /\ out = <<>> /\ ~IsWriting(ch) => ~append
      BY DEF WriteDirectly, Broken
    <3> QED
      BY <2>4, <3>1
  <2>11. stream' \in {stream, stream \o Units(m)}
    <3>1. CASE WriteDirectly /\ ~Broken
      <4>1. out = <<>> /\ stream = wire
        BY <1>0, <3>1, ConcatEmptySeq DEF stream, WriteDirectly
      <4>2. wire' \o rest = wire \o data
        BY <2>1, <2>4, <3>1, WriteFdEffect
      <4>3. out' = rest
        <5> HIDE DEF rest
        <5> QED
          BY <2>3, <2>4, <3>1, <4>1, ConcatEmptySeq
      <4> QED
        BY <4>1, <4>2, <4>3 DEF stream
    <3>2. CASE WriteDirectly /\ Broken
      <4>1. out' = out
        BY <2>4, <3>2
      <4>2. wire' = wire \o SubSeq(data, 1, 0)
        BY <2>2, <2>4, <3>2 DEF WriteFd
      <4>3. SubSeq(data, 1, 0) = <<>>
        BY SubSeqEmpty
      <4>4. wire' = wire
        BY <1>0, <4>2, <4>3, ConcatEmptySeq
      <4> QED
        BY <4>1, <4>4 DEF stream
    <3>3. CASE ~WriteDirectly
      <4>1. wire' = wire /\ nwrote = 0
        BY <2>4, <3>3
      <4>2. rest = data
        BY <2>1, <4>1, SubSeqFull
      <4>3. out' = out \o data
        <5>1. rest # <<>>
          <6> HIDE DEF data, rest
          <6> QED
            BY <2>1, <4>2
        <5> QED
          BY <2>4, <3>3, <4>2, <5>1
      <4>4. wire \o (out \o data) = (wire \o out) \o data
        <5>1. PICK d \in Seq(Unit) : d = data
          BY <2>1
        <5>2. wire \o (out \o d) = (wire \o out) \o d
          BY <1>0, ConcatAssociative, SMTT(20)
        <5> QED
          BY <5>1, <5>2
      <4> QED
        BY <4>1, <4>3, <4>4 DEF stream
    <3> QED
      BY <3>1, <3>2, <3>3
  <2> QED
    BY <1>3, <2>5, <2>6, <2>7, <2>8, <2>9, <2>10, <2>11 DEF GiveUp
<1> QED
  BY <1>2, <1>3

\* What HandleWrite does: it moves units from output_buffer_ to the wire,
\* asks no longer for EPOLLOUT exactly when none is left, and sends FIN only
\* then.
LEMMA WriteEffect ==
    ASSUME TypeOK, ChannelConsistent, WriteEvent
    PROVE  /\ out' \in Seq(Unit) /\ wire' \in Seq(Unit)
           /\ room' \in 0..SendBuffer /\ soerr' \in BOOLEAN /\ fin' \in BOOLEAN
           /\ ch' \in ChannelState /\ ViewsAgree(ch')
           /\ Extends(queue', queue)
           /\ (IsWriting(ch) <=> out # <<>>) => (IsWriting(ch') <=> out' # <<>>)
           /\ fin' => fin \/ out' = <<>>
           /\ stream' = stream
           /\ ~IsWriting(ch) => UNCHANGED <<out, ch, wire, queue, fin>>
<1> DEFINE n == WriteLen(out)
           drained == n > 0 /\ n = Len(out)
<1>0. /\ out \in Seq(Unit) /\ wire \in Seq(Unit) /\ room \in 0..SendBuffer
      /\ soerr \in BOOLEAN /\ fin \in BOOLEAN /\ ch \in ChannelState
      /\ ViewsAgree(ch) /\ queue \in Seq(FunctorType)
  BY DEF TypeOK, ChannelConsistent, FunctorType
<1>1. Extends(queue, queue)
  BY <1>0 DEF Extends
<1>2. CASE ~IsWriting(ch)
  BY <1>0, <1>1, <1>2 DEF WriteEvent, StillWriting, sockVars, stream
<1>3. CASE IsWriting(ch)
  <2>1. /\ WriteFd(out) /\ out' = SubSeq(out, n + 1, Len(out))
        /\ IF drained
           THEN /\ ch' = DisableWriting(ch)
                /\ queue' = Append(queue, Functor("writeComplete"))
                /\ LateShutdown(ch')
           ELSE UNCHANGED <<ch, queue, fin>>
    BY <1>3 DEF WriteEvent, StillWriting
  <2>2. n \in 0..Len(out)
    BY <1>0, WriteLenRange
  <2>3. out' \in Seq(Unit) /\ Len(out') = Len(out) - n
    BY <1>0, <2>1, <2>2, CutSeq
  <2>4. /\ wire' \in Seq(Unit) /\ room' \in 0..SendBuffer /\ soerr' \in BOOLEAN
        /\ stream' = stream
    BY <1>0, <2>1, WriteFdEffect DEF stream
  <2> HIDE DEF n
  <2>5. drained => out' = <<>>
    BY <2>2, <2>3
  <2>6. ~drained /\ out # <<>> => out' # <<>>
    <3>1. out # <<>> => Len(out) \in Nat \ {0}
      BY <1>0, EmptySeq
    <3>2. ~drained /\ out # <<>> => Len(out') # 0
      BY <2>2, <2>3, <3>1
    <3> QED
      BY <3>2
  <2>7. /\ DisableWriting(ch) \in ChannelState /\ ViewsAgree(DisableWriting(ch))
        /\ ~IsWriting(DisableWriting(ch))
    <3>1. ~IsWriting(DisableWriting(ch))
      BY <1>0, CallEvents DEF IsWriting
    <3> QED
      BY <1>0, <3>1, CallAgrees
  <2>8. ch' \in ChannelState /\ ViewsAgree(ch') /\ (IsWriting(ch') <=> ~drained)
    <3> HIDE DEF drained
    <3> QED
      BY <1>0, <1>3, <2>1, <2>7
  <2>9. fin' \in BOOLEAN /\ (fin' => fin \/ drained)
    <3>1. CASE drained
      BY <1>0, <2>1, <3>1 DEF LateShutdown, ShutdownInLoop
    <3>2. CASE ~drained
      BY <1>0, <2>1, <3>2
    <3> QED
      BY <3>1, <3>2
  <2>10. Extends(queue', queue)
    <3>1. Functor("writeComplete") \in FunctorType
      BY DEF Functor, FunctorType, FunctorOps
    <3>2. Append(queue, Functor("writeComplete")) = queue \o <<Functor("writeComplete")>>
      BY <1>0, <3>1, AppendIsConcat
    <3> HIDE DEF drained
    <3> QED
      BY <1>0, <1>1, <2>1, <3>2, ExtendsMore
  <2> QED
    BY <1>3, <2>3, <2>4, <2>5, <2>6, <2>8, <2>9, <2>10
<1> QED
  BY <1>2, <1>3

\* Queueing a functor.
LEMMA QueueAppend ==
    ASSUME NEW q, QueueOK(q), NEW f \in FunctorType,
           f.op = "send" => f.msg \in Senders \X (1..MaxSends)
    PROVE  QueueOK(Append(q, f)) /\ Len(Append(q, f)) = Len(q) + 1
BY AppendProperties DEF QueueOK

\* Taking the first functor off.
LEMMA QueueTail ==
    ASSUME NEW q, QueueOK(q), Len(q) > 0
    PROVE  /\ QueueOK(Tail(q)) /\ Len(Tail(q)) = Len(q) - 1
           /\ Head(q) = q[1] /\ q[1] \in FunctorType /\ 1 \in 1..Len(q)
<1>1. q \in Seq(FunctorType) /\ q # <<>> /\ Len(q) \in Nat
  BY DEF QueueOK
<1>2. /\ Tail(q) \in Seq(FunctorType) /\ Len(Tail(q)) = Len(q) - 1
      /\ \A i \in 1..Len(Tail(q)) : Tail(q)[i] = q[i + 1]
  BY <1>1, HeadTailProperties
<1>3. \A i \in 1..Len(Tail(q)) : i + 1 \in 1..Len(q)
  BY <1>1, <1>2
<1>4. Head(q) = q[1] /\ 1 \in 1..Len(q)
  BY <1>1
<1> QED
  BY <1>1, <1>2, <1>3, <1>4 DEF QueueOK

\* Queueing user callbacks.
LEMMA QueueExtends ==
    ASSUME NEW q, QueueOK(q), NEW r, Extends(r, q)
    PROVE  QueueOK(r) /\ Len(r) \in Nat /\ Len(r) >= Len(q)
<1>1. Len(q) \in Nat /\ Len(r) \in Nat
  BY DEF QueueOK, Extends
<1> QED
  BY <1>1 DEF QueueOK, Extends

\* The functors without a message are functors.
LEMMA FunctorTypes ==
    ASSUME NEW op \in FunctorOps
    PROVE  Functor(op) \in FunctorType /\ Functor(op).op = op
BY DEF Functor, FunctorType

\* Callbacks to make are callbacks.
LEMMA TodoTypes ==
    /\ \A revents : Dispatch(revents) \in Seq({"close", "error", "read", "write"})
    /\ \A s \in Seq({"close", "error", "read", "write"}) :
         s # <<>> => Tail(s) \in Seq({"close", "error", "read", "write"})
<1>1. ASSUME NEW revents
      PROVE  Dispatch(revents) \in Seq({"close", "error", "read", "write"})
  <2> DEFINE S == {"close", "error", "read", "write"}
  <2>1. "close" \in S /\ "error" \in S /\ "read" \in S /\ "write" \in S
    OBVIOUS
  <2> HIDE DEF S
  <2>2. <<>> \in Seq(S) /\ \A e \in S : <<e>> \in Seq(S)
    OBVIOUS
  <2>3. \A s, t \in Seq(S) : s \o t \in Seq(S)
    OBVIOUS
  <2>4. Dispatch(revents) \in Seq(S)
    BY <2>1, <2>2, <2>3 DEF Dispatch
  <2> QED
    BY <2>4 DEF S
<1>2. ASSUME NEW s \in Seq({"close", "error", "read", "write"}), s # <<>>
      PROVE  Tail(s) \in Seq({"close", "error", "read", "write"})
  BY <1>2
<1> QED
  BY <1>1, <1>2

-----------------------------------------------------------------------------
(* The channel and output_buffer_                                          *)

\* NewConnection leaves a connection for which the invariant holds.
LEMMA InitData == Init => DataInv
<1> SUFFICES ASSUME Init PROVE DataInv
  OBVIOUS
<1>1. Functor("established") \in FunctorType /\ Functor("established").op = "established"
  BY DEF Functor, FunctorType, FunctorOps
<1>2. TypeOK
  <2>1. queue \in Seq(FunctorType) /\ batch \in 0..Len(queue)
    BY <1>1 DEF Init
  <2>2. room \in 0..SendBuffer /\ received \in 0..MaxReceives
    BY ConnectionAssumption DEF Init
  <2>3. sent \in [Callers -> 0..MaxSends]
    BY ConnectionAssumption DEF Init
  <2>4. out \in Seq(Unit) /\ wire \in Seq(Unit)
    BY DEF Init
  <2>5. todo \in Seq({"close", "error", "read", "write"})
    BY DEF Init
  <2>6. tpc \in [Senders -> {"idle", "send", "shutdown", "queue"}]
    BY DEF Init
  <2>7. ch \in ChannelState
    BY NewAgrees DEF Init
  <2>8. /\ fin \in BOOLEAN /\ soerr \in BOOLEAN /\ inq \in BOOLEAN
        /\ inMap \in BOOLEAN /\ serverGone \in BOOLEAN
    BY DEF Init
  <2>9. /\ state \in State /\ lpc \in {"poll", "events", "batch", "destroy"}
        /\ callback \in {"none", "up", "message", "writeComplete", "highWater"}
        /\ peer \in {"open", "closed", "reset"}
        /\ removals \in Nat /\ down \in Nat /\ closers \in SUBSET Callers
    BY DEF Init, State
  <2> QED
    BY <2>1, <2>2, <2>3, <2>4, <2>5, <2>6, <2>7, <2>8, <2>9 DEF TypeOK, FunctorType
<1>3. MessageInv
  BY <1>1 DEF Init, MessageInv, QueueOK
<1>4. ~IsWriting(NewChannel)
  BY DEF IsWriting, NewChannel
<1> QED
  BY <1>2, <1>3, <1>4, NewAgrees
     DEF Init, DataInv, ChannelConsistent, WriteInterest, NoTruncation

\* Every step keeps it.
LEMMA NextData == DataInv /\ [Next]_vars => DataInv'
<1> SUFFICES ASSUME DataInv, [Next]_vars PROVE DataInv'
  OBVIOUS
<1> USE ConnectionAssumption
    DEF DataInv, MessageInv, ChannelConsistent, WriteInterest, NoTruncation,
        loopVars, sockVars, peerVars, serverVars, callVars
<1>0. /\ ch \in ChannelState /\ ViewsAgree(ch) /\ QueueOK(queue)
      /\ Len(queue) \in Nat /\ batch \in 0..Len(queue)
  BY DEF TypeOK
<1>1. CASE Poll
  BY <1>1, TodoTypes DEF Poll, TypeOK
<1>2. CASE CloseEvent \/ ReadEnd
  <2>1. DisableAll(ch) \in ChannelState /\ ViewsAgree(DisableAll(ch))
    BY <1>0, CallAgrees
  <2>2. todo' \in Seq({"close", "error", "read", "write"})
    BY <1>2, TodoTypes DEF CloseEvent, ReadEnd, Event, TypeOK
  <2>3. CASE CloseEvent
    BY <2>1, <2>2, <2>3 DEF CloseEvent, HandleClose, TypeOK, State
  <2>4. CASE ReadEnd
    BY <2>1, <2>2, <2>4 DEF ReadEnd, HandleClose, TypeOK, State
  <2> QED
    BY <1>2, <2>3, <2>4
<1>3. CASE ErrorEvent \/ ReadFails \/ ReadData
  <2>1. todo' \in Seq({"close", "error", "read", "write"})
    BY <1>3, TodoTypes DEF ErrorEvent, ReadFails, ReadData, Event, TypeOK
  <2>2. CASE ErrorEvent
    <3>1. TypeOK'
      BY <2>1, <2>2, ZenonT(30) DEF ErrorEvent, TypeOK
    <3> QED
      BY <2>2, <3>1 DEF ErrorEvent
  <2>3. CASE ReadFails
    <3>1. TypeOK'
      BY <2>1, <2>3 DEF ReadFails, TypeOK
    <3> QED
      BY <2>3, <3>1 DEF ReadFails
  <2>4. CASE ReadData
    <3>1. TypeOK'
      BY <2>1, <2>4 DEF ReadData, TypeOK
    <3> QED
      BY <2>4, <3>1 DEF ReadData
  <2> QED
    BY <1>3, <2>2, <2>3, <2>4
<1>4. CASE WriteEvent
  <2>1. todo' \in Seq({"close", "error", "read", "write"})
    BY <1>4, TodoTypes DEF WriteEvent, Event, TypeOK
  <2>2. QueueOK(queue') /\ Len(queue') \in Nat /\ Len(queue') >= Len(queue)
    BY <1>0, <1>4, WriteEffect, QueueExtends
  <2>3. /\ out' \in Seq(Unit) /\ wire' \in Seq(Unit)
        /\ room' \in 0..SendBuffer /\ soerr' \in BOOLEAN /\ fin' \in BOOLEAN
        /\ ch' \in ChannelState /\ ViewsAgree(ch')
        /\ (IsWriting(ch) <=> out # <<>>) => (IsWriting(ch') <=> out' # <<>>)
        /\ fin' => fin \/ out' = <<>>
        /\ ~IsWriting(ch) => UNCHANGED <<out, ch, fin>>
    BY <1>4, WriteEffect
  <2>4. WriteInterest' /\ NoTruncation'
    BY <1>4, <2>3 DEF WriteEvent
  <2>5. TypeOK'
    <3>1. batch' \in 0..Len(queue')
      BY <1>0, <1>4, <2>2 DEF WriteEvent
    <3> QED
      BY <1>4, <2>1, <2>2, <2>3, <3>1 DEF WriteEvent, TypeOK, QueueOK, FunctorType
  <2> QED
    BY <1>4, <2>2, <2>3, <2>4, <2>5 DEF WriteEvent
<1>5. CASE SwapFunctors \/ BatchDone \/ CallbackReturns
  <2>1. CASE SwapFunctors
    BY <1>0, <2>1 DEF SwapFunctors, TypeOK
  <2>2. CASE BatchDone
    BY <2>2 DEF BatchDone, TypeOK
  <2>3. CASE CallbackReturns
    BY <2>3 DEF CallbackReturns, TypeOK
  <2> QED
    BY <1>5, <2>1, <2>2, <2>3
<1>6. ASSUME NEW op, Run(op), queue' = Tail(queue)
      PROVE  QueueOK(queue') /\ Len(queue') \in Nat /\ batch' \in 0..Len(queue')
  BY <1>0, <1>6, QueueTail DEF Run
<1>7. CASE ConnectEstablished
  <2>1. EnableReading(ch) \in ChannelState /\ ViewsAgree(EnableReading(ch))
    BY <1>0, CallAgrees
  <2>2. IsWriting(EnableReading(ch)) <=> IsWriting(ch)
    BY <1>0, CallEvents DEF IsWriting
  <2>3. QueueOK(queue') /\ batch' \in 0..Len(queue')
    BY <1>6, <1>7 DEF ConnectEstablished
  <2> QED
    BY <1>7, <2>1, <2>2, <2>3, SMTT(20)
       DEF ConnectEstablished, TypeOK, State, QueueOK, FunctorType
<1>8. CASE RunSend
  <2>1. /\ queue[1].op = "send" /\ Head(queue) = queue[1] /\ 1 \in 1..Len(queue)
        /\ QueueOK(Tail(queue)) /\ Len(Tail(queue)) = Len(queue) - 1
    BY <1>0, <1>8, QueueTail DEF RunSend, Run
  <2>2. Head(queue).msg \in Messages
    BY <2>1 DEF QueueOK, Messages, Callers
  <2> DEFINE m == Head(queue).msg
             q == Tail(queue)
  <2>3. q \in Seq(FunctorType) /\ SendInLoop(m, q)
    BY <1>8, <2>1 DEF RunSend, QueueOK
  <2> HIDE DEF m, q
  <2>4. /\ out' \in Seq(Unit) /\ wire' \in Seq(Unit)
        /\ room' \in 0..SendBuffer /\ soerr' \in BOOLEAN
        /\ ch' \in ChannelState /\ ViewsAgree(ch') /\ Extends(queue', q)
        /\ (IsWriting(ch) <=> out # <<>>) => (IsWriting(ch') <=> out' # <<>>)
        /\ fin /\ out = <<>> /\ ~IsWriting(ch) => out' = <<>>
    BY <2>2, <2>3, SendEffect DEF m
  <2>5. QueueOK(queue') /\ Len(queue') \in Nat /\ Len(queue') >= Len(queue) - 1
    BY <2>1, <2>4, QueueExtends DEF q
  <2>6. batch' \in 0..Len(queue')
    BY <1>0, <1>8, <2>5 DEF RunSend, Run
  <2>7. WriteInterest' /\ NoTruncation'
    BY <1>8, <2>4 DEF RunSend
  <2>8. TypeOK'
    BY <1>8, <2>4, <2>5, <2>6, ZenonT(30) DEF RunSend, TypeOK, QueueOK, FunctorType
  <2> QED
    BY <1>8, <2>4, <2>5, <2>7, <2>8 DEF RunSend
<1>9. CASE RunShutdown
  <2>1. QueueOK(queue') /\ batch' \in 0..Len(queue')
    BY <1>6, <1>9 DEF RunShutdown
  <2>2. fin' \in BOOLEAN /\ (fin' => fin \/ ~IsWriting(ch))
    BY <1>9 DEF RunShutdown, ShutdownInLoop, TypeOK
  <2> QED
    BY <1>9, <2>1, <2>2, SMTT(20) DEF RunShutdown, TypeOK, QueueOK, FunctorType
<1>10. CASE RunCallback
  <2>1. QueueOK(queue') /\ batch' \in 0..Len(queue')
    BY <1>6, <1>10 DEF RunCallback
  <2>2. callback' \in {"writeComplete", "highWater"}
    BY <1>10 DEF RunCallback
  <2>3. UNCHANGED <<state, ch, out, fin, removals, down, lpc, todo, sockVars,
                    peerVars, serverVars, callVars>>
    BY <1>10 DEF RunCallback
  <2> QED
    BY <2>1, <2>2, <2>3, SMTT(20) DEF TypeOK, QueueOK, FunctorType
<1>11. CASE DestroyCheck
  <2>1. QueueOK(queue') /\ batch' \in 0..Len(queue')
    BY <1>6, <1>11 DEF DestroyCheck
  <2>2. RemoveChannel(ch) \in ChannelState /\ ViewsAgree(RemoveChannel(ch))
    BY <1>0, RemoveAgrees
  <2>3. IsWriting(RemoveChannel(ch)) <=> IsWriting(ch)
    BY <1>0, EventsKept DEF IsWriting
  <2>4. ch' \in {ch, RemoveChannel(ch)} /\ lpc' \in {lpc, "destroy"}
    BY <1>11 DEF DestroyCheck
  <2>5. ch' \in ChannelState /\ ViewsAgree(ch') /\ (IsWriting(ch') <=> IsWriting(ch))
    BY <1>0, <2>2, <2>3, <2>4
  <2>6. UNCHANGED <<state, out, fin, removals, down, todo, callback, sockVars,
                    peerVars, serverVars, callVars>>
    BY <1>11 DEF DestroyCheck
  <2> QED
    BY <2>1, <2>4, <2>5, <2>6, SMTT(20) DEF TypeOK, QueueOK, FunctorType
<1>12. CASE DestroyConnected
  <2>1. DisableAll(ch) \in ChannelState /\ ViewsAgree(DisableAll(ch))
    BY <1>0, CallAgrees
  <2>2. ch' \in ChannelState /\ ViewsAgree(ch')
    BY <1>12, <2>1, RemoveAgrees DEF DestroyConnected
  <2> QED
    BY <1>12, <2>2 DEF DestroyConnected, TypeOK, State
<1>13. CASE LoopSend
  <2>1. sent[LoopThread] \in Nat /\ sent[LoopThread] + 1 \in 1..MaxSends
    BY <1>13, SMTT(20) DEF LoopSend, TypeOK, Callers
  <2>2. sent' \in [Callers -> 0..MaxSends] /\ sent'[LoopThread] = sent[LoopThread] + 1
    BY <1>13, <2>1, SMTT(20) DEF LoopSend, TypeOK, Callers
  <2>3. <<LoopThread, sent'[LoopThread]>> \in Messages
    BY <2>1, <2>2 DEF Messages, Callers
  <2> DEFINE m == <<LoopThread, sent'[LoopThread]>>
  <2>4. queue \in Seq(FunctorType) /\ SendInLoop(m, queue)
    BY <1>0, <1>13 DEF LoopSend, QueueOK
  <2> HIDE DEF m
  <2>5. /\ out' \in Seq(Unit) /\ wire' \in Seq(Unit)
        /\ room' \in 0..SendBuffer /\ soerr' \in BOOLEAN
        /\ ch' \in ChannelState /\ ViewsAgree(ch') /\ Extends(queue', queue)
        /\ (IsWriting(ch) <=> out # <<>>) => (IsWriting(ch') <=> out' # <<>>)
        /\ fin /\ out = <<>> /\ ~IsWriting(ch) => out' = <<>>
    BY <2>3, <2>4, SendEffect DEF m
  <2>6. QueueOK(queue') /\ Len(queue') \in Nat /\ Len(queue') >= Len(queue)
    BY <1>0, <2>5, QueueExtends
  <2>7. WriteInterest' /\ NoTruncation'
    BY <1>13, <2>5 DEF LoopSend
  <2>8. TypeOK'
    <3>1. batch' \in 0..Len(queue')
      BY <1>0, <1>13, <2>6 DEF LoopSend
    <3> QED
      BY <1>13, <2>2, <2>5, <2>6, <3>1 DEF LoopSend, TypeOK, QueueOK, FunctorType
  <2>9. \A t \in Senders : sent'[t] = sent[t]
    BY <1>13 DEF LoopSend, TypeOK, Callers
  <2> QED
    BY <1>13, <2>5, <2>6, <2>7, <2>8, <2>9 DEF LoopSend
<1>14. CASE LoopShutdown
  <2>1. fin' \in BOOLEAN /\ (fin' => fin \/ ~IsWriting(ch))
    BY <1>14 DEF LoopShutdown, ShutdownInLoop, TypeOK
  <2> QED
    BY <1>14, <2>1, SMTT(20) DEF LoopShutdown, TypeOK, State, Callers
<1>15. ASSUME NEW t \in Senders, SendCheck(t) PROVE DataInv'
  <2>1. t \in Callers /\ sent[t] \in Nat /\ sent[t] + 1 \in 1..MaxSends
    BY <1>15, SMTT(20) DEF SendCheck, TypeOK, Callers
  <2>2. sent' \in [Callers -> 0..MaxSends]
    BY <1>15, <2>1, SMTT(20) DEF SendCheck, TypeOK
  <2>3. tpc' \in [Senders -> {"idle", "send", "shutdown", "queue"}]
    BY <1>15 DEF SendCheck, TypeOK
  <2>4. ASSUME NEW u \in Senders, tpc'[u] = "send" PROVE sent'[u] \in 1..MaxSends
    <3>1. CASE u = t
      BY <1>15, <2>1, <3>1 DEF SendCheck, TypeOK
    <3>2. CASE u # t
      BY <1>15, <2>4, <3>2 DEF SendCheck, TypeOK, Callers
    <3> QED
      BY <3>1, <3>2
  <2> QED
    BY <1>15, <2>2, <2>3, <2>4, SMTT(20) DEF SendCheck, threadUnchanged, TypeOK
<1>16. ASSUME NEW t \in Senders, SendQueue(t) PROVE DataInv'
  <2> DEFINE f == SendFunctor(<<t, sent[t]>>)
  <2>1. f \in FunctorType /\ f.msg \in Senders \X (1..MaxSends)
    BY <1>16 DEF SendQueue, SendFunctor, FunctorType, FunctorOps, Messages, Callers
  <2>2. QueueOK(queue') /\ Len(queue') = Len(queue) + 1
    BY <1>0, <1>16, <2>1, QueueAppend DEF SendQueue
  <2>3. /\ tpc' \in [Senders -> {"idle", "send", "shutdown", "queue"}]
        /\ \A u \in Senders : tpc'[u] = "send" => sent'[u] \in 1..MaxSends
    BY <1>16 DEF SendQueue, TypeOK
  <2>4. batch' \in 0..Len(queue')
    BY <1>0, <1>16, <2>2 DEF SendQueue, threadUnchanged
  <2>5. TypeOK'
    <3>1. queue' \in Seq(FunctorType)
      BY <2>2 DEF QueueOK
    <3> QED
      BY <1>16, <2>3, <2>4, <3>1, SMTT(20) DEF SendQueue, threadUnchanged, TypeOK, FunctorType
  <2> QED
    BY <1>16, <2>2, <2>3, <2>5 DEF SendQueue, threadUnchanged
<1>17. ASSUME NEW t \in Senders, ShutdownCheck(t) \/ ShutdownSet(t) PROVE DataInv'
  <2>1. tpc' \in [Senders -> {"idle", "send", "shutdown", "queue"}]
    BY <1>17 DEF ShutdownCheck, ShutdownSet, TypeOK
  <2>2. \A u \in Senders : tpc'[u] = "send" => sent'[u] \in 1..MaxSends
    BY <1>17 DEF ShutdownCheck, ShutdownSet, TypeOK
  <2>3. CASE ShutdownCheck(t)
    BY <2>1, <2>2, <2>3 DEF ShutdownCheck, threadUnchanged, TypeOK
  <2>4. CASE ShutdownSet(t)
    BY <2>1, <2>2, <2>4, SMTT(20) DEF ShutdownSet, threadUnchanged, TypeOK, State, Callers
  <2> QED
    BY <1>17, <2>3, <2>4
<1>18. ASSUME NEW t \in Senders, ShutdownQueue(t) PROVE DataInv'
  <2>1. QueueOK(queue') /\ Len(queue') = Len(queue) + 1
    BY <1>0, <1>18, FunctorTypes, QueueAppend DEF ShutdownQueue, FunctorOps
  <2>2. /\ tpc' \in [Senders -> {"idle", "send", "shutdown", "queue"}]
        /\ \A u \in Senders : tpc'[u] = "send" => sent'[u] \in 1..MaxSends
    BY <1>18 DEF ShutdownQueue, TypeOK
  <2>3. batch' \in 0..Len(queue')
    BY <1>0, <1>18, <2>1 DEF ShutdownQueue, threadUnchanged
  <2>4. TypeOK'
    <3>1. queue' \in Seq(FunctorType)
      BY <2>1 DEF QueueOK
    <3> QED
      BY <1>18, <2>2, <2>3, <3>1, SMTT(20) DEF ShutdownQueue, threadUnchanged, TypeOK, FunctorType
  <2> QED
    BY <1>18, <2>1, <2>2, <2>4 DEF ShutdownQueue, threadUnchanged
<1>19. CASE RemoveConnectionInLoop \/ ServerDestroyed
  <2>1. /\ QueueOK(Append(queue, Functor("destroyed")))
        /\ Len(Append(queue, Functor("destroyed"))) = Len(queue) + 1
    BY <1>0, FunctorTypes, QueueAppend DEF FunctorOps
  <2>2. queue' \in {queue, Append(queue, Functor("destroyed"))} /\ batch' = batch
    BY <1>19 DEF RemoveConnectionInLoop, ServerDestroyed
  <2>3. QueueOK(queue') /\ batch' \in 0..Len(queue')
    <3>1. CASE queue' = queue
      BY <1>0, <2>2, <3>1
    <3>2. CASE queue' = Append(queue, Functor("destroyed"))
      BY <1>0, <2>1, <2>2, <3>2
    <3> QED
      BY <2>2, <3>1, <3>2
  <2>4. queue' \in Seq(FunctorType)
    BY <2>3 DEF QueueOK
  <2>5. CASE RemoveConnectionInLoop
    <3>1. TypeOK'
      <4>1. removals' \in Nat
        <5>1. removals \in Nat /\ removals > 0 /\ removals' = removals - 1
          BY <2>5 DEF RemoveConnectionInLoop, TypeOK
        <5> QED
          BY <5>1
      <4> QED
        BY <2>3, <2>4, <2>5, <4>1 DEF RemoveConnectionInLoop, TypeOK, FunctorType
    <3> QED
      BY <2>3, <2>5, <3>1 DEF RemoveConnectionInLoop
  <2>6. CASE ServerDestroyed
    <3>1. TypeOK'
      BY <2>3, <2>4, <2>6 DEF ServerDestroyed, TypeOK, FunctorType
    <3> QED
      BY <2>3, <2>6, <3>1 DEF ServerDestroyed
  <2> QED
    BY <1>19, <2>5, <2>6
<1>20. CASE PeerSends \/ PeerReads \/ PeerCloses \/ PeerResets
  <2>1. CASE PeerSends
    BY <2>1 DEF PeerSends, TypeOK
  <2>2. CASE PeerReads
    BY <2>2 DEF PeerReads, TypeOK
  <2>3. CASE PeerCloses
    BY <2>3 DEF PeerCloses, TypeOK
  <2>4. CASE PeerResets
    BY <2>4 DEF PeerResets, TypeOK
  <2> QED
    BY <1>20, <2>1, <2>2, <2>3, <2>4
<1>21. CASE UNCHANGED vars
  BY <1>21 DEF vars, TypeOK
<1> QED
  BY <1>1, <1>2, <1>3, <1>4, <1>5, <1>7, <1>8, <1>9, <1>10, <1>11, <1>12, <1>13,
     <1>14, <1>15, <1>16, <1>17, <1>18, <1>19, <1>20, <1>21
     DEF Next, LoopStep, ThreadStep

\* The type invariant, whatever the number of threads and messages and the
\* sizes of the buffers (TcpConnection's members, the queue of its loop).
THEOREM TypeCorrect == Spec => []TypeOK
<1>1. DataInv => TypeOK
  BY DEF DataInv
<1> QED
  BY <1>1, InitData, NextData, PTL DEF Spec

\* As long as the connection is up, EPOLLOUT is asked for exactly when
\* output_buffer_ holds something (SendInLoop, HandleWrite).
THEOREM WriteInterestCorrect == Spec => []WriteInterest
<1>1. DataInv => WriteInterest
  BY DEF DataInv
<1> QED
  BY <1>1, InitData, NextData, PTL DEF Spec

\* FIN does not overtake output_buffer_, nor does anything get there after it
\* (Shutdown, ShutdownInLoop, HandleWrite, SendInLoop).
THEOREM NoTruncationCorrect == Spec => []NoTruncation
<1>1. DataInv => NoTruncation
  BY DEF DataInv
<1> QED
  BY <1>1, InitData, NextData, PTL DEF Spec

-----------------------------------------------------------------------------
(* The byte stream                                                         *)

\* Every unit but the first of a message follows the one before it.
Whole(s) ==
    \A i \in 1..Len(s) :
        s[i][3] > 1 => i > 1 /\ s[i-1] = <<s[i][1], s[i][2], s[i][3] - 1>>

\* The units of one thread are in the order in which it sent them.
Ordered(s) ==
    \A i, j \in 1..Len(s) :
        i < j /\ s[i][1] = s[j][1] =>
            s[i][2] < s[j][2] \/ (s[i][2] = s[j][2] /\ s[i][3] < s[j][3])

\* Message k is one that thread t has handed over, and not the one that t is
\* about to queue; n are the counts of messages, pc where the threads are.
Counted(t, k, n, pc) == k <= n[t] /\ (t \in Senders /\ pc[t] = "send" => k < n[t])

\* Message m comes after those of its thread in s.
After(m, s) == \A j \in 1..Len(s) : s[j][1] = m[1] => s[j][2] < m[2]

\* The messages of a thread are in order: first those in the stream, then
\* those in the queue, then the one it is about to queue.
OrderInv ==
    /\ \A i \in 1..Len(stream) : Counted(stream[i][1], stream[i][2], sent, tpc)
    /\ \A i \in 1..Len(queue) : queue[i].op = "send" =>
         /\ Counted(queue[i].msg[1], queue[i].msg[2], sent, tpc)
         /\ After(queue[i].msg, stream)
    /\ \A i, j \in 1..Len(queue) :
         /\ i < j /\ queue[i].op = "send" /\ queue[j].op = "send"
         /\ queue[i].msg[1] = queue[j].msg[1]
         => queue[i].msg[2] < queue[j].msg[2]

\* The inductive invariant.
StreamInv == DataInv /\ OrderInv /\ StreamIntegrity

\* A whole message behind those of its thread keeps the stream in order.
LEMMA JoinMessage ==
    ASSUME NEW s \in Seq(Unit), NEW m \in Messages, Whole(s), Ordered(s), After(m, s)
    PROVE  /\ Whole(s \o Units(m)) /\ Ordered(s \o Units(m))
           /\ \A i \in 1..Len(s \o Units(m)) :
                \/ i \in 1..Len(s) /\ (s \o Units(m))[i] = s[i]
                \/ (s \o Units(m))[i][1] = m[1] /\ (s \o Units(m))[i][2] = m[2]
<1> DEFINE u == s \o Units(m)
           n == Len(s)
<1>1. n \in Nat /\ MsgLen \in Nat
  BY ConnectionAssumption
<1>2. /\ Len(u) = n + MsgLen
      /\ \A i \in 1..(n + MsgLen) : u[i] = IF i <= n THEN s[i] ELSE Units(m)[i - n]
  <2>1. PICK t \in Seq(Unit) : t = Units(m) /\ Len(t) = MsgLen
    BY UnitsSeq
  <2>2. /\ Len(s \o t) = Len(s) + Len(t)
        /\ \A i \in 1..(Len(s) + Len(t)) : (s \o t)[i] = IF i <= Len(s) THEN s[i] ELSE t[i - Len(s)]
    BY ConcatProperties
  <2> QED
    BY <2>1, <2>2
<1>3. \A i \in 1..n : u[i] = s[i] /\ i \in 1..Len(u)
  BY <1>1, <1>2
<1>4. ASSUME NEW i \in 1..Len(u), i > n
      PROVE  i - n \in 1..MsgLen /\ u[i] = <<m[1], m[2], i - n>>
  <2>1. i - n \in 1..MsgLen /\ u[i] = Units(m)[i - n]
    BY <1>1, <1>2, <1>4
  <2> QED
    BY <2>1, UnitsSeq
<1>5. \A i \in 1..n : s[i][2] \in Nat /\ s[i][3] \in Nat
  <2>1. \A i \in 1..n : s[i] \in Unit
    OBVIOUS
  <2> QED
    BY <2>1 DEF Unit
<1> HIDE DEF u, n
<1>6. \A i \in 1..Len(u) : i \in 1..n \/ i > n
  BY <1>1, <1>2
<1>7. Whole(u)
  <2> SUFFICES ASSUME NEW i \in 1..Len(u), u[i][3] > 1
               PROVE  i > 1 /\ u[i-1] = <<u[i][1], u[i][2], u[i][3] - 1>>
    BY DEF Whole
  <2>1. CASE i \in 1..n
    <3>1. i > 1 /\ s[i-1] = <<s[i][1], s[i][2], s[i][3] - 1>>
      BY <1>3, <2>1 DEF Whole, n
    <3>2. i - 1 \in 1..n
      BY <1>1, <2>1, <3>1
    <3> QED
      BY <1>3, <2>1, <3>1, <3>2
  <2>2. CASE i > n
    <3>1. u[i] = <<m[1], m[2], i - n>> /\ i - n > 1
      BY <1>4, <2>2
    <3>2. i - 1 \in 1..Len(u) /\ i - 1 > n /\ i > 1
      BY <1>1, <1>2, <2>2, <3>1
    <3>3. u[i-1] = <<m[1], m[2], (i - 1) - n>>
      BY <1>4, <3>2
    <3>4. (i - 1) - n = (i - n) - 1
      BY <1>1, <1>2
    <3> QED
      BY <3>1, <3>2, <3>3, <3>4
  <2> QED
    BY <1>6, <2>1, <2>2
<1>8. Ordered(u)
  <2> SUFFICES ASSUME NEW i \in 1..Len(u), NEW j \in 1..Len(u), i < j,
                      u[i][1] = u[j][1]
               PROVE  u[i][2] < u[j][2] \/ (u[i][2] = u[j][2] /\ u[i][3] < u[j][3])
    BY DEF Ordered
  <2>1. CASE j \in 1..n
    <3>1. i \in 1..n
      BY <1>1, <1>2, <2>1
    <3> QED
      BY <1>3, <2>1, <3>1 DEF Ordered, n
  <2>2. CASE i \in 1..n /\ j > n
    <3>1. u[i] = s[i] /\ u[j][1] = m[1] /\ u[j][2] = m[2]
      BY <1>3, <1>4, <2>2
    <3>2. i \in 1..Len(s) /\ s[i][1] = m[1]
      BY <2>2, <3>1 DEF n
    <3>3. s[i][2] < m[2]
      BY <3>2 DEF After
    <3>4. u[i][2] < u[j][2]
      BY <3>1, <3>3
    <3> QED
      BY <3>4
  <2>3. CASE i > n /\ j > n
    <3>1. u[i] = <<m[1], m[2], i - n>> /\ u[j] = <<m[1], m[2], j - n>>
      BY <1>4, <2>3
    <3>2. i - n < j - n
      BY <1>1, <1>2
    <3> QED
      BY <3>1, <3>2
  <2> QED
    BY <1>6, <2>1, <2>2, <2>3
<1>9. ASSUME NEW i \in 1..Len(u)
      PROVE  (i \in 1..n /\ u[i] = s[i]) \/ (u[i][1] = m[1] /\ u[i][2] = m[2])
  <2>1. CASE i \in 1..n
    <3>1. u[i] = s[i]
      BY <1>3, <2>1
    <3> QED
      BY <2>1, <3>1
  <2>2. CASE i > n
    BY <1>4, <2>2
  <2> QED
    BY <1>6, <2>1, <2>2
<1> QED
  BY <1>7, <1>8, <1>9 DEF u, n

\* The sends of r are sends of q, d places further on there.
FromQueue(r, q, d) ==
    \A i \in 1..Len(r) :
        r[i].op = "send" => i + d \in 1..Len(q) /\ r[i] = q[i + d]

\* What a step must do to the stream and to the messages that are on their
\* way to keep them in order: it drops or keeps queued sends, and it leaves
\* the stream alone or puts a message behind it that comes after those of its
\* thread there and before those of its thread in the queue.
LEMMA OrderKept ==
    ASSUME StreamInv, NEW d \in {0, 1}, FromQueue(queue', queue, d),
           Len(queue) \in Nat, Len(queue') \in Nat,
           \A t \in Callers, k \in Nat :
               Counted(t, k, sent, tpc) => Counted(t, k, sent', tpc'),
           \/ stream' = stream
           \/ \E m \in Messages :
                /\ stream' = stream \o Units(m)
                /\ After(m, stream) /\ Counted(m[1], m[2], sent', tpc')
                /\ \A i \in 1..Len(queue) :
                     i > d /\ queue[i].op = "send" /\ queue[i].msg[1] = m[1] =>
                         m[2] < queue[i].msg[2]
    PROVE  OrderInv' /\ StreamIntegrity'
<1>1. stream \in Seq(Unit) /\ Whole(stream) /\ Ordered(stream)
  <2>1. stream \in Seq(Unit)
    BY ConcatProperties DEF StreamInv, DataInv, TypeOK, stream
  <2>2. StreamIntegrity
    BY DEF StreamInv
  <2>3. Whole(stream)
    BY <2>2 DEF StreamIntegrity, Whole
  <2>4. Ordered(stream)
    BY <2>2 DEF StreamIntegrity, Ordered
  <2> QED
    BY <2>1, <2>3, <2>4
<1>2. \A i \in 1..Len(stream) : stream[i][1] \in Callers /\ stream[i][2] \in Nat
  <2>1. \A i \in 1..Len(stream) : stream[i] \in Unit
    BY <1>1
  <2> QED
    BY <2>1 DEF Unit
<1>3. \A i \in 1..Len(queue) :
        queue[i].op = "send" => queue[i].msg[1] \in Callers /\ queue[i].msg[2] \in Nat
  <2>1. \A i \in 1..Len(queue) :
          queue[i].op = "send" => queue[i].msg \in Senders \X (1..MaxSends)
    BY DEF StreamInv, DataInv, MessageInv, QueueOK
  <2> QED
    BY <2>1 DEF Callers
<1>o. OrderInv
  BY DEF StreamInv
<1>4. /\ Whole(stream') /\ Ordered(stream')
      /\ \A i \in 1..Len(stream') : Counted(stream'[i][1], stream'[i][2], sent', tpc')
      /\ \A i \in 1..Len(queue) :
           i > d /\ queue[i].op = "send" => After(queue[i].msg, stream')
  <2>1. CASE stream' = stream
    BY <1>1, <1>2, <1>o, <2>1 DEF OrderInv
  <2>2. ASSUME NEW m \in Messages, stream' = stream \o Units(m), After(m, stream),
               Counted(m[1], m[2], sent', tpc'),
               \A i \in 1..Len(queue) :
                     i > d /\ queue[i].op = "send" /\ queue[i].msg[1] = m[1] =>
                         m[2] < queue[i].msg[2]
        PROVE  <1>4!:
    <3>1. /\ Whole(stream') /\ Ordered(stream')
          /\ \A i \in 1..Len(stream') :
               \/ i \in 1..Len(stream) /\ stream'[i] = stream[i]
               \/ stream'[i][1] = m[1] /\ stream'[i][2] = m[2]
      BY <1>1, <2>2, JoinMessage
    <3>2. ASSUME NEW i \in 1..Len(stream')
          PROVE  Counted(stream'[i][1], stream'[i][2], sent', tpc')
      <4>1. CASE i \in 1..Len(stream) /\ stream'[i] = stream[i]
        BY <1>2, <1>o, <4>1 DEF OrderInv
      <4>2. CASE stream'[i][1] = m[1] /\ stream'[i][2] = m[2]
        BY <2>2, <4>2
      <4> QED
        BY <3>1, <4>1, <4>2
    <3>3. ASSUME NEW i \in 1..Len(queue), i > d, queue[i].op = "send"
          PROVE  After(queue[i].msg, stream')
      <4>1. After(queue[i].msg, stream)
        BY <1>o, <3>3 DEF OrderInv
      <4>2. queue[i].msg[1] = m[1] => m[2] < queue[i].msg[2]
        BY <2>2, <3>3
      <4> QED
        BY <3>1, <4>1, <4>2 DEF After
    <3> QED
      BY <3>1, <3>2, <3>3
  <2> QED
    BY <2>1, <2>2
<1>5. \A i \in 1..Len(queue') :
        queue'[i].op = "send" => /\ i + d \in 1..Len(queue) /\ i + d > d
                                 /\ queue'[i] = queue[i + d]
  BY DEF FromQueue
<1>6. ASSUME NEW i \in 1..Len(queue'), queue'[i].op = "send"
      PROVE  /\ Counted(queue'[i].msg[1], queue'[i].msg[2], sent', tpc')
             /\ After(queue'[i].msg, stream')
  <2>1. i + d \in 1..Len(queue) /\ i + d > d /\ queue'[i] = queue[i + d]
    BY <1>5, <1>6
  <2>2. Counted(queue'[i].msg[1], queue'[i].msg[2], sent, tpc)
    BY <1>o, <1>6, <2>1 DEF OrderInv
  <2>3. queue'[i].msg[1] \in Callers /\ queue'[i].msg[2] \in Nat
    BY <1>3, <1>6, <2>1
  <2>4. After(queue'[i].msg, stream')
    BY <1>4, <1>6, <2>1
  <2> QED
    BY <2>2, <2>3, <2>4
<1>7. ASSUME NEW i \in 1..Len(queue'), NEW j \in 1..Len(queue'), i < j,
             queue'[i].op = "send", queue'[j].op = "send",
             queue'[i].msg[1] = queue'[j].msg[1]
      PROVE  queue'[i].msg[2] < queue'[j].msg[2]
  <2>1. /\ i + d \in 1..Len(queue) /\ queue'[i] = queue[i + d]
        /\ j + d \in 1..Len(queue) /\ queue'[j] = queue[j + d]
    BY <1>5, <1>7
  <2>2. i + d < j + d
    BY <1>7
  <2> QED
    BY <1>o, <1>7, <2>1, <2>2 DEF OrderInv
<1>8. OrderInv'
  BY <1>4, <1>6, <1>7 DEF OrderInv
<1>9. StreamIntegrity'
  <2> HIDE DEF stream
  <2> QED
    BY <1>4 DEF StreamIntegrity, Whole, Ordered
<1> QED
  BY <1>8, <1>9

\* What the steps do to the queue moves no send to another place.
LEMMA QueueMoves ==
    ASSUME NEW q, QueueOK(q)
    PROVE  /\ FromQueue(q, q, 0)
           /\ \A r : Extends(r, q) => FromQueue(r, q, 0)
           /\ \A f \in FunctorType : f.op # "send" => FromQueue(Append(q, f), q, 0)
           /\ Len(q) > 0 => /\ FromQueue(Tail(q), q, 1)
                            /\ \A r : Extends(r, Tail(q)) => FromQueue(r, q, 1)
<1>1. q \in Seq(FunctorType) /\ Len(q) \in Nat
  BY DEF QueueOK
<1>2. FromQueue(q, q, 0)
  BY <1>1 DEF FromQueue
<1>3. ASSUME NEW p \in Seq(FunctorType), NEW r, Extends(r, p)
      PROVE  FromQueue(r, p, 0)
  <2>1. Len(p) \in Nat /\ Len(r) \in Nat
    BY <1>3 DEF Extends
  <2>2. ASSUME NEW i \in 1..Len(r), r[i].op = "send"
        PROVE  i \in 1..Len(p) /\ r[i] = p[i]
    <3>1. ~(i > Len(p))
      BY <1>3, <2>2 DEF Extends
    <3>2. i \in 1..Len(p)
      BY <2>1, <3>1
    <3> QED
      BY <1>3, <3>2 DEF Extends
  <2> QED
    BY <2>1, <2>2 DEF FromQueue
<1>4. ASSUME NEW f \in FunctorType, f.op # "send"
      PROVE  FromQueue(Append(q, f), q, 0)
  <2>1. /\ Len(Append(q, f)) = Len(q) + 1
        /\ \A i \in 1..Len(q) : Append(q, f)[i] = q[i]
        /\ Append(q, f)[Len(q) + 1] = f
    BY <1>1, AppendProperties
  <2>2. ASSUME NEW i \in 1..(Len(q) + 1), Append(q, f)[i].op = "send"
        PROVE  i \in 1..Len(q) /\ i + 0 = i
    BY <1>1, <1>4, <2>1, <2>2
  <2> QED
    BY <2>1, <2>2 DEF FromQueue
<1>5. ASSUME Len(q) > 0
      PROVE  /\ FromQueue(Tail(q), q, 1)
             /\ \A r : Extends(r, Tail(q)) => FromQueue(r, q, 1)
  <2>1. /\ Tail(q) \in Seq(FunctorType) /\ Len(Tail(q)) = Len(q) - 1
        /\ \A i \in 1..Len(Tail(q)) : Tail(q)[i] = q[i + 1]
    BY <1>1, <1>5, HeadTailProperties
  <2>2. \A i \in 1..Len(Tail(q)) : i + 1 \in 1..Len(q) /\ i + 0 = i
    BY <1>1, <2>1
  <2>3. FromQueue(Tail(q), q, 1)
    BY <2>1, <2>2 DEF FromQueue
  <2>4. ASSUME NEW r, Extends(r, Tail(q))
        PROVE  FromQueue(r, q, 1)
    <3>1. FromQueue(r, Tail(q), 0)
      BY <1>3, <2>1, <2>4
    <3> QED
      BY <2>1, <2>2, <3>1 DEF FromQueue
  <2> QED
    BY <2>3, <2>4
<1> QED
  BY <1>1, <1>2, <1>3, <1>4, <1>5

\* A new connection has sent nothing.
LEMMA InitStream == Init => StreamInv
<1> SUFFICES ASSUME Init PROVE StreamInv
  OBVIOUS
<1>1. DataInv
  BY InitData
<1>2. stream = <<>>
  BY DEF Init, stream
<1>3. Functor("established").op = "established"
  BY DEF Functor
<1>4. Len(queue) = 1 /\ queue[1].op = "established"
  BY <1>3 DEF Init
<1>5. Len(stream) = 0
  BY <1>2
<1>6. OrderInv
  <2> HIDE DEF stream
  <2> QED
    BY <1>4, <1>5 DEF OrderInv
<1>7. StreamIntegrity
  <2> HIDE DEF stream
  <2> QED
    BY <1>5 DEF StreamIntegrity
<1> QED
  BY <1>1, <1>6, <1>7 DEF StreamInv

\* Every step keeps the messages in order.
LEMMA NextStream == StreamInv /\ [Next]_vars => StreamInv'
<1> SUFFICES ASSUME StreamInv, [Next]_vars PROVE StreamInv'
  OBVIOUS
<1>d. DataInv'
  BY NextData DEF StreamInv
<1> SUFFICES OrderInv' /\ StreamIntegrity'
  BY <1>d DEF StreamInv
<1>0. /\ QueueOK(queue) /\ Len(queue) \in Nat
      /\ QueueOK(queue') /\ Len(queue') \in Nat
  BY <1>d DEF StreamInv, DataInv, MessageInv, QueueOK
<1>t. /\ TypeOK /\ ChannelConsistent /\ OrderInv
      /\ sent \in [Callers -> 0..MaxSends] /\ MaxSends \in Nat
      /\ tpc \in [Senders -> {"idle", "send", "shutdown", "queue"}]
      /\ Senders \subseteq Callers /\ LoopThread \in Callers /\ LoopThread \notin Senders
      /\ batch \in 0..Len(queue)
  BY ConnectionAssumption DEF StreamInv, DataInv, TypeOK, Callers
<1>s. ASSUME NEW d \in {0, 1}, FromQueue(queue', queue, d), UNCHANGED <<wire, out>>,
             \A t \in Callers, k \in Nat :
                 Counted(t, k, sent, tpc) => Counted(t, k, sent', tpc')
      PROVE  OrderInv' /\ StreamIntegrity'
  <2>1. stream' = stream
    BY <1>s DEF stream
  <2> QED
    BY <1>0, <1>s, <2>1, OrderKept
<1>c. UNCHANGED <<sent, tpc>> => \A t \in Callers, k \in Nat :
                 Counted(t, k, sent, tpc) => Counted(t, k, sent', tpc')
  OBVIOUS
<1>1. CASE UNCHANGED <<queue, wire, out, sent, tpc>>
  <2>1. FromQueue(queue', queue, 0)
    BY <1>0, <1>1, QueueMoves
  <2> QED
    BY <1>1, <1>c, <1>s, <2>1
<1>2. CASE UNCHANGED <<wire, out, sent, tpc>> /\ \E f \in FunctorType :
             f.op # "send" /\ queue' = Append(queue, f)
  <2>1. FromQueue(queue', queue, 0)
    BY <1>0, <1>2, QueueMoves
  <2> QED
    BY <1>2, <1>c, <1>s, <2>1
<1>3. CASE UNCHANGED <<wire, out, sent, tpc>> /\ batch > 0 /\ queue' = Tail(queue)
  <2>1. FromQueue(queue', queue, 1)
    BY <1>0, <1>t, <1>3, QueueMoves
  <2> QED
    BY <1>3, <1>c, <1>s, <2>1
<1>4. CASE WriteEvent
  <2>1. Extends(queue', queue) /\ stream' = stream
    BY <1>t, <1>4, WriteEffect
  <2>2. FromQueue(queue', queue, 0)
    BY <1>0, <2>1, QueueMoves
  <2>3. UNCHANGED <<sent, tpc>>
    BY <1>4 DEF WriteEvent, callVars
  <2> QED
    BY <1>0, <1>c, <2>1, <2>2, <2>3, OrderKept
<1>5. CASE RunSend
  <2>1. /\ queue[1].op = "send" /\ Head(queue) = queue[1] /\ 1 \in 1..Len(queue)
        /\ QueueOK(Tail(queue)) /\ Len(queue) > 0
    BY <1>0, <1>t, <1>5, QueueTail DEF RunSend, Run
  <2>2. PICK m \in Senders \X (1..MaxSends) : m = queue[1].msg
    BY <1>0, <2>1 DEF QueueOK
  <2>3. PICK q \in Seq(FunctorType) : q = Tail(queue)
    BY <2>1 DEF QueueOK
  <2>4. m \in Messages /\ SendInLoop(m, q)
    BY <1>5, <1>t, <2>1, <2>2, <2>3 DEF RunSend, Messages
  <2>5. Extends(queue', q) /\ stream' \in {stream, stream \o Units(m)}
    BY <1>t, <2>4, SendEffect
  <2>6. FromQueue(queue', queue, 1)
    BY <1>0, <2>1, <2>3, <2>5, QueueMoves
  <2>7. UNCHANGED <<sent, tpc>>
    BY <1>5 DEF RunSend, callVars
  <2>8. After(m, stream) /\ Counted(m[1], m[2], sent, tpc)
    BY <1>t, <2>1, <2>2 DEF OrderInv
  <2>9. Counted(m[1], m[2], sent', tpc')
    BY <2>7, <2>8
  <2>10. ASSUME NEW i \in 1..Len(queue), i > 1, queue[i].op = "send",
                queue[i].msg[1] = m[1]
         PROVE  m[2] < queue[i].msg[2]
    BY <1>t, <2>1, <2>2, <2>10 DEF OrderInv
  <2>11. \/ stream' = stream
         \/ \E n \in Messages :
                /\ stream' = stream \o Units(n)
                /\ After(n, stream) /\ Counted(n[1], n[2], sent', tpc')
                /\ \A i \in 1..Len(queue) :
                     i > 1 /\ queue[i].op = "send" /\ queue[i].msg[1] = n[1] =>
                         n[2] < queue[i].msg[2]
    BY <2>4, <2>5, <2>8, <2>9, <2>10
  <2> QED
    BY <1>0, <1>c, <2>6, <2>7, <2>11, OrderKept
<1>6. CASE LoopSend
  <2>1. /\ sent[LoopThread] < MaxLoopSends /\ UNCHANGED tpc
        /\ sent' = [sent EXCEPT ![LoopThread] = @ + 1]
    BY <1>6 DEF LoopSend
  <2>2. sent'[LoopThread] = sent[LoopThread] + 1 /\ sent'[LoopThread] \in 1..MaxSends
    BY <1>t, <2>1, ConnectionAssumption
  <2>3. PICK k \in 1..MaxSends : k = sent'[LoopThread]
    BY <2>2
  <2>4. PICK m \in Messages : m = <<LoopThread, k>>
    BY <1>t DEF Messages
  <2>5. SendInLoop(m, queue) /\ queue \in Seq(FunctorType)
    BY <1>0, <1>6, <2>3, <2>4 DEF LoopSend, QueueOK
  <2>6. Extends(queue', queue) /\ stream' \in {stream, stream \o Units(m)}
    BY <1>t, <2>5, SendEffect
  <2>7. FromQueue(queue', queue, 0)
    BY <1>0, <2>6, QueueMoves
  <2>8. ASSUME NEW t \in Callers, NEW n \in Nat, Counted(t, n, sent, tpc)
        PROVE  Counted(t, n, sent', tpc')
    BY <1>t, <2>1, <2>2, <2>8 DEF Counted
  <2>9. After(m, stream)
    <3>1. ASSUME NEW i \in 1..Len(stream), stream[i][1] = LoopThread
          PROVE  stream[i][2] < k
      <4>1. stream[i] \in Unit
        <5>1. stream \in Seq(Unit)
          BY <1>t, ConcatProperties DEF TypeOK, stream
        <5> HIDE DEF stream
        <5> QED
          BY <5>1
      <4>2. Counted(LoopThread, stream[i][2], sent, tpc)
        BY <1>t, <3>1 DEF OrderInv
      <4>3. stream[i][2] \in Nat
        BY <4>1 DEF Unit
      <4> HIDE DEF stream
      <4>4. stream[i][2] <= sent[LoopThread]
        BY <4>2 DEF Counted
      <4>5. sent[LoopThread] \in Nat
        BY <1>t
      <4> QED
        BY <2>2, <2>3, <4>3, <4>4, <4>5
    <3> QED
      BY <2>4, <3>1 DEF After
  <2>10. Counted(m[1], m[2], sent', tpc')
    BY <1>t, <2>2, <2>3, <2>4 DEF Counted
  <2>11. \A i \in 1..Len(queue) : queue[i].op = "send" => queue[i].msg[1] # m[1]
    BY <1>0, <1>t, <2>4 DEF QueueOK
  <2>12. \/ stream' = stream
         \/ \E n \in Messages :
                /\ stream' = stream \o Units(n)
                /\ After(n, stream) /\ Counted(n[1], n[2], sent', tpc')
                /\ \A i \in 1..Len(queue) :
                     i > 0 /\ queue[i].op = "send" /\ queue[i].msg[1] = n[1] =>
                         n[2] < queue[i].msg[2]
    BY <2>6, <2>9, <2>10, <2>11
  <2> QED
    BY <1>0, <2>7, <2>8, <2>12, OrderKept
<1>7. ASSUME NEW t \in Senders, SendCheck(t)
      PROVE  OrderInv' /\ StreamIntegrity'
  <2>1. /\ UNCHANGED <<queue, out, wire>> /\ tpc[t] = "idle"
        /\ sent' = [sent EXCEPT ![t] = @ + 1] /\ tpc' = [tpc EXCEPT ![t] = "send"]
    BY <1>7 DEF SendCheck, threadUnchanged, sockVars
  <2>2. ASSUME NEW c \in Callers, NEW n \in Nat, Counted(c, n, sent, tpc)
        PROVE  Counted(c, n, sent', tpc')
    <3>1. CASE c = t
      BY <1>t, <2>1, <2>2, <3>1 DEF Counted
    <3>2. CASE c # t
      BY <1>t, <2>1, <2>2, <3>2 DEF Counted
    <3> QED
      BY <3>1, <3>2
  <2>3. FromQueue(queue', queue, 0)
    BY <1>0, <2>1, QueueMoves
  <2> QED
    BY <1>s, <2>1, <2>2, <2>3
<1>8. ASSUME NEW t \in Senders, tpc[t] # "send", UNCHANGED <<wire, out, sent>>,
             NEW pc \in {"idle", "shutdown", "queue"}, tpc' = [tpc EXCEPT ![t] = pc],
             NEW f \in FunctorType, f.op # "send",
             queue' = queue \/ queue' = Append(queue, f)
      PROVE  OrderInv' /\ StreamIntegrity'
  <2>1. FromQueue(queue', queue, 0)
    BY <1>0, <1>8, QueueMoves
  <2>2. ASSUME NEW c \in Callers, NEW n \in Nat, Counted(c, n, sent, tpc)
        PROVE  Counted(c, n, sent', tpc')
    BY <1>t, <1>8, <2>2 DEF Counted
  <2> QED
    BY <1>s, <1>8, <2>1, <2>2
<1>9. ASSUME NEW t \in Senders, SendQueue(t)
      PROVE  OrderInv' /\ StreamIntegrity'
  <2>1. PICK m \in Senders \X (1..MaxSends) : m = <<t, sent[t]>>
    BY <1>9 DEF SendQueue, StreamInv, DataInv, MessageInv
  <2>2. PICK f \in FunctorType : f = SendFunctor(m)
    BY <1>t DEF SendFunctor, FunctorType, FunctorOps, Messages
  <2>3. f.op = "send" /\ f.msg = m /\ m[1] = t /\ m[2] = sent[t] /\ m[2] \in Nat
    BY <2>1, <2>2 DEF SendFunctor
  <2>4. /\ queue' = Append(queue, f) /\ tpc' = [tpc EXCEPT ![t] = "idle"]
        /\ tpc[t] = "send" /\ UNCHANGED <<sent, stream>>
    BY <1>9, <2>1, <2>2 DEF SendQueue, threadUnchanged, sockVars, stream
  <2> HIDE DEF stream
  <2>5. /\ Len(queue') = Len(queue) + 1
        /\ \A i \in 1..Len(queue) : queue'[i] = queue[i]
        /\ queue'[Len(queue) + 1] = f
    BY <1>0, <2>4, AppendProperties DEF QueueOK
  <2>6. ASSUME NEW c \in Callers, NEW n \in Nat, Counted(c, n, sent, tpc)
        PROVE  Counted(c, n, sent', tpc') /\ (c = t => n < m[2])
    <3>1. Counted(c, n, sent', tpc')
      BY <1>t, <2>4, <2>6 DEF Counted
    <3>2. c = t => n < m[2]
      BY <2>3, <2>4, <2>6 DEF Counted
    <3> QED
      BY <3>1, <3>2
  <2>7. \A i \in 1..Len(stream) : stream[i][1] \in Callers /\ stream[i][2] \in Nat
    <3>1. stream \in Seq(Unit)
      BY <1>t, ConcatProperties DEF TypeOK, stream
    <3>2. \A i \in 1..Len(stream) : stream[i] \in Unit
      BY <3>1
    <3> QED
      BY <3>2 DEF Unit
  <2>8. \A i \in 1..Len(queue) : queue[i].op = "send" =>
            queue[i].msg[1] \in Callers /\ queue[i].msg[2] \in Nat
    BY <1>0, <1>t DEF QueueOK
  <2>9. \A i \in 1..Len(stream) : /\ Counted(stream[i][1], stream[i][2], sent', tpc')
                                  /\ stream[i][1] = t => stream[i][2] < m[2]
    BY <1>t, <2>6, <2>7 DEF OrderInv
  <2>10. \A i \in 1..Len(queue) : queue[i].op = "send" =>
            /\ Counted(queue[i].msg[1], queue[i].msg[2], sent', tpc')
            /\ queue[i].msg[1] = t => queue[i].msg[2] < m[2]
    BY <1>t, <2>6, <2>8 DEF OrderInv
  <2>11. After(m, stream)
    BY <2>3, <2>9 DEF After
  <2>12. Counted(m[1], m[2], sent', tpc')
    BY <1>t, <2>3, <2>4 DEF Counted
  <2>13. ASSUME NEW i \in 1..Len(queue'), queue'[i].op = "send"
         PROVE  /\ Counted(queue'[i].msg[1], queue'[i].msg[2], sent', tpc')
                /\ After(queue'[i].msg, stream)
    <3>1. CASE i \in 1..Len(queue)
      BY <1>t, <2>5, <2>10, <2>13, <3>1 DEF OrderInv
    <3>2. CASE i = Len(queue) + 1
      BY <2>3, <2>5, <2>11, <2>12, <3>2
    <3> QED
      BY <1>0, <2>5, <3>1, <3>2
  <2>14. ASSUME NEW i \in 1..Len(queue'), NEW j \in 1..Len(queue'), i < j,
                queue'[i].op = "send", queue'[j].op = "send",
                queue'[i].msg[1] = queue'[j].msg[1]
         PROVE  queue'[i].msg[2] < queue'[j].msg[2]
    <3>1. CASE j \in 1..Len(queue)
      <4>1. i \in 1..Len(queue)
        BY <1>0, <2>14, <3>1
      <4> QED
        BY <1>t, <2>5, <2>14, <3>1, <4>1 DEF OrderInv
    <3>2. CASE j = Len(queue) + 1
      <4>1. i \in 1..Len(queue)
        BY <1>0, <2>5, <2>14, <3>2
      <4> QED
        BY <2>3, <2>5, <2>10, <2>14, <3>2, <4>1
    <3> QED
      BY <1>0, <2>5, <3>1, <3>2
  <2>15. OrderInv'
    BY <2>4, <2>9, <2>13, <2>14 DEF OrderInv
  <2>16. StreamIntegrity'
    BY <2>4, SMTT(20) DEF StreamInv, StreamIntegrity
  <2> QED
    BY <2>15, <2>16
<1> USE DEF loopVars, sockVars, peerVars, serverVars, callVars
<1>10. CASE Poll \/ CloseEvent \/ ErrorEvent \/ ReadData \/ ReadFails \/ ReadEnd
  BY <1>1, <1>10 DEF Poll, CloseEvent, ErrorEvent, ReadData, ReadFails, ReadEnd
<1>11. CASE SwapFunctors \/ BatchDone \/ CallbackReturns \/ DestroyConnected \/ LoopShutdown
  BY <1>1, <1>11 DEF SwapFunctors, BatchDone, CallbackReturns, DestroyConnected, LoopShutdown
<1>12. CASE PeerSends \/ PeerReads \/ PeerCloses \/ PeerResets
  BY <1>1, <1>12 DEF PeerSends, PeerReads, PeerCloses, PeerResets
<1>13. CASE ConnectEstablished \/ RunShutdown \/ RunCallback \/ DestroyCheck
  BY <1>3, <1>13 DEF ConnectEstablished, RunShutdown, RunCallback, DestroyCheck, Run
<1>14. CASE RemoveConnectionInLoop \/ ServerDestroyed
  <2>1. PICK f \in FunctorType : f = Functor("destroyed") /\ f.op # "send"
    BY FunctorTypes DEF FunctorOps
  <2> QED
    BY <1>1, <1>2, <1>14, <2>1 DEF RemoveConnectionInLoop, ServerDestroyed
<1>15. ASSUME NEW t \in Senders, ThreadStep(t) \/ ShutdownCheck(t)
       PROVE  OrderInv' /\ StreamIntegrity'
  <2>1. PICK f \in FunctorType : f = Functor("shutdown") /\ f.op # "send"
    BY FunctorTypes DEF FunctorOps
  <2>2. CASE SendQueue(t)
    BY <1>9, <2>2
  <2>3. CASE ShutdownSet(t)
    BY <1>8, <2>1, <2>3 DEF ShutdownSet, threadUnchanged
  <2>4. CASE ShutdownQueue(t)
    BY <1>8, <2>1, <2>4 DEF ShutdownQueue, threadUnchanged
  <2>5. CASE ShutdownCheck(t)
    BY <1>8, <2>1, <2>5 DEF ShutdownCheck, threadUnchanged
  <2> QED
    BY <1>15, <2>2, <2>3, <2>4, <2>5 DEF ThreadStep
<1>16. CASE UNCHANGED vars
  BY <1>1, <1>16 DEF vars
<1> QED
  BY <1>4, <1>5, <1>6, <1>7, <1>10, <1>11, <1>12, <1>13, <1>14, <1>15, <1>16,
     ConnectionAssumption DEF Next, LoopStep

\* The byte stream is what the callers sent, for any number of threads and
\* messages and any sizes of the messages and of the kernel's buffer
\* (SendInLoop, HandleWrite).
THEOREM StreamIntegrityCorrect == Spec => []StreamIntegrity
<1>1. StreamInv => StreamIntegrity
  BY DEF StreamInv
<1> QED
  BY <1>1, InitStream, NextStream, PTL DEF Spec

=============================================================================
