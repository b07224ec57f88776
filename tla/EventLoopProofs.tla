-------------------------- MODULE EventLoopProofs --------------------------
(***************************************************************************)
(* Proofs about EventLoop, for any set of threads and functors and any     *)
(* capacity of the eventfd counter.                                        *)
(***************************************************************************)
EXTENDS EventLoop, SequenceTheorems, TLAPS

-----------------------------------------------------------------------------
(* Facts about sequences                                                   *)

\* Appending to the second part of a concatenation.
LEMMA ConcatAppend ==
    ASSUME NEW S, NEW s \in Seq(S), NEW t \in Seq(S), NEW e \in S
    PROVE  s \o Append(t, e) = Append(s \o t, e)
<1>1. Append(t, e) = t \o <<e>> /\ Append(s \o t, e) = (s \o t) \o <<e>>
  BY AppendIsConcat, ConcatProperties
<1>2. <<e>> \in Seq(S)
  OBVIOUS
<1> QED
  BY <1>1, <1>2, ConcatAssociative

\* Taking the head off the first part of a concatenation.
LEMMA ConcatHeadTail ==
    ASSUME NEW S, NEW s \in Seq(S), NEW t \in Seq(S), s # <<>>
    PROVE  /\ s \o t # <<>>
           /\ Head(s \o t) = Head(s)
           /\ Tail(s \o t) = Tail(s) \o t
  OBVIOUS

-----------------------------------------------------------------------------
(* The inductive invariant                                                 *)

\* The local vector of functors is empty unless a batch runs.
BatchInv == functors # <<>> => lpc \in {"run", "functor"}

\* Outside the stretch between epoll_wait and the swap, pending functors are
\* announced.  (On that stretch they need not be: the swap takes them.)
WakeInv ==
    lpc \notin {"handle", "callback"} =>
        Signalled \/ \A i \in 1..Len(pending) : pending[i] \in early

IInv == TypeOK /\ BatchInv /\ WakeInv /\ QuitWakesPoll

\* The constructor establishes the invariant.
LEMMA InitIInv == Init => IInv
<1> SUFFICES ASSUME Init PROVE IInv
  OBVIOUS
<1>1. TypeOK
  <2>1. wakeup \in 0..WakeupMax
    BY WakeupMaxAssumption DEF Init
  <2>2. tpc \in [Threads -> {"idle", "wake"}]
    BY DEF Init
  <2>3. pending \in Seq(Functors) /\ functors \in Seq(Functors) /\ executed \in Seq(Functors)
    BY DEF Init
  <2> QED
    BY <2>1, <2>2, <2>3 DEF Init, TypeOK, LoopPC
<1>2. BatchInv /\ QuitWakesPoll
  BY DEF Init, BatchInv, QuitWakesPoll
<1>3. WakeInv
  BY DEF Init, WakeInv
<1> QED
  BY <1>1, <1>2, <1>3 DEF IInv

\* Wakeup leaves the eventfd readable, also when its counter is full.
LEMMA WakeupSignals ==
    ASSUME TypeOK, Wakeup
    PROVE  wakeup' \in 0..WakeupMax /\ wakeup' > 0
  BY WakeupMaxAssumption DEF TypeOK, Wakeup

\* Every step of every thread keeps the variables in their types, and the
\* flags of Loop() and DoPendingFunctors in line with the control.
LEMMA TypeStep == TypeOK /\ [Next]_vars => TypeOK'
<1> SUFFICES ASSUME TypeOK, [Next]_vars PROVE TypeOK'
  OBVIOUS
<1> USE DEF TypeOK, LoopPC
<1>1. ASSUME NEW t \in Threads, NEW f \in Functors, QueueFromThread(t, f)
      PROVE  TypeOK'
  BY <1>1 DEF QueueFromThread
<1>2. ASSUME NEW t \in Threads, QuitFromThread(t)
      PROVE  TypeOK'
  BY <1>2 DEF QuitFromThread
<1>3. ASSUME NEW t \in Threads, WakeupFromThread(t)
      PROVE  TypeOK'
  BY <1>3, WakeupSignals DEF WakeupFromThread
<1>4. ASSUME NEW f \in Functors, RunInOwner(f)
      PROVE  TypeOK'
  BY <1>4 DEF RunInOwner
<1>5. ASSUME NEW f \in Functors, QueueFromOwner(f)
      PROVE  TypeOK'
  BY <1>5, WakeupSignals DEF QueueFromOwner
<1>6. CASE QuitFromOwner
  BY <1>6 DEF QuitFromOwner
<1>7. CASE LoopEnter \/ LoopReset \/ LoopContinue \/ LoopExit
  <2>1. CASE LoopEnter
    BY <2>1 DEF LoopEnter
  <2>2. CASE LoopReset
    BY <2>2 DEF LoopReset
  <2>3. CASE LoopContinue
    BY <2>3 DEF LoopContinue
  <2>4. CASE LoopExit
    BY <2>4 DEF LoopExit
  <2> QED
    BY <1>7, <2>1, <2>2, <2>3, <2>4
<1>8. CASE PollWakeup \/ PollIO \/ PollTimeout
  BY <1>8 DEF PollWakeup, PollIO, PollTimeout, PollReturns
<1>9. CASE HandleWakeup
  BY <1>9, WakeupMaxAssumption DEF HandleWakeup
<1>10. CASE HandleIO \/ CallbackReturns
  <2>1. CASE HandleIO
    BY <2>1 DEF HandleIO
  <2>2. CASE CallbackReturns
    BY <2>2 DEF CallbackReturns
  <2> QED
    BY <1>10, <2>1, <2>2
<1>11. CASE SwapFunctors
  BY <1>11 DEF SwapFunctors
<1>12. CASE RunFunctor
  BY <1>12, HeadTailProperties, AppendProperties DEF RunFunctor
<1>13. CASE FunctorReturns \/ BatchDone
  <2>1. CASE FunctorReturns
    BY <2>1 DEF FunctorReturns
  <2>2. CASE BatchDone
    BY <2>2 DEF BatchDone
  <2> QED
    BY <1>13, <2>1, <2>2
<1>14. CASE UNCHANGED vars
  BY <1>14 DEF vars
<1> QED
  BY <1>1, <1>2, <1>3, <1>4, <1>5, <1>6, <1>7, <1>8, <1>9, <1>10, <1>11,
     <1>12, <1>13, <1>14
     DEF Next, ThreadStep, OwnerCall, LoopStep

\* A step of another thread never takes away a wakeup that is under way.
LEMMA ThreadKeepsSignal ==
    ASSUME TypeOK, NEW t \in Threads,
           \/ \E f \in Functors : QueueFromThread(t, f)
           \/ QuitFromThread(t)
           \/ WakeupFromThread(t)
    PROVE  Signalled'
<1>1. CASE \E f \in Functors : QueueFromThread(t, f)
  BY <1>1 DEF QueueFromThread, Signalled, TypeOK
<1>2. CASE QuitFromThread(t)
  BY <1>2 DEF QuitFromThread, Signalled, TypeOK
<1>3. CASE WakeupFromThread(t)
  BY <1>3, WakeupSignals DEF WakeupFromThread, Signalled
<1> QED
  BY <1>1, <1>2, <1>3

\* Every step keeps the local vector of DoPendingFunctors in line with the
\* control.
LEMMA BatchStep == TypeOK /\ BatchInv /\ [Next]_vars => BatchInv'
<1> SUFFICES ASSUME TypeOK, BatchInv, [Next]_vars PROVE BatchInv'
  OBVIOUS
<1> USE DEF BatchInv
<1>1. CASE ThreadStep
  BY <1>1 DEF ThreadStep, QueueFromThread, QuitFromThread, WakeupFromThread
<1>2. CASE OwnerCall
  BY <1>2 DEF OwnerCall, RunInOwner, QueueFromOwner, QuitFromOwner
<1>3. CASE LoopEnter \/ LoopReset \/ LoopContinue \/ LoopExit
  BY <1>3 DEF LoopEnter, LoopReset, LoopContinue, LoopExit
<1>4. CASE PollWakeup \/ PollIO \/ PollTimeout
  BY <1>4 DEF PollWakeup, PollIO, PollTimeout, PollReturns
<1>5. CASE HandleWakeup \/ HandleIO \/ CallbackReturns
  BY <1>5 DEF HandleWakeup, HandleIO, CallbackReturns
<1>6. CASE SwapFunctors
  BY <1>6 DEF SwapFunctors
<1>7. CASE RunFunctor \/ FunctorReturns
  BY <1>7 DEF RunFunctor, FunctorReturns
<1>8. CASE BatchDone
  BY <1>8 DEF BatchDone
<1>9. CASE UNCHANGED vars
  BY <1>9 DEF vars
<1> QED
  BY <1>1, <1>2, <1>3, <1>4, <1>5, <1>6, <1>7, <1>8, <1>9 DEF Next, LoopStep

\* Every step keeps pending functors announced.  The two steps that could
\* break it: QueueInLoop from a functor, which runs after the swap and so must
\* wake the loop itself (TypeOK: calling is set), and the read of the
\* eventfd, which the swap always follows.
LEMMA WakeStep == TypeOK /\ BatchInv /\ WakeInv /\ [Next]_vars => WakeInv'
<1> SUFFICES ASSUME TypeOK, BatchInv, WakeInv, [Next]_vars PROVE WakeInv'
  OBVIOUS
<1>1. CASE ThreadStep
  BY <1>1, ThreadKeepsSignal DEF ThreadStep, WakeInv
<1>2. ASSUME NEW f \in Functors, RunInOwner(f)
      PROVE  WakeInv'
  BY <1>2 DEF RunInOwner, WakeInv, Signalled
<1>3. ASSUME NEW f \in Functors, QueueFromOwner(f)
      PROVE  WakeInv'
  <2>1. CASE lpc = "functor"
    BY <2>1, <1>3, WakeupSignals DEF QueueFromOwner, TypeOK, WakeInv, Signalled
  <2>2. CASE lpc = "callback"
    BY <2>2, <1>3 DEF QueueFromOwner, WakeInv
  <2>3. CASE lpc = "outside"
    <3>1. wakeup' = wakeup /\ tpc' = tpc /\ early' = early \cup {f}
          /\ pending' = Append(pending, f)
      BY <2>3, <1>3 DEF QueueFromOwner, TypeOK
    <3>2. CASE Signalled
      BY <3>1, <3>2 DEF WakeInv, Signalled
    <3>3. CASE \A i \in 1..Len(pending) : pending[i] \in early
      <4>1. \A i \in 1..Len(pending') : pending'[i] \in early'
        BY <3>1, <3>3, AppendProperties DEF TypeOK
      <4> QED
        BY <4>1 DEF WakeInv
    <3> QED
      BY <2>3, <3>2, <3>3 DEF WakeInv
  <2> QED
    BY <1>3, <2>1, <2>2, <2>3 DEF QueueFromOwner, InUserCode
<1>4. CASE QuitFromOwner
  BY <1>4 DEF QuitFromOwner, WakeInv, Signalled
<1>5. CASE LoopEnter \/ LoopReset \/ LoopContinue \/ LoopExit
  BY <1>5 DEF LoopEnter, LoopReset, LoopContinue, LoopExit, WakeInv, Signalled
<1>6. CASE PollWakeup \/ PollIO \/ PollTimeout
  BY <1>6 DEF PollWakeup, PollIO, PollTimeout, PollReturns, WakeInv
<1>7. CASE HandleWakeup \/ HandleIO \/ CallbackReturns
  BY <1>7 DEF HandleWakeup, HandleIO, CallbackReturns, WakeInv
<1>8. CASE SwapFunctors
  BY <1>8 DEF SwapFunctors, WakeInv
<1>9. CASE RunFunctor \/ FunctorReturns \/ BatchDone
  BY <1>9 DEF RunFunctor, FunctorReturns, BatchDone, WakeInv, Signalled
<1>10. CASE UNCHANGED vars
  BY <1>10 DEF vars, WakeInv, Signalled
<1> QED
  BY <1>1, <1>2, <1>3, <1>4, <1>5, <1>6, <1>7, <1>8, <1>9, <1>10
     DEF Next, OwnerCall, LoopStep

\* Every step keeps a pending Quit() announced to a blocked loop.
LEMMA QuitStep == TypeOK /\ QuitWakesPoll /\ [Next]_vars => QuitWakesPoll'
<1> SUFFICES ASSUME TypeOK, QuitWakesPoll, [Next]_vars PROVE QuitWakesPoll'
  OBVIOUS
<1>1. CASE ThreadStep
  BY <1>1, ThreadKeepsSignal DEF ThreadStep, QuitWakesPoll
<1>2. CASE OwnerCall
  BY <1>2 DEF OwnerCall, RunInOwner, QueueFromOwner, QuitFromOwner, InUserCode,
              QuitWakesPoll
<1>3. CASE LoopEnter \/ LoopReset \/ LoopContinue \/ LoopExit
  BY <1>3 DEF LoopEnter, LoopReset, LoopContinue, LoopExit, QuitWakesPoll
<1>4. CASE PollWakeup \/ PollIO \/ PollTimeout
  BY <1>4 DEF PollWakeup, PollIO, PollTimeout, PollReturns, QuitWakesPoll
<1>5. CASE HandleWakeup \/ HandleIO \/ CallbackReturns
  BY <1>5 DEF HandleWakeup, HandleIO, CallbackReturns, QuitWakesPoll
<1>6. CASE SwapFunctors \/ RunFunctor \/ FunctorReturns \/ BatchDone
  BY <1>6 DEF SwapFunctors, RunFunctor, FunctorReturns, BatchDone, QuitWakesPoll
<1>7. CASE UNCHANGED vars
  BY <1>7 DEF vars, QuitWakesPoll, Signalled
<1> QED
  BY <1>1, <1>2, <1>3, <1>4, <1>5, <1>6, <1>7 DEF Next, LoopStep

\* The four parts together are inductive, so IInv holds in every state of a
\* loop that other threads queue on, quit and wake.
LEMMA Invariance == Spec => []IInv
<1>1. IInv /\ [Next]_vars => IInv'
  BY TypeStep, BatchStep, WakeStep, QuitStep DEF IInv
<1> QED
  BY InitIInv, <1>1, PTL DEF Spec

-----------------------------------------------------------------------------
(* The theorems                                                            *)

\* Every variable of the loop stays in its type, looping_ is set exactly
\* while Loop() runs, and calling_pending_functors_, on which QueueInLoop
\* relies, exactly while a batch of functors does.
THEOREM TypeCorrect == Spec => []TypeOK
<1>1. IInv => TypeOK
  BY DEF IInv
<1> QED
  BY Invariance, <1>1, PTL

\* However the calls of the other threads and of the owner's callbacks
\* interleave with Loop() and DoPendingFunctors, a loop blocked in epoll_wait
\* has a wakeup under way for every functor but those the owner queued before
\* entering Loop().
THEOREM WakeupNeverLost == Spec => []NoLostWakeup
<1>1. IInv => NoLostWakeup
  BY DEF IInv, WakeInv, NoLostWakeup
<1> QED
  BY Invariance, <1>1, PTL

\* A loop blocked in epoll_wait after Quit() was called on it is being woken.
THEOREM QuitNeverMissed == Spec => []QuitWakesPoll
<1>1. IInv => QuitWakesPoll
  BY DEF IInv
<1> QED
  BY Invariance, <1>1, PTL

\* One step of the loop is a step of TaskQueue or leaves its state alone.
LEMMA ContractStep ==
    IInv /\ [Next]_vars => [Contract!TQNext]_(Contract!tqVars)
<1> SUFFICES ASSUME IInv, [Next]_vars
             PROVE  Contract!TQNext \/ UNCHANGED Contract!tqVars
  OBVIOUS
<1> DEFINE same == functors' \o pending' = functors \o pending /\ executed' = executed
<1>0. /\ pending \in Seq(Functors) /\ functors \in Seq(Functors)
      /\ same => UNCHANGED Contract!tqVars
  BY DEF IInv, TypeOK, Contract!tqVars
<1>1. ASSUME NEW t \in Threads, NEW f \in Functors, QueueFromThread(t, f)
      PROVE  Contract!Enqueue(f)
  BY <1>0, <1>1, ConcatAppend DEF QueueFromThread, Contract!Enqueue
<1>2. ASSUME NEW f \in Functors, QueueFromOwner(f)
      PROVE  Contract!Enqueue(f)
  BY <1>0, <1>2, ConcatAppend DEF QueueFromOwner, Contract!Enqueue
<1>3. ASSUME NEW f \in Functors, RunInOwner(f)
      PROVE  Contract!RunNow(f)
  BY <1>3 DEF RunInOwner, Contract!RunNow
<1>4. CASE RunFunctor
  BY <1>0, <1>4, ConcatHeadTail DEF RunFunctor, Contract!TQNext, Contract!RunOldest
<1>5. CASE SwapFunctors
  <2>1. functors = <<>>
    BY <1>5 DEF SwapFunctors, IInv, BatchInv
  <2> QED
    BY <1>0, <1>5, <2>1, ConcatEmptySeq DEF SwapFunctors
<1>6. ASSUME NEW t \in Threads, QuitFromThread(t) \/ WakeupFromThread(t)
      PROVE  same
  BY <1>6 DEF QuitFromThread, WakeupFromThread
<1>7. CASE QuitFromOwner \/ LoopEnter \/ LoopReset \/ LoopContinue \/ LoopExit
  BY <1>0, <1>7 DEF QuitFromOwner, LoopEnter, LoopReset, LoopContinue, LoopExit
<1>8. CASE PollWakeup \/ PollIO \/ PollTimeout
  BY <1>0, <1>8 DEF PollWakeup, PollIO, PollTimeout, PollReturns
<1>9. CASE HandleWakeup \/ HandleIO \/ CallbackReturns \/ FunctorReturns \/ BatchDone
  BY <1>0, <1>9 DEF HandleWakeup, HandleIO, CallbackReturns, FunctorReturns, BatchDone
<1>10. CASE UNCHANGED vars
  BY <1>0, <1>10 DEF vars
<1> QED
  BY <1>0, <1>1, <1>2, <1>3, <1>4, <1>5, <1>6, <1>7, <1>8, <1>9, <1>10
     DEF Next, ThreadStep, OwnerCall, LoopStep, Contract!TQNext

\* The loop implements TaskQueue: every functor handed to it runs at most
\* once, queued ones in the order of the pushes, whatever batches
\* DoPendingFunctors makes of them.
THEOREM LoopImplementsTaskQueue == Spec => ImplementsTaskQueue
<1>1. Init => Contract!TQInit
  BY DEF Init, Contract!TQInit
<1> QED
  BY <1>1, ContractStep, Invariance, PTL
     DEF Spec, ImplementsTaskQueue, Contract!TQSpec

=============================================================================
