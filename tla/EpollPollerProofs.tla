------------------------- MODULE EpollPollerProofs -------------------------
(***************************************************************************)
(* Proofs about EpollPoller, for any set of channels and any conditions    *)
(* their fds can be in: the three views of a channel agree, and a channel  *)
(* in active_channels_ is registered.                                      *)
(***************************************************************************)
EXTENDS EpollPoller, ChannelProofs

-----------------------------------------------------------------------------
\* active_channels_ is empty outside the phase that handles it.
ActiveInPhase == phase # "handle" => active = {}

\* The inductive invariant.
IInv == TypeOK /\ AllViewsAgree /\ ActiveInPhase /\ ActiveStaysRegistered

\* The invariant holds when the poller has been constructed.
LEMMA InitIInv == Init => IInv
<1> SUFFICES ASSUME Init PROVE IInv
  OBVIOUS
<1>1. NewChannel \in ChannelState /\ ViewsAgree(NewChannel)
  BY DEF NewChannel, ChannelState, ViewsAgree, Interest, kNew, kAdded, kDeleted
<1> QED
  BY <1>1, PollerAssumption
     DEF Init, IInv, TypeOK, AllViewsAgree, ActiveInPhase, ActiveStaysRegistered

\* A step that replaces channel c by d keeps the channels' part of IInv.
LEMMA ReplaceChannel ==
    ASSUME TypeOK, AllViewsAgree, NEW c \in Channels, NEW d \in ChannelState,
           ViewsAgree(d), ch' = [ch EXCEPT ![c] = d]
    PROVE  ch' \in [Channels -> ChannelState] /\ AllViewsAgree'
BY DEF TypeOK, AllViewsAgree

\* Every step keeps it: polling, handling, the calls on channels, removal and
\* any change of an fd's condition.
LEMMA Invariance == IInv /\ [Next]_vars => IInv'
<1> SUFFICES ASSUME IInv, [Next]_vars PROVE IInv'
  OBVIOUS
<1> USE DEF IInv
<1>1. ASSUME NEW S \in SUBSET Channels, Poll(S) PROVE IInv'
  <2>1. \A c \in S : ch[c].mapped
    BY <1>1 DEF Poll, Reported, Revents, AllViewsAgree, ViewsAgree, kNew, kAdded
  <2>2. NextSize(Cardinality(S)) \in Nat \ {0}
    BY DEF NextSize, TypeOK
  <2>3. \A c \in Channels : Reported(c) \in SUBSET {"in", "out", "hup", "err"}
    BY PollerAssumption DEF Reported, Revents, TypeOK
  <2>4. revents' \in [Channels -> SUBSET {"in", "out", "hup", "err"}]
    BY <1>1, <2>3 DEF Poll, TypeOK
  <2> QED
    BY <1>1, <2>1, <2>2, <2>4
       DEF Poll, TypeOK, AllViewsAgree, ActiveInPhase, ActiveStaysRegistered
<1>2. ASSUME NEW c \in Channels, Handle(c) PROVE IInv'
  BY <1>2 DEF Handle, TypeOK, AllViewsAgree, ActiveInPhase, ActiveStaysRegistered
<1>3. CASE DoPendingFunctors
  BY <1>3 DEF DoPendingFunctors, TypeOK, AllViewsAgree, ActiveInPhase,
              ActiveStaysRegistered
<1>4. CASE NextIteration
  BY <1>4 DEF NextIteration, TypeOK, AllViewsAgree, ActiveInPhase,
              ActiveStaysRegistered
<1>5. ASSUME NEW c \in Channels, Update(c) PROVE IInv'
  <2>1. ch[c] \in ChannelState /\ ViewsAgree(ch[c])
    BY DEF TypeOK, AllViewsAgree
  <2>2. PICK d \in {EnableReading(ch[c]), DisableReading(ch[c]),
                    EnableWriting(ch[c]), DisableWriting(ch[c]),
                    DisableAll(ch[c])} : ch' = [ch EXCEPT ![c] = d]
    BY <1>5 DEF Update
  <2>3. d \in ChannelState /\ ViewsAgree(d) /\ d.mapped
    BY <2>1, <2>2, CallAgrees
  <2>4. ch' \in [Channels -> ChannelState] /\ AllViewsAgree'
    BY <2>2, <2>3, ReplaceChannel
  <2>5. ActiveStaysRegistered'
    BY <1>5, <2>2, <2>3 DEF Update, ActiveStaysRegistered, TypeOK
  <2> QED
    BY <1>5, <2>4, <2>5 DEF Update, TypeOK, ActiveInPhase
<1>6. ASSUME NEW c \in Channels, Remove(c) PROVE IInv'
  <2>1. ch[c] \in ChannelState /\ ViewsAgree(ch[c])
    BY DEF TypeOK, AllViewsAgree
  <2>2. ch' \in [Channels -> ChannelState] /\ AllViewsAgree'
    BY <1>6, <2>1, RemoveAgrees, ReplaceChannel DEF Remove
  <2>3. active' = {}
    BY <1>6 DEF Remove, ActiveInPhase
  <2> QED
    BY <1>6, <2>2, <2>3 DEF Remove, TypeOK, ActiveInPhase, ActiveStaysRegistered
<1>7. ASSUME NEW c \in Channels, ConditionChanges(c) PROVE IInv'
  BY <1>7 DEF ConditionChanges, TypeOK, AllViewsAgree, ActiveInPhase,
              ActiveStaysRegistered
<1>8. CASE UNCHANGED vars
  BY <1>8 DEF vars, TypeOK, AllViewsAgree, ActiveInPhase, ActiveStaysRegistered
<1> QED
  BY <1>1, <1>2, <1>3, <1>4, <1>5, <1>6, <1>7, <1>8 DEF Next, LoopStep

\* Every variable of the poller keeps its type: the list handed to
\* epoll_wait is never empty, however often Poll has grown it.
THEOREM TypeCorrect == Spec => []TypeOK
<1>1. IInv => TypeOK
  BY DEF IInv
<1> QED
  BY <1>1, InitIInv, Invariance, PTL DEF Spec

\* Whatever calls are made on the channels, in whatever order, the three
\* views of each one agree and epoll_ctl never fails.
THEOREM ViewsAlwaysAgree == Spec => []AllViewsAgree
<1>1. IInv => AllViewsAgree
  BY DEF IInv
<1> QED
  BY <1>1, InitIInv, Invariance, PTL DEF Spec

\* active_channels_ never holds a channel the poller has given up.
THEOREM ActiveAlwaysRegistered == Spec => []ActiveStaysRegistered
<1>1. IInv => ActiveStaysRegistered
  BY DEF IInv
<1> QED
  BY <1>1, InitIInv, Invariance, PTL DEF Spec

=============================================================================
