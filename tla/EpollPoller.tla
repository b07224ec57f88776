---------------------------- MODULE EpollPoller ----------------------------
(***************************************************************************)
(* An EpollPoller and the channels of its EventLoop.  Everything happens   *)
(* in the loop's thread: epoll_wait fills active_channels_, the channels   *)
(* in it are handled one by one, and then the queued functors run; in both *)
(* phases callbacks change what channels ask for.  The environment changes *)
(* the condition of the fds at any time.                                   *)
(***************************************************************************)
EXTENDS Naturals, FiniteSets, Channel

CONSTANTS
    Channels,
    Conditions,          \* the conditions an fd can be in: sets of events
    kInitEventListSize   \* 16 in the code

ASSUME PollerAssumption ==
    /\ IsFiniteSet(Channels)
    /\ Conditions \subseteq SUBSET {"in", "out", "hup", "err"}
    /\ kInitEventListSize \in Nat \ {0}

VARIABLES
    ch,         \* the channels, with the poller's and the kernel's view
    ready,      \* the condition of each fd
    phase,      \* "poll", "handle" or "functors"
    active,     \* the part of active_channels_ not handled yet
    revents,    \* revents_ of each channel
    size        \* events_.size()

vars == <<ch, ready, phase, active, revents, size>>

TypeOK ==
    /\ ch \in [Channels -> ChannelState]
    /\ ready \in [Channels -> Conditions]
    /\ phase \in {"poll", "handle", "functors"}
    /\ active \in SUBSET Channels
    /\ revents \in [Channels -> SUBSET {"in", "out", "hup", "err"}]
    /\ size \in Nat \ {0}

Init ==
    /\ ch = [c \in Channels |-> NewChannel]
    /\ ready \in [Channels -> Conditions]
    /\ phase = "functors"
    /\ active = {}
    /\ revents = [c \in Channels |-> {}]
    /\ size = kInitEventListSize

Reported(c) == Revents(ch[c], ready[c])

NextSizeKept(n) == size
NextSizeShrinks(n) == n
\* A full event list is doubled for the next epoll_wait.
NextSize(n) == IF n = size THEN 2 * size ELSE size

\* EpollPoller::Poll and FillActiveChannels: epoll_wait returns a full list
\* or every fd it has something to report of, and nothing on a timeout.
Poll(S) ==
    LET all == {c \in Channels : Reported(c) # {}}
    IN  /\ phase = "poll"
        /\ S \subseteq all
        /\ Cardinality(S) <= size
        /\ S = all \/ Cardinality(S) = size
        /\ active' = S
        /\ revents' = [c \in Channels |-> IF c \in S THEN Reported(c) ELSE revents[c]]
        /\ size' = NextSize(Cardinality(S))
        /\ phase' = "handle"
        /\ UNCHANGED <<ch, ready>>

\* Channel::HandleEvent; the callbacks it makes are steps of their own.
Handle(c) ==
    /\ phase = "handle"
    /\ c \in active
    /\ active' = active \ {c}
    /\ UNCHANGED <<ch, ready, phase, revents, size>>

DoPendingFunctors ==
    /\ phase = "handle"
    /\ active = {}
    /\ phase' = "functors"
    /\ UNCHANGED <<ch, ready, active, revents, size>>

NextIteration ==
    /\ phase = "functors"
    /\ phase' = "poll"
    /\ UNCHANGED <<ch, ready, active, revents, size>>

\* A callback or a functor changes the interest of a channel.
Update(c) ==
    /\ phase # "poll"
    /\ \E d \in {EnableReading(ch[c]), DisableReading(ch[c]), EnableWriting(ch[c]),
                 DisableWriting(ch[c]), DisableAll(ch[c])} :
           ch' = [ch EXCEPT ![c] = d]
    /\ UNCHANGED <<ready, phase, active, revents, size>>

RemoveAtOnce(c) ==
    /\ phase # "poll"
    /\ ch' = [ch EXCEPT ![c] = RemoveChannel(@)]
    /\ UNCHANGED <<ready, phase, active, revents, size>>

\* A channel is removed by a functor only: TcpServer::RemoveConnectionInLoop
\* queues ConnectDestroyed even when it runs in the connection's own loop.
Remove(c) ==
    /\ phase = "functors"
    /\ ch' = [ch EXCEPT ![c] = RemoveChannel(@)]
    /\ UNCHANGED <<ready, phase, active, revents, size>>

\* The fd's condition changes.
ConditionChanges(c) ==
    /\ \E r \in Conditions : ready' = [ready EXCEPT ![c] = r]
    /\ UNCHANGED <<ch, phase, active, revents, size>>

LoopStep ==
    \/ \E S \in SUBSET Channels : Poll(S)
    \/ \E c \in Channels : Handle(c)
    \/ DoPendingFunctors
    \/ NextIteration

Next ==
    \/ LoopStep
    \/ \E c \in Channels : Update(c) \/ Remove(c) \/ ConditionChanges(c)

Spec == Init /\ [][Next]_vars

\* The loop's thread keeps running: callbacks return.
FairSpec == Spec /\ WF_vars(LoopStep)

-----------------------------------------------------------------------------
(* Properties                                                              *)

\* Whatever sequence of calls is made on the channels, index_, the map and
\* epoll agree, so no epoll_ctl fails (UpdateChannel, RemoveChannel).
AllViewsAgree == \A c \in Channels : ViewsAgree(ch[c])

\* A channel that waits in active_channels_ is one the poller still knows:
\* the raw pointer in it has not been given up (FillActiveChannels, Loop).
ActiveStaysRegistered == \A c \in active : ch[c].mapped

\* No channel starves: one that has something to report from some time on
\* gets into active_channels_ again and again, whichever channels the kernel
\* prefers, because a full event list is doubled (Poll).
ReadyIsServed ==
    \A c \in Channels : <>[](Reported(c) # {}) => []<>(c \in active)

=============================================================================
