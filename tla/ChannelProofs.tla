--------------------------- MODULE ChannelProofs ---------------------------
(***************************************************************************)
(* What the calls on a channel do to its record: they keep its type and    *)
(* the agreement of its three views, whatever state it is in.              *)
(***************************************************************************)
EXTENDS Channel, TLAPS

\* UpdateChannel keeps the three views of a channel in agreement when the
\* change of events_ before it is the only disagreement, and leaves the
\* channel registered.
LEMMA UpdateAgrees ==
    ASSUME NEW c \in ChannelState, ViewsAgree(c), NEW e \in SUBSET Interest
    PROVE  LET d == UpdateChannel([c EXCEPT !.events = e])
           IN  d \in ChannelState /\ ViewsAgree(d) /\ d.mapped
BY DEF UpdateChannel, EpollAdd, EpollMod, EpollDel, ViewsAgree, ChannelState,
       kNew, kAdded, kDeleted

\* RemoveChannel keeps the views in agreement.
LEMMA RemoveAgrees ==
    ASSUME NEW c \in ChannelState, ViewsAgree(c)
    PROVE  RemoveChannel(c) \in ChannelState /\ ViewsAgree(RemoveChannel(c))
BY DEF RemoveChannel, EpollDel, ViewsAgree, ChannelState, kNew, kAdded, kDeleted

\* Every call that changes a channel's interest is such an update.
LEMMA CallAgrees ==
    ASSUME NEW c \in ChannelState, ViewsAgree(c),
           NEW d \in {EnableReading(c), DisableReading(c), EnableWriting(c),
                      DisableWriting(c), DisableAll(c)}
    PROVE  d \in ChannelState /\ ViewsAgree(d) /\ d.mapped
<1>1. PICK e \in SUBSET Interest : d = UpdateChannel([c EXCEPT !.events = e])
  <2>1. c.events \in SUBSET Interest
    BY DEF ChannelState
  <2>2. {"in", "out"} \subseteq Interest
    BY DEF Interest
  <2>3. CASE d = EnableReading(c)
    BY <2>1, <2>2, <2>3 DEF EnableReading
  <2>4. CASE d = DisableReading(c)
    BY <2>1, <2>4 DEF DisableReading
  <2>5. CASE d = EnableWriting(c)
    BY <2>1, <2>2, <2>5 DEF EnableWriting
  <2>6. CASE d = DisableWriting(c)
    BY <2>1, <2>6 DEF DisableWriting
  <2>7. CASE d = DisableAll(c)
    BY <2>7 DEF DisableAll
  <2> QED
    BY <2>3, <2>4, <2>5, <2>6, <2>7
<1> QED
  BY <1>1, UpdateAgrees

\* A channel that has just been constructed is in order.
LEMMA NewAgrees == NewChannel \in ChannelState /\ ViewsAgree(NewChannel)
BY DEF NewChannel, ChannelState, ViewsAgree, Interest, kNew, kAdded, kDeleted

\* UpdateChannel and RemoveChannel leave the events a channel asks for alone.
LEMMA EventsKept ==
    ASSUME NEW c \in ChannelState
    PROVE  UpdateChannel(c).events = c.events /\ RemoveChannel(c).events = c.events
<1>1. CASE c.index = kNew
  BY <1>1 DEF UpdateChannel, RemoveChannel, EpollAdd, EpollDel, ChannelState, kNew,
              kAdded, kDeleted
<1>2. CASE c.index = kDeleted
  BY <1>2 DEF UpdateChannel, RemoveChannel, EpollAdd, EpollDel, ChannelState, kNew,
              kAdded, kDeleted
<1>3. CASE c.index = kAdded
  BY <1>3 DEF UpdateChannel, RemoveChannel, EpollMod, EpollDel, ChannelState, kNew,
              kAdded, kDeleted
<1> QED
  BY <1>1, <1>2, <1>3 DEF ChannelState

\* What the calls do to the events a channel asks for.
LEMMA CallEvents ==
    ASSUME NEW c \in ChannelState
    PROVE  /\ EnableReading(c).events  = c.events \cup {"in"}
           /\ EnableWriting(c).events  = c.events \cup {"out"}
           /\ DisableWriting(c).events = c.events \ {"out"}
           /\ DisableAll(c).events = {}
<1>1. ASSUME NEW e \in SUBSET Interest
      PROVE  UpdateChannel([c EXCEPT !.events = e]).events = e
  <2>1. [c EXCEPT !.events = e] \in ChannelState /\ [c EXCEPT !.events = e].events = e
    BY DEF ChannelState
  <2> QED
    BY <2>1, EventsKept
<1>2. c.events \in SUBSET Interest /\ {"in", "out"} \subseteq Interest
  BY DEF ChannelState, Interest
<1>3. EnableReading(c).events = c.events \cup {"in"}
  BY <1>1, <1>2, c.events \cup {"in"} \in SUBSET Interest DEF EnableReading
<1>4. EnableWriting(c).events = c.events \cup {"out"}
  BY <1>1, <1>2, c.events \cup {"out"} \in SUBSET Interest DEF EnableWriting
<1>5. DisableWriting(c).events = c.events \ {"out"}
  BY <1>1, <1>2, c.events \ {"out"} \in SUBSET Interest DEF DisableWriting
<1>6. DisableAll(c).events = {}
  BY <1>1, {} \in SUBSET Interest DEF DisableAll
<1> QED
  BY <1>3, <1>4, <1>5, <1>6

\* A channel in epoll that stops asking for anything leaves epoll, and so
\* does one that is removed.
LEMMA LeavesEpoll ==
    ASSUME NEW c \in ChannelState, ViewsAgree(c)
    PROVE  /\ c.added => ~DisableAll(c).added
           /\ ~RemoveChannel(c).added
<1>1. c.added => ~DisableAll(c).added
  BY DEF DisableAll, UpdateChannel, EpollDel, ViewsAgree, ChannelState, kNew, kAdded,
         kDeleted
<1>2. ~RemoveChannel(c).added
  BY DEF RemoveChannel, EpollDel, ViewsAgree, ChannelState, kNew, kAdded, kDeleted
<1> QED
  BY <1>1, <1>2

\* A channel that asks for something is in epoll.
LEMMA EntersEpoll ==
    ASSUME NEW c \in ChannelState, ViewsAgree(c)
    PROVE  EnableReading(c).added /\ EnableWriting(c).added
<1>1. ASSUME NEW e \in (SUBSET Interest) \ {{}}
      PROVE  UpdateChannel([c EXCEPT !.events = e]).added
  BY DEF UpdateChannel, EpollAdd, EpollMod, ViewsAgree, ChannelState, kNew, kAdded,
         kDeleted
<1>2. c.events \in SUBSET Interest /\ {"in", "out"} \subseteq Interest
  BY DEF ChannelState, Interest
<1>3. c.events \cup {"in"} \in (SUBSET Interest) \ {{}}
  BY <1>2
<1>4. c.events \cup {"out"} \in (SUBSET Interest) \ {{}}
  BY <1>2
<1> QED
  BY <1>1, <1>3, <1>4 DEF EnableReading, EnableWriting

\* A channel leaves epoll by DisableWriting only when it asks for nothing.
LEMMA StaysInEpoll ==
    ASSUME NEW c \in ChannelState, ViewsAgree(c), c.added
    PROVE  DisableWriting(c).added \/ DisableWriting(c).events = {}
<1>1. ASSUME NEW e \in (SUBSET Interest) \ {{}}
      PROVE  UpdateChannel([c EXCEPT !.events = e]).added
  BY DEF UpdateChannel, EpollMod, ViewsAgree, ChannelState, kNew, kAdded, kDeleted
<1>2. c.events \ {"out"} \in SUBSET Interest
  BY DEF ChannelState
<1>3. DisableWriting(c).events = c.events \ {"out"}
  BY CallEvents
<1> QED
  BY <1>1, <1>2, <1>3 DEF DisableWriting

=============================================================================
