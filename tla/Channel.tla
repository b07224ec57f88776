------------------------------ MODULE Channel ------------------------------
(***************************************************************************)
(* A Channel together with what its Poller and the kernel hold for its fd. *)
(* The operators are the calls TcpConnection, Acceptor and EventLoop make  *)
(* on a channel (EnableReading, DisableAll, Remove, ...), each taken       *)
(* through EventLoop to EpollPoller::UpdateChannel or RemoveChannel and on *)
(* to epoll_ctl.  A channel's state is a record:                           *)
(*   events  the events the channel asks for (events_)                     *)
(*   index   kNew, kAdded or kDeleted (index_)                             *)
(*   mapped  the channel is in the poller's channels_ map                  *)
(*   added   the fd is in the kernel's interest list of this epoll         *)
(*   mask    the events the kernel holds for it                            *)
(*   fatal   an add or modify failed: LOG_FATAL ends the process           *)
(***************************************************************************)
EXTENDS Sequences

kNew == "new"
kAdded == "added"
kDeleted == "deleted"

Interest == {"in", "out"}   \* kReadEvent, kWriteEvent

ChannelState ==
    [events : SUBSET Interest, index : {kNew, kAdded, kDeleted},
     mapped : BOOLEAN, added : BOOLEAN, mask : SUBSET Interest, fatal : BOOLEAN]

\* Channel::Channel
NewChannel ==
    [events |-> {}, index |-> kNew, mapped |-> FALSE, added |-> FALSE,
     mask |-> {}, fatal |-> FALSE]

-----------------------------------------------------------------------------
(* epoll_ctl and what EpollPoller::Update makes of its result: adding an   *)
(* fd that is there (EEXIST) or modifying one that is not (ENOENT) is      *)
(* fatal, deleting one that is not there is only logged.                   *)

EpollAdd(c) ==
    IF c.added THEN [c EXCEPT !.fatal = TRUE]
    ELSE [c EXCEPT !.added = TRUE, !.mask = c.events]

EpollMod(c) ==
    IF c.added THEN [c EXCEPT !.mask = c.events]
    ELSE [c EXCEPT !.fatal = TRUE]

EpollDel(c) == [c EXCEPT !.added = FALSE, !.mask = {}]

\* EpollPoller::UpdateChannel
UpdateChannel(c) ==
    CASE c.index = kNew     -> EpollAdd([c EXCEPT !.mapped = TRUE, !.index = kAdded])
      [] c.index = kDeleted -> EpollAdd([c EXCEPT !.index = kAdded])
      [] c.index = kAdded   -> IF c.events = {}
                               THEN EpollDel([c EXCEPT !.index = kDeleted])
                               ELSE EpollMod(c)

RemoveKeepsIndex(c) ==
    [(IF c.index = kAdded THEN EpollDel(c) ELSE c) EXCEPT !.mapped = FALSE]

\* EpollPoller::RemoveChannel
RemoveChannel(c) ==
    [(IF c.index = kAdded THEN EpollDel(c) ELSE c)
        EXCEPT !.mapped = FALSE, !.index = kNew]

-----------------------------------------------------------------------------
(* The calls of Channel                                                    *)

EnableWritingForgetsUpdate(c) == [c EXCEPT !.events = @ \cup {"out"}]
DisableWritingWrongBit(c) == UpdateChannel([c EXCEPT !.events = @ \ {"in"}])

EnableReading(c)  == UpdateChannel([c EXCEPT !.events = @ \cup {"in"}])
DisableReading(c) == UpdateChannel([c EXCEPT !.events = @ \ {"in"}])
EnableWriting(c)  == UpdateChannel([c EXCEPT !.events = @ \cup {"out"}])
DisableWriting(c) == UpdateChannel([c EXCEPT !.events = @ \ {"out"}])
DisableAll(c)     == UpdateChannel([c EXCEPT !.events = {}])

IsWriting(c) == "out" \in c.events

\* What epoll_wait reports for the channel when the socket is in condition
\* ready: the events asked for, and EPOLLHUP and EPOLLERR always.
Revents(c, ready) ==
    IF c.added THEN ready \cap (c.mask \cup {"hup", "err"}) ELSE {}

(* The callbacks HandleEventWithGuard makes, in its order.                 *)
Dispatch(revents) ==
    (IF "hup" \in revents /\ "in" \notin revents THEN <<"close">> ELSE <<>>)
    \o (IF "err" \in revents THEN <<"error">> ELSE <<>>)
    \o (IF "in"  \in revents THEN <<"read">>  ELSE <<>>)
    \o (IF "out" \in revents THEN <<"write">> ELSE <<>>)

-----------------------------------------------------------------------------
(* The agreement of the three views of a channel: its index_, the poller's *)
(* map and the kernel's interest list.  UpdateChannel chooses between      *)
(* EPOLL_CTL_ADD, MOD and DEL by index_ alone, so any disagreement ends in *)
(* LOG_FATAL or in an fd nobody will remove.                               *)
ViewsAgree(c) ==
    /\ c.added <=> c.index = kAdded
    /\ c.mapped <=> c.index # kNew
    /\ c.added => c.mask = c.events
    /\ ~c.fatal

=============================================================================
