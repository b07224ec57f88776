--------------------------- MODULE MCEpollPoller ---------------------------
(* Model checking of EpollPoller. *)
EXTENDS EpollPoller

\* Idle, readable, writable, and gone: what a socket goes through.
SocketConditions == {{}, {"in"}, {"out"}, {"in", "out", "hup", "err"}}

=============================================================================
