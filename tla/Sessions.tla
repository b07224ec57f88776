------------------------------ MODULE Sessions ------------------------------
(***************************************************************************)
(* What a TcpServer promises the application about its connections: which  *)
(* calls of connection_callback_ it makes for each of them, and when.  The *)
(* callback comes at most once to say that a connection is up and at most  *)
(* once, later, to say that it is down; connections are taken in the order *)
(* in which the clients came; no call comes before Start or after the      *)
(* destructor has returned.  The exception is a connection that a Shutdown *)
(* in another thread revives after it was reported down: of its callbacks  *)
(* nothing more is promised.                                               *)
(***************************************************************************)
EXTENDS Naturals

CONSTANT Connections    \* 1..n, numbered in the order in which they come

VARIABLES
    phase,      \* the server: "new", "serving" or "gone"
    session     \* each connection: "none", "accepted", "up", "down" or "revived"

Init ==
    /\ phase = "new"
    /\ session = [c \in Connections |-> "none"]

Serve ==
    /\ phase = "new"
    /\ phase' = "serving"
    /\ UNCHANGED session

Step(c, from, to) ==
    /\ phase = "serving"
    /\ session[c] = from
    /\ session' = [session EXCEPT ![c] = to]
    /\ UNCHANGED phase

Accept(c) ==
    /\ \A d \in Connections : d < c => session[d] # "none"
    /\ Step(c, "none", "accepted")

\* A server without sub loops makes the callback when it accepts.
AcceptUp(c) ==
    /\ \A d \in Connections : d < c => session[d] # "none"
    /\ Step(c, "none", "up")

Up(c) == Step(c, "accepted", "up")

Down(c) == Step(c, "up", "down")

Revive(c) == Step(c, "down", "revived")

Stop ==
    /\ phase' = "gone"
    /\ UNCHANGED session

Next ==
    \/ Serve \/ Stop
    \/ \E c \in Connections :
         Accept(c) \/ AcceptUp(c) \/ Up(c) \/ Down(c) \/ Revive(c)

Spec == Init /\ [][Next]_<<phase, session>>

=============================================================================
