----------------------------- MODULE TaskQueue -----------------------------
(***************************************************************************)
(* What an EventLoop promises to the code that hands it functors: the ones *)
(* that are queued run one at a time, each exactly once, in the order in   *)
(* which they entered the queue; a functor the owner thread passes to      *)
(* RunInLoop runs at once and so overtakes whatever is queued.             *)
(* EventLoop.tla is shown to implement this specification.                 *)
(***************************************************************************)
EXTENDS Sequences

CONSTANT Functors   \* the functors handed to the loop, each an identity of its own

VARIABLES
    queue,          \* queued and not yet run, oldest first
    ran             \* every functor that has run, in order

tqVars == <<queue, ran>>

TQInit == queue = <<>> /\ ran = <<>>

Enqueue(f) == queue' = Append(queue, f) /\ UNCHANGED ran

RunOldest ==
    /\ queue # <<>>
    /\ ran' = Append(ran, Head(queue))
    /\ queue' = Tail(queue)

RunNow(f) == ran' = Append(ran, f) /\ UNCHANGED queue

TQNext == RunOldest \/ \E f \in Functors : Enqueue(f) \/ RunNow(f)

TQSpec == TQInit /\ [][TQNext]_tqVars

=============================================================================
