----------------------------- MODULE EventLoop -----------------------------
(***************************************************************************)
(* One EventLoop: the thread that owns it, running Loop(), and the other   *)
(* threads that call RunInLoop, QueueInLoop and Quit on it.                *)
(*                                                                         *)
(* A step of another thread is one access to shared memory or to the       *)
(* eventfd (push under the mutex, store to quit_, write to wakeup_fd_).    *)
(* The owner's steps are split where another thread's step can come        *)
(* between and be noticed: the test of quit_, epoll_wait, the read of the  *)
(* eventfd, the swap of pending_functors_.                                 *)
(***************************************************************************)
EXTENDS Naturals, Sequences

CONSTANTS
    Threads,      \* threads other than the owner that hold a pointer to the loop
    Functors,     \* functors, each submitted at most once
    WakeupMax     \* largest value of the eventfd counter (2^64 - 2 in the kernel)

ASSUME WakeupMaxAssumption == WakeupMax \in Nat \ {0}

VARIABLES
    lpc,          \* where the owner thread is
    active,       \* active_channels_ still to be handled: "wakeup", "io"
    pending,      \* pending_functors_
    functors,     \* the rest of the local vector of DoPendingFunctors
    calling,      \* calling_pending_functors_
    looping,      \* looping_
    quit,         \* quit_
    wakeup,       \* counter of the eventfd wakeup_fd_
    tpc,          \* other threads: "idle", or "wake" when about to call Wakeup
    \* history variables, not part of the code
    fresh,        \* functors not submitted yet
    executed,     \* functors that have run, in order
    early,        \* functors the owner queued while it was outside Loop()
    quitRequested \* Quit() was called and Loop() has not returned since

vars == <<lpc, active, pending, functors, calling, looping, quit, wakeup, tpc,
          fresh, executed, early, quitRequested>>

LoopPC == {"outside",   \* Loop() not entered, or it has returned
           "entering",  \* looping_ is set, quit_ not reset yet
           "check",     \* while (!quit_)
           "poll",      \* blocked in epoll_wait
           "handle",    \* between two channels of active_channels_
           "callback",  \* inside a user callback of a channel
           "run",       \* between two functors of DoPendingFunctors
           "functor"}   \* inside a functor

\* Every variable has its type, and looping_ and calling_pending_functors_
\* are set exactly while Loop() and a batch of DoPendingFunctors are under
\* way (Loop, DoPendingFunctors).
TypeOK ==
    /\ lpc \in LoopPC
    /\ active \in SUBSET {"wakeup", "io"}
    /\ pending \in Seq(Functors)
    /\ functors \in Seq(Functors)
    /\ calling \in BOOLEAN /\ (calling <=> lpc \in {"run", "functor"})
    /\ looping \in BOOLEAN /\ (looping <=> lpc # "outside")
    /\ quit \in BOOLEAN
    /\ wakeup \in 0..WakeupMax
    /\ tpc \in [Threads -> {"idle", "wake"}]
    /\ fresh \in SUBSET Functors
    /\ executed \in Seq(Functors)
    /\ early \in SUBSET Functors
    /\ quitRequested \in BOOLEAN

\* EventLoop::EventLoop: the wakeup channel is registered for reading.
Init ==
    /\ lpc = "outside"
    /\ active = {}
    /\ pending = <<>>
    /\ functors = <<>>
    /\ calling = FALSE
    /\ looping = FALSE
    /\ quit = FALSE
    /\ wakeup = 0
    /\ tpc = [t \in Threads |-> "idle"]
    /\ fresh = Functors
    /\ executed = <<>>
    /\ early = {}
    /\ quitRequested = FALSE

-----------------------------------------------------------------------------
(* The eventfd.  A write to a full counter fails with EAGAIN; Wakeup logs  *)
(* that and returns, and the counter stays readable.                       *)

WakeupForgets == wakeup' = wakeup
Wakeup == wakeup' = IF wakeup < WakeupMax THEN wakeup + 1 ELSE wakeup

(* The calls other threads make.  IsInLoopThread() is false for them, so   *)
(* RunInLoop is QueueInLoop and QueueInLoop always wakes the loop.         *)

QueueFromThread(t, f) ==
    /\ tpc[t] = "idle"
    /\ f \in fresh
    /\ pending' = Append(pending, f)
    /\ tpc' = [tpc EXCEPT ![t] = "wake"]
    /\ fresh' = fresh \ {f}
    /\ UNCHANGED <<lpc, active, functors, calling, looping, quit, wakeup,
                   executed, early, quitRequested>>

QuitFromThreadNoWake(t) ==
    /\ tpc[t] = "idle"
    /\ quit' = TRUE
    /\ quitRequested' = TRUE
    /\ UNCHANGED <<lpc, active, pending, functors, calling, looping, wakeup,
                   tpc, fresh, executed, early>>

QuitFromThread(t) ==
    /\ tpc[t] = "idle"
    /\ quit' = TRUE
    /\ quitRequested' = TRUE
    /\ tpc' = [tpc EXCEPT ![t] = "wake"]
    /\ UNCHANGED <<lpc, active, pending, functors, calling, looping, wakeup,
                   fresh, executed, early>>

WakeupFromThread(t) ==
    /\ tpc[t] = "wake"
    /\ Wakeup
    /\ tpc' = [tpc EXCEPT ![t] = "idle"]
    /\ UNCHANGED <<lpc, active, pending, functors, calling, looping, quit,
                   fresh, executed, early, quitRequested>>

-----------------------------------------------------------------------------
(* The calls the owner makes: from a channel's callback, from a functor,   *)
(* or before Loop() (the thread init callback, main() before Loop()).      *)

InUserCode == lpc \in {"outside", "callback", "functor"}

\* RunInLoop in the owner thread: cb() at once.
RunInOwner(f) ==
    /\ InUserCode
    /\ f \in fresh
    /\ executed' = Append(executed, f)
    /\ fresh' = fresh \ {f}
    /\ UNCHANGED <<lpc, active, pending, functors, calling, looping, quit,
                   wakeup, tpc, early, quitRequested>>

QueueFromOwnerNoWake(f) ==
    /\ InUserCode
    /\ f \in fresh
    /\ pending' = Append(pending, f)
    /\ fresh' = fresh \ {f}
    /\ early' = IF lpc = "outside" THEN early \cup {f} ELSE early
    /\ UNCHANGED <<lpc, active, functors, calling, looping, quit, wakeup, tpc,
                   executed, quitRequested>>

\* QueueInLoop in the owner thread: it wakes the loop only while
\* DoPendingFunctors is running.
QueueFromOwner(f) ==
    /\ InUserCode
    /\ f \in fresh
    /\ pending' = Append(pending, f)
    /\ IF calling THEN Wakeup ELSE UNCHANGED wakeup
    /\ fresh' = fresh \ {f}
    /\ early' = IF lpc = "outside" THEN early \cup {f} ELSE early
    /\ UNCHANGED <<lpc, active, functors, calling, looping, quit, tpc,
                   executed, quitRequested>>

QuitFromOwner ==
    /\ InUserCode
    /\ quit' = TRUE
    /\ quitRequested' = TRUE
    /\ UNCHANGED <<lpc, active, pending, functors, calling, looping, wakeup,
                   tpc, fresh, executed, early>>

-----------------------------------------------------------------------------
(* EventLoop::Loop                                                         *)

LoopEnter ==
    /\ lpc = "outside"
    /\ lpc' = "entering"
    /\ looping' = TRUE
    /\ UNCHANGED <<active, pending, functors, calling, quit, wakeup, tpc,
                   fresh, executed, early, quitRequested>>

\* quit_ = false, whoever has set it by now.
LoopReset ==
    /\ lpc = "entering"
    /\ lpc' = "check"
    /\ quit' = FALSE
    /\ UNCHANGED <<active, pending, functors, calling, looping, wakeup, tpc,
                   fresh, executed, early, quitRequested>>

LoopContinue ==
    /\ lpc = "check"
    /\ ~quit
    /\ lpc' = "poll"
    /\ active' = {}
    /\ UNCHANGED <<pending, functors, calling, looping, quit, wakeup, tpc,
                   fresh, executed, early, quitRequested>>

LoopExit ==
    /\ lpc = "check"
    /\ quit
    /\ lpc' = "outside"
    /\ looping' = FALSE
    /\ quitRequested' = FALSE
    /\ UNCHANGED <<active, pending, functors, calling, quit, wakeup, tpc,
                   fresh, executed, early>>

PollReturns(ready) ==
    /\ lpc = "poll"
    /\ lpc' = "handle"
    /\ active' = ready
    /\ UNCHANGED <<pending, functors, calling, looping, quit, wakeup, tpc,
                   fresh, executed, early, quitRequested>>

\* The eventfd is level-triggered: readable as long as the counter is not 0.
PollWakeup == wakeup > 0 /\ PollReturns({"wakeup"})

\* Some other channel is ready.  The wakeup channel may be left out although
\* it is ready: epoll_wait fills at most events_.size() entries.
PollIO ==
    \/ PollReturns({"io"})
    \/ wakeup > 0 /\ PollReturns({"io", "wakeup"})

\* kPollTimeMs have passed, or EINTR: no active channel.
PollTimeout == wakeup = 0 /\ PollReturns({})

\* EventLoop::HandleRead, the wakeup channel's callback.
HandleWakeup ==
    /\ lpc = "handle"
    /\ "wakeup" \in active
    /\ active' = active \ {"wakeup"}
    /\ wakeup' = 0
    /\ UNCHANGED <<lpc, pending, functors, calling, looping, quit, tpc,
                   fresh, executed, early, quitRequested>>

HandleIO ==
    /\ lpc = "handle"
    /\ "io" \in active
    /\ active' = active \ {"io"}
    /\ lpc' = "callback"
    /\ UNCHANGED <<pending, functors, calling, looping, quit, wakeup, tpc,
                   fresh, executed, early, quitRequested>>

CallbackReturns ==
    /\ lpc = "callback"
    /\ lpc' = "handle"
    /\ UNCHANGED <<active, pending, functors, calling, looping, quit, wakeup,
                   tpc, fresh, executed, early, quitRequested>>

(* EventLoop::DoPendingFunctors                                            *)

SwapFunctorsKeepsCalling ==
    /\ lpc = "handle"
    /\ active = {}
    /\ functors' = pending
    /\ pending' = <<>>
    /\ lpc' = "run"
    /\ UNCHANGED <<active, calling, looping, quit, wakeup, tpc,
                   fresh, executed, early, quitRequested>>

\* The batch is copied out, but what is in pending_functors_ stays there.
SwapFunctorsCopies ==
    /\ lpc = "handle"
    /\ active = {}
    /\ calling' = TRUE
    /\ functors' = pending
    /\ pending' = pending
    /\ lpc' = "run"
    /\ UNCHANGED <<active, looping, quit, wakeup, tpc,
                   fresh, executed, early, quitRequested>>

\* calling_pending_functors_ = true; functors.swap(pending_functors_).
SwapFunctors ==
    /\ lpc = "handle"
    /\ active = {}
    /\ calling' = TRUE
    /\ functors' = pending
    /\ pending' = <<>>
    /\ lpc' = "run"
    /\ UNCHANGED <<active, looping, quit, wakeup, tpc,
                   fresh, executed, early, quitRequested>>

RunFunctor ==
    /\ lpc = "run"
    /\ functors # <<>>
    /\ executed' = Append(executed, Head(functors))
    /\ functors' = Tail(functors)
    /\ lpc' = "functor"
    /\ UNCHANGED <<active, pending, calling, looping, quit, wakeup, tpc,
                   fresh, early, quitRequested>>

FunctorReturns ==
    /\ lpc = "functor"
    /\ lpc' = "run"
    /\ UNCHANGED <<active, pending, functors, calling, looping, quit, wakeup,
                   tpc, fresh, executed, early, quitRequested>>

BatchDoneKeepsCalling ==
    /\ lpc = "run"
    /\ functors = <<>>
    /\ lpc' = "check"
    /\ UNCHANGED <<active, pending, functors, calling, looping, quit, wakeup, tpc,
                   fresh, executed, early, quitRequested>>

BatchDone ==
    /\ lpc = "run"
    /\ functors = <<>>
    /\ calling' = FALSE
    /\ lpc' = "check"
    /\ UNCHANGED <<active, pending, functors, looping, quit, wakeup, tpc,
                   fresh, executed, early, quitRequested>>

-----------------------------------------------------------------------------
ThreadStep ==
    \E t \in Threads :
        \/ \E f \in Functors : QueueFromThread(t, f)
        \/ QuitFromThread(t)
        \/ WakeupFromThread(t)

OwnerCall ==
    \/ \E f \in Functors : RunInOwner(f) \/ QueueFromOwner(f)
    \/ QuitFromOwner

\* The steps the owner takes by itself once it is in Loop().
LoopStep ==
    \/ LoopReset \/ LoopContinue \/ LoopExit
    \/ PollWakeup \/ HandleWakeup \/ HandleIO \/ CallbackReturns
    \/ SwapFunctors \/ RunFunctor \/ FunctorReturns \/ BatchDone

Next ==
    \/ ThreadStep
    \/ OwnerCall
    \/ LoopEnter
    \/ LoopStep
    \/ PollIO
    \/ PollTimeout

Spec == Init /\ [][Next]_vars

(***************************************************************************)
(* The scheduler runs every thread that can run: a thread inside Wakeup    *)
(* finishes it, the owner proceeds when epoll_wait has the eventfd to      *)
(* report, and user callbacks return.  Nothing is assumed of traffic on    *)
(* other channels or of the 10 s timeout, nor that anyone calls anything.  *)
(***************************************************************************)
FairSpec ==
    /\ Spec
    /\ WF_vars(LoopStep)
    /\ \A t \in Threads : WF_vars(WakeupFromThread(t))

-----------------------------------------------------------------------------
(* Properties                                                              *)

\* The loop's next epoll_wait returns, or a thread is about to see to that.
Signalled == wakeup > 0 \/ \E t \in Threads : tpc[t] = "wake"

InSeq(f, s) == \E i \in 1..Len(s) : s[i] = f

\* No functor is left behind: when the owner is blocked in epoll_wait, every
\* functor in pending_functors_ has a wakeup under way, except one the owner
\* queued itself before it entered Loop() (QueueInLoop/DoPendingFunctors).
NoLostWakeup ==
    lpc = "poll" => Signalled \/ \A i \in 1..Len(pending) : pending[i] \in early

\* Quit() reaches a loop that is blocked: when the owner sits in epoll_wait
\* with quit_ set, a wakeup is under way (Quit, Wakeup, HandleRead).
QuitWakesPoll == lpc = "poll" /\ quit => Signalled

\* The loop keeps the contract of TaskQueue: queued functors run one at a
\* time, exactly once and in queue order, across every swap of
\* DoPendingFunctors; what is queued is the unfinished batch and then
\* pending_functors_.
Contract == INSTANCE TaskQueue WITH queue <- functors \o pending, ran <- executed
ImplementsTaskQueue == Contract!TQSpec

\* A functor queued on a running loop is run, or the loop is told to quit,
\* without any help from traffic or from the poll timeout.
QueuedFunctorRuns ==
    \A f \in Functors :
        (InSeq(f, pending) /\ looping /\ f \notin early)
            ~> (InSeq(f, executed) \/ quit)

\* A loop whose quit_ is set after Loop() has reset it leaves Loop().  A
\* Quit() that comes before the reset is lost (EveryQuitStops), although
\* looping_ may be set by then.
QuitStopsLoop == (quit /\ looping /\ lpc # "entering") ~> ~looping

\* What Quit() is documented to do whenever it is called: the loop exits.
EveryQuitStops == (quitRequested /\ looping) ~> ~looping

=============================================================================
