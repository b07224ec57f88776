------------------------ MODULE EventLoopThreadPool ------------------------
(***************************************************************************)
(* An EventLoopThreadPool with its EventLoopThreads and their Threads: the *)
(* creator, that is the thread that starts the pool, asks it for loops and *)
(* destroys it, and the threads the pool starts, each with an EventLoop on *)
(* its stack.                                                              *)
(*                                                                         *)
(* Of an EventLoop only what starting and stopping need is here: quit_,    *)
(* the eventfd and the position in Loop().  Module EventLoop has the rest. *)
(* A use of an object that no longer exists is undefined in the code; here *)
(* it is recorded in faults and has no other effect.                       *)
(***************************************************************************)
EXTENDS Naturals

CONSTANTS
    MaxThreads,  \* the largest argument of SetThreadNum
    MaxPicks     \* how often each loop is handed out

ASSUME PoolAssumption ==
    MaxThreads \in Nat /\ MaxPicks \in Nat

VARIABLES
    cpc,      \* the creator
    cur,      \* the EventLoopThread it is starting or destroying
    num,      \* num_threads_
    loops,    \* loops_.size(); the i-th loop is the one of thread i
    next,     \* next_
    th,       \* the EventLoopThreads and their threads
    \* history
    served,   \* how often GetNextLoop returned each loop
    base,     \* how often it returned base_loop_
    stopping, \* the threads whose loop the pool's destructor has told to quit
    selfQuit, \* the threads with a callback or functor that has called Quit()
    faults    \* what was used when it no longer existed

vars == <<cpc, cur, num, loops, next, th, served, base, stopping, selfQuit, faults>>
poolVars == <<num, loops, next, served, base>>

Threads == 1..MaxThreads

CreatorPC ==
    {"idle",        \* Start not called yet
     "create",      \* at the head of the loop in Start
     "starting",    \* in Thread::Start, waiting for the promise
     "lock",        \* in StartLoop, about to take mtx_
     "waiting",     \* in StartLoop, in cv_.wait
     "running",     \* Start has returned
     "destructor",  \* about to test loop_ in ~EventLoopThread
     "quit",        \* about to store quit_ in Quit()
     "wake",        \* quit_ stored
     "join",        \* in Thread::Join
     "free",        \* about to destroy the members
     "done"}

ThreadPC ==
    {"none",        \* not started
     "born",        \* before tid_ is set
     "promise",     \* before p.set_value()
     "init",        \* in ThreadFunc, before the EventLoop is constructed
     "publish",     \* about to store loop_
     "enter",       \* about to call Loop()
     "check",       \* while (!quit_)
     "poll",        \* in epoll_wait
     "callback",    \* handling events or running functors
     "clear",       \* Loop() has returned
     "unlock",      \* loop_ = nullptr done, mtx_ held
     "unwind",      \* about to destroy the EventLoop
     "gone"}

\* loop: loop_ is not nullptr; mtx: the thread holds mtx_; object: the
\* EventLoopThread exists; alive: the EventLoop exists.
ThreadState ==
    [pc : ThreadPC, ready : BOOLEAN, tid : BOOLEAN, loop : BOOLEAN, mtx : BOOLEAN,
     object : BOOLEAN, alive : BOOLEAN, quit : BOOLEAN, woken : BOOLEAN]

TypeOK ==
    /\ cpc \in CreatorPC
    /\ cur \in 1..(MaxThreads + 1)
    /\ num \in 0..MaxThreads
    /\ loops \in 0..MaxThreads
    /\ next \in Nat
    /\ th \in [Threads -> ThreadState]
    /\ served \in [Threads -> Nat]
    /\ base \in Nat
    /\ stopping \in SUBSET Threads
    /\ selfQuit \in SUBSET Threads
    /\ faults \in SUBSET {"loop", "null", "object"}

NewThread ==
    [pc |-> "none", ready |-> FALSE, tid |-> FALSE, loop |-> FALSE, mtx |-> FALSE,
     object |-> FALSE, alive |-> FALSE, quit |-> FALSE, woken |-> FALSE]

Init ==
    /\ cpc = "idle"
    /\ cur = 1
    /\ num = 0 /\ loops = 0 /\ next = 0
    /\ th = [i \in Threads |-> NewThread]
    /\ served = [i \in Threads |-> 0]
    /\ base = 0
    /\ stopping = {} /\ selfQuit = {}
    /\ faults = {}

-----------------------------------------------------------------------------
(* The creator: SetThreadNum, Start and GetNextLoop                        *)

SetThreadNumOneMore(n) ==
    /\ cpc = "idle"
    /\ num' = n + 1
    /\ cpc' = "create"
    /\ UNCHANGED <<cur, loops, next, th, served, base, stopping, selfQuit, faults>>

SetThreadNum(n) ==
    /\ cpc = "idle"
    /\ num' = n
    /\ cpc' = "create"
    /\ UNCHANGED <<cur, loops, next, th, served, base, stopping, selfQuit, faults>>

\* An EventLoopThread is made, and its StartLoop calls Thread::Start.
ThreadStart ==
    /\ cpc = "create"
    /\ cur <= num
    /\ th' = [th EXCEPT ![cur] = [@ EXCEPT !.object = TRUE, !.pc = "born"]]
    /\ cpc' = "starting"
    /\ UNCHANGED <<cur, poolVars, stopping, selfQuit, faults>>

\* f.wait() in Thread::Start returns.
ThreadStarted ==
    /\ cpc = "starting"
    /\ th[cur].ready
    /\ cpc' = "lock"
    /\ UNCHANGED <<cur, poolVars, th, stopping, selfQuit, faults>>

StartLoopReturnsAnyway ==
    /\ cpc = "lock"
    /\ ~th[cur].mtx
    /\ loops' = loops + 1
    /\ cur' = cur + 1
    /\ cpc' = "create"
    /\ UNCHANGED <<num, next, th, served, base, stopping, selfQuit, faults>>

\* StartLoop under mtx_: loop_ is set, and is returned to Start.
StartLoopReturns ==
    /\ cpc = "lock"
    /\ ~th[cur].mtx
    /\ th[cur].loop
    /\ loops' = loops + 1
    /\ cur' = cur + 1
    /\ cpc' = "create"
    /\ UNCHANGED <<num, next, th, served, base, stopping, selfQuit, faults>>

\* StartLoop under mtx_: loop_ is nullptr, cv_.wait releases mtx_.
StartLoopWaits ==
    /\ cpc = "lock"
    /\ ~th[cur].mtx
    /\ ~th[cur].loop
    /\ cpc' = "waiting"
    /\ UNCHANGED <<cur, poolVars, th, stopping, selfQuit, faults>>

\* The wait on a condition variable may end without a notification.
SpuriousWakeup ==
    /\ cpc = "waiting"
    /\ cpc' = "lock"
    /\ UNCHANGED <<cur, poolVars, th, stopping, selfQuit, faults>>

StartDone ==
    /\ cpc = "create"
    /\ cur > num
    /\ cpc' = "running"
    /\ UNCHANGED <<cur, poolVars, th, stopping, selfQuit, faults>>

NextIndexTooFar == IF next + 1 > loops THEN 0 ELSE next + 1
\* ++next_, and back to 0 at the end of loops_.
NextIndex == IF next + 1 >= loops THEN 0 ELSE next + 1

GetNextLoop ==
    /\ cpc = "running"
    /\ loops > 0
    /\ served[next + 1] < MaxPicks
    /\ served' = [served EXCEPT ![next + 1] = @ + 1]
    /\ next' = NextIndex
    /\ UNCHANGED <<cpc, cur, num, loops, th, base, stopping, selfQuit, faults>>

GetBaseLoop ==
    /\ cpc = "running"
    /\ loops = 0
    /\ base < MaxPicks
    /\ base' = base + 1
    /\ UNCHANGED <<cpc, cur, num, loops, next, th, served, stopping, selfQuit, faults>>

-----------------------------------------------------------------------------
(* The creator: ~EventLoopThreadPool, that is ~EventLoopThread for each    *)
(* thread in turn.  The destructor reads loop_ without mtx_.               *)

PoolDestructor ==
    /\ cpc = "running"
    /\ cur' = 1
    /\ cpc' = "destructor"
    /\ UNCHANGED <<poolVars, th, stopping, selfQuit, faults>>

DestructorNoJoin ==
    /\ cpc = "destructor"
    /\ cur <= num
    /\ cpc' = "free"
    /\ UNCHANGED <<cur, poolVars, th, stopping, selfQuit, faults>>

Destructor ==
    /\ cpc = "destructor"
    /\ cur <= num
    /\ cpc' = IF th[cur].loop THEN "quit" ELSE "free"
    /\ UNCHANGED <<cur, poolVars, th, stopping, selfQuit, faults>>

\* The creator calls a function of the current EventLoop.
UsesLoop == faults' = IF th[cur].alive THEN faults ELSE faults \cup {"loop"}

\* loop_->Quit(), up to the store to quit_.
DestructorQuits ==
    /\ cpc = "quit"
    /\ UsesLoop
    /\ th' = [th EXCEPT ![cur] = [@ EXCEPT !.quit = th[cur].quit \/ th[cur].alive]]
    /\ stopping' = stopping \cup {cur}
    /\ cpc' = "wake"
    /\ UNCHANGED <<cur, poolVars, selfQuit>>

\* The same, when the build reads loop_ again instead of keeping the value it
\* has tested, and the thread has cleared it in between.
DestructorQuitsNull ==
    /\ cpc = "quit"
    /\ ~th[cur].loop
    /\ faults' = faults \cup {"null"}
    /\ cpc' = "wake"
    /\ UNCHANGED <<cur, poolVars, th, stopping, selfQuit>>

DestructorWakesNobody ==
    /\ cpc = "wake"
    /\ cpc' = "join"
    /\ UNCHANGED <<cur, poolVars, th, stopping, selfQuit, faults>>

\* The rest of Quit(): IsInLoopThread() and Wakeup().
DestructorWakes ==
    /\ cpc = "wake"
    /\ UsesLoop
    /\ th' = [th EXCEPT ![cur] = [@ EXCEPT !.woken = th[cur].woken \/ th[cur].alive]]
    /\ cpc' = "join"
    /\ UNCHANGED <<cur, poolVars, stopping, selfQuit>>

Join ==
    /\ cpc = "join"
    /\ th[cur].pc = "gone"
    /\ cpc' = "free"
    /\ UNCHANGED <<cur, poolVars, th, stopping, selfQuit, faults>>

\* The members go; ~Thread detaches a thread that was not joined.
Free ==
    /\ cpc = "free"
    /\ th' = [th EXCEPT ![cur] = [@ EXCEPT !.object = FALSE]]
    /\ cur' = cur + 1
    /\ cpc' = "destructor"
    /\ UNCHANGED <<poolVars, stopping, selfQuit, faults>>

PoolDestroyed ==
    /\ cpc = "destructor"
    /\ cur > num
    /\ cpc' = "done"
    /\ UNCHANGED <<cur, poolVars, th, stopping, selfQuit, faults>>

-----------------------------------------------------------------------------
(* Thread i                                                                *)

\* The thread uses a member of its EventLoopThread.
UsesObject(i) == faults' = IF th[i].object THEN faults ELSE faults \cup {"object"}

rest == <<cpc, cur, poolVars, stopping, selfQuit>>

SetTid(i) ==
    /\ th[i].pc = "born"
    /\ th' = [th EXCEPT ![i] = [@ EXCEPT !.pc = "promise", !.tid = TRUE]]
    /\ UNCHANGED <<rest, faults>>

SetPromise(i) ==
    /\ th[i].pc = "promise"
    /\ th' = [th EXCEPT ![i] = [@ EXCEPT !.pc = "init", !.ready = TRUE]]
    /\ UNCHANGED <<rest, faults>>

\* ThreadFunc: the EventLoop is constructed and the init callback runs.
ConstructLoop(i) ==
    /\ th[i].pc = "init"
    /\ th' = [th EXCEPT ![i] = [@ EXCEPT !.pc = "publish", !.alive = TRUE]]
    /\ UNCHANGED <<rest, faults>>

PublishSilently(i) ==
    /\ th[i].pc = "publish"
    /\ th' = [th EXCEPT ![i] = [@ EXCEPT !.pc = "enter", !.loop = TRUE]]
    /\ UsesObject(i)
    /\ UNCHANGED rest

\* loop_ = &loop; cv_.notify_one(), under mtx_.
Publish(i) ==
    /\ th[i].pc = "publish"
    /\ th' = [th EXCEPT ![i] = [@ EXCEPT !.pc = "enter", !.loop = TRUE]]
    /\ cpc' = IF cpc = "waiting" /\ cur = i THEN "lock" ELSE cpc
    /\ UsesObject(i)
    /\ UNCHANGED <<cur, poolVars, stopping, selfQuit>>

\* Loop(): quit_ = false
LoopEnter(i) ==
    /\ th[i].pc = "enter"
    /\ th' = [th EXCEPT ![i] = [@ EXCEPT !.pc = "check", !.quit = FALSE]]
    /\ UNCHANGED <<rest, faults>>

LoopCheck(i) ==
    /\ th[i].pc = "check"
    /\ th' = [th EXCEPT ![i] = [@ EXCEPT !.pc = IF th[i].quit THEN "clear" ELSE "poll"]]
    /\ UNCHANGED <<rest, faults>>

PollWakeup(i) ==
    /\ th[i].pc = "poll"
    /\ th[i].woken
    /\ th' = [th EXCEPT ![i] = [@ EXCEPT !.pc = "callback", !.woken = FALSE]]
    /\ UNCHANGED <<rest, faults>>

\* Traffic or the timeout ends epoll_wait.
PollReturns(i) ==
    /\ th[i].pc = "poll"
    /\ th' = [th EXCEPT ![i] = [@ EXCEPT !.pc = "callback"]]
    /\ UNCHANGED <<rest, faults>>

CallbackReturns(i) ==
    /\ th[i].pc = "callback"
    /\ th' = [th EXCEPT ![i] = [@ EXCEPT !.pc = "check"]]
    /\ UNCHANGED <<rest, faults>>

\* A callback or functor calls Quit() on its own loop.
CallbackQuits(i) ==
    /\ th[i].pc = "callback"
    /\ th' = [th EXCEPT ![i] = [@ EXCEPT !.pc = "check", !.quit = TRUE]]
    /\ selfQuit' = selfQuit \cup {i}
    /\ UNCHANGED <<cpc, cur, poolVars, stopping, faults>>

ClearNothing(i) ==
    /\ th[i].pc = "clear"
    /\ th' = [th EXCEPT ![i] = [@ EXCEPT !.pc = "unlock", !.mtx = TRUE]]
    /\ UsesObject(i)
    /\ UNCHANGED rest

\* Loop() has returned: take mtx_, loop_ = nullptr.
ClearLoop(i) ==
    /\ th[i].pc = "clear"
    /\ th' = [th EXCEPT ![i] = [@ EXCEPT !.pc = "unlock", !.mtx = TRUE, !.loop = FALSE]]
    /\ UsesObject(i)
    /\ UNCHANGED rest

\* ThreadFunc ends: mtx_ is released, and then the EventLoop is destroyed.
Unlock(i) ==
    /\ th[i].pc = "unlock"
    /\ th' = [th EXCEPT ![i] = [@ EXCEPT !.pc = "unwind", !.mtx = FALSE]]
    /\ UsesObject(i)
    /\ UNCHANGED rest

DestroyLoop(i) ==
    /\ th[i].pc = "unwind"
    /\ th' = [th EXCEPT ![i] = [@ EXCEPT !.pc = "gone", !.alive = FALSE, !.woken = FALSE]]
    /\ UNCHANGED <<rest, faults>>

-----------------------------------------------------------------------------
\* What the creator does by itself inside Start and inside the destructor.
CreatorStep ==
    \/ ThreadStart \/ ThreadStarted \/ StartLoopReturns \/ StartLoopWaits
    \/ StartDone
    \/ Destructor \/ DestructorQuits \/ DestructorQuitsNull \/ DestructorWakes
    \/ Join \/ Free \/ PoolDestroyed

\* What thread i does by itself; only its eventfd wakes it.
ThreadStep(i) ==
    \/ SetTid(i) \/ SetPromise(i) \/ ConstructLoop(i) \/ Publish(i)
    \/ LoopEnter(i) \/ LoopCheck(i) \/ PollWakeup(i) \/ CallbackReturns(i)
    \/ ClearLoop(i) \/ Unlock(i) \/ DestroyLoop(i)

Next ==
    \/ \E n \in 0..MaxThreads : SetThreadNum(n)
    \/ CreatorStep
    \/ SpuriousWakeup
    \/ GetNextLoop \/ GetBaseLoop
    \/ PoolDestructor
    \/ \E i \in Threads : ThreadStep(i) \/ PollReturns(i) \/ CallbackQuits(i)

Spec == Init /\ [][Next]_vars

\* The scheduler runs every thread that can run.  Neither traffic nor
\* spurious wakeups help, and nobody has to destroy the pool.
FairSpec ==
    /\ Spec
    /\ WF_vars(CreatorStep)
    /\ \A i \in Threads : WF_vars(ThreadStep(i))

-----------------------------------------------------------------------------
(* Properties                                                              *)

\* Whoever finds loop_ set finds an EventLoop behind it at that moment:
\* ThreadFunc publishes it when it is constructed and takes it back before
\* it is destroyed, however the loop came to its end.
PublishedIsAlive == \A i \in Threads : th[i].loop => th[i].alive

\* Round robin: the loops in loops_ are handed out equally often, up to one,
\* and nothing but them is (GetNextLoop).
Balanced ==
    /\ \A i, j \in 1..loops : served[i] <= served[j] + 1
    /\ \A i \in Threads : i > loops => served[i] = 0

\* A pointer in loops_ is good until the pool's destructor or one of the
\* loop's own callbacks tells that loop to quit, and the thread's id is known
\* (Start's promise, StartLoop's condition, ThreadFunc).
UsableUntilQuit ==
    \A i \in 1..loops : i \notin stopping \cup selfQuit => th[i].alive /\ th[i].tid

\* An EventLoopThread outlives its thread, which uses its members, unless the
\* loop quits by itself: the destructor has joined the thread before the
\* members go (Quit, Join, ~Thread).
JoinedBeforeFreed ==
    \A i \in Threads \ selfQuit : th[i].pc \notin {"none", "gone"} => th[i].object

\* Start goes on and returns, whether a thread stores loop_ before the creator
\* waits for it or after, unless the loop it waits for quits by itself
\* (StartLoop, ThreadFunc).
StartReturns == cpc = "create" ~> (cpc = "running" \/ cur \in selfQuit)

\* A pool that is destroyed when all its threads are in Loop() gets rid of
\* them, without help from traffic: Quit wakes each loop and each thread
\* can be joined.
DestructorEnds ==
    (cpc = "destructor" /\ cur = 1
        /\ \A i \in 1..num : th[i].pc \in {"check", "poll", "callback"})
    ~> cpc = "done"

\* The EventLoop on a thread's stack lives as long as it is in use: every
\* call the destructor makes on it finds it there.
LoopOutlivesUse == "loop" \notin faults

=============================================================================
