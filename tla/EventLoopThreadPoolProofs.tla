--------------------- MODULE EventLoopThreadPoolProofs ---------------------
(***************************************************************************)
(* Proofs about EventLoopThreadPool, for any number of threads: published  *)
(* loops exist, loops are handed out in turn, a loop in loops_ can be used *)
(* until it is told to quit, and, unless a loop quits by itself, its       *)
(* EventLoopThread does not go before its thread.                          *)
(***************************************************************************)
EXTENDS EventLoopThreadPool, TLAPS

Starting == {"starting", "lock", "waiting"}
Stopping == {"destructor", "quit", "wake", "join", "free", "done"}
Looping  == {"enter", "check", "poll", "callback"}
Ending   == {"clear", "unlock", "unwind", "gone"}

\* What the position of a thread says about its loop, loop_ and tid_.
Position(x) ==
    /\ x.alive <=> x.pc \in Looping \cup {"publish", "clear", "unlock", "unwind"}
    /\ x.loop <=> x.pc \in Looping \cup {"clear"}
    /\ x.tid <=> x.pc \notin {"none", "born"}

PositionInv == \A i \in Threads : Position(th[i])

\* Where the creator is in the pool.
CreatorInv ==
    /\ cpc = "idle" => cur = 1 /\ loops = 0
    /\ cpc \in {"create"} \cup Starting => cur = loops + 1 /\ loops <= num
    /\ cpc \in Starting => cur <= num
    /\ cpc \in {"running"} \cup Stopping => loops = num
    /\ cpc \in Stopping \ {"destructor", "done"} => cur <= num
    /\ cpc = "destructor" => cur <= num + 1
    /\ cpc \notin Stopping => stopping = {}
    /\ cpc \in {"destructor", "quit"} => \A i \in stopping : i < cur
    /\ cpc \in {"wake", "join", "free"} => \A i \in stopping : i <= cur

\* Threads the creator has not come to do nothing; those whose loop is in
\* loops_ have published it.
StartedInv ==
    \A i \in Threads :
        /\ i > loops /\ ~(i = cur /\ cpc \in Starting) => th[i].pc = "none"
        /\ i <= loops => th[i].pc \in Looping \cup Ending

\* next_ divides loops_ into the loops that have had this round's turn and
\* the others.
RoundInv ==
    /\ next = 0 \/ next < loops
    /\ cpc \in {"idle", "create"} \cup Starting =>
           next = 0 /\ \A i \in Threads : served[i] = 0
    /\ \A i \in Threads : i > loops => served[i] = 0
    /\ \A i, j \in 1..loops :
           /\ (i <= next <=> j <= next) => served[i] = served[j]
           /\ i <= next /\ j > next => served[i] = served[j] + 1

\* The inductive invariant that holds whoever quits the loops.
IInv == TypeOK /\ PositionInv /\ CreatorInv /\ StartedInv /\ RoundInv

\* A loop that has been told to quit, or has ended, was told by the
\* destructor or by its own callback; one that did not quit by itself is
\* joined before its EventLoopThread goes.
StoppedInv ==
    \A i \in Threads :
        th[i].quit \/ th[i].pc \in Ending => i \in stopping \cup selfQuit

ObjectInv ==
    JoinedBeforeFreed /\ (cpc = "free" /\ cur \notin selfQuit => th[cur].pc = "gone")

USE DEF Starting, Stopping, Looping, Ending, Threads

-----------------------------------------------------------------------------
\* Changing fields of a thread's record keeps its type.
LEMMA RecordTypes ==
    ASSUME NEW x \in ThreadState, NEW p \in ThreadPC, NEW v \in BOOLEAN
    PROVE  /\ [x EXCEPT !.pc = p] \in ThreadState
           /\ [x EXCEPT !.pc = p, !.tid = v] \in ThreadState
           /\ [x EXCEPT !.pc = p, !.ready = v] \in ThreadState
           /\ [x EXCEPT !.pc = p, !.alive = v] \in ThreadState
           /\ [x EXCEPT !.pc = p, !.loop = v] \in ThreadState
           /\ [x EXCEPT !.pc = p, !.quit = v] \in ThreadState
           /\ [x EXCEPT !.pc = p, !.woken = v] \in ThreadState
           /\ [x EXCEPT !.pc = p, !.mtx = v] \in ThreadState
           /\ [x EXCEPT !.object = v] \in ThreadState
           /\ [x EXCEPT !.quit = v] \in ThreadState
           /\ [x EXCEPT !.woken = v] \in ThreadState
           /\ [x EXCEPT !.object = TRUE, !.pc = p] \in ThreadState
           /\ [x EXCEPT !.pc = p, !.mtx = TRUE, !.loop = FALSE] \in ThreadState
           /\ [x EXCEPT !.pc = p, !.alive = FALSE, !.woken = FALSE] \in ThreadState
BY DEF ThreadState

\* What a step of a thread makes of its record.
Moves(x, r) ==
    /\ Position(x) => Position(r)
    /\ x.pc # "none" /\ x.pc # "gone" /\ r.pc # "none"
    /\ x.pc \in Looping \cup Ending => r.pc \in Looping \cup Ending
    /\ r.object = x.object
    /\ r.pc \in Ending => x.pc \in Ending \/ x.quit

\* A step of thread i: its record moves, quit_ is set only by itself, and of
\* the rest only the creator's position can change, from waiting to awake
\* (Publish).
Elsewhere(i) ==
    /\ cpc' = cpc \/ (cpc = "waiting" /\ cpc' = "lock")
    /\ faults' \in {faults, faults \cup {"object"}}
    /\ selfQuit' \in {selfQuit, selfQuit \cup {i}}
    /\ UNCHANGED <<cur, num, loops, next, served, base, stopping>>

Steps(i) ==
    /\ \E r \in ThreadState : /\ Moves(th[i], r)
                              /\ r.quit => th[i].quit \/ i \in selfQuit'
                              /\ th' = [th EXCEPT ![i] = r]
    /\ Elsewhere(i)

\* Every action of a thread is such a step.
LEMMA ThreadSteps ==
    ASSUME TypeOK, NEW i \in Threads,
           ThreadStep(i) \/ PollReturns(i) \/ CallbackQuits(i)
    PROVE  Steps(i)
<1> DEFINE x == th[i]
<1>0. x \in ThreadState
  BY DEF TypeOK
<1> USE DEF rest, poolVars, UsesObject
<1>1. CASE SetTid(i)
  <2> DEFINE r == [x EXCEPT !.pc = "promise", !.tid = TRUE]
  <2>1. r \in ThreadState
    BY <1>0, RecordTypes DEF ThreadPC
  <2>2. Moves(x, r)
    BY <1>0, <1>1 DEF SetTid, Moves, Position, ThreadState
  <2>3. th' = [th EXCEPT ![i] = r]
    BY <1>1 DEF SetTid
  <2>4. Elsewhere(i)
    BY <1>1 DEF SetTid, Elsewhere
  <2>5. r.quit => x.quit \/ i \in selfQuit'
    BY <1>0, <1>1 DEF SetTid, ThreadState
  <2> HIDE DEF r
  <2> QED
    BY <2>1, <2>2, <2>3, <2>4, <2>5 DEF Steps
<1>2. CASE SetPromise(i)
  <2> DEFINE r == [x EXCEPT !.pc = "init", !.ready = TRUE]
  <2>1. r \in ThreadState
    BY <1>0, RecordTypes DEF ThreadPC
  <2>2. Moves(x, r)
    BY <1>0, <1>2 DEF SetPromise, Moves, Position, ThreadState
  <2>3. th' = [th EXCEPT ![i] = r]
    BY <1>2 DEF SetPromise
  <2>4. Elsewhere(i)
    BY <1>2 DEF SetPromise, Elsewhere
  <2>5. r.quit => x.quit \/ i \in selfQuit'
    BY <1>0, <1>2 DEF SetPromise, ThreadState
  <2> HIDE DEF r
  <2> QED
    BY <2>1, <2>2, <2>3, <2>4, <2>5 DEF Steps
<1>3. CASE ConstructLoop(i)
  <2> DEFINE r == [x EXCEPT !.pc = "publish", !.alive = TRUE]
  <2>1. r \in ThreadState
    BY <1>0, RecordTypes DEF ThreadPC
  <2>2. Moves(x, r)
    BY <1>0, <1>3 DEF ConstructLoop, Moves, Position, ThreadState
  <2>3. th' = [th EXCEPT ![i] = r]
    BY <1>3 DEF ConstructLoop
  <2>4. Elsewhere(i)
    BY <1>3 DEF ConstructLoop, Elsewhere
  <2>5. r.quit => x.quit \/ i \in selfQuit'
    BY <1>0, <1>3 DEF ConstructLoop, ThreadState
  <2> HIDE DEF r
  <2> QED
    BY <2>1, <2>2, <2>3, <2>4, <2>5 DEF Steps
<1>4. CASE Publish(i)
  <2> DEFINE r == [x EXCEPT !.pc = "enter", !.loop = TRUE]
  <2>1. r \in ThreadState
    BY <1>0, RecordTypes DEF ThreadPC
  <2>2. Moves(x, r)
    BY <1>0, <1>4 DEF Publish, Moves, Position, ThreadState
  <2>3. th' = [th EXCEPT ![i] = r]
    BY <1>4 DEF Publish
  <2>4. Elsewhere(i)
    BY <1>4 DEF Publish, Elsewhere
  <2>5. r.quit => x.quit \/ i \in selfQuit'
    BY <1>0, <1>4 DEF Publish, ThreadState
  <2> HIDE DEF r
  <2> QED
    BY <2>1, <2>2, <2>3, <2>4, <2>5 DEF Steps
<1>5. CASE LoopEnter(i)
  <2> DEFINE r == [x EXCEPT !.pc = "check", !.quit = FALSE]
  <2>1. r \in ThreadState
    BY <1>0, RecordTypes DEF ThreadPC
  <2>2. Moves(x, r)
    BY <1>0, <1>5 DEF LoopEnter, Moves, Position, ThreadState
  <2>3. th' = [th EXCEPT ![i] = r]
    BY <1>5 DEF LoopEnter
  <2>4. Elsewhere(i)
    BY <1>5 DEF LoopEnter, Elsewhere
  <2>5. r.quit => x.quit \/ i \in selfQuit'
    BY <1>0, <1>5 DEF LoopEnter, ThreadState
  <2> HIDE DEF r
  <2> QED
    BY <2>1, <2>2, <2>3, <2>4, <2>5 DEF Steps
<1>6. CASE LoopCheck(i)
  <2> DEFINE r == [x EXCEPT !.pc = IF th[i].quit THEN "clear" ELSE "poll"]
  <2>1. r \in ThreadState
    BY <1>0, RecordTypes DEF ThreadPC
  <2>2. Moves(x, r)
    BY <1>0, <1>6 DEF LoopCheck, Moves, Position, ThreadState
  <2>3. th' = [th EXCEPT ![i] = r]
    BY <1>6 DEF LoopCheck
  <2>4. Elsewhere(i)
    BY <1>6 DEF LoopCheck, Elsewhere
  <2>5. r.quit => x.quit \/ i \in selfQuit'
    BY <1>0, <1>6 DEF LoopCheck, ThreadState
  <2> HIDE DEF r
  <2> QED
    BY <2>1, <2>2, <2>3, <2>4, <2>5 DEF Steps
<1>7. CASE PollWakeup(i)
  <2> DEFINE r == [x EXCEPT !.pc = "callback", !.woken = FALSE]
  <2>1. r \in ThreadState
    BY <1>0, RecordTypes DEF ThreadPC
  <2>2. Moves(x, r)
    BY <1>0, <1>7 DEF PollWakeup, Moves, Position, ThreadState
  <2>3. th' = [th EXCEPT ![i] = r]
    BY <1>7 DEF PollWakeup
  <2>4. Elsewhere(i)
    BY <1>7 DEF PollWakeup, Elsewhere
  <2>5. r.quit => x.quit \/ i \in selfQuit'
    BY <1>0, <1>7 DEF PollWakeup, ThreadState
  <2> HIDE DEF r
  <2> QED
    BY <2>1, <2>2, <2>3, <2>4, <2>5 DEF Steps
<1>8. CASE PollReturns(i)
  <2> DEFINE r == [x EXCEPT !.pc = "callback"]
  <2>1. r \in ThreadState
    BY <1>0, RecordTypes DEF ThreadPC
  <2>2. Moves(x, r)
    BY <1>0, <1>8 DEF PollReturns, Moves, Position, ThreadState
  <2>3. th' = [th EXCEPT ![i] = r]
    BY <1>8 DEF PollReturns
  <2>4. Elsewhere(i)
    BY <1>8 DEF PollReturns, Elsewhere
  <2>5. r.quit => x.quit \/ i \in selfQuit'
    BY <1>0, <1>8 DEF PollReturns, ThreadState
  <2> HIDE DEF r
  <2> QED
    BY <2>1, <2>2, <2>3, <2>4, <2>5 DEF Steps
<1>9. CASE CallbackReturns(i)
  <2> DEFINE r == [x EXCEPT !.pc = "check"]
  <2>1. r \in ThreadState
    BY <1>0, RecordTypes DEF ThreadPC
  <2>2. Moves(x, r)
    BY <1>0, <1>9 DEF CallbackReturns, Moves, Position, ThreadState
  <2>3. th' = [th EXCEPT ![i] = r]
    BY <1>9 DEF CallbackReturns
  <2>4. Elsewhere(i)
    BY <1>9 DEF CallbackReturns, Elsewhere
  <2>5. r.quit => x.quit \/ i \in selfQuit'
    BY <1>0, <1>9 DEF CallbackReturns, ThreadState
  <2> HIDE DEF r
  <2> QED
    BY <2>1, <2>2, <2>3, <2>4, <2>5 DEF Steps
<1>10. CASE CallbackQuits(i)
  <2> DEFINE r == [x EXCEPT !.pc = "check", !.quit = TRUE]
  <2>1. r \in ThreadState
    BY <1>0, RecordTypes DEF ThreadPC
  <2>2. Moves(x, r)
    BY <1>0, <1>10 DEF CallbackQuits, Moves, Position, ThreadState
  <2>3. th' = [th EXCEPT ![i] = r]
    BY <1>10 DEF CallbackQuits
  <2>4. Elsewhere(i)
    BY <1>10 DEF CallbackQuits, Elsewhere
  <2>5. r.quit => x.quit \/ i \in selfQuit'
    BY <1>0, <1>10 DEF CallbackQuits, ThreadState
  <2> HIDE DEF r
  <2> QED
    BY <2>1, <2>2, <2>3, <2>4, <2>5 DEF Steps
<1>11. CASE ClearLoop(i)
  <2> DEFINE r == [x EXCEPT !.pc = "unlock", !.mtx = TRUE, !.loop = FALSE]
  <2>1. r \in ThreadState
    BY <1>0, RecordTypes DEF ThreadPC
  <2>2. Moves(x, r)
    BY <1>0, <1>11 DEF ClearLoop, Moves, Position, ThreadState
  <2>3. th' = [th EXCEPT ![i] = r]
    BY <1>11 DEF ClearLoop
  <2>4. Elsewhere(i)
    BY <1>11 DEF ClearLoop, Elsewhere
  <2>5. r.quit => x.quit \/ i \in selfQuit'
    BY <1>0, <1>11 DEF ClearLoop, ThreadState
  <2> HIDE DEF r
  <2> QED
    BY <2>1, <2>2, <2>3, <2>4, <2>5 DEF Steps
<1>12. CASE Unlock(i)
  <2> DEFINE r == [x EXCEPT !.pc = "unwind", !.mtx = FALSE]
  <2>1. r \in ThreadState
    BY <1>0, RecordTypes DEF ThreadPC
  <2>2. Moves(x, r)
    BY <1>0, <1>12 DEF Unlock, Moves, Position, ThreadState
  <2>3. th' = [th EXCEPT ![i] = r]
    BY <1>12 DEF Unlock
  <2>4. Elsewhere(i)
    BY <1>12 DEF Unlock, Elsewhere
  <2>5. r.quit => x.quit \/ i \in selfQuit'
    BY <1>0, <1>12 DEF Unlock, ThreadState
  <2> HIDE DEF r
  <2> QED
    BY <2>1, <2>2, <2>3, <2>4, <2>5 DEF Steps
<1>13. CASE DestroyLoop(i)
  <2> DEFINE r == [x EXCEPT !.pc = "gone", !.alive = FALSE, !.woken = FALSE]
  <2>1. r \in ThreadState
    BY <1>0, RecordTypes DEF ThreadPC
  <2>2. Moves(x, r)
    BY <1>0, <1>13 DEF DestroyLoop, Moves, Position, ThreadState
  <2>3. th' = [th EXCEPT ![i] = r]
    BY <1>13 DEF DestroyLoop
  <2>4. Elsewhere(i)
    BY <1>13 DEF DestroyLoop, Elsewhere
  <2>5. r.quit => x.quit \/ i \in selfQuit'
    BY <1>0, <1>13 DEF DestroyLoop, ThreadState
  <2> HIDE DEF r
  <2> QED
    BY <2>1, <2>2, <2>3, <2>4, <2>5 DEF Steps
<1> QED
  BY <1>1, <1>2, <1>3, <1>4, <1>5, <1>6, <1>7, <1>8, <1>9, <1>10, <1>11, <1>12, <1>13 DEF ThreadStep

-----------------------------------------------------------------------------
(* The creator                                                             *)

\* What the creator does to a record leaves the thread where it is.
LEMMA CreatorRecords ==
    ASSUME NEW x \in ThreadState, NEW v \in BOOLEAN
    PROVE  /\ [x EXCEPT !.object = v].pc = x.pc
           /\ [x EXCEPT !.quit = v].pc = x.pc
           /\ [x EXCEPT !.woken = v].pc = x.pc
           /\ Position(x) => /\ Position([x EXCEPT !.object = v])
                             /\ Position([x EXCEPT !.quit = v])
                             /\ Position([x EXCEPT !.woken = v])
BY DEF ThreadState, Position

\* Steps of the creator that leave the threads alone keep the invariant.
LEMMA QuietSteps ==
    ASSUME IInv,
           \/ ThreadStarted \/ StartLoopWaits \/ SpuriousWakeup \/ StartDone
           \/ GetBaseLoop \/ PoolDestructor \/ Destructor \/ Join \/ PoolDestroyed
    PROVE  IInv'
<1>0. TypeOK /\ PositionInv /\ CreatorInv /\ StartedInv /\ RoundInv
  BY DEF IInv
<1>1. UNCHANGED <<num, loops, next, th, served, stopping, selfQuit, faults>>
  BY DEF ThreadStarted, StartLoopWaits, SpuriousWakeup, StartDone, GetBaseLoop,
         PoolDestructor, Destructor, Join, PoolDestroyed, poolVars
<1>2. cur' = cur \/ (cur' = 1 /\ cpc = "running" /\ cpc' = "destructor")
  BY DEF ThreadStarted, StartLoopWaits, SpuriousWakeup, StartDone, GetBaseLoop,
         PoolDestructor, Destructor, Join, PoolDestroyed, poolVars
<1>3. base' \in Nat
  BY <1>0 DEF ThreadStarted, StartLoopWaits, SpuriousWakeup, StartDone, GetBaseLoop,
         PoolDestructor, Destructor, Join, PoolDestroyed, poolVars, TypeOK
<1>4. \/ cpc' = cpc
      \/ cpc \in Starting /\ cpc' \in Starting
      \/ cpc = "create" /\ cur > num /\ cpc' = "running"
      \/ cpc = "running" /\ cpc' = "destructor" /\ cur' = 1
      \/ cpc = "destructor" /\ cur <= num /\ cpc' \in {"quit", "free"}
      \/ cpc = "join" /\ cpc' = "free"
      \/ cpc = "destructor" /\ cur > num /\ cpc' = "done"
  BY DEF ThreadStarted, StartLoopWaits, SpuriousWakeup, StartDone, GetBaseLoop,
         PoolDestructor, Destructor, Join, PoolDestroyed, poolVars
<1>5. TypeOK'
  BY <1>0, <1>1, <1>2, <1>3, <1>4, PoolAssumption DEF TypeOK, CreatorPC
<1>6. PositionInv'
  BY <1>0, <1>1 DEF PositionInv
<1>7. CreatorInv'
  BY <1>0, <1>1, <1>2, <1>4, PoolAssumption DEF CreatorInv, TypeOK
<1>8. StartedInv'
  BY <1>0, <1>1, <1>2, <1>4 DEF StartedInv, CreatorInv, TypeOK
<1>9. RoundInv'
  BY <1>0, <1>1, <1>4 DEF RoundInv
<1> QED
  BY <1>5, <1>6, <1>7, <1>8, <1>9 DEF IInv

\* SetThreadNum, and Start up to the first thread, keep the invariant.
LEMMA SetThreadNumStep ==
    ASSUME IInv, NEW n \in 0..MaxThreads, SetThreadNum(n)
    PROVE  IInv'
<1>0. TypeOK /\ PositionInv /\ CreatorInv /\ StartedInv /\ RoundInv
  BY DEF IInv
<1>1. TypeOK'
  BY <1>0, PoolAssumption DEF SetThreadNum, TypeOK, CreatorPC
<1>2. PositionInv' /\ RoundInv'
  BY <1>0 DEF SetThreadNum, PositionInv, RoundInv
<1>3. CreatorInv'
  BY <1>0, PoolAssumption DEF SetThreadNum, CreatorInv, TypeOK
<1>4. StartedInv'
  BY <1>0 DEF SetThreadNum, StartedInv
<1> QED
  BY <1>1, <1>2, <1>3, <1>4 DEF IInv

\* Starting a thread keeps the invariant.
LEMMA ThreadStartStep ==
    ASSUME IInv, ThreadStart
    PROVE  IInv'
<1>0. TypeOK /\ PositionInv /\ CreatorInv /\ StartedInv /\ RoundInv
  BY DEF IInv
<1> DEFINE r == [th[cur] EXCEPT !.object = TRUE, !.pc = "born"]
<1>1. cur \in Threads /\ th[cur] \in ThreadState /\ cur = loops + 1 /\ loops \in Nat
  BY <1>0, PoolAssumption DEF ThreadStart, TypeOK, CreatorInv
<1>2. th[cur].pc = "none"
  BY <1>0, <1>1 DEF StartedInv, ThreadStart
<1>3. r \in ThreadState /\ r.pc = "born" /\ Position(r)
  <2>1. r \in ThreadState
    BY <1>1, RecordTypes DEF ThreadPC
  <2>2. Position(th[cur])
    BY <1>0, <1>1 DEF PositionInv
  <2> QED
    BY <1>1, <1>2, <2>1, <2>2 DEF ThreadState, Position
<1>4. th' = [th EXCEPT ![cur] = r]
  BY DEF ThreadStart
<1> HIDE DEF r
<1>5. UNCHANGED <<cur, num, loops, next, served, base, stopping, selfQuit, faults>>
      /\ cpc = "create" /\ cpc' = "starting" /\ cur <= num
  BY DEF ThreadStart, poolVars
<1>6. TypeOK'
  BY <1>0, <1>3, <1>4, <1>5 DEF TypeOK, CreatorPC
<1>7. PositionInv'
  BY <1>0, <1>3, <1>4 DEF TypeOK, PositionInv
<1>8. CreatorInv'
  BY <1>0, <1>5 DEF CreatorInv
<1>9. StartedInv'
  BY <1>0, <1>1, <1>4, <1>5 DEF StartedInv, TypeOK
<1>10. RoundInv'
  BY <1>0, <1>5 DEF RoundInv
<1> QED
  BY <1>6, <1>7, <1>8, <1>9, <1>10 DEF IInv

\* A return of StartLoop, which adds a loop to loops_, keeps the invariant.
LEMMA StartLoopReturnsStep ==
    ASSUME IInv, StartLoopReturns
    PROVE  IInv'
<1>0. TypeOK /\ PositionInv /\ CreatorInv /\ StartedInv /\ RoundInv
  BY DEF IInv
<1>1. cur \in Threads /\ cur = loops + 1 /\ cur <= num
  BY <1>0, PoolAssumption DEF StartLoopReturns, TypeOK, CreatorInv
<1>2. th[cur].pc \in Looping \cup Ending
  BY <1>0, <1>1 DEF StartLoopReturns, PositionInv, Position
<1>3. TypeOK'
  BY <1>0, <1>1, PoolAssumption DEF StartLoopReturns, TypeOK, CreatorPC
<1>4. PositionInv'
  BY <1>0 DEF StartLoopReturns, PositionInv
<1>5. CreatorInv'
  BY <1>0, <1>1 DEF StartLoopReturns, CreatorInv, TypeOK
<1>6. StartedInv'
  BY <1>0, <1>1, <1>2, PoolAssumption DEF StartLoopReturns, StartedInv, TypeOK
<1>7. RoundInv'
  BY <1>0, <1>1, PoolAssumption DEF StartLoopReturns, RoundInv, TypeOK
<1> QED
  BY <1>3, <1>4, <1>5, <1>6, <1>7 DEF IInv

\* Handing out a loop keeps the invariant: the loop that had its turn is the
\* next one of the round, and after the last one a new round begins.
LEMMA GetNextLoopStep ==
    ASSUME IInv, GetNextLoop
    PROVE  IInv'
<1>0. TypeOK /\ PositionInv /\ CreatorInv /\ StartedInv /\ RoundInv
  BY DEF IInv
<1>1. next \in Nat /\ loops \in Nat /\ next < loops /\ next + 1 \in Threads
  BY <1>0, PoolAssumption DEF GetNextLoop, TypeOK, RoundInv
<1>2. next' \in Nat /\ (next' = 0 \/ next' < loops)
  BY <1>1 DEF GetNextLoop, NextIndex
<1>3. /\ served' \in [Threads -> Nat]
      /\ \A i \in Threads : served'[i] = IF i = next + 1 THEN served[i] + 1 ELSE served[i]
  BY <1>0, <1>1 DEF GetNextLoop, TypeOK
<1>4. TypeOK'
  BY <1>0, <1>2, <1>3 DEF GetNextLoop, TypeOK
<1>5. PositionInv' /\ CreatorInv' /\ StartedInv'
  BY <1>0 DEF GetNextLoop, PositionInv, CreatorInv, StartedInv
<1>6. RoundInv'
  <2>1. \A i \in Threads : i > loops => served'[i] = 0
    BY <1>0, <1>1, <1>3 DEF RoundInv
  <2>2. ASSUME NEW i \in 1..loops, NEW j \in 1..loops
        PROVE  /\ (i <= next' <=> j <= next') => served'[i] = served'[j]
               /\ i <= next' /\ j > next' => served'[i] = served'[j] + 1
    <3>1. i \in Threads /\ j \in Threads /\ served[i] \in Nat /\ served[j] \in Nat
      BY <1>0, PoolAssumption DEF TypeOK
    <3>2. /\ (i <= next <=> j <= next) => served[i] = served[j]
          /\ i <= next /\ j > next => served[i] = served[j] + 1
          /\ j <= next /\ i > next => served[j] = served[i] + 1
      BY <1>0 DEF RoundInv
    <3>3. CASE next' = 0
      <4>1. next + 1 = loops
        BY <1>1, <3>3 DEF GetNextLoop, NextIndex
      <4> QED
        BY <1>1, <1>3, <3>1, <3>2, <3>3, <4>1
    <3>4. CASE next' = next + 1
      BY <1>1, <1>3, <3>1, <3>2, <3>4
    <3> QED
      BY <3>3, <3>4 DEF GetNextLoop, NextIndex
  <2> QED
    BY <1>2, <2>1, <2>2 DEF GetNextLoop, RoundInv
<1> QED
  BY <1>4, <1>5, <1>6 DEF IInv

\* A call of the destructor on thread cur changes a flag of its record only.
Touches ==
    \E r \in ThreadState :
        /\ Position(r) /\ r.pc = th[cur].pc
        /\ th' = [th EXCEPT ![cur] = r]

\* The destructor's calls on a loop and the end of an EventLoopThread keep
\* the invariant.
LEMMA DestructorSteps ==
    ASSUME IInv, DestructorQuits \/ DestructorQuitsNull \/ DestructorWakes \/ Free
    PROVE  IInv'
<1>0. TypeOK /\ PositionInv /\ CreatorInv /\ StartedInv /\ RoundInv
  BY DEF IInv
<1> DEFINE x == th[cur]
<1>1. cur \in Threads /\ cur <= num /\ loops = num
  BY <1>0, PoolAssumption
     DEF DestructorQuits, DestructorQuitsNull, DestructorWakes, Free, TypeOK, CreatorInv
<1>2. x \in ThreadState /\ Position(x)
  BY <1>0, <1>1 DEF TypeOK, PositionInv
<1>3. Touches
  <2>1. CASE DestructorQuits
    <3> DEFINE v == x.quit \/ x.alive
               r == [x EXCEPT !.quit = v]
    <3>1. v \in BOOLEAN
      OBVIOUS
    <3>2. th' = [th EXCEPT ![cur] = r]
      BY <2>1, Zenon DEF DestructorQuits
    <3> HIDE DEF v
    <3>3. r \in ThreadState /\ Position(r) /\ r.pc = x.pc
      BY <1>2, <3>1, RecordTypes, CreatorRecords, Zenon DEF ThreadPC
    <3> HIDE DEF r
    <3> QED
      BY <3>2, <3>3 DEF Touches
  <2>2. CASE DestructorQuitsNull
    <3>1. th' = [th EXCEPT ![cur] = x]
      BY <1>0, <2>2 DEF DestructorQuitsNull, TypeOK
    <3> QED
      BY <1>2, <3>1 DEF Touches
  <2>3. CASE DestructorWakes
    <3> DEFINE v == x.woken \/ x.alive
               r == [x EXCEPT !.woken = v]
    <3>1. v \in BOOLEAN
      OBVIOUS
    <3>2. th' = [th EXCEPT ![cur] = r]
      BY <2>3, Zenon DEF DestructorWakes
    <3> HIDE DEF v
    <3>3. r \in ThreadState /\ Position(r) /\ r.pc = x.pc
      BY <1>2, <3>1, RecordTypes, CreatorRecords, Zenon DEF ThreadPC
    <3> HIDE DEF r
    <3> QED
      BY <3>2, <3>3 DEF Touches
  <2>4. CASE Free
    <3> DEFINE r == [x EXCEPT !.object = FALSE]
    <3>1. th' = [th EXCEPT ![cur] = r]
      BY <2>4 DEF Free
    <3>2. r \in ThreadState /\ Position(r) /\ r.pc = x.pc
      BY <1>2, CreatorRecords DEF ThreadState
    <3> HIDE DEF r
    <3> QED
      BY <3>1, <3>2 DEF Touches
  <2> QED
    BY <2>1, <2>2, <2>3, <2>4
<1>4. /\ UNCHANGED <<num, loops, next, served, base, selfQuit>>
      /\ faults' \in SUBSET {"loop", "null", "object"}
      /\ \/ cpc = "quit" /\ cpc' = "wake" /\ cur' = cur
         \/ cpc = "wake" /\ cpc' = "join" /\ cur' = cur
         \/ cpc = "free" /\ cpc' = "destructor" /\ cur' = cur + 1
      /\ stopping' = stopping \/ (cpc = "quit" /\ stopping' = stopping \cup {cur})
  BY <1>0 DEF DestructorQuits, DestructorQuitsNull, DestructorWakes, Free, UsesLoop,
              poolVars, TypeOK
<1>5. PICK r \in ThreadState : /\ Position(r) /\ r.pc = x.pc
                               /\ th' = [th EXCEPT ![cur] = r]
  BY <1>3 DEF Touches
<1>6. TypeOK'
  <2>1. th' \in [Threads -> ThreadState]
    BY <1>0, <1>5 DEF TypeOK
  <2>2. stopping' \in SUBSET Threads
    BY <1>0, <1>1, <1>4 DEF TypeOK
  <2>3. cpc' \in CreatorPC /\ cur' \in 1..(MaxThreads + 1)
    BY <1>1, <1>4, PoolAssumption DEF CreatorPC
  <2> QED
    BY <1>0, <1>4, <2>1, <2>2, <2>3 DEF TypeOK
<1>7. PositionInv'
  BY <1>0, <1>5 DEF TypeOK, PositionInv
<1>8. CreatorInv'
  <2>1. num \in Nat /\ cur \in Nat /\ \A i \in stopping : i \in Nat
    BY <1>0, <1>1, PoolAssumption DEF TypeOK
  <2>2. cpc' = "destructor" => cur' <= num + 1 /\ \A i \in stopping' : i < cur'
    BY <1>0, <1>1, <1>4, <2>1 DEF CreatorInv
  <2>3. cpc' \in {"wake", "join"} => cur' <= num /\ \A i \in stopping' : i <= cur'
    BY <1>0, <1>1, <1>4, <2>1 DEF CreatorInv
  <2> QED
    BY <1>1, <1>4, <2>2, <2>3 DEF CreatorInv
<1>9. StartedInv'
  BY <1>0, <1>1, <1>4, <1>5 DEF StartedInv, TypeOK
<1>10. RoundInv'
  BY <1>0, <1>4 DEF RoundInv
<1> QED
  BY <1>6, <1>7, <1>8, <1>9, <1>10 DEF IInv

\* The steps of a thread keep the invariant.
LEMMA ThreadIInv ==
    ASSUME IInv, NEW i \in Threads, Steps(i)
    PROVE  IInv'
<1>0. TypeOK /\ PositionInv /\ CreatorInv /\ StartedInv /\ RoundInv
  BY DEF IInv
<1>1. PICK r \in ThreadState : Moves(th[i], r) /\ th' = [th EXCEPT ![i] = r]
  BY DEF Steps
<1>2. Elsewhere(i)
  BY DEF Steps
<1>3. TypeOK'
  BY <1>0, <1>1, <1>2 DEF TypeOK, CreatorPC, Elsewhere
<1>4. PositionInv'
  BY <1>0, <1>1 DEF TypeOK, PositionInv, Moves
<1>5. CreatorInv'
  BY <1>0, <1>2 DEF CreatorInv, Elsewhere
<1>6. StartedInv'
  BY <1>0, <1>1, <1>2 DEF StartedInv, Moves, Elsewhere, TypeOK
<1>7. RoundInv'
  BY <1>0, <1>2 DEF RoundInv, Elsewhere
<1> QED
  BY <1>3, <1>4, <1>5, <1>6, <1>7 DEF IInv

-----------------------------------------------------------------------------
(* What holds whoever quits the loops                                      *)

\* The invariant holds when the pool has been constructed.
LEMMA InitIInv == Init => IInv
<1> SUFFICES ASSUME Init PROVE IInv
  OBVIOUS
<1>1. NewThread \in ThreadState /\ Position(NewThread) /\ NewThread.pc = "none"
  BY DEF NewThread, ThreadState, ThreadPC, Position
<1>2. TypeOK
  BY <1>1, PoolAssumption DEF Init, TypeOK, CreatorPC
<1> QED
  BY <1>1, <1>2, PoolAssumption DEF Init, IInv, PositionInv, CreatorInv, StartedInv, RoundInv

\* Every step keeps the invariant.
LEMMA NextIInv == IInv /\ [Next]_vars => IInv'
<1> SUFFICES ASSUME IInv, [Next]_vars PROVE IInv'
  OBVIOUS
<1>1. CASE \E n \in 0..MaxThreads : SetThreadNum(n)
  BY <1>1, SetThreadNumStep
<1>2. CASE CreatorStep \/ SpuriousWakeup \/ GetNextLoop \/ GetBaseLoop \/ PoolDestructor
  BY <1>2, QuietSteps, ThreadStartStep, StartLoopReturnsStep, GetNextLoopStep,
     DestructorSteps DEF CreatorStep
<1>3. ASSUME NEW i \in Threads, ThreadStep(i) \/ PollReturns(i) \/ CallbackQuits(i)
      PROVE  IInv'
  BY <1>3, ThreadSteps, ThreadIInv DEF IInv
<1>4. CASE UNCHANGED vars
  BY <1>4 DEF vars, IInv, TypeOK, PositionInv, CreatorInv, StartedInv, RoundInv
<1> QED
  BY <1>1, <1>2, <1>3, <1>4 DEF Next

\* IInv is an invariant of the pool.
LEMMA IInvCorrect == Spec => []IInv
BY InitIInv, NextIInv, PTL DEF Spec

\* Every variable of the pool and of its threads keeps its type.
THEOREM TypeCorrect == Spec => []TypeOK
<1>1. IInv => TypeOK
  BY DEF IInv
<1> QED
  BY <1>1, IInvCorrect, PTL

\* For any number of threads, a loop_ that is set points to an EventLoop that
\* exists at that moment (ThreadFunc).
THEOREM PublishedIsAliveCorrect == Spec => []PublishedIsAlive
<1>1. IInv => PublishedIsAlive
  BY DEF IInv, PositionInv, Position, PublishedIsAlive
<1> QED
  BY <1>1, IInvCorrect, PTL

\* For any number of threads, GetNextLoop hands out the loops in turn.
THEOREM BalancedCorrect == Spec => []Balanced
<1>1. IInv => Balanced
  <2> SUFFICES ASSUME IInv PROVE Balanced
    OBVIOUS
  <2>1. \A i \in 1..loops : i \in Threads /\ served[i] \in Nat
    BY PoolAssumption DEF IInv, TypeOK
  <2> QED
    BY <2>1 DEF IInv, RoundInv, TypeOK, Balanced
<1> QED
  BY <1>1, IInvCorrect, PTL

-----------------------------------------------------------------------------
(* Who ends a loop, and who waits for it                                   *)

\* Every step keeps the two invariants: what neither the destructor nor a
\* callback has stopped is looping, so the destructor finds loop_ set.
LEMMA NextStopped ==
    ASSUME IInv, StoppedInv, ObjectInv, [Next]_vars
    PROVE  StoppedInv' /\ ObjectInv'
<1>0. TypeOK /\ PositionInv /\ CreatorInv /\ StartedInv
  BY DEF IInv
<1> USE PoolAssumption
<1>1. CASE \E n \in 0..MaxThreads : SetThreadNum(n)
  BY <1>1 DEF SetThreadNum, StoppedInv, ObjectInv, JoinedBeforeFreed
<1>2. CASE \/ ThreadStarted \/ StartLoopWaits \/ SpuriousWakeup \/ StartDone
           \/ GetBaseLoop \/ PoolDestructor \/ PoolDestroyed \/ StartLoopReturns
           \/ GetNextLoop \/ Join
  BY <1>2 DEF ThreadStarted, StartLoopWaits, SpuriousWakeup, StartDone, GetBaseLoop,
     PoolDestructor, PoolDestroyed, StartLoopReturns, GetNextLoop, Join, poolVars,
     StoppedInv, ObjectInv, JoinedBeforeFreed
<1>3. ASSUME cpc \in {"destructor", "quit"}, cur <= num, cur \notin selfQuit
      PROVE  th[cur].loop
  BY <1>0, <1>3 DEF TypeOK, CreatorInv, StartedInv, StoppedInv, PositionInv, Position
<1>4. CASE Destructor
  BY <1>3, <1>4 DEF Destructor, poolVars, StoppedInv, ObjectInv, JoinedBeforeFreed
<1>5. CASE ThreadStart
  <2> DEFINE r == [th[cur] EXCEPT !.object = TRUE, !.pc = "born"]
  <2>1. cur \in Threads /\ th[cur] \in ThreadState
    BY <1>0, <1>5 DEF ThreadStart, TypeOK, CreatorInv
  <2>2. r.pc = "born" /\ r.object /\ r.quit = th[cur].quit
    BY <2>1 DEF ThreadState
  <2>3. th' = [th EXCEPT ![cur] = r] /\ cpc' = "starting" /\ UNCHANGED <<stopping, selfQuit>>
    BY <1>5 DEF ThreadStart
  <2> HIDE DEF r
  <2> QED
    BY <1>0, <2>2, <2>3 DEF TypeOK, StoppedInv, ObjectInv, JoinedBeforeFreed
<1>6. CASE DestructorQuits
  <2> DEFINE r == [th[cur] EXCEPT !.quit = th[cur].quit \/ th[cur].alive]
  <2>1. cur \in Threads /\ th[cur] \in ThreadState
    BY <1>0, <1>6 DEF DestructorQuits, TypeOK, CreatorInv
  <2>2. r.pc = th[cur].pc /\ r.object = th[cur].object
    BY <2>1 DEF ThreadState
  <2>3. th' = [th EXCEPT ![cur] = r] /\ cpc' = "wake"
        /\ stopping' = stopping \cup {cur} /\ selfQuit' = selfQuit
    BY <1>6 DEF DestructorQuits
  <2> HIDE DEF r
  <2> QED
    BY <1>0, <2>2, <2>3 DEF TypeOK, StoppedInv, ObjectInv, JoinedBeforeFreed
<1>7. CASE DestructorQuitsNull
  BY <1>7 DEF DestructorQuitsNull, poolVars, StoppedInv, ObjectInv, JoinedBeforeFreed
<1>8. CASE DestructorWakes
  <2> DEFINE r == [th[cur] EXCEPT !.woken = th[cur].woken \/ th[cur].alive]
  <2>1. cur \in Threads /\ th[cur] \in ThreadState
    BY <1>0, <1>8 DEF DestructorWakes, TypeOK, CreatorInv
  <2>2. r.pc = th[cur].pc /\ r.object = th[cur].object /\ r.quit = th[cur].quit
    BY <2>1 DEF ThreadState
  <2>3. th' = [th EXCEPT ![cur] = r] /\ cpc' = "join" /\ UNCHANGED <<stopping, selfQuit>>
    BY <1>8 DEF DestructorWakes
  <2> HIDE DEF r
  <2> QED
    BY <1>0, <2>2, <2>3 DEF TypeOK, StoppedInv, ObjectInv, JoinedBeforeFreed
<1>9. CASE Free
  <2> DEFINE r == [th[cur] EXCEPT !.object = FALSE]
  <2>1. cur \in Threads /\ th[cur] \in ThreadState
        /\ (cur \notin selfQuit => th[cur].pc = "gone")
    BY <1>0, <1>9 DEF Free, TypeOK, CreatorInv, ObjectInv
  <2>2. r.pc = th[cur].pc /\ r.quit = th[cur].quit
    BY <2>1 DEF ThreadState
  <2>3. th' = [th EXCEPT ![cur] = r] /\ cpc' = "destructor" /\ UNCHANGED <<stopping, selfQuit>>
    BY <1>9 DEF Free
  <2> HIDE DEF r
  <2> QED
    BY <1>0, <2>1, <2>2, <2>3 DEF TypeOK, StoppedInv, ObjectInv, JoinedBeforeFreed
<1>10. ASSUME NEW i \in Threads, ThreadStep(i) \/ PollReturns(i) \/ CallbackQuits(i)
       PROVE  StoppedInv' /\ ObjectInv'
  <2>1. Steps(i)
    BY <1>0, <1>10, ThreadSteps
  <2>2. PICK r \in ThreadState : /\ Moves(th[i], r)
                                 /\ r.quit => th[i].quit \/ i \in selfQuit'
                                 /\ th' = [th EXCEPT ![i] = r]
    BY <2>1 DEF Steps
  <2>3. Elsewhere(i)
    BY <2>1 DEF Steps
  <2>4. StoppedInv'
    BY <1>0, <2>2, <2>3 DEF TypeOK, Moves, Elsewhere, StoppedInv
  <2>5. ObjectInv'
    BY <1>0, <2>2, <2>3 DEF TypeOK, Moves, Elsewhere, ObjectInv, JoinedBeforeFreed
  <2> QED
    BY <2>4, <2>5
<1>11. CASE UNCHANGED vars
  BY <1>11 DEF vars, StoppedInv, ObjectInv, JoinedBeforeFreed
<1> QED
  BY <1>1, <1>2, <1>4, <1>5, <1>6, <1>7, <1>8, <1>9, <1>10, <1>11 DEF Next, CreatorStep

\* They are invariants of the pool.
LEMMA StoppedCorrect == Spec => [](IInv /\ StoppedInv /\ ObjectInv)
<1>1. Init => StoppedInv /\ ObjectInv
  BY DEF Init, NewThread, StoppedInv, ObjectInv, JoinedBeforeFreed
<1>2. StoppedInv /\ ObjectInv /\ IInv /\ [Next]_vars => StoppedInv' /\ ObjectInv'
  BY NextStopped
<1> QED
  BY <1>1, <1>2, IInvCorrect, PTL DEF Spec

\* For any number of threads, a loop in loops_ exists until the destructor
\* or its own callback tells it to quit, and Thread::Start has made its
\* thread's id known.
THEOREM UsableUntilQuitCorrect == Spec => []UsableUntilQuit
<1>1. IInv /\ StoppedInv => UsableUntilQuit
  <2> SUFFICES ASSUME IInv, StoppedInv, NEW i \in 1..loops,
                      i \notin stopping \cup selfQuit
               PROVE  th[i].alive /\ th[i].tid
    BY DEF UsableUntilQuit
  <2>1. i \in Threads /\ i <= loops
    BY PoolAssumption DEF IInv, TypeOK
  <2>2. th[i].pc \in Looping
    BY <2>1 DEF IInv, StartedInv, StoppedInv
  <2> QED
    BY <2>1, <2>2 DEF IInv, PositionInv, Position
<1> QED
  BY <1>1, StoppedCorrect, PTL

\* For any number of threads, an EventLoopThread whose loop did not quit by
\* itself is destroyed after its thread has ended: ~EventLoopThread has
\* joined it.
THEOREM JoinedBeforeFreedCorrect == Spec => []JoinedBeforeFreed
<1>1. ObjectInv => JoinedBeforeFreed
  BY DEF ObjectInv
<1> QED
  BY <1>1, StoppedCorrect, PTL

=============================================================================
