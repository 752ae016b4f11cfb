--------------------------- MODULE ExecutorProofs ---------------------------
(***************************************************************************)
(* Proofs about Executor, for any number of workers, tasks, posts and any  *)
(* clock: its inductive invariant, the safety properties that follow from  *)
(* it, and that its steps implement MicrotaskQueue's.                      *)
(***************************************************************************)
EXTENDS Executor, TLAPS

USE DEF Threads, Ids

(***************************************************************************)
(* Type correctness.                                                       *)
(***************************************************************************)

\* The state at attach is well typed.
LEMMA InitTypeOK == Init => TypeOK
<1> SUFFICES ASSUME Init PROVE TypeOK
  OBVIOUS
<1>1. posted \in BOOLEAN /\ poster \in BOOLEAN /\ exec \in BOOLEAN /\ host \in BOOLEAN
  BY FlagsAssumption, Zenon DEF Init
<1>2. nextId \in 1..(MaxTasks + 1)
  BY BoundsAssumption DEF Init
<1> QED
  BY <1>1, <1>2 DEF Init, TypeOK, UiSteps, Timer

\* Every step of every thread keeps every variable in its type.
LEMMA NextTypeOK == TypeOK /\ StackInv /\ [Next]_vars => TypeOK'
<1> SUFFICES ASSUME TypeOK, StackInv, [Next]_vars PROVE TypeOK'
  OBVIOUS
<1> USE ThreadsAssumption, FlagsAssumption, BoundsAssumption
    DEF TypeOK, UiSteps, sharedVars, execVars, stackVars, hostVars
<1>1. ASSUME NEW t \in Threads, WakePush(t) PROVE TypeOK'
  BY <1>1 DEF WakePush
<1>2. ASSUME NEW t \in Threads, WakeSwap(t) PROVE TypeOK'
  BY <1>2 DEF WakeSwap
<1>3. ASSUME NEW t \in Threads, WakeLock(t) PROVE TypeOK'
  BY <1>3 DEF WakeLock
<1>4. ASSUME NEW t \in Threads, WakePost(t) PROVE TypeOK'
  BY <1>4 DEF WakePost
<1>5. CASE Spawn
  BY <1>5 DEF Spawn
<1>6. CASE RunPosted
  BY <1>6 DEF RunPosted
<1>7. CASE RunDelayed
  BY <1>7 DEF RunDelayed
<1>8. CASE FrameDrain
  BY <1>8 DEF FrameDrain
<1>9. CASE FireTimers
  BY <1>9 DEF FireTimers, Expired, Timer
<1>10. CASE FireOne
  BY <1>10 DEF FireOne
<1>11. CASE DrainClear
  BY <1>11 DEF DrainClear
<1>12. CASE DrainTake
  BY <1>12 DEF DrainTake
<1>13. CASE PollTask
  BY <1>13 DEF PollTask
<1>14. CASE SkipTask
  BY <1>14 DEF SkipTask
<1>15. CASE NextPass
  BY <1>15 DEF NextPass
<1>16. CASE PollReturns
  <2>1. current \in Ids
    BY <1>16 DEF PollReturns, StackInv
  <2>2. tasks' \subseteq Ids
    BY <1>16, <2>1 DEF PollReturns
  <2> QED
    BY <1>16, <2>2 DEF PollReturns
<1>17. CASE SleepArm
  <2>1. current \in Ids
    BY <1>17 DEF SleepArm, StackInv
  <2>2. PICK d \in 1..MaxSleep : arming' = [task |-> current, since |-> now, deadline |-> now + d]
    BY <1>17 DEF SleepArm
  <2>3. arming' \in Timer
    BY <2>1, <2>2 DEF Timer
  <2>4. timers' \subseteq Timer
    BY <1>17, <2>3 DEF SleepArm
  <2> QED
    BY <1>17, <2>3, <2>4 DEF SleepArm
<1>18. CASE RequestDelayedDrain
  <2>1. arming.deadline - arming.since \in Int
    BY DEF Timer, NoTimer
  <2>2. now + RoundedDown(arming.deadline - arming.since) \in Int
    BY <2>1 DEF RoundedDown
  <2>3. delayed' \subseteq Int
    BY <1>18, <2>2 DEF RequestDelayedDrain
  <2> QED
    BY <1>18, <2>3 DEF RequestDelayedDrain
<1>19. CASE DetachClear
  BY <1>19 DEF DetachClear
<1>20. CASE DetachDrop
  BY <1>20 DEF DetachDrop
<1>21. CASE HostGone
  BY <1>21 DEF HostGone
<1>22. CASE Tick
  BY <1>22 DEF Tick
<1>23. CASE UNCHANGED vars
  BY <1>23 DEF vars
<1> QED
  BY <1>1, <1>2, <1>3, <1>4, <1>5, <1>6, <1>7, <1>8, <1>9, <1>10, <1>11, <1>12,
     <1>13, <1>14, <1>15, <1>16, <1>17, <1>18, <1>19, <1>20, <1>21, <1>22, <1>23
     DEF Next

(***************************************************************************)
(* The parts of the inductive invariant, one lemma each.                   *)
(***************************************************************************)

\* The poster lock is held by exactly the thread inside post_task.
LEMMA NextLock == TypeOK /\ LockInv /\ [Next]_vars => LockInv'
<1> SUFFICES ASSUME TypeOK, LockInv, [Next]_vars PROVE LockInv'
  OBVIOUS
<1> USE ThreadsAssumption
    DEF TypeOK, LockInv, sharedVars, execVars, stackVars, hostVars
<1>1. ASSUME NEW t \in Threads, WakePush(t) \/ WakeSwap(t) PROVE LockInv'
  BY <1>1 DEF WakePush, WakeSwap
<1>2. ASSUME NEW t \in Threads, WakeLock(t) PROVE LockInv'
  BY <1>2 DEF WakeLock
<1>3. ASSUME NEW t \in Threads, WakePost(t) PROVE LockInv'
  BY <1>3 DEF WakePost
<1>4. CASE Spawn \/ FireOne
  BY <1>4 DEF Spawn, FireOne, InApplication, UiFree
<1>5. CASE UNCHANGED <<lock, wakePc>>
  BY <1>5
<1>6. ASSUME \/ RunPosted \/ RunDelayed \/ FrameDrain \/ FireTimers \/ DrainClear
             \/ DrainTake \/ PollTask \/ SkipTask \/ NextPass \/ PollReturns
             \/ SleepArm \/ RequestDelayedDrain \/ DetachClear \/ DetachDrop
             \/ HostGone \/ Tick \/ UNCHANGED vars
      PROVE  UNCHANGED <<lock, wakePc>>
  BY <1>6 DEF RunPosted, RunDelayed, FrameDrain, FireTimers, DrainClear, DrainTake,
     PollTask, SkipTask, NextPass, PollReturns, SleepArm, RequestDelayedDrain,
     DetachClear, DetachDrop, HostGone, Tick, vars
<1> QED
  BY <1>1, <1>2, <1>3, <1>4, <1>5, <1>6 DEF Next

\* The UI thread's program counter agrees with its stack.
LEMMA NextStack ==
  TypeOK /\ StackInv /\ OrderInv /\ StartedInv /\ [Next]_vars => StackInv'
<1> SUFFICES ASSUME TypeOK, StackInv, OrderInv, StartedInv, [Next]_vars
             PROVE  StackInv'
  OBVIOUS
<1> USE ThreadsAssumption, NoTaskIsNoId
    DEF TypeOK, StackInv, sharedVars, execVars, stackVars, hostVars
<1>1. ASSUME NEW t \in Threads, WakePush(t) PROVE StackInv'
  BY <1>1 DEF WakePush, InApplication
<1>2. ASSUME NEW t \in Threads, WakeSwap(t) \/ WakeLock(t) \/ WakePost(t)
      PROVE  StackInv'
  BY <1>2 DEF WakeSwap, WakeLock, WakePost
<1>3. CASE Spawn
  <2>1. current # nextId
    <3>1. CASE current = NoTask
      BY <1>3, <3>1, BoundsAssumption DEF Spawn
    <3>2. CASE current \in started
      BY <3>2 DEF OrderInv
    <3> QED
      BY <3>1, <3>2 DEF StartedInv
  <2>2. current \notin tasks'
    BY <1>3, <2>1 DEF Spawn
  <2> QED BY <1>3, <2>2 DEF Spawn, InApplication
<1>4. CASE RunPosted \/ RunDelayed \/ FrameDrain
  BY <1>4 DEF RunPosted, RunDelayed, FrameDrain, UiFree
<1>5. CASE FireTimers
  BY <1>5 DEF FireTimers
<1>6. CASE FireOne
  BY <1>6 DEF FireOne
<1>7. CASE DrainClear
  BY <1>7 DEF DrainClear, UiFree
<1>8. CASE DrainTake
  BY <1>8 DEF DrainTake
<1>9. CASE PollTask
  BY <1>9 DEF PollTask
<1>10. CASE SkipTask \/ NextPass
  BY <1>10 DEF SkipTask, NextPass
<1>11. CASE PollReturns
  BY <1>11 DEF PollReturns, UiFree
<1>12. CASE SleepArm \/ RequestDelayedDrain
  BY <1>12 DEF SleepArm, RequestDelayedDrain, UiFree
<1>13. CASE DetachClear \/ DetachDrop
  BY <1>13 DEF DetachClear, DetachDrop, InApplication, UiFree
<1>14. CASE HostGone \/ Tick \/ UNCHANGED vars
  BY <1>14 DEF HostGone, Tick, vars
<1> QED
  BY <1>1, <1>2, <1>3, <1>4, <1>5, <1>6, <1>7, <1>8, <1>9, <1>10, <1>11, <1>12,
     <1>13, <1>14 DEF Next

\* Poster, executor and host go in that order.
LEMMA NextTeardown == TypeOK /\ TeardownInv /\ [Next]_vars => TeardownInv'
<1> SUFFICES ASSUME TypeOK, TeardownInv, [Next]_vars PROVE TeardownInv'
  OBVIOUS
<1> USE DEF TypeOK, TeardownInv, sharedVars, execVars, stackVars, hostVars
<1>1. CASE UNCHANGED <<uiPc, poster, exec, tasks, ready, host>>
  BY <1>1
<1>2. ASSUME \/ \E t \in Threads :
                  WakePush(t) \/ WakeSwap(t) \/ WakeLock(t) \/ WakePost(t)
             \/ FireOne \/ SkipTask \/ Tick \/ UNCHANGED vars
      PROVE  UNCHANGED <<uiPc, poster, exec, tasks, ready, host>>
  BY <1>2 DEF WakePush, WakeSwap, WakeLock, WakePost, FireOne, SkipTask, Tick, vars
<1>3. CASE /\ UNCHANGED <<poster, exec, tasks, ready, host>>
           /\ uiPc' \notin {"detach", "take", "arm"}
  BY <1>3
<1>4. ASSUME \/ RunPosted \/ RunDelayed \/ FrameDrain \/ FireTimers \/ NextPass
             \/ RequestDelayedDrain
      PROVE  /\ UNCHANGED <<poster, exec, tasks, ready, host>>
             /\ uiPc' \notin {"detach", "take", "arm"}
  BY <1>4 DEF RunPosted, RunDelayed, FrameDrain, FireTimers, NextPass,
              RequestDelayedDrain
<1>5. CASE Spawn
  BY <1>5 DEF Spawn, InApplication
<1>6. CASE DrainClear
  BY <1>6 DEF DrainClear
<1>7. CASE DrainTake
  BY <1>7 DEF DrainTake
<1>8. CASE PollTask
  BY <1>8 DEF PollTask
<1>9. CASE PollReturns
  BY <1>9 DEF PollReturns
<1>10. CASE SleepArm
  BY <1>10 DEF SleepArm
<1>11. CASE DetachClear
  BY <1>11 DEF DetachClear
<1>12. CASE DetachDrop
  BY <1>12 DEF DetachDrop
<1>13. CASE HostGone
  BY <1>13 DEF HostGone
<1> QED
  BY <1>1, <1>2, <1>3, <1>4, <1>5, <1>6, <1>7, <1>8, <1>9, <1>10, <1>11, <1>12,
     <1>13 DEF Next

\* Once the poster is cleared nobody is inside post_task, and nobody gets in.
LEMMA NextSealed ==
  TypeOK /\ LockInv /\ TeardownInv /\ NoCallAfterDetach /\ [Next]_vars
    => NoCallAfterDetach'
<1> SUFFICES ASSUME TypeOK, LockInv, TeardownInv, NoCallAfterDetach, [Next]_vars
             PROVE  NoCallAfterDetach'
  OBVIOUS
<1> USE ThreadsAssumption
    DEF TypeOK, NoCallAfterDetach, sharedVars, execVars, stackVars, hostVars
<1>1. ASSUME NEW t \in Threads, WakePush(t) \/ WakeSwap(t) \/ WakePost(t)
      PROVE  NoCallAfterDetach'
  BY <1>1 DEF WakePush, WakeSwap, WakePost
<1>2. ASSUME NEW t \in Threads, WakeLock(t) PROVE NoCallAfterDetach'
  BY <1>2 DEF WakeLock, TeardownInv
<1>3. CASE Spawn \/ FireOne
  BY <1>3 DEF Spawn, FireOne, InApplication
<1>4. CASE DetachClear
  <2>1. \A t \in Threads : wakePc[t] # "post"
    BY <1>4 DEF DetachClear, LockInv
  <2> QED
    BY <1>4, <2>1 DEF DetachClear
<1>5. CASE HostGone
  BY <1>5 DEF HostGone, TeardownInv
<1>6. CASE UNCHANGED <<poster, host, wakePc>>
  BY <1>6
<1>7. ASSUME \/ RunPosted \/ RunDelayed \/ FrameDrain \/ FireTimers \/ DrainClear
             \/ DrainTake \/ PollTask \/ SkipTask \/ NextPass \/ PollReturns
             \/ SleepArm \/ RequestDelayedDrain \/ DetachDrop \/ Tick
             \/ UNCHANGED vars
      PROVE  UNCHANGED <<poster, host, wakePc>>
  BY <1>7 DEF RunPosted, RunDelayed, FrameDrain, FireTimers, DrainClear, DrainTake,
     PollTask, SkipTask, NextPass, PollReturns, SleepArm, RequestDelayedDrain,
     DetachDrop, Tick, vars
<1> QED
  BY <1>1, <1>2, <1>3, <1>4, <1>5, <1>6, <1>7 DEF Next

\* A raised flag is a drain on its way.
LEMMA NextAsked ==
  TypeOK /\ TeardownInv /\ AskedInv /\ [Next]_vars => AskedInv'
<1> SUFFICES ASSUME TypeOK, TeardownInv, AskedInv, [Next]_vars PROVE AskedInv'
  OBVIOUS
<1> USE ThreadsAssumption
    DEF TypeOK, AskedInv, sharedVars, execVars, stackVars, hostVars
<1>1. ASSUME NEW t \in Threads, WakePush(t) PROVE AskedInv'
  BY <1>1 DEF WakePush
<1>2. ASSUME NEW t \in Threads, WakeSwap(t) PROVE AskedInv'
  BY <1>2 DEF WakeSwap
<1>3. ASSUME NEW t \in Threads, WakeLock(t) PROVE AskedInv'
  BY <1>3 DEF WakeLock
<1>4. ASSUME NEW t \in Threads, WakePost(t) PROVE AskedInv'
  BY <1>4 DEF WakePost
<1>5. CASE Spawn
  BY <1>5 DEF Spawn, InApplication, UiFree
<1>6. CASE RunPosted \/ RunDelayed \/ FrameDrain \/ FireTimers
  BY <1>6 DEF RunPosted, RunDelayed, FrameDrain, FireTimers
<1>7. CASE FireOne
  BY <1>7 DEF FireOne
<1>8. CASE DrainClear \/ DrainTake
  BY <1>8 DEF DrainClear, DrainTake
<1>9. CASE PollTask \/ SkipTask \/ NextPass \/ PollReturns
  BY <1>9 DEF PollTask, SkipTask, NextPass, PollReturns
<1>10. CASE SleepArm \/ RequestDelayedDrain \/ DetachClear \/ DetachDrop
  BY <1>10 DEF SleepArm, RequestDelayedDrain, DetachClear, DetachDrop
<1>11. CASE HostGone \/ Tick \/ UNCHANGED vars
  BY <1>11 DEF HostGone, Tick, vars
<1> QED
  BY <1>1, <1>2, <1>3, <1>4, <1>5, <1>6, <1>7, <1>8, <1>9, <1>10, <1>11 DEF Next

\* A task to poll has raised the flag, or is about to.
LEMMA NextWake == TypeOK /\ WakeInv /\ [Next]_vars => WakeInv'
<1> SUFFICES ASSUME TypeOK, WakeInv, [Next]_vars PROVE WakeInv'
  OBVIOUS
<1> USE ThreadsAssumption
    DEF TypeOK, WakeInv, sharedVars, execVars, stackVars, hostVars
<1>1. ASSUME NEW t \in Threads, WakePush(t) PROVE WakeInv'
  BY <1>1 DEF WakePush
<1>2. ASSUME NEW t \in Threads, WakeSwap(t) PROVE WakeInv'
  BY <1>2 DEF WakeSwap
<1>3. ASSUME NEW t \in Threads, WakeLock(t) \/ WakePost(t) PROVE WakeInv'
  BY <1>3 DEF WakeLock, WakePost
<1>4. CASE Spawn
  BY <1>4 DEF Spawn
<1>5. CASE RunPosted \/ RunDelayed \/ FrameDrain \/ FireTimers
  BY <1>5 DEF RunPosted, RunDelayed, FrameDrain, FireTimers
<1>6. CASE FireOne
  BY <1>6 DEF FireOne
<1>7. CASE DrainClear \/ DrainTake
  BY <1>7 DEF DrainClear, DrainTake
<1>8. CASE PollTask \/ SkipTask \/ NextPass \/ PollReturns
  BY <1>8 DEF PollTask, SkipTask, NextPass, PollReturns
<1>9. CASE SleepArm \/ RequestDelayedDrain \/ DetachClear \/ DetachDrop
  BY <1>9 DEF SleepArm, RequestDelayedDrain, DetachClear, DetachDrop
<1>10. CASE HostGone \/ Tick \/ UNCHANGED vars
  BY <1>10 DEF HostGone, Tick, vars
<1> QED
  BY <1>1, <1>2, <1>3, <1>4, <1>5, <1>6, <1>7, <1>8, <1>9, <1>10 DEF Next

\* Wakers in circulation belong to tasks polled before.
LEMMA NextStarted == TypeOK /\ StackInv /\ StartedInv /\ [Next]_vars => StartedInv'
<1> SUFFICES ASSUME TypeOK, StackInv, StartedInv, [Next]_vars PROVE StartedInv'
  OBVIOUS
<1> USE NoTaskIsNoId
    DEF TypeOK, StartedInv, sharedVars, execVars, stackVars, hostVars
<1>1. ASSUME NEW t \in Threads,
             WakePush(t) \/ WakeSwap(t) \/ WakeLock(t) \/ WakePost(t)
      PROVE  StartedInv'
  BY <1>1 DEF WakePush, WakeSwap, WakeLock, WakePost
<1>2. CASE Spawn \/ RunPosted \/ RunDelayed \/ FrameDrain
  BY <1>2 DEF Spawn, RunPosted, RunDelayed, FrameDrain
<1>3. CASE FireTimers
  BY <1>3 DEF FireTimers, Expired
<1>4. CASE FireOne
  BY <1>4 DEF FireOne
<1>5. CASE DrainClear \/ DrainTake
  BY <1>5 DEF DrainClear, DrainTake
<1>6. CASE PollTask
  BY <1>6 DEF PollTask
<1>7. CASE SkipTask \/ NextPass
  BY <1>7 DEF SkipTask, NextPass
<1>8. CASE PollReturns
  BY <1>8 DEF PollReturns
<1>9. CASE SleepArm
  BY <1>9 DEF SleepArm, StackInv
<1>10. CASE RequestDelayedDrain \/ DetachClear \/ DetachDrop
  BY <1>10 DEF RequestDelayedDrain, DetachClear, DetachDrop
<1>11. CASE HostGone \/ Tick \/ UNCHANGED vars
  BY <1>11 DEF HostGone, Tick, vars
<1> QED
  BY <1>1, <1>2, <1>3, <1>4, <1>5, <1>6, <1>7, <1>8, <1>9, <1>10, <1>11 DEF Next

\* A fresh task stays behind the batch, in the table, until its first poll.
LEMMA NextOrder ==
  TypeOK /\ StackInv /\ TeardownInv /\ StartedInv /\ OrderInv /\ [Next]_vars
    => OrderInv'
<1> SUFFICES ASSUME TypeOK, StackInv, TeardownInv, StartedInv, OrderInv, [Next]_vars
             PROVE  OrderInv'
  OBVIOUS
<1> USE NoTaskIsNoId
    DEF TypeOK, OrderInv, sharedVars, execVars, stackVars, hostVars
<1>1. CASE UNCHANGED <<started, ready, batch, tasks, nextId, exec>>
  BY <1>1
<1>2. ASSUME \/ \E t \in Threads :
                  WakePush(t) \/ WakeSwap(t) \/ WakeLock(t) \/ WakePost(t)
             \/ RunPosted \/ RunDelayed \/ FrameDrain
             \/ FireTimers \/ FireOne \/ DrainClear \/ NextPass
             \/ SleepArm \/ RequestDelayedDrain
             \/ DetachClear \/ HostGone \/ Tick \/ UNCHANGED vars
      PROVE  UNCHANGED <<started, ready, batch, tasks, nextId, exec>>
  BY <1>2 DEF WakePush, WakeSwap, WakeLock, WakePost, RunPosted, RunDelayed,
     FrameDrain, FireTimers, FireOne, DrainClear, NextPass, SleepArm,
     RequestDelayedDrain, DetachClear, HostGone, Tick, vars
<1>3. CASE Spawn
  BY <1>3, BoundsAssumption DEF Spawn
<1>4. CASE DrainTake
  BY <1>4 DEF DrainTake, StackInv, StartedInv
<1>5. CASE PollTask
  BY <1>5 DEF PollTask, IsFirst
<1>6. CASE SkipTask
  BY <1>6 DEF SkipTask, IsFirst
<1>7. CASE PollReturns
  <2>1. current \in started
    BY <1>7 DEF PollReturns, StackInv, StartedInv
  <2> QED
    BY <1>7, <2>1 DEF PollReturns
<1>8. CASE DetachDrop
  BY <1>8 DEF DetachDrop
<1> QED
  BY <1>1, <1>2, <1>3, <1>4, <1>5, <1>6, <1>7, <1>8 DEF Next

\* First polls happen in the order of the spawns.
LEMMA NextSpawnOrder ==
  TypeOK /\ TeardownInv /\ OrderInv /\ SpawnOrder /\ [Next]_vars => SpawnOrder'
<1> SUFFICES ASSUME TypeOK, TeardownInv, OrderInv, SpawnOrder, [Next]_vars
             PROVE  SpawnOrder'
  OBVIOUS
<1> USE DEF SpawnOrder
<1>1. CASE PollTask
  <2>1. PICK id \in tasks : IsFirst(id) /\ started' = started \cup {id}
    BY <1>1 DEF PollTask
  <2>2. exec /\ id \in batch /\ id \in Ids /\ id < nextId
    BY <2>1 DEF TypeOK, TeardownInv, OrderInv, IsFirst
  <2>3. ASSUME NEW earlier \in 1..id PROVE earlier \in started \cup {id}
    <3>1. earlier \in Ids /\ earlier < nextId
      BY <2>2, BoundsAssumption DEF TypeOK
    <3>2. earlier \in started \/ earlier \in ready \/ earlier \in batch
      BY <2>2, <3>1 DEF OrderInv
    <3>3. earlier \notin ready
      BY <2>2 DEF OrderInv, TypeOK
    <3>4. earlier \in batch => earlier = id
      BY <2>1, <2>2 DEF IsFirst
    <3> QED
      BY <3>2, <3>3, <3>4
  <2> QED
    BY <2>1, <2>3
<1>2. CASE UNCHANGED started
  BY <1>2
<1>3. ~PollTask => UNCHANGED started
  BY DEF Next, WakePush, WakeSwap, WakeLock, WakePost, Spawn, RunPosted, RunDelayed,
     FrameDrain, FireTimers, FireOne, DrainClear, DrainTake, SkipTask, NextPass,
     PollReturns, SleepArm, RequestDelayedDrain, DetachClear, DetachDrop, HostGone,
     Tick, vars
<1> QED
  BY <1>1, <1>2, <1>3

(***************************************************************************)
(* The theorems.                                                           *)
(***************************************************************************)

\* The invariant that carries the rest: every part of ExecInv, together.
THEOREM Inductive == Spec => []ExecInv
<1>1. Init => ExecInv
  <2> SUFFICES ASSUME Init PROVE ExecInv
    OBVIOUS
  <2>1. TypeOK
    BY InitTypeOK
  <2> QED
    BY <2>1, ThreadsAssumption, NoTaskIsNoId
       DEF ExecInv, Init, LockInv, StackInv, TeardownInv, AskedInv, WakeInv, OrderInv,
           StartedInv, NoCallAfterDetach, SpawnOrder
<1>2. ExecInv /\ [Next]_vars => ExecInv'
  BY NextTypeOK, NextLock, NextStack, NextTeardown, NextSealed, NextAsked, NextWake,
     NextOrder, NextStarted, NextSpawnOrder DEF ExecInv
<1> QED
  BY <1>1, <1>2, PTL DEF Spec

\* Executor: every variable keeps its type.
THEOREM TypeCorrect == Spec => []TypeOK
<1>1. ExecInv => TypeOK
  BY DEF ExecInv
<1> QED
  BY <1>1, Inductive, PTL

\* request_drain and run_until_stalled: no wake-up is ever lost.
THEOREM WakesAreNotLost == Spec => []NoLostWake
<1>1. ExecInv => NoLostWake
  <2> SUFFICES ASSUME ExecInv, exec, poster, uiPc = "idle",
                      \A t \in Threads : wakePc[t] = "idle", ready \cup inbox # {}
               PROVE  posts > 0
    BY DEF NoLostWake
  <2>1. posted
    BY DEF ExecInv, WakeInv
  <2> QED
    BY <2>1 DEF ExecInv, AskedInv
<1> QED
  BY <1>1, Inductive, PTL

\* detach: no thread is inside post_task once it has cleared the poster.
THEOREM HostOutlivesCalls == Spec => []NoCallAfterDetach
<1>1. ExecInv => NoCallAfterDetach
  BY DEF ExecInv
<1> QED
  BY <1>1, Inductive, PTL

\* run_until_stalled: tasks start in the order they were spawned.
THEOREM StartsInSpawnOrder == Spec => []SpawnOrder
<1>1. ExecInv => SpawnOrder
  BY DEF ExecInv
<1> QED
  BY <1>1, Inductive, PTL

(***************************************************************************)
(* Sleeping, however much finer the clock of Instant is than the host's.   *)
(***************************************************************************)

\* The delay handed to the host is the time that was left.
ArmInv == uiPc = "arm" => arming \in Timer /\ arming.since <= now

LEMMA NextArm == TypeOK /\ StackInv /\ ArmInv /\ [Next]_vars => ArmInv'
<1> SUFFICES ASSUME TypeOK, StackInv, ArmInv, [Next]_vars PROVE ArmInv'
  OBVIOUS
<1> USE DEF TypeOK, ArmInv, sharedVars, execVars, stackVars, hostVars
<1>1. CASE SleepArm
  <2>1. PICK d \in 1..MaxSleep : arming' = [task |-> current, since |-> now, deadline |-> now + d]
    BY <1>1 DEF SleepArm
  <2>2. current \in Ids
    BY <1>1 DEF SleepArm, StackInv
  <2>3. arming' \in Timer
    BY <2>1, <2>2, BoundsAssumption DEF Timer
  <2> QED
    BY <1>1, <2>3 DEF SleepArm
<1>2. CASE Tick
  BY <1>2 DEF Tick, Timer, Ids
<1>3. CASE UNCHANGED <<uiPc, arming, now>>
  BY <1>3
<1>4. CASE uiPc' # "arm"
  BY <1>4
<1>5. \/ SleepArm \/ Tick \/ UNCHANGED <<uiPc, arming, now>> \/ uiPc' # "arm"
  BY DEF Next, WakePush, WakeSwap, WakeLock, WakePost, Spawn, InApplication, RunPosted,
     RunDelayed, FrameDrain, FireTimers, FireOne, DrainClear, DrainTake, PollTask,
     SkipTask, NextPass, PollReturns, RequestDelayedDrain, DetachClear, DetachDrop,
     HostGone, vars
<1> QED
  BY <1>1, <1>2, <1>3, <1>4, <1>5

LEMMA NextCovered ==
  TypeOK /\ StackInv /\ ArmInv /\ TimerCovered /\ [Next]_vars => TimerCovered'
<1> SUFFICES ASSUME TypeOK, StackInv, ArmInv, TimerCovered, [Next]_vars,
                    exec', poster', HasDelayed, NEW tm \in timers'
             PROVE  \/ \E at \in delayed' : at >= Earliest(tm)
                    \/ uiPc' = "arm" /\ arming' = tm
                    \/ uiPc' = "fire" /\ now' >= Earliest(tm)
                    \/ ~OnTime(tm) /\ now' >= Earliest(tm)
  BY DEF TimerCovered
<1> USE DEF TypeOK, sharedVars, execVars, stackVars, hostVars
<1>1. exec /\ poster
  BY DEF Next, WakePush, WakeSwap, WakeLock, WakePost, Spawn, RunPosted, RunDelayed,
     FrameDrain, FireTimers, FireOne, DrainClear, DrainTake, PollTask, SkipTask,
     NextPass, PollReturns, SleepArm, RequestDelayedDrain, DetachClear, DetachDrop,
     HostGone, Tick, vars
<1>2. tm \in timers \/ (SleepArm /\ tm = arming')
  BY DEF Next, WakePush, WakeSwap, WakeLock, WakePost, Spawn, RunPosted, RunDelayed,
     FrameDrain, FireTimers, FireOne, DrainClear, DrainTake, PollTask, SkipTask,
     NextPass, PollReturns, SleepArm, RequestDelayedDrain, DetachClear, DetachDrop,
     HostGone, Tick, vars
<1>3. CASE SleepArm /\ tm = arming'
  BY <1>3 DEF SleepArm
<1>4. CASE tm \in timers
  <2>1. \/ \E at \in delayed : at >= Earliest(tm)
        \/ uiPc = "arm" /\ arming = tm
        \/ uiPc = "fire" /\ now >= Earliest(tm)
        \/ ~OnTime(tm) /\ now >= Earliest(tm)
    BY <1>1, <1>4 DEF TimerCovered
  <2>2. /\ tm.deadline \in Nat /\ tm.since \in Nat /\ Earliest(tm) \in Int
        /\ OnTime(tm) => Earliest(tm) = tm.deadline
        /\ RoundedDown(tm.deadline - tm.since) = Earliest(tm) - tm.since
    <3>1. tm \in Timer
      BY <1>4
    <3>2. tm.deadline \in Nat /\ tm.since \in Nat
      BY <3>1 DEF Timer
    <3>3. (tm.deadline - tm.since) % MicroTicks \in Int
      BY <3>2, BoundsAssumption
    <3> QED
      BY <3>2, <3>3 DEF Earliest, OnTime, RoundedDown
  <2>3. CASE RunDelayed
    BY <1>1, <2>1, <2>2, <2>3 DEF RunDelayed
  <2>4. CASE FireTimers
    <3>1. tm \notin Expired
      BY <2>4 DEF FireTimers
    <3> QED
      BY <1>4, <2>1, <2>2, <2>4, <3>1 DEF FireTimers, Expired
  <2>5. CASE RequestDelayedDrain
    <3>1. CASE arming = tm
      <4>1. now + RoundedDown(arming.deadline - arming.since) >= Earliest(tm)
        BY <2>2, <2>5, <3>1 DEF ArmInv, RequestDelayedDrain
      <4> QED
        BY <1>1, <2>5, <4>1 DEF RequestDelayedDrain
    <3>2. CASE arming # tm
      BY <2>1, <2>5, <3>2 DEF RequestDelayedDrain
    <3> QED
      BY <3>1, <3>2
  <2>6. CASE Tick
    BY <2>1, <2>2, <2>6 DEF Tick
  <2>7. CASE SleepArm
    BY <2>1, <2>7 DEF SleepArm
  <2>8. CASE UNCHANGED <<uiPc, arming, delayed, now>>
    BY <2>1, <2>8
  <2>9. CASE UNCHANGED <<delayed, now>> /\ uiPc \notin {"arm", "fire"}
    BY <2>1, <2>9
  <2>10. \/ RunDelayed \/ FireTimers \/ RequestDelayedDrain \/ Tick \/ SleepArm
         \/ UNCHANGED <<uiPc, arming, delayed, now>>
         \/ UNCHANGED <<delayed, now>> /\ uiPc \notin {"arm", "fire"}
    BY DEF Next, WakePush, WakeSwap, WakeLock, WakePost, Spawn, InApplication,
       RunPosted, FrameDrain, FireOne, DrainClear, DrainTake, PollTask, SkipTask,
       NextPass, PollReturns, DetachClear, DetachDrop, HostGone, vars
  <2> QED
    BY <2>3, <2>4, <2>5, <2>6, <2>7, <2>8, <2>9, <2>10
<1> QED
  BY <1>2, <1>3, <1>4

\* Sleep::poll and request_delayed_drain: until the drain a sleep asked for has
\* run it is on its way, no sooner than the deadline, or less than a microsecond
\* sooner if the delay had a fraction of one.
THEOREM SleepsAreCovered == Spec => []TimerCovered
<1>1. Init => ArmInv /\ TimerCovered
  BY DEF Init, ArmInv, TimerCovered
<1>2. ExecInv /\ ArmInv /\ TimerCovered /\ [Next]_vars => ArmInv' /\ TimerCovered'
  BY NextArm, NextCovered DEF ExecInv
<1> QED
  BY <1>1, <1>2, Inductive, PTL DEF Spec

(***************************************************************************)
(* Refinement.                                                             *)
(***************************************************************************)

\* Where the abstract state is left alone.
LEMMA Stutters ==
  ASSUME UNCHANGED <<exec, tasks, current>>,
         (ready' \cup inbox' \cup batch') \cap Live = (ready \cup inbox \cup batch) \cap Live
  PROVE  UNCHANGED MQ!vars
BY DEF MQ!vars, Live

\* Each step of the executor is a step of the contract, or none of its business.
LEMMA StepRefines == ExecInv /\ [Next]_vars => [MQ!Next]_(MQ!vars)
<1> SUFFICES ASSUME ExecInv, [Next]_vars PROVE [MQ!Next]_(MQ!vars)
  OBVIOUS
<1> USE NoTaskIsNoId DEF sharedVars, execVars, stackVars, hostVars
<1>0. /\ TypeOK /\ StackInv /\ TeardownInv /\ OrderInv /\ StartedInv
      /\ NoTask \notin tasks
  BY DEF ExecInv, TypeOK
<1>1. ASSUME NEW t \in Threads, WakePush(t) PROVE [MQ!Next]_(MQ!vars)
  <2>1. PICK id \in started : inbox' = inbox \cup {id}
    BY <1>1 DEF WakePush
  <2>2. CASE id \in Live
    <3>1. MQ!Wake(id)
      BY <1>1, <2>1, <2>2 DEF WakePush, MQ!Wake, Live
    <3> QED
      BY <1>0, <3>1 DEF MQ!Next, TypeOK
  <2>3. CASE id \notin Live
    BY <1>1, <2>1, <2>3, Stutters DEF WakePush
  <2> QED
    BY <2>2, <2>3
<1>2. CASE Spawn
  <2>1. nextId \in Ids /\ nextId \notin tasks /\ current # nextId
    BY <1>0, <1>2, BoundsAssumption DEF Spawn, TypeOK, OrderInv, StartedInv
  <2>2. Live' = Live \cup {nextId}
    BY <1>2, <2>1 DEF Spawn, Live
  <2>3. MQ!Spawn(nextId)
    BY <1>2, <2>1, <2>2 DEF Spawn, MQ!Spawn, Live
  <2> QED
    BY <2>1, <2>3 DEF MQ!Next
<1>3. CASE FireOne
  <2>1. PICK id \in due : inbox' = inbox \cup {id}
    BY <1>3 DEF FireOne
  <2>2. CASE id \in Live
    <3>1. MQ!Wake(id)
      BY <1>3, <2>1, <2>2 DEF FireOne, MQ!Wake, Live
    <3> QED
      BY <1>0, <2>1, <3>1 DEF MQ!Next, TypeOK
  <2>3. CASE id \notin Live
    BY <1>3, <2>1, <2>3, Stutters DEF FireOne
  <2> QED
    BY <2>2, <2>3
<1>4. CASE DrainTake
  <2>1. batch = {}
    BY <1>0, <1>4 DEF DrainTake, StackInv
  <2> QED
    BY <1>4, <2>1, Stutters DEF DrainTake
<1>5. CASE PollTask
  <2>1. PICK id \in tasks : /\ IsFirst(id)
                            /\ batch' = batch \ {id}
                            /\ tasks' = tasks \ {id}
                            /\ current' = id
    BY <1>5 DEF PollTask
  <2>2. current = NoTask /\ exec /\ id \in Ids
    BY <1>0, <1>5, <2>1 DEF PollTask, StackInv, TeardownInv, TypeOK
  <2>3. Live' = Live
    BY <1>0, <2>1, <2>2 DEF Live
  <2>4. id \in batch
    BY <2>1 DEF IsFirst
  <2>5. MQ!Poll(id)
    BY <1>5, <2>1, <2>2, <2>3, <2>4 DEF PollTask, MQ!Poll, Live
  <2> QED
    BY <2>2, <2>5 DEF MQ!Next
<1>6. CASE SkipTask
  <2>1. current = NoTask
    BY <1>0, <1>6 DEF SkipTask, StackInv
  <2> QED
    BY <1>6, <2>1, Stutters DEF SkipTask, Live
<1>7. CASE PollReturns
  <2>1. current # NoTask /\ current \notin tasks
    BY <1>0, <1>7 DEF PollReturns, StackInv
  <2>2. CASE exec /\ tasks' = tasks \cup {current}
    <3>1. Live' = Live
      BY <1>0, <1>7, <2>1, <2>2 DEF PollReturns, Live
    <3>2. MQ!Park
      BY <1>7, <2>1, <2>2, <3>1 DEF PollReturns, MQ!Park
    <3> QED
      BY <3>2 DEF MQ!Next
  <2>3. CASE tasks' = tasks
    <3>1. Live' = Live \ {current}
      BY <1>0, <1>7, <2>1, <2>3 DEF PollReturns, Live
    <3>2. MQ!Finish
      BY <1>7, <2>1, <3>1 DEF PollReturns, MQ!Finish
    <3> QED
      BY <3>2 DEF MQ!Next
  <2> QED
    BY <1>7, <2>2, <2>3 DEF PollReturns
<1>8. CASE DetachDrop
  <2>1. exec /\ current \notin ready
    BY <1>0, <1>8 DEF DetachDrop, TeardownInv, StartedInv, OrderInv, TypeOK
  <2>2. Live' = Live \cap {current}
    BY <1>0, <1>8 DEF DetachDrop, Live
  <2>3. MQ!Close
    BY <1>8, <2>1, <2>2 DEF DetachDrop, MQ!Close
  <2> QED
    BY <2>3 DEF MQ!Next
<1>9. CASE UNCHANGED <<exec, tasks, ready, inbox, batch, current>>
  BY <1>9, Stutters
<1>10. ASSUME \/ \E t \in Threads : WakeSwap(t) \/ WakeLock(t) \/ WakePost(t)
              \/ RunPosted \/ RunDelayed \/ FrameDrain \/ FireTimers \/ DrainClear
              \/ NextPass \/ SleepArm \/ RequestDelayedDrain \/ DetachClear
              \/ HostGone \/ Tick \/ UNCHANGED vars
       PROVE  UNCHANGED <<exec, tasks, ready, inbox, batch, current>>
  BY <1>10 DEF WakeSwap, WakeLock, WakePost, RunPosted, RunDelayed, FrameDrain,
     FireTimers, DrainClear, NextPass, SleepArm, RequestDelayedDrain, DetachClear,
     HostGone, Tick, vars
<1> QED
  BY <1>1, <1>2, <1>3, <1>4, <1>5, <1>6, <1>7, <1>8, <1>9, <1>10 DEF Next

\* The executor keeps the safety part of its contract: only a task that was
\* spawned or woken is polled, one at a time, and none after detach.
THEOREM ImplementsQueue == Spec => MQ!Init /\ [][MQ!Next]_(MQ!vars)
<1>1. Init => MQ!Init
  BY DEF Init, MQ!Init, Live
<1> QED
  BY <1>1, StepRefines, Inductive, PTL DEF Spec
=============================================================================
