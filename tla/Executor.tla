------------------------------ MODULE Executor ------------------------------
(***************************************************************************)
(* The framework's executor (rustflutter/src/task.rs), as one lifetime:    *)
(* from the attach of rf_app_create to the detach of rf_app_destroy.       *)
(*                                                                         *)
(* The UI thread owns the futures and drains them; worker threads (image   *)
(* decoders, anything a Waker was sent to) may wake a task at any moment.  *)
(* Every shared access is a step of its own: the push under the inbox      *)
(* lock, the swap of `posted', the poster lock, the call made under it.    *)
(*                                                                         *)
(* Data that the properties do not tell apart is abstracted: `ready' and   *)
(* `inbox' are sets because the drain sorts and dedups what it takes; an   *)
(* Instant is a natural; the host's delayed tasks are a set of due times.  *)
(***************************************************************************)
EXTENDS Integers, FiniteSets

CONSTANTS
  Workers,     \* the threads other than the UI thread that hold Wakers
  UI,          \* the thread attach ran on (Shared::owner)
  NoThread,    \* nobody holds the poster lock
  NoTask,      \* no task is checked out
  HasPoster,   \* attach was given a post_task
  HasDelayed,  \* ... and a post_delayed_task
  MicroTicks,  \* clock ticks in the host's microsecond (Instant is finer)
  MaxTasks,    \* bound: tasks ever spawned
  MaxPosts,    \* bound: posted drains outstanding when a wake starts
  MaxTime,     \* bound: the clock stops here
  MaxSleep,    \* bound: the longest sleep
  MaxTimers    \* bound: sleeps armed at a time

ASSUME ThreadsAssumption ==
  /\ UI \notin Workers
  /\ NoThread \notin Workers \cup {UI}

ASSUME FlagsAssumption == HasPoster \in BOOLEAN /\ HasDelayed \in BOOLEAN

ASSUME BoundsAssumption ==
  /\ MaxTasks \in Nat /\ MaxPosts \in Nat
  /\ MaxTime \in Nat /\ MaxSleep \in Nat /\ MaxTimers \in Nat
  /\ MicroTicks \in Nat \ {0}

Threads == Workers \cup {UI}
Ids == 1..MaxTasks

ASSUME NoTaskIsNoId == NoTask \notin Ids

VARIABLES
  (* Shared: what a Waker reaches, on any thread. *)
  inbox,      \* tasks woken since the last drain took it
  posted,     \* a drain has been asked for and not yet started
  poster,     \* TRUE while Shared::poster is Some
  lock,       \* the thread inside the poster mutex, or NoThread
  wakePc,     \* where each thread is inside wake_by_ref / request_drain
  (* Executor: the UI thread's own. *)
  exec,       \* TRUE while the EXECUTOR slot is Some
  tasks,      \* the table: spawned, unfinished and not checked out
  ready,      \* spawned and not yet polled once
  nextId,
  timers,     \* armed sleeps: the task the newest waker wakes, the deadline,
              \* and the time Sleep::poll read when it armed them
  (* The UI thread's stack. *)
  uiPc,       \* where the UI thread is
  due,        \* tasks whose timers fire_expired_timers took and will wake
  batch,      \* ids collected by the drain and not yet looked at
  current,    \* the task checked out and being polled
  arming,     \* the timer Sleep::poll pushed before asking for a delayed drain
  (* Who may wake whom, and the host. *)
  started,    \* tasks polled at least once: their Wakers may be anywhere
  posts,      \* post_task calls the UI runner has not run yet
  delayed,    \* due times of the post_delayed_task calls not run yet
  host,       \* what Poster::user_data points at is still there
  now

sharedVars == <<inbox, posted, poster, lock, wakePc>>
execVars == <<exec, tasks, ready, nextId, timers>>
stackVars == <<uiPc, due, batch, current, arming>>
hostVars == <<posts, delayed, host, now>>
vars == <<sharedVars, execVars, stackVars, started, hostVars>>

Timer == [task : Ids, since : Nat, deadline : Nat]
NoTimer == [task |-> NoTask, since |-> 0, deadline |-> 0]

Init ==
  /\ inbox = {} /\ posted = FALSE /\ poster = HasPoster /\ lock = NoThread
  /\ wakePc = [t \in Threads |-> "idle"]
  /\ exec = TRUE /\ tasks = {} /\ ready = {} /\ nextId = 1 /\ timers = {}
  /\ uiPc = "idle" /\ due = {} /\ batch = {} /\ current = NoTask
  /\ arming = NoTimer
  /\ started = {}
  /\ posts = 0 /\ delayed = {} /\ host = TRUE /\ now = 0

\* The UI thread is not inside a wake of its own.
UiFree == wakePc[UI] = "idle"

\* Application code runs on the UI thread in an event handler between drains
\* and inside a poll.
InApplication == uiPc \in {"idle", "poll"} /\ UiFree

(***************************************************************************)
(* Waking: TaskWaker::wake_by_ref and Shared::request_drain.               *)
(***************************************************************************)

\* inbox.lock().push(id).  A Waker outlives its task and its executor.  The
\* bound on `posts' stands for an application that does not wake forever.
WakePush(t) ==
  /\ wakePc[t] = "idle"
  /\ t = UI => InApplication
  /\ posts < MaxPosts
  /\ \E id \in started : inbox' = inbox \cup {id}
  /\ wakePc' = [wakePc EXCEPT ![t] = "swap"]
  /\ UNCHANGED <<posted, poster, lock, execVars, stackVars, started, hostVars>>

\* if self.posted.swap(true) { return }
WakeSwap(t) ==
  /\ wakePc[t] = "swap"
  /\ posted' = TRUE
  /\ wakePc' = [wakePc EXCEPT ![t] = IF posted THEN "idle" ELSE "lock"]
  /\ UNCHANGED <<inbox, poster, lock, execVars, stackVars, started, hostVars>>

\* self.poster.lock(); with no poster there is nothing to call.
WakeLock(t) ==
  /\ wakePc[t] = "lock"
  /\ lock = NoThread
  /\ lock' = IF poster THEN t ELSE NoThread
  /\ wakePc' = [wakePc EXCEPT ![t] = IF poster THEN "post" ELSE "idle"]
  /\ UNCHANGED <<inbox, posted, poster, execVars, stackVars, started, hostVars>>

\* (poster.post_task)(poster.user_data) returns, and the lock is released.
WakePost(t) ==
  /\ wakePc[t] = "post"
  /\ posts' = posts + 1
  /\ lock' = NoThread
  /\ wakePc' = [wakePc EXCEPT ![t] = "idle"]
  /\ UNCHANGED <<inbox, posted, poster, execVars, stackVars, started,
                 delayed, host, now>>

(***************************************************************************)
(* spawn: insert, mark ready, request a drain.                             *)
(***************************************************************************)
Spawn ==
  /\ InApplication
  /\ exec
  /\ nextId <= MaxTasks
  /\ tasks' = tasks \cup {nextId}
  /\ ready' = ready \cup {nextId}
  /\ nextId' = nextId + 1
  /\ wakePc' = [wakePc EXCEPT ![UI] = "swap"]
  /\ UNCHANGED <<inbox, posted, poster, lock, exec, timers, stackVars, started,
                 hostVars>>

(***************************************************************************)
(* What starts a drain: a posted task, a delayed one, or the frame loop.   *)
(***************************************************************************)

\* The closure of RuntimeController::OnPostTask: nothing once the application
\* is gone.
RunPosted ==
  /\ uiPc = "idle" /\ UiFree
  /\ posts > 0
  /\ posts' = posts - 1
  /\ uiPc' = IF exec THEN "fire" ELSE "idle"
  /\ UNCHANGED <<sharedVars, execVars, due, batch, current, arming,
                 started, delayed, host, now>>

\* The closure of OnPostDelayedTask, once its time has come.
RunDelayed ==
  /\ uiPc = "idle" /\ UiFree
  /\ \E at \in delayed : at <= now /\ delayed' = delayed \ {at}
  /\ uiPc' = IF exec THEN "fire" ELSE "idle"
  /\ UNCHANGED <<sharedVars, execVars, due, batch, current, arming,
                 started, posts, host, now>>

\* RuntimeController::BeginFrame drains once a frame.
FrameDrain ==
  /\ uiPc = "idle" /\ UiFree
  /\ exec
  /\ uiPc' = "fire"
  /\ UNCHANGED <<sharedVars, execVars, due, batch, current, arming,
                 started, hostVars>>

(***************************************************************************)
(* run_until_stalled, one pass of its loop.                                *)
(***************************************************************************)

\* Mutated: a deadline that is exactly now does not count.
ExpiredStrictly == {tm \in timers : tm.deadline < now}

Expired == {tm \in timers : tm.deadline <= now}

\* fire_expired_timers: the expired are taken out before any is woken.
FireTimers ==
  /\ uiPc = "fire"
  /\ due' = {tm.task : tm \in Expired}
  /\ timers' = timers \ Expired
  /\ uiPc' = "wake"
  /\ UNCHANGED <<sharedVars, exec, tasks, ready, nextId, batch, current, arming, started, hostVars>>

\* waker.wake() for one of them, on the UI thread.
FireOne ==
  /\ uiPc = "wake" /\ UiFree
  /\ \E id \in due : inbox' = inbox \cup {id} /\ due' = due \ {id}
  /\ wakePc' = [wakePc EXCEPT ![UI] = "swap"]
  /\ UNCHANGED <<posted, poster, lock, execVars, uiPc, batch, current, arming, started, hostVars>>

\* Mutated: the flag is never cleared again.
DrainClearForgotten ==
  /\ uiPc = "wake" /\ UiFree
  /\ due = {}
  /\ uiPc' = IF exec THEN "take" ELSE "idle"
  /\ UNCHANGED <<sharedVars, execVars, due, batch, current, arming,
                 started, hostVars>>

\* posted.store(false), before the inbox is read.  Without an executor the
\* batch is empty and the drain returns.
DrainClear ==
  /\ uiPc = "wake" /\ UiFree
  /\ due = {}
  /\ posted' = IF exec THEN FALSE ELSE posted
  /\ uiPc' = IF exec THEN "take" ELSE "idle"
  /\ UNCHANGED <<inbox, poster, lock, wakePc, execVars, due, batch, current,
                 arming, started, hostVars>>

\* Mutated: the inbox is emptied, and only the spawned are polled.
DrainTakeReadyOnly ==
  /\ uiPc = "take"
  /\ batch' = ready
  /\ ready' = {}
  /\ inbox' = {}
  /\ uiPc' = IF ready = {} THEN "idle" ELSE "next"
  /\ UNCHANGED <<posted, poster, lock, wakePc, exec, tasks, nextId, timers, due,
                 current, arming, started, hostVars>>

\* ready and the inbox, under its lock, become the batch; an empty one ends
\* the drain.
DrainTake ==
  /\ uiPc = "take"
  /\ batch' = ready \cup inbox
  /\ ready' = {}
  /\ inbox' = {}
  /\ uiPc' = IF ready \cup inbox = {} THEN "idle" ELSE "next"
  /\ UNCHANGED <<posted, poster, lock, wakePc, exec, tasks, nextId, timers, due,
                 current, arming, started, hostVars>>

\* Mutated: the batch is not sorted.
IsAny(id) == id \in batch

\* The batch is sorted, so it is polled in ascending order.
IsFirst(id) == id \in batch /\ \A other \in batch : id <= other

\* tasks.remove(&id), then poll.
PollTask ==
  /\ uiPc = "next"
  /\ \E id \in tasks :
       /\ IsFirst(id)
       /\ batch' = batch \ {id}
       /\ tasks' = tasks \ {id}
       /\ current' = id
       /\ started' = started \cup {id}
  /\ uiPc' = "poll"
  /\ UNCHANGED <<sharedVars, exec, ready, nextId, timers, due, arming,
                 hostVars>>

\* "Finished, or dropped by a detach from inside another task."
SkipTask ==
  /\ uiPc = "next"
  /\ \E id \in batch : IsFirst(id) /\ id \notin tasks /\ batch' = batch \ {id}
  /\ UNCHANGED <<sharedVars, execVars, uiPc, due, current, arming,
                 started, hostVars>>

\* The loop comes round for what the batch made ready.
NextPass ==
  /\ uiPc = "next"
  /\ batch = {}
  /\ uiPc' = "fire"
  /\ UNCHANGED <<sharedVars, execVars, due, batch, current, arming,
                 started, hostVars>>

\* poll answered: Pending puts the task back if there still is a table.
PollReturns ==
  /\ uiPc = "poll" /\ UiFree
  /\ tasks' \in {tasks, IF exec THEN tasks \cup {current} ELSE tasks}
  /\ current' = NoTask
  /\ uiPc' = "next"
  /\ UNCHANGED <<sharedVars, exec, ready, nextId, timers, due, batch, arming, started, hostVars>>

(***************************************************************************)
(* Sleep::poll, the first time: push the timer, then ask the host for a    *)
(* drain at the deadline, rounded down to its microseconds.  A later poll  *)
(* of the same Sleep only replaces the waker.                              *)
(***************************************************************************)
SleepArm ==
  /\ uiPc = "poll" /\ UiFree
  /\ exec
  /\ Cardinality(timers) < MaxTimers
  /\ \E d \in 1..MaxSleep :
       /\ now + d <= MaxTime
       /\ arming' = [task |-> current, since |-> now, deadline |-> now + d]
  /\ timers' = timers \cup {arming'}
  /\ uiPc' = "arm"
  /\ UNCHANGED <<sharedVars, exec, tasks, ready, nextId, due, batch, current,
                 started, hostVars>>

\* Mutated: a coarser unit than the host's.
RoundedCoarsely(delay) == delay - (delay % (2 * MicroTicks))

RoundedDown(delay) == delay - (delay % MicroTicks)

\* request_delayed_drain: under the poster lock; the host adds the delay to
\* the time it reads, which may be later than the one Sleep::poll read.
RequestDelayedDrain ==
  /\ uiPc = "arm"
  /\ lock = NoThread
  /\ delayed' = IF poster /\ HasDelayed
                  THEN delayed \cup {now + RoundedDown(arming.deadline - arming.since)}
                  ELSE delayed
  /\ arming' = NoTimer
  /\ uiPc' = "poll"
  /\ UNCHANGED <<sharedVars, execVars, due, batch, current, started, posts, host,
                 now>>

\* Mutated: the poster is cleared without its lock.
DetachClearUnlocked ==
  /\ InApplication
  /\ exec
  /\ poster' = FALSE
  /\ uiPc' = "detach"
  /\ UNCHANGED <<inbox, posted, lock, wakePc, execVars, due, batch, current,
                 arming, started, hostVars>>

(***************************************************************************)
(* detach: clear the poster under its lock, then drop the executor.        *)
(***************************************************************************)
DetachClear ==
  /\ InApplication
  /\ exec
  /\ lock = NoThread
  /\ poster' = FALSE
  /\ uiPc' = "detach"
  /\ UNCHANGED <<inbox, posted, lock, wakePc, execVars, due, batch, current,
                 arming, started, hostVars>>

DetachDrop ==
  /\ uiPc = "detach"
  /\ exec' = FALSE
  /\ tasks' = {} /\ ready' = {} /\ timers' = {}
  /\ uiPc' = IF current = NoTask THEN "idle" ELSE "poll"
  /\ UNCHANGED <<sharedVars, nextId, due, batch, current, arming,
                 started, hostVars>>

\* rf_app_destroy has returned to ~RuntimeController and the host is freed.
HostGone ==
  /\ uiPc = "idle" /\ UiFree
  /\ ~exec
  /\ host
  /\ host' = FALSE
  /\ UNCHANGED <<sharedVars, execVars, stackVars, started, posts, delayed, now>>

\* The clock runs to MaxTime, and on to what the host has been asked for.
Tick ==
  /\ now < MaxTime \/ \E at \in delayed : now < at
  /\ now' = now + 1
  /\ UNCHANGED <<sharedVars, execVars, stackVars, started, posts, delayed, host>>

Wake(t) == WakeSwap(t) \/ WakeLock(t) \/ WakePost(t)

Drain ==
  \/ FireTimers \/ FireOne \/ DrainClear \/ DrainTake
  \/ PollTask \/ SkipTask \/ NextPass

Next ==
  \/ \E t \in Threads : WakePush(t) \/ WakeSwap(t) \/ WakeLock(t) \/ WakePost(t)
  \/ Spawn
  \/ RunPosted \/ RunDelayed \/ FrameDrain
  \/ FireTimers \/ FireOne \/ DrainClear \/ DrainTake
  \/ PollTask \/ SkipTask \/ NextPass \/ PollReturns
  \/ SleepArm \/ RequestDelayedDrain
  \/ DetachClear \/ DetachDrop \/ HostGone
  \/ Tick

Spec == Init /\ [][Next]_vars

(***************************************************************************)
(* Fairness: a thread inside a wake or a drain goes on; the clock advances.*)
(* Strong where application code may run in between: a poll makes finitely *)
(* many wakes and returns, and the UI runner, a queue, gets to what was    *)
(* posted however often event handlers run.  Nothing else is assumed of the*)
(* application: it need not spawn, wake or sleep.  Without a poster the    *)
(* frame loop is the only thing that drains.                               *)
(***************************************************************************)
Fairness ==
  /\ \A t \in Threads : WF_vars(Wake(t))
  /\ WF_vars(Drain)
  /\ SF_vars(PollReturns)
  /\ WF_vars(RequestDelayedDrain)
  /\ WF_vars(DetachDrop)
  /\ SF_vars(RunPosted)
  /\ SF_vars(RunDelayed)
  /\ ~HasPoster => SF_vars(FrameDrain)
  /\ WF_vars(Tick)

FairSpec == Spec /\ Fairness

-----------------------------------------------------------------------------
(***************************************************************************)
(* Properties.                                                             *)
(***************************************************************************)
UiSteps == {"idle", "fire", "wake", "take", "next", "poll", "arm", "detach"}

TypeOK ==
  /\ inbox \subseteq Ids
  /\ posted \in BOOLEAN /\ poster \in BOOLEAN
  /\ lock \in Threads \cup {NoThread}
  /\ wakePc \in [Threads -> {"idle", "swap", "lock", "post"}]
  /\ exec \in BOOLEAN
  /\ tasks \subseteq Ids /\ ready \subseteq Ids
  /\ nextId \in 1..(MaxTasks + 1)
  /\ timers \subseteq Timer
  /\ uiPc \in UiSteps
  /\ due \subseteq Ids /\ batch \subseteq Ids
  /\ current \in Ids \cup {NoTask}
  /\ arming \in Timer \cup {NoTimer}
  /\ started \subseteq Ids
  /\ posts \in Nat /\ delayed \subseteq Int
  /\ host \in BOOLEAN /\ now \in Nat

\* No wake-up is lost: while a host can be reached, a task marked ready or
\* woken is either seen by a drain that is on the stack, or some thread is on
\* its way to ask for one, or the UI runner holds one.  This is what the order
\* of push and swap in wake_by_ref, and of the clear and the take in
\* run_until_stalled, is for.
NoLostWake ==
  (/\ exec /\ poster
   /\ uiPc = "idle"
   /\ \A t \in Threads : wakePc[t] = "idle"
   /\ ready \cup inbox # {})
  => posts > 0

\* After detach has cleared the poster no thread is inside post_task, so none
\* uses the host's user_data once the host is free to go.
NoCallAfterDetach ==
  ~poster \/ ~host => \A t \in Threads : wakePc[t] # "post"

\* Tasks get their first poll in the order they were spawned, whatever worker
\* threads wake meanwhile: the batch is sorted by id and a fresh task is never
\* left behind by a later one.
SpawnOrder == \A id \in started : \A earlier \in 1..id : earlier \in started

\* When the drain a sleep asked for is due at the earliest: the delay is passed
\* on in whole microseconds (as_micros), the deadline keeps its nanoseconds.
OnTime(tm) == (tm.deadline - tm.since) % MicroTicks = 0
Earliest(tm) == tm.deadline - ((tm.deadline - tm.since) % MicroTicks)

\* Every armed sleep has a drain coming when the host has a clock, until that
\* drain runs: no sooner than the deadline, or in the microsecond before it if
\* the delay was not whole.  A sleep of whole microseconds "will not be missed".
TimerCovered ==
  exec /\ poster /\ HasDelayed =>
    \A tm \in timers :
      \/ \E at \in delayed : at >= Earliest(tm)
      \/ uiPc = "arm" /\ arming = tm
      \/ uiPc = "fire" /\ now >= Earliest(tm)
      \/ ~OnTime(tm) /\ now >= Earliest(tm)

\* No sleep stays overdue: the task is woken, or the timer dropped with the
\* executor (sleep: "Resolves once `duration` has passed").  The drain a sleep
\* asked for does it if the delay was whole; if not, that drain may have come too
\* early, and the sleep "may be late", until drains come for other reasons.
SleepersWake ==
  LET Overdue == {tm \in timers : tm.deadline <= now}
  IN  /\ []<>(\A tm \in Overdue : ~OnTime(tm))
      /\ []<>(uiPc = "fire") => []<>(Overdue = {})

(***************************************************************************)
(* The invariants above are not inductive.  These parts, together with     *)
(* TypeOK, are.                                                            *)
(***************************************************************************)

\* The thread inside post_task is the one that holds the poster lock.
LockInv == \A t \in Threads : wakePc[t] = "post" <=> lock = t

\* What the UI thread's place says about its stack.
StackInv ==
  /\ wakePc[UI] # "idle" => uiPc \in {"idle", "wake", "poll"}
  /\ current # NoTask => uiPc \in {"poll", "arm", "detach"}
  /\ uiPc \in {"poll", "arm"} => current # NoTask
  /\ uiPc \in {"idle", "fire", "wake", "take"} => batch = {}
  /\ uiPc = "detach" /\ current = NoTask => batch = {}
  /\ current \notin tasks

\* The order of teardown: poster, executor, host.
TeardownInv ==
  /\ uiPc = "detach" => exec /\ ~poster
  /\ uiPc \in {"take", "arm"} => exec
  /\ ~exec => ~poster /\ tasks = {} /\ ready = {}
  /\ ~host => ~exec

\* A raised flag is a drain on its way ...
AskedInv ==
  exec /\ poster /\ posted /\ uiPc \in {"idle", "take"} =>
    posts > 0 \/ \E t \in Threads : wakePc[t] \in {"lock", "post"}

\* ... and a task to poll has raised it, is about to, or is being drained.
WakeInv ==
  exec /\ poster /\ ready \cup inbox # {} /\ uiPc = "idle" =>
    posted \/ \E t \in Threads : wakePc[t] = "swap"

\* Where the tasks not polled yet are.
OrderInv ==
  /\ \A id \in started \cup ready \cup batch \cup tasks : id < nextId
  /\ ready \cap started = {}
  /\ \A old \in batch, new \in ready : old < new
  /\ exec => \A id \in Ids : id < nextId =>
       id \in started \/ (id \in ready \cup batch /\ id \in tasks)

\* What a task may be woken by: its own poll handed its Waker out.
StartedInv ==
  /\ inbox \subseteq started /\ due \subseteq started
  /\ current \in started \cup {NoTask}
  /\ \A tm \in timers : tm.task \in started

\* The whole of it.
ExecInv ==
  /\ TypeOK
  /\ LockInv /\ StackInv /\ TeardownInv
  /\ AskedInv /\ WakeInv
  /\ OrderInv /\ StartedInv
  /\ NoCallAfterDetach /\ SpawnOrder

(***************************************************************************)
(* The executor implements MicrotaskQueue: a task is owed a poll when it is*)
(* in `ready', in the inbox or in the batch being worked through.          *)
(***************************************************************************)
Live == tasks \cup ({current} \ {NoTask})

MQ == INSTANCE MicrotaskQueue WITH
        open <- exec,
        live <- Live,
        owed <- (ready \cup inbox \cup batch) \cap Live,
        polling <- current

\* Safety and liveness of the contract: only owed tasks are polled, one at a
\* time, never after detach; and every owed task is eventually polled.
MicrotaskSpec == MQ!Spec
=============================================================================
