--------------------------- MODULE MicrotaskQueue ---------------------------
(***************************************************************************)
(* What rustflutter's executor promises an application, with nothing about *)
(* threads, flags, locks or the host: a set of unfinished tasks, the ones  *)
(* among them that are owed a poll, and at most one being polled.          *)
(*                                                                         *)
(* This is the contract the comments of task.rs state ("every ready task", *)
(* "a task woken twice before a drain is one task to poll", "finished, or  *)
(* dropped by a detach").  Executor.tla is shown to implement it.          *)
(***************************************************************************)
CONSTANTS Ids,      \* the names tasks may be given
          NoTask    \* no task is being polled

VARIABLES open,     \* the executor exists: attached and not yet detached
          live,     \* tasks spawned and not yet finished or dropped
          owed,     \* the live tasks that were spawned or woken and await a poll
          polling   \* the task whose poll is on the stack, or NoTask

vars == <<open, live, owed, polling>>

Init ==
  /\ open = TRUE
  /\ live = {}
  /\ owed = {}
  /\ polling = NoTask

\* A spawned task is owed its first poll at once.
Spawn(id) ==
  /\ open
  /\ id \notin live
  /\ live' = live \cup {id}
  /\ owed' = owed \cup {id}
  /\ UNCHANGED <<open, polling>>

\* Waking is idempotent until the poll it asks for.
Wake(id) ==
  /\ id \in live
  /\ owed' = owed \cup {id}
  /\ UNCHANGED <<open, live, polling>>

\* Only an owed task is polled.  A wake that landed after the drain collected
\* its batch may leave the task owed one more poll.
Poll(id) ==
  /\ open
  /\ polling = NoTask
  /\ id \in owed
  /\ polling' = id
  /\ owed' \in {owed, owed \ {id}}
  /\ UNCHANGED <<open, live>>

\* The poll answered Pending.
Park ==
  /\ open
  /\ polling # NoTask
  /\ polling' = NoTask
  /\ UNCHANGED <<open, live, owed>>

\* The poll answered Ready, or the executor went away underneath it.
Finish ==
  /\ polling # NoTask
  /\ polling' = NoTask
  /\ live' = live \ {polling}
  /\ owed' = owed \ {polling}
  /\ UNCHANGED open

\* Closing drops every task but the one on the stack, which finishes alone.
Close ==
  /\ open
  /\ open' = FALSE
  /\ live' = live \cap {polling}
  /\ owed' = owed \cap {polling}
  /\ UNCHANGED polling

Next ==
  \/ \E id \in Ids : Spawn(id) \/ Wake(id) \/ Poll(id)
  \/ Park
  \/ Finish
  \/ Close

Fairness ==
  /\ \A id \in Ids : SF_vars(Poll(id))
  /\ WF_vars(Park \/ Finish)

Spec == Init /\ [][Next]_vars /\ Fairness
=============================================================================
