---------------------------- MODULE PlatformCall ----------------------------
(***************************************************************************)
(* Calls to the platform and their replies: services::send_with_reply and  *)
(* complete_reply, the oneshot a task awaits the reply through (task.rs),  *)
(* the response object the embedder answers on any thread                  *)
(* (runtime_controller.cc), and the teardown that fails what is left       *)
(* (rf_app_destroy), after which Engine::Restart may build a new           *)
(* controller and application on the same thread.                          *)
(*                                                                         *)
(* A call is its response id: Messenger::next_response_id belongs to the   *)
(* thread and no teardown resets it, so no two calls share one.  Each call *)
(* has one receiver, and at most one task awaits it.                       *)
(***************************************************************************)
EXTENDS Integers

CONSTANTS
  Calls,     \* calls the application may make
  MaxLives   \* bound: controllers one after the other

ASSUME LivesAssumption == MaxLives \in Nat \ {0}

VARIABLES
  life,      \* the controller that is up, counted from 1
  stage,     \* how far rf_app_destroy has come
  waiting,   \* Messenger::waiting: callbacks by response id
  failing,   \* detach's own copy, which it is working through
  response,  \* where each call's RustPlatformMessageResponse has got to
  owner,     \* the controller its weak pointer is to
  heard,     \* how often each callback ran
  slot,      \* Slot::value of each call's oneshot
  task       \* the task that awaits it

vars == <<life, stage, waiting, failing, response, owner, heard, slot, task>>

Init ==
  /\ life = 1 /\ stage = "up"
  /\ waiting = {} /\ failing = {}
  /\ response = [c \in Calls |-> "unmade"]
  /\ owner = [c \in Calls |-> 0]
  /\ heard = [c \in Calls |-> 0]
  /\ slot = [c \in Calls |-> FALSE]
  /\ task = [c \in Calls |-> "none"]

\* Application code runs on the UI thread: in events and tasks, and in the
\* callbacks that detach fails.
InApplication == stage \in {"up", "failing"}

\* Mutated: the waker is left in the slot.
WokenNobody(c) == task

\* Sender::send: the value goes into the slot, and the waker, if the receiver
\* left one, is taken and called.
Woken(c) == [task EXCEPT ![c] = IF @ = "parked" THEN "ready" ELSE @]

\* The callback runs.  Every awaiting wrapper's callback is sender.send.
CallBack(c) ==
  /\ heard' = [heard EXCEPT ![c] = @ + 1]
  /\ slot' = [slot EXCEPT ![c] = TRUE]

(***************************************************************************)
(* send_with_reply.  With no sink the callback runs at once; otherwise it  *)
(* is stored before the message goes out.  A channel name with a NUL in it *)
(* never goes out, and its callback stays stored.                          *)
(***************************************************************************)
Send(c) ==
  /\ InApplication
  /\ response[c] = "unmade"
  /\ \E awaited \in {"none", "ready"} : task' = [task EXCEPT ![c] = awaited]
  /\ IF stage = "up"
       THEN /\ waiting' = waiting \cup {c}
            /\ owner' = [owner EXCEPT ![c] = life]
            /\ \E out \in {"embedder", "void"} :
                 response' = [response EXCEPT ![c] = out]
            /\ UNCHANGED <<heard, slot>>
       ELSE /\ response' = [response EXCEPT ![c] = "void"]
            /\ CallBack(c)
            /\ UNCHANGED <<waiting, owner>>
  /\ UNCHANGED <<life, stage, failing>>

\* The embedder completes the response, on whatever thread it likes, or lets
\* go of it.  A second completion finds is_complete_ set.
Complete(c) ==
  /\ response[c] = "embedder"
  /\ response' = [response EXCEPT ![c] = "posted"]
  /\ UNCHANGED <<life, stage, waiting, failing, owner, heard, slot, task>>

Forget(c) ==
  /\ response[c] = "embedder"
  /\ response' = [response EXCEPT ![c] = "void"]
  /\ UNCHANGED <<life, stage, waiting, failing, owner, heard, slot, task>>

\* Mutated: the callback is looked up and not taken out.
RunReplyPeek(c) ==
  /\ response[c] = "posted"
  /\ stage \in {"up", "down"}
  /\ response' = [response EXCEPT ![c] = "void"]
  /\ IF stage = "up" /\ c \in waiting
       THEN CallBack(c) /\ task' = Woken(c)
       ELSE UNCHANGED <<heard, slot, task>>
  /\ UNCHANGED <<life, stage, waiting, failing, owner>>

\* The posted task runs on the UI thread.  It holds its controller weakly.
RunReply(c) ==
  /\ response[c] = "posted"
  /\ stage \in {"up", "down"}
  /\ response' = [response EXCEPT ![c] = "void"]
  /\ IF stage = "up" /\ owner[c] = life /\ c \in waiting
       THEN /\ waiting' = waiting \ {c}
            /\ CallBack(c)
            /\ task' = Woken(c)
       ELSE UNCHANGED <<waiting, heard, slot, task>>
  /\ UNCHANGED <<life, stage, failing, owner>>

\* Mutated: the receiver leaves its waker without looking for the value.
PollBlindly(c) ==
  /\ stage = "up"
  /\ task[c] = "ready"
  /\ task' = [task EXCEPT ![c] = "parked"]
  /\ UNCHANGED <<life, stage, waiting, failing, response, owner, heard, slot>>

\* A drain polls the task: Receiver::poll takes the value or leaves a waker.
Poll(c) ==
  /\ stage = "up"
  /\ task[c] = "ready"
  /\ task' = [task EXCEPT ![c] = IF slot[c] THEN "done" ELSE "parked"]
  /\ slot' = [slot EXCEPT ![c] = FALSE]
  /\ UNCHANGED <<life, stage, waiting, failing, response, owner, heard>>

(***************************************************************************)
(* rf_app_destroy, on the UI thread: disconnect the sink, then             *)
(* services::detach (drop the sink, take the callbacks, call each with     *)
(* nothing), then task::detach.                                            *)
(***************************************************************************)
Disconnect ==
  /\ stage = "up"
  /\ stage' = "disconnected"
  /\ UNCHANGED <<life, waiting, failing, response, owner, heard, slot, task>>

\* Mutated: the callbacks stay in the messenger.
DetachMessengerCopy ==
  /\ stage = "disconnected"
  /\ stage' = "failing"
  /\ failing' = waiting
  /\ UNCHANGED <<life, waiting, response, owner, heard, slot, task>>

DetachMessenger ==
  /\ stage = "disconnected"
  /\ stage' = "failing"
  /\ failing' = waiting
  /\ waiting' = {}
  /\ UNCHANGED <<life, response, owner, heard, slot, task>>

\* Mutated: only what a task awaits is failed.
FailAwaited(c) ==
  /\ stage = "failing"
  /\ c \in failing
  /\ task[c] \in {"ready", "parked"}
  /\ failing' = failing \ {c}
  /\ CallBack(c)
  /\ task' = Woken(c)
  /\ UNCHANGED <<life, stage, waiting, response, owner>>

FailOne(c) ==
  /\ stage = "failing"
  /\ c \in failing
  /\ failing' = failing \ {c}
  /\ CallBack(c)
  /\ task' = Woken(c)
  /\ UNCHANGED <<life, stage, waiting, response, owner>>

\* Mutated: the tasks go before the callbacks have run.
DetachTasksFirst ==
  /\ stage = "failing"
  /\ stage' = "down"
  /\ task' = [c \in Calls |-> IF task[c] \in {"ready", "parked"} THEN "dropped"
                                                                 ELSE task[c]]
  /\ UNCHANGED <<life, waiting, failing, response, owner, heard, slot>>

DetachTasks ==
  /\ stage = "failing"
  /\ failing = {}
  /\ stage' = "down"
  /\ task' = [c \in Calls |-> IF task[c] \in {"ready", "parked"} THEN "dropped"
                                                                 ELSE task[c]]
  /\ UNCHANGED <<life, waiting, failing, response, owner, heard, slot>>

\* Engine::Restart: a new controller, and an application in it.
NextLife ==
  /\ stage = "down"
  /\ life < MaxLives
  /\ life' = life + 1
  /\ stage' = "up"
  /\ UNCHANGED <<waiting, failing, response, owner, heard, slot, task>>

Step(c) == Send(c) \/ Complete(c) \/ Forget(c) \/ RunReply(c) \/ Poll(c) \/ FailOne(c)

Next ==
  \/ \E c \in Calls : Step(c)
  \/ Disconnect \/ DetachMessenger \/ DetachTasks \/ NextLife

Spec == Init /\ [][Next]_vars

\* The UI thread keeps running its tasks, drains and a teardown once begun.
\* The embedder owes nothing: it need not answer, nor tear down.
Fairness ==
  /\ \A c \in Calls : WF_vars(RunReply(c)) /\ SF_vars(Poll(c)) /\ WF_vars(FailOne(c))
  /\ WF_vars(DetachMessenger) /\ WF_vars(DetachTasks)

FairSpec == Spec /\ Fairness

-----------------------------------------------------------------------------
(***************************************************************************)
(* Properties.                                                             *)
(***************************************************************************)
Stages == {"up", "disconnected", "failing", "down"}
Responses == {"unmade", "embedder", "posted", "void"}
Tasks == {"none", "ready", "parked", "done", "dropped"}

TypeOK ==
  /\ life \in 1..MaxLives /\ stage \in Stages
  /\ waiting \subseteq Calls /\ failing \subseteq Calls
  /\ waiting # {} => stage \in {"up", "disconnected"}
  /\ failing # {} => stage = "failing"
  /\ response \in [Calls -> Responses]
  /\ owner \in [Calls -> 0..MaxLives]
  /\ heard \in [Calls -> Nat]
  /\ slot \in [Calls -> BOOLEAN]
  /\ task \in [Calls -> Tasks]

Made(c) == response[c] # "unmade"
Held == waiting \cup failing

\* "callback runs exactly once" (send_with_reply): a call that was made has its
\* callback stored in one place, or has heard exactly once; and by the time the
\* application is down nothing is stored anywhere.
CalledOnce ==
  /\ \A c \in Calls : heard[c] = IF Made(c) /\ c \notin Held THEN 1 ELSE 0
  /\ stage = "down" => Held = {}

\* "A reply that never comes must not leave a task parked forever" (Sender): a
\* parked task always has a callback left to wake it.
ParkedIsHeld == \A c \in Calls : task[c] = "parked" => c \in Held

\* What waits belongs to the application that is up: a restart inherits no
\* callback, so a reply to the last one finds nobody.
NothingInherited == \A c \in waiting : owner[c] = life

\* What the slot of a call holds, and with the above the inductive invariant: a
\* stored callback was not called yet, and a task that is to be polled is either
\* to hear later or has its value.
SlotMatches ==
  \A c \in Calls :
    /\ c \in Held => Made(c) /\ ~slot[c]
    /\ ~Made(c) => task[c] = "none" /\ ~slot[c]
    /\ task[c] = "ready" /\ c \notin Held => slot[c]

CallInv == TypeOK /\ CalledOnce /\ ParkedIsHeld /\ NothingInherited /\ SlotMatches

\* "Call this after services::detach, not before" (task::detach): no task is
\* dropped before its call was answered.
SettledBeforeDropped ==
  [][\A c \in Calls : task[c] # "dropped" /\ task'[c] = "dropped" => slot[c]]_vars

\* An answer reaches the task that awaits it, unless the application goes.
AnswersArrive ==
  \A c \in Calls :
    (response[c] = "posted" /\ task[c] \in {"ready", "parked"})
      ~> (task[c] \in {"done", "dropped"} \/ stage # "up")

\* The promise to the caller, as ReplyPromise states it.
Promise ==
  INSTANCE ReplyPromise WITH
    promise <- [c \in Calls |-> IF ~Made(c) THEN "new"
                                ELSE IF c \in Held THEN "open" ELSE "kept"],
    closing <- stage \in {"failing", "down"}

PromiseSpec == Promise!FairSpec
=============================================================================
