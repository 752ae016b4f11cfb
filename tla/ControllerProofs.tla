-------------------------- MODULE ControllerProofs --------------------------
(***************************************************************************)
(* Proofs about the runtime controller.                                    *)
(*                                                                         *)
(* PlatformCall, for any set of calls and any number of lives: the         *)
(* inductive invariant, the safety properties that follow from it, and     *)
(* that the code keeps the promise it makes to a caller.                   *)
(*                                                                         *)
(* Launch, for any views, settings and locales: an application knows what  *)
(* the embedder told its controller, one that is gone leaves nothing but   *)
(* the semantics handle, and no change is left without a frame.            *)
(***************************************************************************)
EXTENDS PlatformCall, Launch, TLAPS

USE LivesAssumption

(***************************************************************************)
(* The inductive invariant.                                                *)
(***************************************************************************)

\* A fresh messenger satisfies the invariant: nothing was called.
LEMMA InitInv == Init => CallInv
  BY DEF Init, CallInv, TypeOK, CalledOnce, ParkedIsHeld, NothingInherited,
     SlotMatches, Made, Held, Stages, Responses, Tasks

\* A callback counts once more and fills its slot.
LEMMA CallBackTypes ==
  ASSUME NEW c \in Calls, heard \in [Calls -> Nat], slot \in [Calls -> BOOLEAN],
         CallBack(c)
  PROVE  heard' \in [Calls -> Nat] /\ slot' \in [Calls -> BOOLEAN]
<1>1. heard[c] + 1 \in Nat
  OBVIOUS
<1>2. heard' \in [Calls -> Nat]
  BY <1>1 DEF CallBack
<1>3. slot' \in [Calls -> BOOLEAN]
  BY Zenon DEF CallBack
<1> QED
  BY <1>2, <1>3

\* Send keeps the invariant.
LEMMA SendInv == ASSUME NEW c \in Calls, CallInv, Send(c) PROVE CallInv'
<1> USE DEF TypeOK, Stages, Responses, Tasks, Made, Held
<1>0. TypeOK /\ CalledOnce /\ ParkedIsHeld /\ NothingInherited /\ SlotMatches
  BY DEF CallInv
<1>1. TypeOK'
  <2>1. CASE stage = "up"
    BY <1>0, <2>1 DEF Send
  <2>2. CASE stage # "up"
    <3>1. heard' \in [Calls -> Nat] /\ slot' \in [Calls -> BOOLEAN]
      BY <1>0, <2>2, CallBackTypes DEF Send
    <3>2. response' \in [Calls -> Responses] /\ task' \in [Calls -> Tasks]
      BY <1>0, <2>2 DEF Send
    <3> QED
      BY <1>0, <2>2, <3>1, <3>2 DEF Send
  <2> QED
    BY <2>1, <2>2
<1>2. CalledOnce'
  <2>1. heard[c] = 0 /\ c \notin Held
    BY <1>0 DEF Send, CalledOnce, SlotMatches
  <2>2. CASE stage = "up"
    BY <1>0, <2>1, <2>2 DEF Send, CalledOnce
  <2>3. CASE stage # "up"
    <3>1. heard' = [heard EXCEPT ![c] = 1] /\ Held' = Held /\ stage' = stage
      BY <1>0, <2>1, <2>3 DEF Send, CallBack
    <3>2. \A d \in Calls : Made(d)' <=> (Made(d) \/ d = c)
      BY <1>0, <2>3 DEF Send
    <3> QED
      BY <1>0, <2>1, <3>1, <3>2 DEF CalledOnce
  <2> QED
    BY <2>2, <2>3
<1>3. ParkedIsHeld'
  BY <1>0, SMTT(30) DEF Send, CallBack, ParkedIsHeld, SlotMatches
<1>4. NothingInherited'
  BY <1>0, SMTT(30) DEF Send, CallBack, NothingInherited, SlotMatches
<1>5. SlotMatches'
  BY <1>0, SMTT(30) DEF Send, CallBack, ParkedIsHeld, SlotMatches
<1> QED
  BY <1>1, <1>2, <1>3, <1>4, <1>5 DEF CallInv

\* Complete keeps the invariant.
LEMMA CompleteInv == ASSUME NEW c \in Calls, CallInv, Complete(c) PROVE CallInv'
<1> USE DEF TypeOK, Stages, Responses, Tasks, Made, Held
<1>0. TypeOK /\ CalledOnce /\ ParkedIsHeld /\ NothingInherited /\ SlotMatches
  BY DEF CallInv
<1>1. TypeOK'
  BY <1>0, SMTT(30) DEF Complete
<1>2. CalledOnce'
  BY <1>0, SMTT(30) DEF Complete, CalledOnce
<1>3. ParkedIsHeld'
  BY <1>0, SMTT(30) DEF Complete, ParkedIsHeld, SlotMatches
<1>4. NothingInherited'
  BY <1>0, SMTT(30) DEF Complete, NothingInherited, SlotMatches
<1>5. SlotMatches'
  BY <1>0, SMTT(30) DEF Complete, ParkedIsHeld, SlotMatches
<1> QED
  BY <1>1, <1>2, <1>3, <1>4, <1>5 DEF CallInv

\* Forget keeps the invariant.
LEMMA ForgetInv == ASSUME NEW c \in Calls, CallInv, Forget(c) PROVE CallInv'
<1> USE DEF TypeOK, Stages, Responses, Tasks, Made, Held
<1>0. TypeOK /\ CalledOnce /\ ParkedIsHeld /\ NothingInherited /\ SlotMatches
  BY DEF CallInv
<1>1. TypeOK'
  BY <1>0, SMTT(30) DEF Forget
<1>2. CalledOnce'
  BY <1>0, SMTT(30) DEF Forget, CalledOnce
<1>3. ParkedIsHeld'
  BY <1>0, SMTT(30) DEF Forget, ParkedIsHeld, SlotMatches
<1>4. NothingInherited'
  BY <1>0, SMTT(30) DEF Forget, NothingInherited, SlotMatches
<1>5. SlotMatches'
  BY <1>0, SMTT(30) DEF Forget, ParkedIsHeld, SlotMatches
<1> QED
  BY <1>1, <1>2, <1>3, <1>4, <1>5 DEF CallInv

\* RunReply keeps the invariant.
LEMMA RunReplyInv == ASSUME NEW c \in Calls, CallInv, RunReply(c) PROVE CallInv'
<1> USE DEF TypeOK, Stages, Responses, Tasks, Made, Held
<1>0. TypeOK /\ CalledOnce /\ ParkedIsHeld /\ NothingInherited /\ SlotMatches
  BY DEF CallInv
<1>1. TypeOK'
  <2>1. CASE stage = "up" /\ owner[c] = life /\ c \in waiting
    <3>1. heard' \in [Calls -> Nat] /\ slot' \in [Calls -> BOOLEAN]
      BY <1>0, <2>1, CallBackTypes DEF RunReply
    <3>2. response' \in [Calls -> Responses] /\ task' \in [Calls -> Tasks]
      BY <1>0, <2>1 DEF RunReply, Woken
    <3> QED
      BY <1>0, <2>1, <3>1, <3>2 DEF RunReply
  <2>2. CASE ~(stage = "up" /\ owner[c] = life /\ c \in waiting)
    BY <1>0, <2>2 DEF RunReply
  <2> QED
    BY <2>1, <2>2
<1>2. CalledOnce'
  <2>0. \A d \in Calls : Made(d)' <=> Made(d)
    BY <1>0 DEF RunReply
  <2>1. CASE stage = "up" /\ owner[c] = life /\ c \in waiting
    <3>1. heard[c] = 0
      BY <1>0, <2>1 DEF CalledOnce
    <3>2. heard' = [heard EXCEPT ![c] = 1] /\ Held' = Held \ {c} /\ stage' = stage
      BY <1>0, <2>1, <3>1 DEF RunReply, CallBack
    <3>3. Made(c)
      BY <1>0, <2>1 DEF SlotMatches
    <3> QED
      BY <1>0, <2>0, <2>1, <3>2, <3>3 DEF CalledOnce
  <2>2. CASE ~(stage = "up" /\ owner[c] = life /\ c \in waiting)
    BY <1>0, <2>0, <2>2 DEF RunReply, CalledOnce
  <2> QED
    BY <2>1, <2>2
<1>3. ParkedIsHeld'
  BY <1>0, SMTT(30) DEF RunReply, CallBack, Woken, ParkedIsHeld, SlotMatches
<1>4. NothingInherited'
  BY <1>0, SMTT(30) DEF RunReply, CallBack, Woken, NothingInherited, SlotMatches
<1>5. SlotMatches'
  BY <1>0, SMTT(30) DEF RunReply, CallBack, Woken, ParkedIsHeld, SlotMatches
<1> QED
  BY <1>1, <1>2, <1>3, <1>4, <1>5 DEF CallInv

\* Poll keeps the invariant.
LEMMA PollInv == ASSUME NEW c \in Calls, CallInv, Poll(c) PROVE CallInv'
<1> USE DEF TypeOK, Stages, Responses, Tasks, Made, Held
<1>0. TypeOK /\ CalledOnce /\ ParkedIsHeld /\ NothingInherited /\ SlotMatches
  BY DEF CallInv
<1>1. TypeOK'
  BY <1>0, SMTT(30) DEF Poll
<1>2. CalledOnce'
  BY <1>0, SMTT(30) DEF Poll, CalledOnce
<1>3. ParkedIsHeld'
  BY <1>0, SMTT(30) DEF Poll, ParkedIsHeld, SlotMatches
<1>4. NothingInherited'
  BY <1>0, SMTT(30) DEF Poll, NothingInherited, SlotMatches
<1>5. SlotMatches'
  BY <1>0, SMTT(30) DEF Poll, ParkedIsHeld, SlotMatches
<1> QED
  BY <1>1, <1>2, <1>3, <1>4, <1>5 DEF CallInv

\* FailOne keeps the invariant.
LEMMA FailOneInv == ASSUME NEW c \in Calls, CallInv, FailOne(c) PROVE CallInv'
<1> USE DEF TypeOK, Stages, Responses, Tasks, Made, Held
<1>0. TypeOK /\ CalledOnce /\ ParkedIsHeld /\ NothingInherited /\ SlotMatches
  BY DEF CallInv
<1>1. TypeOK'
  BY <1>0, SMTT(30) DEF FailOne, CallBack, Woken
<1>2. CalledOnce'
  <2>1. heard[c] = 0 /\ Made(c) /\ waiting = {}
    BY <1>0 DEF FailOne, CalledOnce, SlotMatches
  <2>2. heard' = [heard EXCEPT ![c] = 1] /\ Held' = Held \ {c} /\ stage' = stage
    BY <1>0, <2>1 DEF FailOne, CallBack
  <2>3. \A d \in Calls : Made(d)' <=> Made(d)
    BY DEF FailOne
  <2> QED
    BY <1>0, <2>1, <2>2, <2>3 DEF CalledOnce, FailOne
<1>3. ParkedIsHeld'
  BY <1>0, SMTT(30) DEF FailOne, CallBack, Woken, ParkedIsHeld, SlotMatches
<1>4. NothingInherited'
  BY <1>0, SMTT(30) DEF FailOne, CallBack, Woken, NothingInherited, SlotMatches
<1>5. SlotMatches'
  BY <1>0, SMTT(30) DEF FailOne, CallBack, Woken, ParkedIsHeld, SlotMatches
<1> QED
  BY <1>1, <1>2, <1>3, <1>4, <1>5 DEF CallInv

\* Disconnect keeps the invariant.
LEMMA DisconnectInv == ASSUME CallInv, Disconnect PROVE CallInv'
<1> USE DEF TypeOK, Stages, Responses, Tasks, Made, Held, Disconnect
<1>0. TypeOK /\ CalledOnce /\ ParkedIsHeld /\ NothingInherited /\ SlotMatches
  BY DEF CallInv
<1>1. TypeOK'
  BY <1>0
<1>2. CalledOnce'
  BY <1>0 DEF CalledOnce
<1>3. ParkedIsHeld'
  BY <1>0 DEF ParkedIsHeld
<1>4. NothingInherited'
  BY <1>0 DEF NothingInherited
<1>5. SlotMatches'
  BY <1>0 DEF ParkedIsHeld, SlotMatches
<1> QED
  BY <1>1, <1>2, <1>3, <1>4, <1>5 DEF CallInv

\* DetachMessenger keeps the invariant.
LEMMA DetachMessengerInv == ASSUME CallInv, DetachMessenger PROVE CallInv'
<1> USE DEF TypeOK, Stages, Responses, Tasks, Made, Held, DetachMessenger
<1>0. TypeOK /\ CalledOnce /\ ParkedIsHeld /\ NothingInherited /\ SlotMatches
  BY DEF CallInv
<1>1. TypeOK'
  BY <1>0
<1>2. CalledOnce'
  BY <1>0 DEF CalledOnce
<1>3. ParkedIsHeld'
  BY <1>0 DEF ParkedIsHeld
<1>4. NothingInherited'
  BY <1>0 DEF NothingInherited
<1>5. SlotMatches'
  BY <1>0 DEF ParkedIsHeld, SlotMatches
<1> QED
  BY <1>1, <1>2, <1>3, <1>4, <1>5 DEF CallInv

\* DetachTasks keeps the invariant.
LEMMA DetachTasksInv == ASSUME CallInv, DetachTasks PROVE CallInv'
<1> USE DEF TypeOK, Stages, Responses, Tasks, Made, Held, DetachTasks
<1>0. TypeOK /\ CalledOnce /\ ParkedIsHeld /\ NothingInherited /\ SlotMatches
  BY DEF CallInv
<1>1. TypeOK'
  BY <1>0
<1>2. CalledOnce'
  BY <1>0 DEF CalledOnce
<1>3. ParkedIsHeld'
  BY <1>0 DEF ParkedIsHeld
<1>4. NothingInherited'
  BY <1>0 DEF NothingInherited
<1>5. SlotMatches'
  BY <1>0 DEF ParkedIsHeld, SlotMatches
<1> QED
  BY <1>1, <1>2, <1>3, <1>4, <1>5 DEF CallInv

\* NextLife keeps the invariant.
LEMMA NextLifeInv == ASSUME CallInv, NextLife PROVE CallInv'
<1> USE DEF TypeOK, Stages, Responses, Tasks, Made, Held, NextLife
<1>0. TypeOK /\ CalledOnce /\ ParkedIsHeld /\ NothingInherited /\ SlotMatches
  BY DEF CallInv
<1>1. TypeOK'
  BY <1>0
<1>2. CalledOnce'
  BY <1>0 DEF CalledOnce
<1>3. ParkedIsHeld'
  BY <1>0 DEF ParkedIsHeld
<1>4. NothingInherited'
  BY <1>0 DEF NothingInherited
<1>5. SlotMatches'
  BY <1>0 DEF ParkedIsHeld, SlotMatches
<1> QED
  BY <1>1, <1>2, <1>3, <1>4, <1>5 DEF CallInv

\* The inductive invariant holds throughout: what is stored, who parked, what
\* the slots hold.
THEOREM Inductive == Spec => []CallInv
<1>1. ASSUME CallInv, [Next]_vars PROVE CallInv'
  <2>1. CASE \E c \in Calls : Step(c)
    BY <1>1, <2>1, SendInv, CompleteInv, ForgetInv, RunReplyInv, PollInv, FailOneInv
       DEF Step
  <2>2. CASE Disconnect \/ DetachMessenger \/ DetachTasks \/ NextLife
    BY <1>1, <2>2, DisconnectInv, DetachMessengerInv, DetachTasksInv, NextLifeInv
  <2>3. CASE UNCHANGED vars
    BY <1>1, <2>3 DEF vars, CallInv, TypeOK, CalledOnce, ParkedIsHeld,
       NothingInherited, SlotMatches, Made, Held
  <2> QED
    BY <1>1, <2>1, <2>2, <2>3 DEF Next
<1> QED
  BY InitInv, <1>1, PTL DEF Spec

\* Every callback runs exactly once, and at the latest at teardown.
THEOREM CallbacksRunOnce == Spec => []CalledOnce
<1>1. CallInv => CalledOnce
  BY DEF CallInv
<1> QED
  BY <1>1, Inductive, PTL

\* A parked task always has a callback left that will wake it.
THEOREM ParkedTasksAreHeld == Spec => []ParkedIsHeld
<1>1. CallInv => ParkedIsHeld
  BY DEF CallInv
<1> QED
  BY <1>1, Inductive, PTL

\* A restarted application inherits no callback of the one before.
THEOREM LivesAreApart == Spec => []NothingInherited
<1>1. CallInv => NothingInherited
  BY DEF CallInv
<1> QED
  BY <1>1, Inductive, PTL

\* Teardown answers before it drops: the order rf_app_destroy is careful about.
THEOREM AnsweredBeforeDropped == Spec => SettledBeforeDropped
<1>1. ASSUME CallInv, [Next]_vars
      PROVE  [\A c \in Calls : task[c] # "dropped" /\ task'[c] = "dropped" => slot[c]]_vars
  <2> SUFFICES ASSUME NEW c \in Calls, task[c] # "dropped", task'[c] = "dropped"
               PROVE  slot[c]
    OBVIOUS
  <2>1. DetachTasks
    <3>1. task \in [Calls -> Tasks]
      BY <1>1 DEF CallInv, TypeOK
    <3>2. ~(\E d \in Calls : Step(d)) /\ ~Disconnect /\ ~DetachMessenger /\ ~NextLife
      BY <3>1 DEF Step, Send, Complete, Forget, RunReply, Poll, FailOne, Woken,
         Disconnect, DetachMessenger, NextLife, Tasks
    <3> QED
      BY <1>1, <3>2 DEF Next, vars
  <2>2. Held = {} /\ task[c] \in {"ready", "parked"}
    BY <1>1, <2>1 DEF DetachTasks, CallInv, TypeOK, Held
  <2> QED
    BY <1>1, <2>2 DEF CallInv, SlotMatches, ParkedIsHeld
<1> QED
  BY <1>1, Inductive, PTL DEF Spec, SettledBeforeDropped

(***************************************************************************)
(* The promise of ReplyPromise.                                            *)
(***************************************************************************)

Closing == stage \in {"failing", "down"}

\* A step that changes neither what is stored nor what was made is invisible to
\* the caller.
LEMMA NothingNew ==
  ASSUME Held' = Held, \A c \in Calls : Made(c)' <=> Made(c), Closing' = Closing
  PROVE  UNCHANGED Promise!vars
  BY DEF Promise!vars, Closing

\* A callback that runs keeps the promise of its call.
LEMMA OneKept ==
  ASSUME NEW c \in Calls, Made(c), c \in Held, Held' = Held \ {c},
         \A d \in Calls : Made(d)' <=> Made(d), stage' = stage
  PROVE  Promise!Keep(c)
  BY DEF Promise!Keep

\* A call is a promise made, and kept at once when there is nobody to ask.
LEMMA SendMakes ==
  ASSUME NEW c \in Calls, CallInv, Send(c) PROVE Promise!Make(c)
<1>1. c \notin Held /\ ~Made(c) /\ Made(c)' /\ stage' = stage
  BY DEF Send, CallInv, TypeOK, SlotMatches, Made
<1>2. \A d \in Calls \ {c} : Made(d)' <=> Made(d)
  BY DEF Send, CallInv, TypeOK, Made
<1>3. CASE stage = "up"
  <2>1. Held' = Held \cup {c}
    BY <1>3 DEF Send, Held
  <2> QED
    BY <1>1, <1>2, <1>3, <2>1 DEF Promise!Make
<1>4. CASE stage = "failing"
  <2>1. Held' = Held
    BY <1>4 DEF Send, Held
  <2> QED
    BY <1>1, <1>2, <1>4, <2>1 DEF Promise!Make
<1> QED
  BY <1>3, <1>4 DEF Send, InApplication

\* Every step is a step of the promise, or nothing to it.
LEMMA StepKeeps == ASSUME CallInv, [Next]_vars PROVE [Promise!Next]_(Promise!vars)
<1>0. TypeOK /\ CalledOnce /\ SlotMatches
  BY DEF CallInv
<1>1. ASSUME NEW c \in Calls, Send(c) PROVE Promise!Next
  BY <1>1, SendMakes DEF Promise!Next
<1>2. ASSUME NEW c \in Calls, Complete(c) \/ Forget(c) \/ Poll(c)
      PROVE  UNCHANGED Promise!vars
  BY <1>0, <1>2, NothingNew DEF Complete, Forget, Poll, Held, Made, Closing, TypeOK
<1>3. ASSUME NEW c \in Calls, RunReply(c) PROVE [Promise!Next]_(Promise!vars)
  <2>1. \A d \in Calls : Made(d)' <=> Made(d)
    BY <1>0, <1>3 DEF RunReply, Made, TypeOK
  <2>2. CASE stage = "up" /\ owner[c] = life /\ c \in waiting
    <3>1. Made(c) /\ c \in Held /\ Held' = Held \ {c} /\ stage' = stage
      BY <1>0, <1>3, <2>2 DEF RunReply, Held, TypeOK, SlotMatches
    <3> QED
      BY <2>1, <3>1, OneKept DEF Promise!Next
  <2>3. CASE ~(stage = "up" /\ owner[c] = life /\ c \in waiting)
    <3>1. Held' = Held /\ Closing' = Closing
      BY <1>3, <2>3 DEF RunReply, Held, Closing
    <3> QED
      BY <2>1, <3>1, NothingNew
  <2> QED
    BY <2>2, <2>3
<1>4. ASSUME NEW c \in Calls, FailOne(c) PROVE [Promise!Next]_(Promise!vars)
  <2>1. \A d \in Calls : Made(d)' <=> Made(d)
    BY <1>4 DEF FailOne, Made
  <2>2. Made(c) /\ c \in Held /\ Held' = Held \ {c} /\ stage' = stage
    BY <1>0, <1>4 DEF FailOne, Held, TypeOK, SlotMatches
  <2> QED
    BY <2>1, <2>2, OneKept DEF Promise!Next
<1>5. CASE Disconnect \/ DetachTasks
  BY <1>5, NothingNew DEF Disconnect, DetachTasks, Held, Made, Closing
<1>6. CASE DetachMessenger
  <2>1. Held' = Held /\ \A c \in Calls : Made(c)' <=> Made(c)
    BY <1>0, <1>6 DEF DetachMessenger, Held, Made, TypeOK
  <2>2. Promise!Close
    BY <1>6, <2>1 DEF DetachMessenger, Promise!Close
  <2> QED
    BY <2>2 DEF Promise!Next
<1>7. CASE NextLife
  <2>1. Held' = Held /\ Held = {} /\ \A c \in Calls : Made(c)' <=> Made(c)
    BY <1>0, <1>7 DEF NextLife, Held, Made, CalledOnce
  <2>2. Promise!Reopen
    BY <1>7, <2>1 DEF NextLife, Promise!Reopen
  <2> QED
    BY <2>2 DEF Promise!Next
<1>8. CASE UNCHANGED vars
  BY <1>8, NothingNew DEF vars, Held, Made, Closing
<1> QED
  BY <1>1, <1>2, <1>3, <1>4, <1>5, <1>6, <1>7, <1>8 DEF Next, Step

\* The messenger, the oneshot, the shell's response objects and the teardown keep
\* what send_with_reply promises: once, and never again.
THEOREM ImplementsPromise == Spec => Promise!Init /\ [][Promise!Next]_(Promise!vars)
<1>1. Init => Promise!Init
  BY DEF Init, Promise!Init, Made
<1> QED
  BY <1>1, StepKeeps, Inductive, PTL DEF Spec
-----------------------------------------------------------------------------
(***************************************************************************)
(* Launch: the inductive invariant.                                        *)
(***************************************************************************)

LaunchIInv == LaunchTypeOK /\ OnlySemanticsIsLeft /\ KnowsThePlatform /\ ScreenIsCurrent

(***************************************************************************)
(* The operators.                                                          *)
(***************************************************************************)

\* Reading a payload over settings gives settings (parse_settings).
LEMMA ParsedType ==
  ASSUME NEW payload \in Payloads, NEW was \in [Members -> Values]
  PROVE  Parsed(payload, was) \in [Members -> Values]
BY DEF Parsed, Payloads

\* A payload wins wherever it says something, whatever it is read over.
LEMMA ParsedWins ==
  ASSUME NEW payload \in Payloads, NEW was, NEW s \in Members, payload[s] # None
  PROVE  Parsed(payload, was)[s] = payload[s]
BY DEF Parsed

\* What is made of a list of locales is one that can be told.
LEMMA PushedType ==
  ASSUME NEW list \in Lists, NEW was \in Lists
  PROVE  Pushed(list, was) \in Lists
BY LaunchAssumption DEF Pushed

\* A list that is not empty counts alone, whatever was known before.
LEMMA PushedWins ==
  ASSUME NEW list, list # NoLocales, NEW was
  PROVE  Pushed(list, was) = Pushed(list, NoLocales)
BY DEF Pushed

\* Replaying what was told gives a platform state.
LEMMA ReplayedType ==
  ASSUME LaunchTypeOK, NEW was \in [settings : [Members -> Values], locales : Lists]
  PROVE  Replayed(was) \in [settings : [Members -> Values], locales : Lists]
BY ParsedType, PushedType DEF LaunchTypeOK, Data, Replayed

(***************************************************************************)
(* Initial states, and the steps that launch or end an application.        *)
(***************************************************************************)

\* Nothing told is something a controller may keep.
LEMMA NothingToldType == NothingTold \in Data
<1>1. NoViews \in Views /\ NoSettings \in Payloads
  BY DEF NoViews, NoSettings, Views, Payloads
<1> QED
  BY <1>1, LaunchAssumption DEF NothingTold, Data

\* Nothing was told and nothing runs.
LEMMA LaunchInitial == LaunchInit => LaunchIInv
<1> SUFFICES ASSUME LaunchInit PROVE LaunchIInv
  OBVIOUS
<1>1. NoViews \in Views
  BY DEF NoViews, Views
<1>2. told \in Data
  BY NothingToldType DEF LaunchInit
<1>3. platform \in [settings : [Members -> Values], locales : Lists]
  BY LaunchAssumption DEF LaunchInit, Neutral
<1>4. calls \in 0..MaxCalls
  BY LaunchAssumption DEF LaunchInit
<1>5. running \in BOOLEAN /\ semantics \in BOOLEAN /\ frame \in BOOLEAN
  BY DEF LaunchInit
<1>6. views \in Views /\ lifecycle \in Lifecycles \union {None} /\ drawn \in Pictures \union {None}
  BY <1>1 DEF LaunchInit
<1>7. LaunchTypeOK
  BY <1>2, <1>3, <1>4, <1>5, <1>6 DEF LaunchTypeOK
<1> QED
  BY <1>7 DEF LaunchInit, LaunchIInv, OnlySemanticsIsLeft, Known, Neutral, KnowsThePlatform, ScreenIsCurrent

\* The state of a thread without an application is one it may be left in.
LEMMA AfterDestroyType ==
  ASSUME LaunchTypeOK
  PROVE  AfterDestroy \in [settings : [Members -> Values], locales : Lists]
BY LaunchAssumption DEF LaunchTypeOK, AfterDestroy, Neutral

\* A launch that succeeds leaves an application that knows what was told, and
\* one that fails leaves nothing.
LEMMA LaunchSteps ==
  ASSUME LaunchIInv, NEW was \in [settings : [Members -> Values], locales : Lists],
         Call, Launched(was) \/ Failed(was), UNCHANGED <<told, semantics>>
  PROVE  LaunchIInv'
<1> USE DEF LaunchIInv
<1>1. calls' \in 0..MaxCalls
  BY LaunchAssumption DEF LaunchTypeOK, Call
<1>2. CASE Launched(was)
  <2>1. platform' = Replayed(was) /\ views' = told.views /\ running' /\ frame'
          /\ lifecycle' = None /\ drawn' = None
    BY <1>2 DEF Launched
  <2>2. LaunchTypeOK'
    BY <1>1, <2>1, ReplayedType DEF LaunchTypeOK, Data
  <2>3. KnowsThePlatform'
    BY <2>1, ParsedWins, PushedWins DEF KnowsThePlatform, Replayed, LaunchTypeOK, Data
  <2> QED
    BY <2>1, <2>2, <2>3 DEF OnlySemanticsIsLeft, Known, Neutral, ScreenIsCurrent
<1>3. CASE Failed(was)
  <2>1. LaunchTypeOK'
    BY <1>1, <1>3, LaunchAssumption DEF LaunchTypeOK, Failed, Gone, Neutral, NoViews, Views
  <2> QED
    BY <1>3, <2>1
       DEF Failed, Gone, OnlySemanticsIsLeft, Known, Neutral, KnowsThePlatform, ScreenIsCurrent
<1> QED
  BY <1>2, <1>3

(***************************************************************************)
(* Each call of the embedder, and the frame.                               *)
(***************************************************************************)

\* Every step keeps the inductive invariant.
LEMMA LaunchStep == LaunchIInv /\ [LaunchNext]_launchVars => LaunchIInv'
<1> SUFFICES ASSUME LaunchIInv, [LaunchNext]_launchVars PROVE LaunchIInv'
  OBVIOUS
<1> USE DEF LaunchIInv
<1>c. ASSUME Call PROVE calls' \in 0..MaxCalls
  BY <1>c, LaunchAssumption DEF LaunchTypeOK, Call
<1>1. ASSUME NEW v \in ViewIds, NEW m \in Metrics, AddView(v, m) PROVE LaunchIInv'
  <2>1. LaunchTypeOK'
    BY <1>1, <1>c DEF LaunchTypeOK, Data, AddView, Views
  <2>2. OnlySemanticsIsLeft' /\ KnowsThePlatform' /\ ScreenIsCurrent'
    BY <1>1 DEF LaunchTypeOK, Data, AddView, OnlySemanticsIsLeft, Neutral, KnowsThePlatform, ScreenIsCurrent, Known
  <2> QED
    BY <2>1, <2>2
<1>2. ASSUME NEW v \in ViewIds, RemoveView(v) PROVE LaunchIInv'
  <2>1. LaunchTypeOK'
    BY <1>2, <1>c DEF LaunchTypeOK, Data, RemoveView, Views, Pictures
  <2>2. OnlySemanticsIsLeft' /\ KnowsThePlatform'
    BY <1>2 DEF LaunchTypeOK, Data, RemoveView, OnlySemanticsIsLeft, Known, Neutral, KnowsThePlatform
  <2>3. ScreenIsCurrent'
    <3> SUFFICES ASSUME running, ~frame PROVE drawn' = Known'
      BY <1>2 DEF RemoveView, ScreenIsCurrent
    <3>1. drawn = Known /\ Known \in Pictures
      BY DEF ScreenIsCurrent, LaunchTypeOK, Known, Pictures
    <3> QED
      BY <1>2, <3>1, NoneIsNoPicture DEF RemoveView, Known
  <2> QED
    BY <2>1, <2>2, <2>3
<1>3. ASSUME NEW v \in ViewIds, NEW m \in Metrics, SetViewportMetrics(v, m) PROVE LaunchIInv'
  <2>1. LaunchTypeOK'
    BY <1>3, <1>c DEF LaunchTypeOK, Data, SetViewportMetrics, Views
  <2>2. OnlySemanticsIsLeft' /\ KnowsThePlatform' /\ ScreenIsCurrent'
    BY <1>3 DEF LaunchTypeOK, Data, SetViewportMetrics, OnlySemanticsIsLeft, Known, Neutral, KnowsThePlatform, ScreenIsCurrent
  <2> QED
    BY <2>1, <2>2
<1>4. ASSUME NEW payload \in Payloads, SetUserSettings(payload) PROVE LaunchIInv'
  <2>0. Parsed(payload, platform.settings) \in [Members -> Values]
    BY ParsedType DEF LaunchTypeOK
  <2>1. LaunchTypeOK'
    BY <1>4, <1>c, <2>0 DEF LaunchTypeOK, Data, SetUserSettings
  <2>2. KnowsThePlatform'
    BY <1>4, ParsedWins DEF LaunchTypeOK, Data, SetUserSettings, KnowsThePlatform
  <2>3. OnlySemanticsIsLeft' /\ ScreenIsCurrent'
    BY <1>4 DEF SetUserSettings, OnlySemanticsIsLeft, Neutral, ScreenIsCurrent, Known
  <2> QED
    BY <2>1, <2>2, <2>3
<1>5. ASSUME NEW list \in Lists, SetLocales(list) PROVE LaunchIInv'
  <2>1. platform.locales \in Lists
    BY DEF LaunchTypeOK
  <2>2. Pushed(list, platform.locales) \in Lists
    BY <2>1, PushedType
  <2>3. platform' = IF running THEN [platform EXCEPT !.locales = Pushed(list, platform.locales)]
                               ELSE platform
    BY <1>5 DEF SetLocales, LaunchTypeOK
  <2>4. LaunchTypeOK'
    BY <1>5, <1>c, <2>2, <2>3 DEF LaunchTypeOK, Data, SetLocales
  <2>5. KnowsThePlatform'
    BY <1>5, <2>3, PushedWins DEF LaunchTypeOK, Data, SetLocales, KnowsThePlatform
  <2>6. OnlySemanticsIsLeft' /\ ScreenIsCurrent'
    BY <1>5 DEF SetLocales, OnlySemanticsIsLeft, Neutral, ScreenIsCurrent, Known
  <2> QED
    BY <2>4, <2>5, <2>6
<1>6. ASSUME NEW on \in BOOLEAN, SetSemanticsEnabled(on) PROVE LaunchIInv'
  <2>1. LaunchTypeOK'
    BY <1>6, <1>c DEF LaunchTypeOK, Data, SetSemanticsEnabled
  <2>2. OnlySemanticsIsLeft' /\ KnowsThePlatform' /\ ScreenIsCurrent'
    BY <1>6 DEF LaunchTypeOK, Data, SetSemanticsEnabled, OnlySemanticsIsLeft, Neutral, KnowsThePlatform,
                ScreenIsCurrent, Known
  <2> QED
    BY <2>1, <2>2
<1>7. ASSUME NEW state \in Lifecycles, SetLifecycle(state) PROVE LaunchIInv'
  <2>1. LaunchTypeOK'
    BY <1>7, <1>c DEF LaunchTypeOK, Data, SetLifecycle
  <2>2. OnlySemanticsIsLeft' /\ KnowsThePlatform' /\ ScreenIsCurrent'
    BY <1>7 DEF LaunchTypeOK, Data, SetLifecycle, OnlySemanticsIsLeft, Neutral, KnowsThePlatform,
                ScreenIsCurrent, Known
  <2> QED
    BY <2>1, <2>2
<1>8. ASSUME NEW x \in Others, StoreOnly(x) PROVE LaunchIInv'
  <2>1. LaunchTypeOK'
    BY <1>8, <1>c DEF LaunchTypeOK, Data, StoreOnly
  <2>2. OnlySemanticsIsLeft' /\ KnowsThePlatform' /\ ScreenIsCurrent'
    BY <1>8 DEF LaunchTypeOK, Data, StoreOnly, OnlySemanticsIsLeft, Neutral, KnowsThePlatform,
                 ScreenIsCurrent, Known
  <2> QED
    BY <2>1, <2>2
<1>9. CASE BeginFrame
  <2>1. Known \in Pictures
    BY DEF LaunchTypeOK, Known, Pictures
  <2>2. LaunchTypeOK'
    BY <1>9, <2>1 DEF LaunchTypeOK, BeginFrame
  <2>3. OnlySemanticsIsLeft' /\ KnowsThePlatform' /\ ScreenIsCurrent'
    BY <1>9 DEF BeginFrame, OnlySemanticsIsLeft, Neutral, KnowsThePlatform, ScreenIsCurrent, Known
  <2> QED
    BY <2>2, <2>3
<1>10. CASE Launch
  <2>1. platform \in [settings : [Members -> Values], locales : Lists]
    BY DEF LaunchTypeOK
  <2> QED
    BY <1>10, <2>1, LaunchSteps DEF Launch
<1>11. CASE Restart
  BY <1>11, AfterDestroyType, LaunchSteps DEF Restart
<1>12. CASE NewEngine
  <2>a. ~running => platform.settings = Neutral.settings /\ platform.locales = Neutral.locales
    BY DEF OnlySemanticsIsLeft, Known
  <2>b. platform = [settings |-> platform.settings, locales |-> platform.locales]
    BY DEF LaunchTypeOK
  <2>1. platform' = Neutral
    BY <1>12, <2>a, <2>b DEF NewEngine, AfterDestroy, Neutral
  <2>2. told' \in Data
    BY <1>12, NothingToldType DEF NewEngine
  <2>3. platform' \in [settings : [Members -> Values], locales : Lists]
    BY <2>1, LaunchAssumption DEF Neutral
  <2>4. views' \in Views
    BY <1>12 DEF NewEngine, Gone, NoViews, Views
  <2>5. LaunchTypeOK'
    BY <1>12, <1>c, <2>2, <2>3, <2>4 DEF LaunchTypeOK, NewEngine, Gone
  <2> QED
    BY <1>12, <2>1, <2>5 DEF NewEngine, Gone, OnlySemanticsIsLeft, Known, Neutral, KnowsThePlatform, ScreenIsCurrent
<1>13. CASE UNCHANGED launchVars
  BY <1>13 DEF launchVars, LaunchTypeOK, OnlySemanticsIsLeft, Neutral, KnowsThePlatform, ScreenIsCurrent, Known
<1> QED
  BY <1>1, <1>2, <1>3, <1>4, <1>5, <1>6, <1>7, <1>8, <1>9, <1>10, <1>11, <1>12, <1>13
     DEF LaunchNext, Payloads

(***************************************************************************)
(* The theorems.                                                           *)
(***************************************************************************)

\* The inductive invariant holds in every state.
THEOREM LaunchInductive == LaunchSpec => []LaunchIInv
BY LaunchInitial, LaunchStep, PTL DEF LaunchSpec

\* Whatever the embedder says and whenever it says it, an application knows
\* its views, settings and locales, and one that is gone has left the next nothing
\* but the handle for semantics (LaunchApplication, rf_app_destroy).
THEOREM ApplicationsKnow == LaunchSpec => []LaunchInv
<1>1. LaunchIInv => LaunchInv
  BY DEF LaunchIInv, LaunchInv
<1> QED
  BY <1>1, LaunchInductive, PTL

\* No change of what an application was told waits for a frame that nobody
\* asked for.
THEOREM ChangesHaveFrames == LaunchSpec => []ScreenIsCurrent
<1>1. LaunchIInv => ScreenIsCurrent
  BY DEF LaunchIInv
<1> QED
  BY <1>1, LaunchInductive, PTL
=============================================================================
