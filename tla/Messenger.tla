----------------------------- MODULE Messenger -----------------------------
(***************************************************************************)
(* Platform messages coming in: one channel of rustflutter's messenger     *)
(* (services/mod.rs) from the shell's dispatch to the embedder's handle.   *)
(*                                                                         *)
(* Everything runs on the UI thread.  What makes it hard is re-entrancy: a *)
(* handler is out on loan while it runs, and may replace or remove itself, *)
(* resize the buffer, or feed the channel again, any number of calls deep. *)
(* The call stack is therefore part of the state: a frame is a running     *)
(* handler, or a loop working through a queue it drained.                  *)
(*                                                                         *)
(* A message is its arrival number; a handler is the generation that       *)
(* installed it.  Channels share nothing but the sink, so one is enough.   *)
(* request_frame, which every handler is followed by, belongs to the frame *)
(* loop and is left out.                                                   *)
(***************************************************************************)
EXTENDS Integers, Sequences, SequencesExt

CONSTANTS
  MaxMsgs,     \* bound: messages that ever arrive
  MaxGen,      \* bound: set_handler and clear_handler calls
  Capacities,  \* what the application may resize the buffer to
  Nested       \* framework code may call handle_platform_message in a handler

ASSUME BoundsAssumption == MaxMsgs \in Nat /\ MaxGen \in Nat
ASSUME CapacitiesAssumption == Capacities \subseteq Nat
ASSUME NestedAssumption == Nested \in BOOLEAN

Msgs == 1..MaxMsgs
None == 0

VARIABLES
  handler,     \* Channel::handler: the generation that installed it, or None
  loaned,      \* Channel::loaned
  generation,  \* Channel::generation
  pending,     \* Channel::pending, oldest first
  capacity,    \* Channel::capacity
  stack,       \* calls in progress, the innermost last
  held,        \* messages whose Responder has not been called or dropped
  attached,    \* Messenger::sink is Some
  alive,       \* HostSink::alive
  arrived,     \* how many messages have arrived
  wants,       \* those with a response id other than 0
  fate,        \* what became of each message
  responds,    \* calls of PlatformSink::respond for each
  hostPending, \* RuntimeController::pending_responses_
  completed,   \* how often the embedder's handle was completed
  heard,       \* what channel_update last told the embedder
  closed       \* ~RuntimeController has completed what was left

chanVars == <<handler, loaned, generation, pending, capacity>>
wireVars == <<responds, hostPending, completed>>
hostVars == <<attached, alive, heard, closed>>
vars == <<chanVars, stack, held, arrived, wants, fate, wireVars, hostVars>>

Running(m, h) == [kind |-> "running", msg |-> m, taken |-> h, queue |-> <<>>]
Draining(q) == [kind |-> "draining", msg |-> None, taken |-> None, queue |-> q]

Init ==
  /\ handler = None /\ loaned = FALSE /\ generation = 0
  /\ pending = <<>> /\ capacity = 1
  /\ stack = <<>> /\ held = {}
  /\ attached = TRUE /\ alive = TRUE
  /\ arrived = 0 /\ wants = {}
  /\ fate = [m \in Msgs |-> "coming"]
  /\ responds = [m \in Msgs |-> 0]
  /\ hostPending = {} /\ completed = [m \in Msgs |-> 0]
  /\ heard = FALSE /\ closed = FALSE

Listening == handler # None \/ loaned

Idle == stack = <<>>
InHandler == ~Idle /\ Last(stack).kind = "running"

\* Where application and shell code may call the messenger.
Free == attached /\ (Idle \/ InHandler)

\* sink.respond(id, ..) for each of `ids', and what the shell makes of it: it
\* holds each id in `waiting' until the first answer; a later one, or one after
\* the host has disconnected, finds nothing.
Respond(ids, waiting, calls) ==
  LET told == IF alive THEN ids \cap waiting ELSE {}
  IN /\ responds' = [m \in Msgs |-> responds[m] + IF m \in ids THEN calls ELSE 0]
     /\ completed' = [m \in Msgs |-> completed[m] + IF m \in told THEN 1 ELSE 0]
     /\ hostPending' = waiting \ told

\* Mutated: an overflowing message is dropped on the floor.
DiscardSilently(ids, wanting, waiting) == Respond({}, waiting, 1)

\* discard_all: those that want a reply are answered with nothing.
Discard(ids, wanting, waiting) ==
  Respond(IF attached THEN ids \cap wanting ELSE {}, waiting, 1)

(***************************************************************************)
(* deliver: the handler goes out on loan with a Responder for the message. *)
(* With no handler to take, the message is discarded.                      *)
(***************************************************************************)
Deliver(m, below, wanting, waiting) ==
  IF handler # None
    THEN /\ stack' = Append(below, Running(m, handler))
         /\ handler' = None
         /\ loaned' = TRUE
         /\ held' = held \cup ({m} \cap wanting)
         /\ fate' = [fate EXCEPT ![m] = "handled"]
         /\ hostPending' = waiting
         /\ UNCHANGED <<responds, completed>>
    ELSE /\ stack' = below
         /\ fate' = [fate EXCEPT ![m] = "discarded"]
         /\ Discard({m}, wanting, waiting)
         /\ UNCHANGED <<handler, loaned, held>>

\* Mutated: the handler is put back whatever happened while it ran.
HandlerReturnsAlways ==
  /\ InHandler
  /\ loaned' = FALSE
  /\ handler' = Last(stack).taken
  /\ stack' = Append(Front(stack), Draining(pending))
  /\ pending' = <<>>
  /\ UNCHANGED <<generation, capacity, held, arrived, wants, fate, wireVars,
                 hostVars>>

\* Mutated: what queued behind the loan is left in the buffer.
HandlerReturnsUndrained ==
  /\ InHandler
  /\ LET frame == Last(stack)
     IN /\ loaned' = FALSE
        /\ handler' = IF generation = frame.taken THEN frame.taken ELSE handler
        /\ stack' = Front(stack)
  /\ UNCHANGED <<generation, pending, capacity, held, arrived, wants, fate,
                 wireVars, hostVars>>

\* The handler returns.  It is put back unless it was replaced or removed while
\* it ran; what queued behind it is delivered next if anything is listening.
HandlerReturns ==
  /\ InHandler
  /\ LET frame == Last(stack)
     IN /\ loaned' = FALSE
        /\ handler' = IF generation = frame.taken THEN frame.taken ELSE handler
        /\ IF handler' # None
             THEN /\ stack' = Append(Front(stack), Draining(pending))
                  /\ pending' = <<>>
             ELSE /\ stack' = Front(stack)
                  /\ pending' = pending
  /\ UNCHANGED <<generation, capacity, held, arrived, wants, fate, wireVars,
                 hostVars>>

\* for (message, response_id) in queued { deliver(..) }
DeliverQueued ==
  /\ ~Idle
  /\ Last(stack).kind = "draining"
  /\ LET queue == Last(stack).queue
     IN IF queue = <<>>
          THEN /\ stack' = Front(stack)
               /\ UNCHANGED <<handler, loaned, held, fate, wireVars>>
          ELSE Deliver(Head(queue), Append(Front(stack), Draining(Tail(queue))),
                       wants, hostPending)
  /\ UNCHANGED <<generation, pending, capacity, arrived, wants, hostVars>>

(***************************************************************************)
(* handle_platform_message: from the shell, which sends one at a time and  *)
(* keeps the response handle, or from framework code inside a handler.     *)
(***************************************************************************)
Dropped(queue, keep) == IF Len(queue) > keep THEN Len(queue) - keep ELSE 0

Arrive ==
  /\ Free /\ ~closed
  /\ InHandler => Nested
  /\ arrived < MaxMsgs
  /\ arrived' = arrived + 1
  /\ \E wanting \in {wants, wants \cup {arrived'}} :
       /\ InHandler => wanting = wants
       /\ wants' = wanting
       /\ LET m == arrived'
              waiting == hostPending \cup ({m} \cap wanting)
              queue == IF capacity = 0 THEN <<m>> ELSE Append(pending, m)
              out == IF capacity = 0 THEN 1 ELSE Dropped(queue, capacity)
              lost == {queue[i] : i \in 1..out}
          IN \/ /\ handler # None                              \* Route::Deliver
                /\ Deliver(m, stack, wanting, waiting)
                /\ UNCHANGED pending
             \/ /\ handler = None /\ loaned                    \* Route::Defer
                /\ pending' = Append(pending, m)
                /\ fate' = [fate EXCEPT ![m] = "waiting"]
                /\ hostPending' = waiting
                /\ UNCHANGED <<handler, loaned, stack, held, responds, completed>>
             \/ /\ ~Listening                                  \* Route::Buffer
                /\ pending' = IF capacity = 0 THEN pending
                                              ELSE SubSeq(queue, out + 1, Len(queue))
                /\ fate' = [n \in Msgs |-> IF n \in lost THEN "dropped"
                                           ELSE IF n = m THEN "waiting"
                                           ELSE fate[n]]
                /\ Discard(lost, wanting, waiting)
                /\ UNCHANGED <<handler, loaned, stack, held>>
  /\ UNCHANGED <<generation, capacity, hostVars>>

(***************************************************************************)
(* set_handler, clear_handler, resize.                                     *)
(***************************************************************************)
SetHandler ==
  /\ Free
  /\ generation < MaxGen
  /\ generation' = generation + 1
  /\ handler' = generation'
  /\ stack' = Append(stack, Draining(pending))
  /\ pending' = <<>>
  /\ heard' = IF Listening THEN heard ELSE TRUE
  /\ UNCHANGED <<loaned, capacity, held, arrived, wants, fate, wireVars, attached,
                 alive, closed>>

\* From inside the handler too, which ends the loan as well.
ClearHandler ==
  /\ Free
  /\ Listening
  /\ generation < MaxGen
  /\ generation' = generation + 1
  /\ handler' = None
  /\ loaned' = FALSE
  /\ heard' = FALSE
  /\ UNCHANGED <<pending, capacity, stack, held, arrived, wants, fate, wireVars,
                 attached, alive, closed>>

Resize ==
  /\ Free
  /\ \E size \in Capacities \ {capacity} :
       LET out == Dropped(pending, size)
           lost == {pending[i] : i \in 1..out}
       IN /\ capacity' = size
          /\ pending' = SubSeq(pending, out + 1, Len(pending))
          /\ fate' = [m \in Msgs |-> IF m \in lost THEN "dropped" ELSE fate[m]]
          /\ Discard(lost, wants, hostPending)
  /\ UNCHANGED <<handler, loaned, generation, stack, held, arrived, wants, hostVars>>

(***************************************************************************)
(* A Responder is called, or dropped uncalled, whenever its holder likes:  *)
(* in the handler, three frames later, or after the application is gone.   *)
(* Either way its guard reaches the sink it was made with, once.           *)
(***************************************************************************)
\* ResponseGuard: an answer, and a drop that finds it answered.
GuardCalls == 1

Answer ==
  /\ Idle \/ InHandler
  /\ \E m \in held :
       /\ held' = held \ {m}
       /\ Respond({m}, hostPending, GuardCalls)
  /\ UNCHANGED <<chanVars, stack, arrived, wants, fate, hostVars>>

(***************************************************************************)
(* Teardown, between messages: ~RuntimeController completes what is left   *)
(* with nothing, then rf_app_destroy disconnects the sink and detaches.    *)
(***************************************************************************)
HostCloses ==
  /\ Idle /\ ~closed
  /\ closed' = TRUE
  /\ completed' = [m \in Msgs |-> completed[m] + IF m \in hostPending THEN 1 ELSE 0]
  /\ hostPending' = {}
  /\ UNCHANGED <<chanVars, stack, held, arrived, wants, fate, responds, attached,
                 alive, heard>>

Detach ==
  /\ Idle /\ closed /\ attached
  /\ alive' = FALSE
  /\ attached' = FALSE
  /\ handler' = None /\ loaned' = FALSE /\ generation' = 0
  /\ pending' = <<>> /\ capacity' = 1
  /\ UNCHANGED <<stack, held, arrived, wants, fate, wireVars, heard, closed>>

Next ==
  \/ Arrive \/ HandlerReturns \/ DeliverQueued
  \/ SetHandler \/ ClearHandler \/ Resize
  \/ Answer
  \/ HostCloses \/ Detach

Spec == Init /\ [][Next]_vars

\* A handler returns (it may feed and change its channel only finitely often,
\* which the bounds say too), and a loop goes on.
Fairness == WF_vars(HandlerReturns) /\ WF_vars(DeliverQueued)

FairSpec == Spec /\ Fairness

-----------------------------------------------------------------------------
(***************************************************************************)
(* Properties.                                                             *)
(***************************************************************************)
Fates == {"coming", "waiting", "handled", "dropped", "discarded"}

TypeOK ==
  /\ handler \in 0..MaxGen /\ generation \in 0..MaxGen
  /\ loaned \in BOOLEAN
  /\ pending \in Seq(Msgs) /\ capacity \in Nat
  /\ \A i \in DOMAIN stack :
       /\ stack[i].queue \in Seq(Msgs)
       /\ \/ \E m \in Msgs, h \in 1..MaxGen : stack[i] = Running(m, h)
          \/ stack[i] = Draining(stack[i].queue)
  /\ arrived \in 0..MaxMsgs
  /\ held \subseteq wants /\ wants \subseteq 1..arrived
  /\ fate \in [Msgs -> Fates]
  /\ responds \in [Msgs -> Nat] /\ completed \in [Msgs -> Nat]
  /\ hostPending \subseteq wants
  /\ attached \in BOOLEAN /\ alive \in BOOLEAN
  /\ heard \in BOOLEAN /\ closed \in BOOLEAN

\* The places a message waits in: the buffer, or the queue of a call.
Waiting ==
  ToSet(pending) \cup UNION {ToSet(stack[i].queue) : i \in DOMAIN stack}

\* Before teardown every handle the embedder waits on can still be answered,
\* from exactly one place: the message waits, or its Responder is alive.  This
\* is "every response id comes back" (ResponseGuard).
NothingStranded ==
  ~closed => \A m \in Msgs :
    (m \in hostPending) <=> (m \in held) # (m \in Waiting /\ m \in wants)

\* The framework answers a response id at most once, and the embedder's handle
\* is completed exactly once by the time the controller is gone, however the
\* message fared: handled, forgotten, overflowed, resized away, torn down.
AnsweredOnce ==
  /\ \A m \in Msgs : responds[m] <= 1 /\ completed[m] <= 1
  /\ closed => \A m \in wants : completed[m] = 1

\* The handler in the map is the one the last set_handler installed: one that
\* removed or replaced itself while it ran is never put back.
HandlerIsCurrent == handler # None => handler = generation

\* What the embedder was told is whether the channel listens, handlers that
\* unregister themselves included: it holds messages back on this.
EmbedderKnows == attached => heard = Listening

\* What the two sides of a channel know of each other: which answers are due and
\* given, and who listens.
MessengerInv == TypeOK /\ NothingStranded /\ AnsweredOnce /\ EmbedderKnows

\* A message that waits for a channel with a free or running handler is handled
\* or the channel loses its handler.
ListenedIsSettled ==
  \A m \in Msgs :
    (fate[m] = "waiting" /\ Listening) ~> (fate[m] # "waiting" \/ ~Listening)
=============================================================================
