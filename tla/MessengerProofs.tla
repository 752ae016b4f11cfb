-------------------------- MODULE MessengerProofs --------------------------
(***************************************************************************)
(* Proofs about Messenger, for any number of messages, handlers and        *)
(* buffer sizes and any depth of calls: who listens is who was installed   *)
(* last, the embedder knows, and every message that wants an answer is in  *)
(* exactly one place until it has got one.                                 *)
(***************************************************************************)
EXTENDS Messenger, SequenceTheorems, TLAPS

USE BoundsAssumption, CapacitiesAssumption

(***************************************************************************)
(* The stack of calls.                                                     *)
(***************************************************************************)
Frames == {Running(m, h) : m \in Msgs, h \in 1..MaxGen}
            \union {Draining(q) : q \in Seq(Msgs)}

\* What a call in progress looks like.
LEMMA FrameFacts ==
  /\ \A m \in Msgs, h \in 1..MaxGen : Running(m, h) \in Frames
  /\ \A q \in Seq(Msgs) : Draining(q) \in Frames
  /\ \A f \in Frames :
       /\ f.queue \in Seq(Msgs)
       /\ \/ f.kind = "running" /\ f.queue = <<>> /\ f.taken \in 1..MaxGen /\ f.msg \in Msgs
          \/ f.kind = "draining" /\ f = Draining(f.queue) /\ f.taken = None
<1>1. <<>> \in Seq(Msgs)
  OBVIOUS
<1>2. \A m \in Msgs, h \in 1..MaxGen : Running(m, h) \in Frames
  BY DEF Frames
<1>3. \A q \in Seq(Msgs) : Draining(q) \in Frames
  BY DEF Frames
<1>4. ASSUME NEW f \in Frames
      PROVE  /\ f.queue \in Seq(Msgs)
             /\ \/ f.kind = "running" /\ f.queue = <<>> /\ f.taken \in 1..MaxGen /\ f.msg \in Msgs
                \/ f.kind = "draining" /\ f = Draining(f.queue) /\ f.taken = None
  <2>1. CASE \E m \in Msgs, h \in 1..MaxGen : f = Running(m, h)
    BY <1>1, <2>1 DEF Running
  <2>2. CASE \E q \in Seq(Msgs) : f = Draining(q)
    BY <2>2 DEF Draining
  <2> QED
    BY <2>1, <2>2 DEF Frames
<1> QED
  BY <1>2, <1>3, <1>4

\* Returning from the innermost call.
LEMMA FrontFacts ==
  ASSUME NEW S, NEW s \in Seq(S), s # <<>>
  PROVE  /\ Len(s) \in Nat \ {0} /\ Last(s) \in S /\ Last(s) = s[Len(s)]
         /\ Front(s) \in Seq(S) /\ Len(Front(s)) = Len(s) - 1
         /\ \A i \in 1..(Len(s) - 1) : Front(s)[i] = s[i]
<1>1. Len(s) \in Nat \ {0}
  BY EmptySeq
<1>2. \A i \in 1..(Len(s) - 1) : s[i] \in S
  BY <1>1, ElementOfSeq
<1>3. Front(s) \in Seq(S)
  BY <1>1, <1>2, SubSeqProperties DEF Front
<1>4. Len(Front(s)) = Len(s) - 1 /\ \A i \in 1..(Len(s) - 1) : Front(s)[i] = s[i]
  <2> DEFINE n == Len(s) - 1
  <2>0. \A k \in Nat \ {0} : /\ k - 1 \in Int /\ (k - 1) - 1 + 1 = k - 1
                             /\ (IF 1 <= k - 1 THEN (k - 1) - 1 + 1 ELSE 0) = k - 1
    OBVIOUS
  <2>1. n \in Int /\ n - 1 + 1 = n /\ (IF 1 <= n THEN n - 1 + 1 ELSE 0) = n
    BY <1>1, <2>0, Zenon
  <2> HIDE DEF n
  <2>2. /\ Len(SubSeq(s, 1, n)) = IF 1 <= n THEN n - 1 + 1 ELSE 0
        /\ \A i \in 1..(n - 1 + 1) : SubSeq(s, 1, n)[i] = s[1 + i - 1]
    BY <1>2, <2>1, SubSeqProperties DEF n
  <2>3. \A i \in 1..n : 1 + i - 1 = i
    BY <2>1
  <2>4. Len(SubSeq(s, 1, n)) = n /\ \A i \in 1..n : SubSeq(s, 1, n)[i] = s[i]
    BY <2>1, <2>2, <2>3
  <2> QED
    BY <2>4 DEF n, Front
<1>5. Last(s) \in S /\ Last(s) = s[Len(s)]
  BY <1>1, ElementOfSeq DEF Last
<1> QED
  BY <1>1, <1>3, <1>4, <1>5

\* A further call.
LEMMA PushFacts ==
  ASSUME NEW S, NEW s \in Seq(S), NEW f \in S
  PROVE  /\ Append(s, f) \in Seq(S) /\ Len(s) \in Nat /\ Len(Append(s, f)) = Len(s) + 1
         /\ Append(s, f)[Len(s) + 1] = f
         /\ \A i \in 1..Len(s) : Append(s, f)[i] = s[i]
BY AppendProperties, LenProperties

(***************************************************************************)
(* Type correctness.                                                       *)
(***************************************************************************)
TypeInv == TypeOK /\ stack \in Seq(Frames)

\* Answering keeps the books in their types.
LEMMA RespondType ==
  ASSUME TypeOK, NEW ids, NEW waiting, NEW calls \in Nat, Respond(ids, waiting, calls)
  PROVE  /\ responds' \in [Msgs -> Nat] /\ completed' \in [Msgs -> Nat]
         /\ hostPending' \subseteq waiting
<1>1. responds' \in [Msgs -> Nat]
  BY DEF Respond, TypeOK
<1>2. completed' \in [Msgs -> Nat] /\ hostPending' \subseteq waiting
  BY DEF Respond, TypeOK
<1> QED
  BY <1>1, <1>2

\* So does discarding.
LEMMA DiscardType ==
  ASSUME TypeOK, NEW ids, NEW wanting, NEW waiting, Discard(ids, wanting, waiting)
  PROVE  /\ responds' \in [Msgs -> Nat] /\ completed' \in [Msgs -> Nat]
         /\ hostPending' \subseteq waiting
BY RespondType DEF Discard

\* And so does handing a message over.
LEMMA DeliverType ==
  ASSUME TypeOK, NEW m \in Msgs, NEW below \in Seq(Frames), NEW wanting, NEW waiting,
         wants \subseteq wanting, Deliver(m, below, wanting, waiting)
  PROVE  /\ stack' \in Seq(Frames) /\ handler' \in 0..MaxGen /\ loaned' \in BOOLEAN
         /\ held' \subseteq wanting /\ fate' \in [Msgs -> Fates]
         /\ responds' \in [Msgs -> Nat] /\ completed' \in [Msgs -> Nat]
         /\ hostPending' \subseteq waiting
<1>1. CASE handler # None
  <2>1. handler \in 1..MaxGen
    BY <1>1 DEF TypeOK, None
  <2>2. stack' \in Seq(Frames)
    BY <1>1, <2>1, FrameFacts, AppendProperties DEF Deliver
  <2>3. loaned' \in BOOLEAN /\ handler' \in 0..MaxGen
    BY <1>1 DEF Deliver, None, TypeOK
  <2>4. held' \subseteq wanting /\ fate' \in [Msgs -> Fates]
    BY <1>1 DEF Deliver, TypeOK, Fates
  <2> QED
    BY <1>1, <2>2, <2>3, <2>4 DEF Deliver, TypeOK
<1>2. CASE handler = None
  <2>1. Discard({m}, wanting, waiting)
    BY <1>2 DEF Deliver
  <2>2. fate' \in [Msgs -> Fates]
    BY <1>2 DEF Deliver, TypeOK, Fates
  <2> QED
    BY <1>2, <2>1, <2>2, DiscardType DEF Deliver, TypeOK
<1> QED
  BY <1>1, <1>2

\* Nobody has called yet.
LEMMA InitTypeInv == Init => TypeInv
<1> SUFFICES ASSUME Init PROVE TypeInv
  OBVIOUS
<1>1. <<>> \in Seq(Msgs) /\ <<>> \in Seq(Frames) /\ DOMAIN <<>> = {}
  OBVIOUS
<1>2. fate \in [Msgs -> Fates] /\ responds \in [Msgs -> Nat] /\ completed \in [Msgs -> Nat]
  BY DEF Init, Fates
<1>3. /\ loaned \in BOOLEAN /\ attached \in BOOLEAN /\ alive \in BOOLEAN
      /\ heard \in BOOLEAN /\ closed \in BOOLEAN
  BY Zenon DEF Init
<1> QED
  BY <1>1, <1>2, <1>3 DEF Init, TypeInv, TypeOK, None

\* A sequence of calls is what TypeOK says of the stack.
LEMMA StackType ==
  ASSUME NEW s \in Seq(Frames)
  PROVE  \A i \in DOMAIN s :
           /\ s[i].queue \in Seq(Msgs)
           /\ \/ \E m \in Msgs, h \in 1..MaxGen : s[i] = Running(m, h)
              \/ s[i] = Draining(s[i].queue)
<1> TAKE i \in DOMAIN s
<1>1. s[i] \in Frames
  OBVIOUS
<1>2. CASE \E m \in Msgs, h \in 1..MaxGen : s[i] = Running(m, h)
  BY <1>1, <1>2, FrameFacts
<1>3. CASE \E q \in Seq(Msgs) : s[i] = Draining(q)
  BY <1>3 DEF Draining
<1> QED
  BY <1>1, <1>2, <1>3 DEF Frames

\* What a queue loses at its front leaves messages.
LEMMA SubSeqType ==
  ASSUME NEW q \in Seq(Msgs), NEW n \in Nat
  PROVE  SubSeq(q, n + 1, Len(q)) \in Seq(Msgs)
<1>1. \A i \in (n + 1)..Len(q) : q[i] \in Msgs
  BY LenProperties
<1> QED
  BY <1>1, LenProperties, SubSeqProperties

\* Every call, return, loop step, answer and teardown keeps the types.
LEMMA NextTypeInv == TypeInv /\ [Next]_vars => TypeInv'
<1> SUFFICES ASSUME TypeInv, [Next]_vars PROVE TypeInv'
  OBVIOUS
<1> USE DEF chanVars, wireVars, hostVars
<1>a. TypeOK /\ stack \in Seq(Frames)
  BY DEF TypeInv
<1>s. stack' \in Seq(Frames) => \A i \in DOMAIN stack' :
           /\ stack'[i].queue \in Seq(Msgs)
           /\ \/ \E m \in Msgs, h \in 1..MaxGen : stack'[i] = Running(m, h)
              \/ stack'[i] = Draining(stack'[i].queue)
  BY StackType
<1>f. ASSUME ~Idle
      PROVE  Front(stack) \in Seq(Frames) /\ Last(stack) \in Frames
  BY <1>a, <1>f, FrontFacts DEF Idle
<1>e. <<>> \in Seq(Msgs)
  OBVIOUS
<1>b. /\ loaned \in BOOLEAN /\ attached \in BOOLEAN /\ alive \in BOOLEAN
      /\ heard \in BOOLEAN /\ closed \in BOOLEAN
  BY <1>a DEF TypeOK
<1>t. ASSUME handler' \in 0..MaxGen, generation' \in 0..MaxGen, loaned' \in BOOLEAN,
             pending' \in Seq(Msgs), capacity' \in Nat, stack' \in Seq(Frames),
             arrived' \in 0..MaxMsgs, held' \subseteq wants', wants' \subseteq 1..arrived',
             fate' \in [Msgs -> Fates], responds' \in [Msgs -> Nat],
             completed' \in [Msgs -> Nat], hostPending' \subseteq wants',
             attached' \in BOOLEAN, alive' \in BOOLEAN, heard' \in BOOLEAN,
             closed' \in BOOLEAN
      PROVE  TypeInv'
  BY <1>s, <1>t, Zenon DEF TypeInv, TypeOK
<1>1. CASE Arrive
  <2>0. PICK wanting \in {wants, wants \cup {arrived'}} :
          LET m == arrived'
              waiting == hostPending \cup ({m} \cap wanting)
              queue == IF capacity = 0 THEN <<m>> ELSE Append(pending, m)
              out == IF capacity = 0 THEN 1 ELSE Dropped(queue, capacity)
              lost == {queue[i] : i \in 1..out}
          IN /\ wants' = wanting
             /\ \/ /\ handler # None
                   /\ Deliver(m, stack, wanting, waiting)
                   /\ UNCHANGED pending
                \/ /\ handler = None /\ loaned
                   /\ pending' = Append(pending, m)
                   /\ fate' = [fate EXCEPT ![m] = "waiting"]
                   /\ hostPending' = waiting
                   /\ UNCHANGED <<handler, loaned, stack, held, responds, completed>>
                \/ /\ ~Listening
                   /\ pending' = IF capacity = 0 THEN pending
                                                 ELSE SubSeq(queue, out + 1, Len(queue))
                   /\ fate' = [n \in Msgs |-> IF n \in lost THEN "dropped"
                                              ELSE IF n = m THEN "waiting"
                                              ELSE fate[n]]
                   /\ Discard(lost, wanting, waiting)
                   /\ UNCHANGED <<handler, loaned, stack, held>>
    BY <1>1, Zenon DEF Arrive
  <2> DEFINE m == arrived'
             waiting == hostPending \cup ({m} \cap wanting)
             queue == IF capacity = 0 THEN <<m>> ELSE Append(pending, m)
             out == IF capacity = 0 THEN 1 ELSE Dropped(queue, capacity)
             lost == {queue[i] : i \in 1..out}
  <2>1. m \in Msgs /\ m = arrived + 1 /\ UNCHANGED <<generation, capacity, hostVars>>
    BY <1>1, <1>a DEF Arrive, TypeOK, Msgs
  <2>a. /\ generation' \in 0..MaxGen /\ capacity' \in Nat /\ arrived' \in 0..MaxMsgs
        /\ attached' \in BOOLEAN /\ alive' \in BOOLEAN
        /\ heard' \in BOOLEAN /\ closed' \in BOOLEAN
    <3>1. arrived' \in 0..MaxMsgs
      BY <2>1, <1>a DEF TypeOK, Msgs
    <3>2. /\ attached' \in BOOLEAN /\ alive' \in BOOLEAN
          /\ heard' \in BOOLEAN /\ closed' \in BOOLEAN
      BY <2>1, <1>b, Zenon
    <3>3. generation' \in 0..MaxGen /\ capacity' \in Nat
      BY <2>1, <1>a DEF TypeOK
    <3> QED
      BY <3>1, <3>2, <3>3
  <2>2. /\ wants \subseteq wanting /\ wants' = wanting /\ waiting \subseteq wanting
        /\ wants' \subseteq 1..arrived'
    BY <1>a, <2>0, <2>1 DEF TypeOK
  <2>3. Append(pending, m) \in Seq(Msgs)
    BY <1>a, <2>1 DEF TypeOK
  <2>4. CASE handler # None /\ Deliver(m, stack, wanting, waiting) /\ UNCHANGED pending
    <3>1. /\ stack' \in Seq(Frames) /\ handler' \in 0..MaxGen /\ loaned' \in BOOLEAN
          /\ held' \subseteq wanting /\ fate' \in [Msgs -> Fates]
          /\ responds' \in [Msgs -> Nat] /\ completed' \in [Msgs -> Nat]
          /\ hostPending' \subseteq waiting
      BY <1>a, <2>1, <2>2, <2>4, DeliverType
    <3>2. pending' \in Seq(Msgs) /\ held' \subseteq wants' /\ hostPending' \subseteq wants'
      BY <1>a, <2>2, <2>4, <3>1 DEF TypeOK
    <3> QED
      BY <1>t, <2>a, <2>2, <3>1, <3>2, Zenon
  <2>5. CASE /\ pending' = Append(pending, m)
             /\ fate' = [fate EXCEPT ![m] = "waiting"]
             /\ hostPending' = waiting
             /\ UNCHANGED <<handler, loaned, stack, held, responds, completed>>
    <3>1. fate' \in [Msgs -> Fates]
      BY <1>a, <2>5 DEF TypeOK, Fates
    <3>2. /\ pending' \in Seq(Msgs) /\ held' \subseteq wants' /\ hostPending' \subseteq wants'
          /\ stack' \in Seq(Frames) /\ handler' \in 0..MaxGen
          /\ responds' \in [Msgs -> Nat] /\ completed' \in [Msgs -> Nat]
      <4> HIDE DEF waiting
      <4> QED
        BY <1>a, <2>2, <2>3, <2>5 DEF TypeOK
    <3>3. loaned' \in BOOLEAN
      BY <1>b, <2>5, Zenon
    <3> QED
      BY <1>t, <2>a, <2>2, <3>1, <3>2, <3>3, Zenon
  <2>6. CASE /\ pending' = IF capacity = 0 THEN pending
                                           ELSE SubSeq(queue, out + 1, Len(queue))
             /\ fate' = [n \in Msgs |-> IF n \in lost THEN "dropped"
                                        ELSE IF n = m THEN "waiting"
                                        ELSE fate[n]]
             /\ Discard(lost, wanting, waiting)
             /\ UNCHANGED <<handler, loaned, stack, held>>
    <3>1. fate' \in [Msgs -> Fates]
      BY <1>a, <2>6 DEF TypeOK, Fates
    <3>2. /\ responds' \in [Msgs -> Nat] /\ completed' \in [Msgs -> Nat]
          /\ hostPending' \subseteq waiting
      BY <1>a, <2>6, DiscardType
    <3>3. pending' \in Seq(Msgs)
      <4>1. CASE capacity = 0
        BY <1>a, <2>6, <4>1 DEF TypeOK
      <4>2. CASE capacity # 0
        <5>1. queue = Append(pending, m) /\ out = Dropped(queue, capacity)
          BY <4>2
        <5>2. out \in Nat
          BY <1>a, <2>3, <5>1, LenProperties DEF Dropped, TypeOK
        <5>3. pending' = SubSeq(queue, out + 1, Len(queue))
          BY <2>6, <4>2
        <5> HIDE DEF queue, out
        <5> QED
          BY <2>3, <5>1, <5>2, <5>3, SubSeqType
      <4> QED
        BY <4>1, <4>2
    <3>4. /\ held' \subseteq wants' /\ hostPending' \subseteq wants'
          /\ stack' \in Seq(Frames) /\ handler' \in 0..MaxGen
      <4>1. UNCHANGED <<handler, stack, held>>
        BY <2>6
      <4> HIDE DEF waiting
      <4> QED
        BY <1>a, <2>2, <3>2, <4>1 DEF TypeOK
    <3>5. loaned' \in BOOLEAN
      BY <1>b, <2>6, Zenon
    <3> QED
      BY <1>t, <2>a, <2>2, <3>1, <3>2, <3>3, <3>4, <3>5, Zenon
  <2> QED
    BY <2>0, <2>4, <2>5, <2>6
<1>2. CASE HandlerReturns
  <2>1. ~Idle /\ Last(stack).kind = "running" /\ Last(stack).taken \in 1..MaxGen
    BY <1>2, <1>f, FrameFacts DEF HandlerReturns, InHandler
  <2>2. handler' \in 0..MaxGen /\ loaned' \in BOOLEAN
    BY <1>2, <1>a, <2>1 DEF HandlerReturns, TypeOK
  <2>3. Draining(pending) \in Frames
    BY <1>a, FrameFacts DEF TypeOK
  <2>4. stack' \in Seq(Frames) /\ pending' \in Seq(Msgs)
    <3>1. CASE handler' # None
      <4>1. stack' = Append(Front(stack), Draining(pending)) /\ pending' = <<>>
        BY <1>2, <3>1, Zenon DEF HandlerReturns
      <4> QED
        BY <1>e, <1>f, <2>1, <2>3, <4>1, AppendProperties
    <3>2. CASE handler' = None
      <4>1. stack' = Front(stack) /\ pending' = pending
        BY <1>2, <3>2, Zenon DEF HandlerReturns
      <4> QED
        BY <1>a, <1>f, <2>1, <4>1 DEF TypeOK
    <3> QED
      BY <3>1, <3>2
  <2> QED
    BY <1>2, <1>a, <1>s, <2>2, <2>4 DEF HandlerReturns, TypeInv, TypeOK
<1>3. CASE DeliverQueued
  <2> DEFINE queue == Last(stack).queue
  <2>0. ~Idle /\ queue \in Seq(Msgs)
    BY <1>3, <1>f, FrameFacts DEF DeliverQueued
  <2>1. CASE queue = <<>>
    <3>1. stack' \in Seq(Frames) /\ UNCHANGED <<handler, loaned, held, fate, wireVars>>
      BY <1>3, <1>f, <2>0, <2>1 DEF DeliverQueued
    <3> QED
      BY <1>3, <1>a, <1>s, <3>1 DEF DeliverQueued, TypeInv, TypeOK
  <2>2. CASE queue # <<>>
    <3> DEFINE below == Append(Front(stack), Draining(Tail(queue)))
    <3>1. Head(queue) \in Msgs /\ Tail(queue) \in Seq(Msgs)
      BY <2>0, <2>2, HeadTailProperties
    <3>2. below \in Seq(Frames)
      BY <1>f, <2>0, <3>1, FrameFacts, AppendProperties
    <3>3. Deliver(Head(queue), below, wants, hostPending)
      BY <1>3, <2>2 DEF DeliverQueued
    <3>4. /\ stack' \in Seq(Frames) /\ handler' \in 0..MaxGen /\ loaned' \in BOOLEAN
          /\ held' \subseteq wants /\ fate' \in [Msgs -> Fates]
          /\ responds' \in [Msgs -> Nat] /\ completed' \in [Msgs -> Nat]
          /\ hostPending' \subseteq hostPending
      <4> HIDE DEF below
      <4> QED
        BY <1>a, <3>1, <3>2, <3>3, DeliverType
    <3> QED
      BY <1>3, <1>a, <1>s, <3>4 DEF DeliverQueued, TypeInv, TypeOK
  <2> QED
    BY <2>1, <2>2
<1>4. CASE SetHandler
  <2>1. stack' \in Seq(Frames) /\ pending' \in Seq(Msgs)
    BY <1>4, <1>a, <1>e, FrameFacts, AppendProperties DEF SetHandler, TypeOK
  <2>2. heard' \in BOOLEAN
    BY <1>4, <1>a, Zenon DEF SetHandler, TypeOK
  <2>3. generation' \in 0..MaxGen /\ handler' \in 0..MaxGen
    BY <1>4, <1>a DEF SetHandler, TypeOK
  <2>4. UNCHANGED <<loaned, capacity, held, arrived, wants, fate, responds, completed,
                    hostPending, attached, alive, closed>>
    BY <1>4, Zenon DEF SetHandler
  <2>5. /\ loaned' \in BOOLEAN /\ attached' \in BOOLEAN /\ alive' \in BOOLEAN
        /\ closed' \in BOOLEAN
    BY <2>4, <1>b, Zenon
  <2>6. /\ capacity' \in Nat /\ arrived' \in 0..MaxMsgs /\ held' \subseteq wants'
        /\ wants' \subseteq 1..arrived' /\ fate' \in [Msgs -> Fates]
        /\ responds' \in [Msgs -> Nat] /\ completed' \in [Msgs -> Nat]
        /\ hostPending' \subseteq wants'
    BY <2>4, <1>a DEF TypeOK
  <2> QED
    BY <1>t, <2>1, <2>2, <2>3, <2>5, <2>6, Zenon
<1>5. CASE ClearHandler
  <2>1. heard' \in BOOLEAN /\ loaned' \in BOOLEAN
    BY <1>5, Zenon DEF ClearHandler
  <2> QED
    BY <1>5, <1>a, <1>s, <2>1 DEF ClearHandler, TypeInv, TypeOK, None
<1>6. CASE Resize
  <2>1. PICK size \in Capacities \ {capacity} :
          LET out == Dropped(pending, size)
              lost == {pending[i] : i \in 1..out}
          IN /\ capacity' = size
             /\ pending' = SubSeq(pending, out + 1, Len(pending))
             /\ fate' = [m \in Msgs |-> IF m \in lost THEN "dropped" ELSE fate[m]]
             /\ Discard(lost, wants, hostPending)
    BY <1>6, Zenon DEF Resize
  <2>2. size \in Nat /\ Dropped(pending, size) \in Nat
    BY <1>a, LenProperties DEF Dropped, TypeOK
  <2>3. pending' \in Seq(Msgs)
    BY <1>a, <2>1, <2>2, SubSeqType DEF TypeOK
  <2>4. /\ responds' \in [Msgs -> Nat] /\ completed' \in [Msgs -> Nat]
        /\ hostPending' \subseteq hostPending
    BY <1>a, <2>1, DiscardType
  <2>5. fate' \in [Msgs -> Fates]
    BY <1>a, <2>1 DEF TypeOK, Fates
  <2> QED
    BY <1>6, <1>a, <1>s, <2>1, <2>2, <2>3, <2>4, <2>5 DEF Resize, TypeInv, TypeOK
<1>7. CASE Answer
  <2>1. PICK m \in held : held' = held \ {m} /\ Respond({m}, hostPending, GuardCalls)
    BY <1>7 DEF Answer
  <2>2. /\ responds' \in [Msgs -> Nat] /\ completed' \in [Msgs -> Nat]
        /\ hostPending' \subseteq hostPending
    BY <1>a, <2>1, RespondType DEF GuardCalls
  <2> QED
    BY <1>7, <1>a, <1>s, <2>1, <2>2 DEF Answer, TypeInv, TypeOK
<1>8. CASE HostCloses
  <2>1. completed' \in [Msgs -> Nat]
    BY <1>8, <1>a DEF HostCloses, TypeOK
  <2>2. closed' \in BOOLEAN
    BY <1>8, Zenon DEF HostCloses
  <2> QED
    BY <1>8, <1>a, <1>s, <2>1, <2>2 DEF HostCloses, TypeInv, TypeOK
<1>9. CASE Detach
  <2>1. alive' \in BOOLEAN /\ attached' \in BOOLEAN /\ loaned' \in BOOLEAN
    BY <1>9, Zenon DEF Detach
  <2> QED
    BY <1>9, <1>a, <1>s, <1>e, <2>1 DEF Detach, TypeInv, TypeOK, None
<1>10. CASE UNCHANGED vars
  BY <1>10, <1>a, <1>s DEF vars, TypeInv, TypeOK
<1> QED
  BY <1>1, <1>2, <1>3, <1>4, <1>5, <1>6, <1>7, <1>8, <1>9, <1>10 DEF Next


(***************************************************************************)
(* Who listens.  A handler that is out on loan is taken by a call in       *)
(* progress, and an inner call has always taken a newer one: that is what  *)
(* lets HandlerReturns tell its own handler from a later one by a number.  *)
(***************************************************************************)
Calls == {i \in 1..Len(stack) : stack[i].kind = "running"}

\* A call has taken no handler of the future, and the current one only on loan.
TakenBefore ==
  \A i \in Calls : /\ stack[i].taken <= generation
                   /\ stack[i].taken = generation => loaned /\ handler = None

\* An inner call runs a newer handler.
NewerInside == \A i, j \in Calls : i < j => stack[i].taken < stack[j].taken

\* What is out on loan is being run.
LoanIsRunning ==
  loaned /\ handler = None => \E i \in Calls : stack[i].taken = generation

LoanInv ==
  HandlerIsCurrent /\ TakenBefore /\ NewerInside /\ LoanIsRunning /\ EmbedderKnows

\* The calls that are in progress before and after a step.
SameCalls == Calls' = Calls /\ \A i \in Calls : stack'[i] = stack[i]

\* A loop that is left, or goes one message on, is no call of a handler.
LEMMA LoopCalls ==
  ASSUME TypeInv, ~Idle, Last(stack).kind = "draining", NEW q \in Seq(Msgs),
         stack' = Front(stack) \/ stack' = Append(Front(stack), Draining(q))
  PROVE  SameCalls
<1>1. /\ Len(stack) \in Nat \ {0} /\ Last(stack) = stack[Len(stack)]
      /\ Front(stack) \in Seq(Frames) /\ Len(Front(stack)) = Len(stack) - 1
      /\ \A i \in 1..(Len(stack) - 1) : Front(stack)[i] = stack[i]
  BY FrontFacts DEF TypeInv, Idle
<1>2. Calls \subseteq 1..(Len(stack) - 1)
  BY <1>1 DEF Calls
<1>3. CASE stack' = Front(stack)
  BY <1>1, <1>2, <1>3 DEF SameCalls, Calls
<1>4. CASE stack' = Append(Front(stack), Draining(q))
  <2>1. Draining(q) \in Frames /\ Draining(q).kind = "draining"
    BY FrameFacts DEF Draining
  <2>2. /\ Len(stack') = Len(stack) /\ stack'[Len(stack)] = Draining(q)
        /\ \A i \in 1..(Len(stack) - 1) : stack'[i] = stack[i]
    BY <1>1, <1>4, <2>1, PushFacts
  <2> QED
    BY <1>1, <1>2, <2>1, <2>2, SMTT(20) DEF SameCalls, Calls
<1> QED
  BY <1>3, <1>4

\* Nor is a loop that is entered.
LEMMA DrainCalls ==
  ASSUME TypeInv, NEW q \in Seq(Msgs), stack' = Append(stack, Draining(q))
  PROVE  SameCalls
<1>1. Draining(q) \in Frames /\ Draining(q).kind = "draining"
  BY FrameFacts DEF Draining
<1>2. /\ Len(stack) \in Nat /\ Len(stack') = Len(stack) + 1
      /\ stack'[Len(stack) + 1] = Draining(q)
      /\ \A i \in 1..Len(stack) : stack'[i] = stack[i]
  BY <1>1, PushFacts DEF TypeInv
<1> QED
  BY <1>1, <1>2 DEF SameCalls, Calls

\* Calls that stay what they were keep the loan what it was.
LEMMA SameLoan ==
  ASSUME TypeInv, LoanInv, SameCalls,
         UNCHANGED <<handler, loaned, generation, heard, attached>>
  PROVE  LoanInv'
BY DEF TypeInv, TypeOK, LoanInv, SameCalls, HandlerIsCurrent, TakenBefore, NewerInside,
       LoanIsRunning, EmbedderKnows, Listening

\* A call that begins runs the newest handler.
LEMMA DeliverLoan ==
  ASSUME TypeInv, LoanInv, NEW m \in Msgs, NEW below \in Seq(Frames),
         NEW wanting, NEW waiting, Deliver(m, below, wanting, waiting),
         \A i \in Calls : i \in 1..Len(below) /\ below[i] = stack[i],
         \A i \in 1..Len(below) : below[i].kind = "running" => i \in Calls,
         UNCHANGED <<generation, heard, attached>>
  PROVE  LoanInv'
<1>1. CASE handler # None
  <2>1. handler = generation /\ handler \in 1..MaxGen /\ Running(m, handler) \in Frames
    BY <1>1, FrameFacts DEF LoanInv, HandlerIsCurrent, TypeInv, TypeOK, None
  <2>2. stack' = Append(below, Running(m, handler)) /\ handler' = None /\ loaned' = TRUE
    BY <1>1 DEF Deliver
  <2>3. /\ Len(below) \in Nat /\ Len(stack') = Len(below) + 1
        /\ stack'[Len(below) + 1] = Running(m, handler)
        /\ \A i \in 1..Len(below) : stack'[i] = below[i]
    BY <2>1, <2>2, PushFacts
  <2>4. Running(m, handler).kind = "running" /\ Running(m, handler).taken = handler
    BY DEF Running
  <2>5. /\ Calls' = Calls \cup {Len(below) + 1}
        /\ \A i \in Calls : stack'[i] = stack[i] /\ i < Len(below) + 1
    BY <2>3, <2>4 DEF Calls
  <2>6. \A i \in Calls : stack[i].taken < generation
    <3>1. ASSUME NEW i \in Calls PROVE stack[i].taken \in Int
      BY FrameFacts, ElementOfSeq DEF Calls, TypeInv, None
    <3> QED
      BY <1>1, <3>1, <2>1 DEF LoanInv, TakenBefore
  <2>7. TakenBefore' /\ LoanIsRunning' /\ HandlerIsCurrent'
    <3>0. generation' = generation /\ generation \in Nat
      BY DEF TypeInv, TypeOK
    <3>1. /\ \A i \in Calls : stack'[i].taken < generation
          /\ stack'[Len(below) + 1].taken = generation
      BY <2>1, <2>3, <2>4, <2>5, <2>6
    <3>2. \A i \in Calls' : stack'[i].taken <= generation
      <4> SUFFICES ASSUME NEW i \in Calls' PROVE stack'[i].taken <= generation
        OBVIOUS
      <4>1. CASE i \in Calls
        <5>1. stack[i].taken \in Int
          BY <4>1, FrameFacts, ElementOfSeq DEF Calls, TypeInv, None
        <5> QED
          BY <4>1, <5>1, <2>5, <2>6, <3>0
      <4>2. CASE i = Len(below) + 1
        BY <4>2, <3>0, <3>1
      <4> QED
        BY <2>5, <4>1, <4>2
    <3> QED
      BY <2>2, <2>5, <3>0, <3>1, <3>2 DEF TakenBefore, LoanIsRunning, HandlerIsCurrent
  <2>8. NewerInside'
    BY <2>1, <2>3, <2>4, <2>5, <2>6 DEF LoanInv, NewerInside, Calls
  <2>9. EmbedderKnows'
    BY <1>1, <2>2 DEF LoanInv, EmbedderKnows, Listening
  <2> QED
    BY <2>7, <2>8, <2>9 DEF LoanInv
<1>2. CASE handler = None
  <2>1. stack' = below /\ UNCHANGED <<handler, loaned>>
    BY <1>2 DEF Deliver
  <2>2. SameCalls
    BY <2>1 DEF SameCalls, Calls
  <2> QED
    BY <2>1, <2>2, SameLoan
<1> QED
  BY <1>1, <1>2

\* The call that returns had the newest handler of all calls: it is put back
\* exactly if no later one was installed.
LEMMA ReturnLoan == TypeInv /\ LoanInv /\ HandlerReturns => LoanInv'
<1> SUFFICES ASSUME TypeInv, LoanInv, HandlerReturns PROVE LoanInv'
  OBVIOUS
<1> DEFINE n == Len(stack)
           taken == Last(stack).taken
<1>1. /\ n \in Nat \ {0} /\ Last(stack) = stack[n] /\ Last(stack) \in Frames
      /\ Last(stack).kind = "running" /\ taken \in 1..MaxGen
      /\ Front(stack) \in Seq(Frames) /\ Len(Front(stack)) = n - 1
      /\ \A i \in 1..(n - 1) : Front(stack)[i] = stack[i]
  BY FrontFacts, FrameFacts DEF HandlerReturns, InHandler, Idle, TypeInv
<1>2. /\ loaned' = FALSE /\ UNCHANGED <<generation, heard, attached>>
      /\ handler' = IF generation = taken THEN taken ELSE handler
      /\ stack' = Append(Front(stack), Draining(pending)) \/ stack' = Front(stack)
  BY Zenon DEF HandlerReturns, hostVars
<1>3. /\ Calls' = Calls \ {n} /\ n \in Calls
      /\ \A i \in Calls' : stack'[i] = stack[i] /\ i < n
  <2>1. CASE stack' = Front(stack)
    BY <1>1, <2>1 DEF Calls
  <2>2. CASE stack' = Append(Front(stack), Draining(pending))
    <3>1. Draining(pending) \in Frames /\ Draining(pending).kind = "draining"
      BY FrameFacts DEF Draining, TypeInv, TypeOK
    <3>2. /\ Len(stack') = n /\ stack'[n] = Draining(pending)
          /\ \A i \in 1..(n - 1) : stack'[i] = stack[i]
      BY <1>1, <2>2, <3>1, PushFacts
    <3> QED
      BY <1>1, <3>1, <3>2 DEF Calls
  <2> QED
    BY <1>2, <2>1, <2>2
<1>4. \A i \in Calls : stack[i].taken \in Int
  BY FrameFacts, ElementOfSeq DEF Calls, TypeInv, None
<1>5. taken <= generation /\ (taken = generation => loaned /\ handler = None)
  BY <1>1, <1>3 DEF LoanInv, TakenBefore
<1>6. \A i \in Calls' : stack[i].taken < taken
  BY <1>1, <1>3 DEF LoanInv, NewerInside
<1>7. generation \in 0..MaxGen /\ handler \in 0..MaxGen
  BY DEF TypeInv, TypeOK
<1>8. HandlerIsCurrent' /\ TakenBefore' /\ LoanIsRunning'
  <2>1. HandlerIsCurrent'
    BY <1>2 DEF LoanInv, HandlerIsCurrent
  <2>2. TakenBefore'
    BY <1>2, <1>3, <1>4, <1>5, <1>6, <1>1, <1>7 DEF TakenBefore
  <2> QED
    BY <1>2, <2>1, <2>2 DEF LoanIsRunning
<1>9. NewerInside'
  BY <1>3 DEF LoanInv, NewerInside
<1>10. EmbedderKnows'
  <2>1. CASE generation = taken
    BY <1>1, <1>2, <1>5, <2>1 DEF LoanInv, EmbedderKnows, Listening, None
  <2>2. CASE generation # taken
    <3>1. ~(loaned /\ handler = None)
      <4>1. ASSUME NEW i \in Calls PROVE stack[i].taken # generation
        BY <1>1, <1>3, <1>4, <1>5, <1>6, <1>7, <2>2
      <4> QED
        BY <4>1 DEF LoanInv, LoanIsRunning
    <3> QED
      BY <1>2, <2>2, <3>1 DEF LoanInv, EmbedderKnows, Listening
  <2> QED
    BY <2>1, <2>2
<1> QED
  BY <1>8, <1>9, <1>10 DEF LoanInv

\* Nobody has called yet.
LEMMA InitLoan == Init => LoanInv
<1> SUFFICES ASSUME Init PROVE LoanInv
  OBVIOUS
<1>1. Calls = {}
  BY DEF Init, Calls
<1>2. EmbedderKnows
  BY Zenon DEF Init, EmbedderKnows, Listening
<1>3. HandlerIsCurrent /\ LoanIsRunning
  BY Zenon DEF Init, HandlerIsCurrent, LoanIsRunning
<1> QED
  BY <1>1, <1>2, <1>3 DEF LoanInv, TakenBefore, NewerInside

\* Every step keeps the loan in order.
LEMMA NextLoan == TypeInv /\ LoanInv /\ [Next]_vars => LoanInv'
<1> SUFFICES ASSUME TypeInv, LoanInv, [Next]_vars PROVE LoanInv'
  OBVIOUS
<1> USE DEF chanVars, wireVars, hostVars
<1>s. ASSUME UNCHANGED <<handler, loaned, generation, heard, attached, stack>>
      PROVE  LoanInv'
  BY <1>s, SameLoan DEF SameCalls, Calls
<1>q. pending \in Seq(Msgs) /\ stack \in Seq(Frames)
  BY DEF TypeInv, TypeOK
<1>1. CASE Arrive
  <2>1. UNCHANGED <<generation, heard, attached>> /\ arrived' \in Msgs
    BY <1>1 DEF Arrive, TypeInv, TypeOK, Msgs
  <2>2. \/ \E wanting, waiting : Deliver(arrived', stack, wanting, waiting)
        \/ UNCHANGED <<handler, loaned, stack>>
    BY <1>1, Zenon DEF Arrive
  <2>3. CASE \E wanting, waiting : Deliver(arrived', stack, wanting, waiting)
    <3>1. PICK wanting, waiting : Deliver(arrived', stack, wanting, waiting)
      BY <2>3
    <3>2. /\ \A i \in Calls : i \in 1..Len(stack) /\ stack[i] = stack[i]
          /\ \A i \in 1..Len(stack) : stack[i].kind = "running" => i \in Calls
      BY DEF Calls
    <3> QED
      BY <1>q, <2>1, <3>1, <3>2, DeliverLoan
  <2> QED
    BY <1>s, <2>1, <2>2, <2>3
<1>2. CASE HandlerReturns
  BY <1>2, ReturnLoan
<1>3. CASE DeliverQueued
  <2> DEFINE queue == Last(stack).queue
             below == Append(Front(stack), Draining(Tail(queue)))
  <2>0. /\ ~Idle /\ Last(stack).kind = "draining" /\ queue \in Seq(Msgs)
        /\ UNCHANGED <<generation, heard, attached>>
    BY <1>3, <1>q, FrontFacts, FrameFacts DEF DeliverQueued, Idle
  <2>1. CASE queue = <<>>
    <3>1. stack' = Front(stack) /\ UNCHANGED <<handler, loaned>>
      BY <1>3, <2>1 DEF DeliverQueued
    <3> QED
      BY <2>0, <3>1, LoopCalls, SameLoan
  <2>2. CASE queue # <<>>
    <3>1. Head(queue) \in Msgs /\ Tail(queue) \in Seq(Msgs)
      BY <2>0, <2>2, HeadTailProperties
    <3>2. Deliver(Head(queue), below, wants, hostPending)
      BY <1>3, <2>2 DEF DeliverQueued
    <3>3. /\ Len(stack) \in Nat \ {0} /\ Last(stack) = stack[Len(stack)]
          /\ Front(stack) \in Seq(Frames) /\ Len(Front(stack)) = Len(stack) - 1
          /\ \A i \in 1..(Len(stack) - 1) : Front(stack)[i] = stack[i]
      BY <1>q, <2>0, FrontFacts DEF Idle
    <3>4. Draining(Tail(queue)) \in Frames /\ Draining(Tail(queue)).kind = "draining"
      BY <3>1, FrameFacts DEF Draining
    <3>5. /\ below \in Seq(Frames) /\ Len(below) = Len(stack)
          /\ below[Len(stack)].kind = "draining"
          /\ \A i \in 1..(Len(stack) - 1) : below[i] = stack[i]
      BY <3>3, <3>4, PushFacts
    <3> HIDE DEF below
    <3>6. /\ \A i \in Calls : i \in 1..Len(below) /\ below[i] = stack[i]
          /\ \A i \in 1..Len(below) : below[i].kind = "running" => i \in Calls
      <4>1. Calls \subseteq 1..(Len(stack) - 1)
        BY <2>0, <3>3 DEF Calls
      <4>2. ASSUME NEW i \in 1..Len(below), below[i].kind = "running" PROVE i \in Calls
        BY <3>3, <3>5, <4>2 DEF Calls
      <4> QED
        BY <3>3, <3>5, <4>1, <4>2
    <3> QED
      BY <2>0, <3>1, <3>2, <3>5, <3>6, DeliverLoan
  <2> QED
    BY <2>1, <2>2
<1>4. CASE SetHandler
  <2>1. SameCalls
    BY <1>4, <1>q, DrainCalls DEF SetHandler
  <2>2. /\ generation' = generation + 1 /\ handler' = generation + 1 /\ loaned' = loaned
        /\ heard' = (IF Listening THEN heard ELSE TRUE) /\ attached' = attached
        /\ generation \in Nat /\ attached
    BY <1>4 DEF SetHandler, Free, TypeInv, TypeOK
  <2>3. \A i \in Calls : stack[i].taken \in Int
    BY FrameFacts, ElementOfSeq DEF Calls, TypeInv, None
  <2>4. \A i \in Calls' : stack'[i].taken < generation'
    BY <2>1, <2>2, <2>3 DEF SameCalls, LoanInv, TakenBefore
  <2>5. HandlerIsCurrent' /\ TakenBefore' /\ LoanIsRunning'
    BY <2>1, <2>2, <2>3, <2>4
       DEF HandlerIsCurrent, TakenBefore, LoanIsRunning, None, SameCalls
  <2>6. NewerInside'
    BY <2>1 DEF SameCalls, LoanInv, NewerInside
  <2>7. Listening'
    BY <2>2 DEF Listening, None
  <2>8. EmbedderKnows'
    BY <2>2, <2>7, Zenon DEF LoanInv, EmbedderKnows
  <2> QED
    BY <2>5, <2>6, <2>8 DEF LoanInv
<1>5. CASE ClearHandler
  <2>1. /\ generation' = generation + 1 /\ handler' = None /\ loaned' = FALSE
        /\ heard' = FALSE /\ stack' = stack /\ generation \in Nat
    BY <1>5 DEF ClearHandler, TypeInv, TypeOK
  <2>2. SameCalls
    BY <2>1 DEF SameCalls, Calls
  <2>3. \A i \in Calls : stack[i].taken \in Int
    BY FrameFacts, ElementOfSeq DEF Calls, TypeInv, None
  <2>4. \A i \in Calls' : stack'[i].taken < generation'
    BY <2>1, <2>2, <2>3 DEF SameCalls, LoanInv, TakenBefore
  <2>5. HandlerIsCurrent' /\ TakenBefore' /\ LoanIsRunning'
    BY <2>1, <2>2, <2>3, <2>4 DEF HandlerIsCurrent, TakenBefore, LoanIsRunning, SameCalls
  <2>6. NewerInside'
    BY <2>2 DEF SameCalls, LoanInv, NewerInside
  <2>7. EmbedderKnows'
    BY <2>1 DEF EmbedderKnows, Listening
  <2> QED
    BY <2>5, <2>6, <2>7 DEF LoanInv
<1>6. CASE Resize
  BY <1>6, <1>s DEF Resize
<1>7. CASE Answer
  BY <1>7, <1>s DEF Answer
<1>8. CASE HostCloses
  BY <1>8, <1>s DEF HostCloses
<1>9. CASE Detach
  <2>1. stack' = <<>> /\ handler' = None /\ loaned' = FALSE /\ attached' = FALSE
    BY <1>9 DEF Detach, Idle
  <2>2. Calls' = {}
    BY <2>1 DEF Calls
  <2> QED
    BY <2>1, <2>2 DEF LoanInv, HandlerIsCurrent, TakenBefore, NewerInside, LoanIsRunning,
                      EmbedderKnows
<1>10. CASE UNCHANGED vars
  BY <1>10, <1>s DEF vars
<1> QED
  BY <1>1, <1>2, <1>3, <1>4, <1>5, <1>6, <1>7, <1>8, <1>9, <1>10 DEF Next


(***************************************************************************)
(* Where messages wait: the buffer p and the queues of the calls s.        *)
(***************************************************************************)
AllIn(p, s) == ToSet(p) \cup UNION {ToSet(s[i].queue) : i \in 1..Len(s)}

Once(q) == \A a, b \in 1..Len(q) : q[a] = q[b] => a = b

\* No message waits twice.
Apart(p, s) ==
  /\ Once(p)
  /\ \A i \in 1..Len(s) : /\ Once(s[i].queue)
                          /\ ToSet(p) \cap ToSet(s[i].queue) = {}
  /\ \A i, j \in 1..Len(s) : i # j => ToSet(s[i].queue) \cap ToSet(s[j].queue) = {}

\* The set of a queue.
LEMMA ToSetFacts ==
  ASSUME NEW q \in Seq(Msgs)
  PROVE  /\ Len(q) \in Nat
         /\ \A x : x \in ToSet(q) <=> \E a \in 1..Len(q) : q[a] = x
         /\ ToSet(q) \subseteq Msgs
BY LenProperties, ElementOfSeq DEF ToSet

\* A new message is queued last.
LEMMA AppendOnce ==
  ASSUME NEW q \in Seq(Msgs), NEW m \in Msgs, Once(q), m \notin ToSet(q)
  PROVE  /\ Append(q, m) \in Seq(Msgs) /\ Once(Append(q, m))
         /\ ToSet(Append(q, m)) = ToSet(q) \cup {m}
<1> DEFINE r == Append(q, m)
<1>1. /\ r \in Seq(Msgs) /\ Len(q) \in Nat /\ Len(r) = Len(q) + 1 /\ r[Len(q) + 1] = m
      /\ \A a \in 1..Len(q) : r[a] = q[a]
  BY PushFacts
<1> HIDE DEF r
<1>2. \A a \in 1..Len(q) : q[a] # m
  BY ToSetFacts
<1>3. Once(r)
  BY <1>1, <1>2 DEF Once
<1>4. ToSet(r) = ToSet(q) \cup {m}
  <2>1. ASSUME NEW x PROVE x \in ToSet(r) <=> x \in ToSet(q) \cup {m}
    BY <1>1, ToSetFacts
  <2> QED
    BY <2>1
<1> QED
  BY <1>1, <1>3, <1>4 DEF r

\* The oldest n messages leave a queue.
LEMMA SubSeqOnce ==
  ASSUME NEW q \in Seq(Msgs), NEW n \in 0..Len(q), Once(q)
  PROVE  /\ SubSeq(q, n + 1, Len(q)) \in Seq(Msgs) /\ Once(SubSeq(q, n + 1, Len(q)))
         /\ ToSet(SubSeq(q, n + 1, Len(q))) = ToSet(q) \ {q[i] : i \in 1..n}
         /\ {q[i] : i \in 1..n} \subseteq ToSet(q)
<1> DEFINE r == SubSeq(q, n + 1, Len(q))
<1>0. Len(q) \in Nat /\ n \in Nat
  BY LenProperties
<1>1. /\ r \in Seq(Msgs) /\ Len(r) = Len(q) - n
      /\ \A a \in 1..(Len(q) - n) : r[a] = q[a + n]
  <2>1. \A a \in (n + 1)..Len(q) : q[a] \in Msgs
    BY <1>0, ElementOfSeq
  <2>2. /\ r \in Seq(Msgs)
        /\ Len(r) = IF n + 1 <= Len(q) THEN Len(q) - (n + 1) + 1 ELSE 0
        /\ \A a \in 1..(Len(q) - (n + 1) + 1) : r[a] = q[n + 1 + a - 1]
    BY <1>0, <2>1, SubSeqProperties
  <2>3. /\ (IF n + 1 <= Len(q) THEN Len(q) - (n + 1) + 1 ELSE 0) = Len(q) - n
        /\ Len(q) - (n + 1) + 1 = Len(q) - n
    BY <1>0
  <2>4. \A a \in 1..(Len(q) - n) : n + 1 + a - 1 = a + n
    BY <1>0
  <2> QED
    BY <2>2, <2>3, <2>4
<1> HIDE DEF r
<1>2. Once(r)
  BY <1>0, <1>1 DEF Once
<1>3. ToSet(r) = ToSet(q) \ {q[i] : i \in 1..n}
  <2>1. ASSUME NEW x \in ToSet(r) PROVE x \in ToSet(q) \ {q[i] : i \in 1..n}
    <3>1. PICK a \in 1..(Len(q) - n) : x = q[a + n]
      BY <1>1, ToSetFacts
    <3>2. a + n \in 1..Len(q) /\ \A i \in 1..n : i # a + n /\ i \in 1..Len(q)
      BY <1>0
    <3> QED
      BY <3>1, <3>2, ToSetFacts DEF Once
  <2>2. ASSUME NEW x \in ToSet(q) \ {q[i] : i \in 1..n} PROVE x \in ToSet(r)
    <3>1. PICK a \in 1..Len(q) : x = q[a]
      BY ToSetFacts
    <3>2. a \notin 1..n
      BY <2>2, <3>1
    <3>3. a - n \in 1..(Len(q) - n) /\ (a - n) + n = a
      BY <1>0, <3>2
    <3> QED
      BY <1>1, <3>1, <3>3, ToSetFacts
  <2> QED
    BY <2>1, <2>2
<1>4. {q[i] : i \in 1..n} \subseteq ToSet(q)
  BY <1>0, ToSetFacts
<1> QED
  BY <1>1, <1>2, <1>3, <1>4 DEF r

\* What waits when a call of a handler begins, or an empty loop or a handler ends.
LEMMA EmptyCall ==
  ASSUME NEW p \in Seq(Msgs), NEW s \in Seq(Frames), NEW f \in Frames, f.queue = <<>>
  PROVE  /\ AllIn(p, Append(s, f)) = AllIn(p, s)
         /\ Apart(p, s) <=> Apart(p, Append(s, f))
<1> DEFINE t == Append(s, f)
<1>1. /\ Len(s) \in Nat /\ Len(t) = Len(s) + 1 /\ t[Len(s) + 1] = f
      /\ \A i \in 1..Len(s) : t[i] = s[i]
  BY PushFacts
<1> HIDE DEF t
<1>2. ToSet(f.queue) = {} /\ Once(f.queue)
  BY DEF ToSet, Once
<1>3. AllIn(p, t) = AllIn(p, s)
  BY <1>1, <1>2, SMTT(20) DEF AllIn
<1>a. \A i \in 1..Len(t) : \/ i \in 1..Len(s) /\ t[i] = s[i]
                           \/ i = Len(s) + 1 /\ t[i] = f
  BY <1>1
<1>4. ASSUME Apart(p, s) PROVE Apart(p, t)
  <2>1. \A i \in 1..Len(t) : Once(t[i].queue) /\ ToSet(p) \cap ToSet(t[i].queue) = {}
    BY <1>2, <1>4, <1>a DEF Apart
  <2>2. \A i, j \in 1..Len(t) : i # j => ToSet(t[i].queue) \cap ToSet(t[j].queue) = {}
    BY <1>2, <1>4, <1>a DEF Apart
  <2> QED
    BY <1>4, <2>1, <2>2 DEF Apart
<1>5. ASSUME Apart(p, t) PROVE Apart(p, s)
  <2>1. \A i \in 1..Len(s) : i \in 1..Len(t) /\ t[i] = s[i]
    BY <1>1
  <2> QED
    BY <1>5, <2>1 DEF Apart
<1> QED
  BY <1>3, <1>4, <1>5 DEF t

\* The buffer becomes the queue of a loop.
LEMMA BufferMoves ==
  ASSUME NEW p \in Seq(Msgs), NEW s \in Seq(Frames)
  PROVE  /\ AllIn(<<>>, Append(s, Draining(p))) = AllIn(p, s)
         /\ Apart(p, s) => Apart(<<>>, Append(s, Draining(p)))
<1> DEFINE t == Append(s, Draining(p))
<1>0. Draining(p) \in Frames /\ Draining(p).queue = p
  BY FrameFacts DEF Draining
<1>1. /\ Len(s) \in Nat /\ Len(t) = Len(s) + 1 /\ t[Len(s) + 1].queue = p
      /\ \A i \in 1..Len(s) : t[i] = s[i]
  BY <1>0, PushFacts
<1> HIDE DEF t
<1>2. ToSet(<<>>) = {} /\ Once(<<>>)
  BY DEF ToSet, Once
<1>3. AllIn(<<>>, t) = AllIn(p, s)
  BY <1>1, <1>2, SMTT(20) DEF AllIn
<1>4. ASSUME Apart(p, s) PROVE Apart(<<>>, t)
  <2>1. \A i \in 1..Len(t) : \/ i \in 1..Len(s) /\ t[i] = s[i]
                             \/ i = Len(s) + 1 /\ t[i].queue = p
    BY <1>1
  <2>2. \A i \in 1..Len(t) : Once(t[i].queue)
    BY <1>4, <2>1 DEF Apart
  <2>3. \A i, j \in 1..Len(t) : i # j => ToSet(t[i].queue) \cap ToSet(t[j].queue) = {}
    BY <1>4, <2>1 DEF Apart
  <2> QED
    BY <1>2, <2>2, <2>3 DEF Apart
<1> QED
  BY <1>3, <1>4 DEF t

\* The queue q is p with the messages `new' and without those of `lost'.
Rewritten(p, q, new, lost) ==
  lost \subseteq ToSet(p) \cup new /\ ToSet(q) = (ToSet(p) \cup new) \ lost

\* The buffer gains and loses messages.
LEMMA BufferChanges ==
  ASSUME NEW p \in Seq(Msgs), NEW s \in Seq(Frames), NEW q \in Seq(Msgs), NEW lost, NEW new,
         Apart(p, s), Once(q), Rewritten(p, q, new, lost), new \cap AllIn(p, s) = {}
  PROVE  Apart(q, s) /\ AllIn(q, s) = (AllIn(p, s) \cup new) \ lost
<1>r. lost \subseteq ToSet(p) \cup new /\ ToSet(q) = (ToSet(p) \cup new) \ lost
  BY DEF Rewritten
<1>1. \A i \in 1..Len(s) : /\ ToSet(s[i].queue) \subseteq AllIn(p, s)
                           /\ ToSet(p) \cap ToSet(s[i].queue) = {}
  BY DEF AllIn, Apart
<1>2. Apart(q, s)
  BY <1>1, <1>r DEF Apart
<1>3. \A i \in 1..Len(s) : ToSet(s[i].queue) \cap lost = {}
  BY <1>1, <1>r
<1>4. AllIn(q, s) = (AllIn(p, s) \cup new) \ lost
  BY <1>1, <1>3, <1>r DEF AllIn
<1> QED
  BY <1>2, <1>4

\* A loop takes the next message out of its queue.
LEMMA LoopTakes ==
  ASSUME NEW p \in Seq(Msgs), NEW s \in Seq(Frames), s # <<>>, Apart(p, s),
         Last(s).queue # <<>>
  PROVE  LET q == Last(s).queue
             t == Append(Front(s), Draining(Tail(q)))
         IN /\ t \in Seq(Frames) /\ Head(q) \in AllIn(p, s)
            /\ Apart(p, t) /\ AllIn(p, t) = AllIn(p, s) \ {Head(q)}
<1> DEFINE n == Len(s)
           q == Last(s).queue
           t == Append(Front(s), Draining(Tail(q)))
<1>1. /\ n \in Nat \ {0} /\ Last(s) \in Frames /\ Last(s) = s[n]
      /\ Front(s) \in Seq(Frames) /\ Len(Front(s)) = n - 1
      /\ \A i \in 1..(n - 1) : Front(s)[i] = s[i]
  BY FrontFacts
<1>2. q \in Seq(Msgs) /\ q = s[n].queue
  BY <1>1, FrameFacts
<1>3. /\ Head(q) = q[1] /\ Tail(q) \in Seq(Msgs) /\ Len(q) \in Nat \ {0}
      /\ Len(Tail(q)) = Len(q) - 1 /\ \A a \in 1..(Len(q) - 1) : Tail(q)[a] = q[a + 1]
  <2>1. Len(q) \in Nat \ {0}
    BY <1>2, EmptySeq
  <2> HIDE DEF q
  <2> QED
    BY <1>2, <2>1, HeadTailProperties
<1>4. Draining(Tail(q)) \in Frames /\ Draining(Tail(q)).queue = Tail(q)
  BY <1>3, FrameFacts DEF Draining
<1>5. /\ t \in Seq(Frames) /\ Len(t) = n /\ t[n].queue = Tail(q)
      /\ \A i \in 1..(n - 1) : t[i] = s[i]
  BY <1>1, <1>4, PushFacts
<1> HIDE DEF n, t, q
<1>n. n = Len(s) /\ n \in 1..Len(s)
  BY <1>1 DEF n
<1>6. Once(q)
  BY <1>2, <1>n DEF Apart
<1>7. Once(Tail(q)) /\ ToSet(Tail(q)) = ToSet(q) \ {Head(q)} /\ Head(q) \in ToSet(q)
  <2>1. Once(Tail(q))
    BY <1>3, <1>6 DEF Once
  <2>2. Head(q) \in ToSet(q)
    BY <1>2, <1>3, ToSetFacts
  <2>3. ASSUME NEW x \in ToSet(Tail(q)) PROVE x \in ToSet(q) \ {Head(q)}
    <3>1. PICK a \in 1..(Len(q) - 1) : x = q[a + 1]
      <4>1. PICK a \in 1..Len(Tail(q)) : x = Tail(q)[a]
        BY <1>3, <2>3, ToSetFacts
      <4> QED
        BY <1>3, <4>1
    <3>2. a + 1 \in 1..Len(q) /\ a + 1 # 1 /\ 1 \in 1..Len(q)
      BY <1>3
    <3> QED
      BY <1>2, <1>3, <1>6, <3>1, <3>2, ToSetFacts DEF Once
  <2>4. ASSUME NEW x \in ToSet(q) \ {Head(q)} PROVE x \in ToSet(Tail(q))
    <3>1. PICK a \in 1..Len(q) : x = q[a]
      BY <1>2, ToSetFacts
    <3>2. a - 1 \in 1..(Len(q) - 1) /\ (a - 1) + 1 = a
      BY <1>3, <2>4, <3>1
    <3>3. x = Tail(q)[a - 1] /\ a - 1 \in 1..Len(Tail(q))
      BY <1>3, <3>1, <3>2
    <3> QED
      BY <1>3, <3>3, ToSetFacts
  <2> QED
    BY <2>1, <2>2, <2>3, <2>4
<1>8. \A i \in 1..(n - 1) : ToSet(s[i].queue) \cap ToSet(q) = {}
  <2>1. \A i \in 1..(n - 1) : i \in 1..Len(s) /\ i # n
    BY <1>1, <1>n
  <2> QED
    BY <1>2, <1>n, <2>1 DEF Apart
<1>9. Apart(p, t)
  <2>1. /\ Once(p)
        /\ \A i \in 1..n : Once(s[i].queue) /\ ToSet(p) \cap ToSet(s[i].queue) = {}
        /\ \A i, j \in 1..n : i # j => ToSet(s[i].queue) \cap ToSet(s[j].queue) = {}
    BY DEF Apart, n
  <2>2. \A i \in 1..n : \/ i = n /\ t[i].queue = Tail(q)
                        \/ i \in 1..(n - 1) /\ t[i].queue = s[i].queue
    BY <1>1, <1>5
  <2>3. \A i \in 1..n : Once(t[i].queue) /\ ToSet(t[i].queue) \subseteq ToSet(s[i].queue)
    BY <1>2, <1>7, <2>1, <2>2
  <2>4. \A i \in 1..n : ToSet(p) \cap ToSet(t[i].queue) = {}
    BY <2>1, <2>3
  <2>5. \A i, j \in 1..n : i # j => ToSet(t[i].queue) \cap ToSet(t[j].queue) = {}
    BY <2>1, <2>3
  <2> QED
    BY <1>5, <2>1, <2>3, <2>4, <2>5 DEF Apart
<1>10. Head(q) \in AllIn(p, s)
  BY <1>1, <1>2, <1>7 DEF AllIn, n
<1>11. AllIn(p, t) = AllIn(p, s) \ {Head(q)}
  <2>1. ToSet(p) \cap ToSet(q) = {}
    BY <1>1, <1>2 DEF Apart, n
  <2>2. AllIn(p, s) = ToSet(p) \cup ToSet(q) \cup UNION {ToSet(s[i].queue) : i \in 1..(n - 1)}
    BY <1>1, <1>2 DEF AllIn, n
  <2>3. AllIn(p, t) =
          ToSet(p) \cup ToSet(Tail(q)) \cup UNION {ToSet(s[i].queue) : i \in 1..(n - 1)}
    <3>1. \A x : x \in AllIn(p, t) <=> \/ x \in ToSet(p)
                                       \/ \E i \in 1..n : x \in ToSet(t[i].queue)
      BY <1>5 DEF AllIn
    <3>2. \A x : (\E i \in 1..n : x \in ToSet(t[i].queue))
                  <=> \/ x \in ToSet(Tail(q))
                      \/ \E i \in 1..(n - 1) : x \in ToSet(s[i].queue)
      <4>1. \A i \in 1..n : i = n \/ i \in 1..(n - 1)
        BY <1>1
      <4>2. n \in 1..n /\ 1..(n - 1) \subseteq 1..n
        BY <1>1
      <4> QED
        BY <1>5, <4>1, <4>2
    <3> QED
      BY <3>1, <3>2
  <2> QED
    BY <1>7, <1>8, <2>1, <2>2, <2>3
<1> QED
  BY <1>5, <1>9, <1>10, <1>11 DEF t, q


(***************************************************************************)
(* Which answers are due.  A message waits in one place or is with its     *)
(* Responder, unanswered; what the host waits for, what it has completed   *)
(* and what arrived wanting an answer add up.                              *)
(***************************************************************************)
OnePlace == Apart(pending, stack) /\ Waiting \cap held = {} /\ Waiting \subseteq 1..arrived

\* What may still be answered has not been, and nothing is answered twice.
Unanswered ==
  /\ \A m \in Msgs : m \in Waiting \cup held \/ m > arrived => responds[m] = 0
  /\ \A m \in Msgs : responds[m] <= 1

\* The host has completed just those it no longer waits for.
HostBooks ==
  /\ \A m \in Msgs : completed[m] = IF m \in wants \ hostPending THEN 1 ELSE 0
  /\ closed => hostPending = {}

\* Until the controller goes, the host waits for what can still be answered.
Due == ~closed => /\ attached /\ alive
                  /\ hostPending = held \cup (Waiting \cap wants)

AnswersInv == OnePlace /\ Unanswered /\ HostBooks /\ Due

\* Where messages wait, by the operators of the section above.
LEMMA WaitingIs == TypeInv => Waiting = AllIn(pending, stack) /\ Waiting \subseteq Msgs
<1> SUFFICES ASSUME TypeInv PROVE Waiting = AllIn(pending, stack) /\ Waiting \subseteq Msgs
  OBVIOUS
<1>1. DOMAIN stack = 1..Len(stack)
  BY DEF TypeInv
<1>2. Waiting = AllIn(pending, stack)
  BY <1>1 DEF Waiting, AllIn
<1>3. ToSet(pending) \subseteq Msgs
  BY ToSetFacts DEF TypeInv, TypeOK
<1>4. \A k \in 1..Len(stack) : ToSet(stack[k].queue) \subseteq Msgs
  BY ToSetFacts, <1>1 DEF TypeInv, TypeOK
<1> QED
  BY <1>2, <1>3, <1>4 DEF AllIn

\* Those of the answered messages whose answer reaches the host.
Told(ids, waiting) == IF alive THEN ids \cap waiting ELSE {}

\* What every step amounts to in the books: the messages `new' arrive, those of
\* `ids' are answered, and what waits or is held afterwards is what did so before
\* and is not answered.
LEMMA BooksStep ==
  ASSUME TypeInv, TypeInv', AnswersInv,
         NEW new \in SUBSET Msgs, NEW ids \in SUBSET Msgs,
         new = {} \/ (new = {arrived + 1} /\ arrived' = arrived + 1 /\ ~closed),
         arrived <= arrived', wants \subseteq wants', wants' \subseteq wants \cup new,
         ids \subseteq (Waiting \cup held \cup new) \cap wants',
         \A m \in Msgs : responds'[m] = responds[m] + IF m \in ids THEN 1 ELSE 0,
         \A m \in Msgs : completed'[m] = completed[m] +
           IF m \in Told(ids, hostPending \cup (new \cap wants')) THEN 1 ELSE 0,
         hostPending' = (hostPending \cup (new \cap wants'))
                          \ Told(ids, hostPending \cup (new \cap wants')),
         Apart(pending', stack'), Waiting' \cap held' = {},
         Waiting' \cup held' \subseteq (Waiting \cup held \cup new) \ ids,
         ~closed => held' \cup (Waiting' \cap wants')
                      = (held \cup ((Waiting \cup new) \cap wants')) \ ids,
         UNCHANGED <<attached, alive, closed>>
  PROVE  AnswersInv'
<1> DEFINE told == Told(ids, hostPending \cup (new \cap wants'))
<1>t. told = IF alive THEN ids \cap (hostPending \cup (new \cap wants')) ELSE {}
  BY DEF Told
<1> HIDE DEF told
<1>c. /\ \A m \in Msgs : completed'[m] = completed[m] + IF m \in told THEN 1 ELSE 0
      /\ hostPending' = (hostPending \cup (new \cap wants')) \ told
  BY DEF told
<1>0. /\ Waiting \subseteq Msgs /\ held \subseteq wants /\ wants \subseteq 1..arrived
      /\ hostPending \subseteq wants /\ Waiting \subseteq 1..arrived /\ arrived \in Nat
      /\ arrived' \in Nat /\ \A m \in Msgs : m \in Int /\ 1 <= m
      /\ \A m \in Msgs : responds[m] \in Nat /\ completed[m] \in Nat
  <2>1. Waiting \subseteq Msgs /\ Waiting \subseteq 1..arrived
    BY WaitingIs DEF AnswersInv, OnePlace
  <2>2. /\ held \subseteq wants /\ wants \subseteq 1..arrived /\ hostPending \subseteq wants
        /\ arrived \in 0..MaxMsgs
        /\ \A m \in Msgs : responds[m] \in Nat /\ completed[m] \in Nat
    BY DEF TypeInv, TypeOK
  <2>3. arrived' \in 0..MaxMsgs
    BY DEF TypeInv, TypeOK
  <2> QED
    BY <2>1, <2>2, <2>3 DEF Msgs
<1>1. /\ new \cap (Waiting \cup held \cup wants) = {} /\ new \subseteq 1..arrived'
      /\ \A m \in new : m > arrived
  <2>1. CASE new = {}
    BY <2>1
  <2>2. CASE new = {arrived + 1} /\ arrived' = arrived + 1
    <3>1. arrived + 1 > arrived /\ arrived + 1 \notin 1..arrived /\ arrived + 1 \in 1..arrived'
      BY <1>0, <2>2
    <3>2. (Waiting \cup held \cup wants) \subseteq 1..arrived
      BY <1>0
    <3> QED
      BY <2>2, <3>1, <3>2
  <2> QED
    BY <2>1, <2>2
<1>2. OnePlace'
  <2>1. ASSUME NEW m \in Waiting' PROVE m \in 1..arrived'
    <3>1. m \in Waiting \cup held \cup new
      BY <2>1
    <3>2. m \in 1..arrived \/ m \in new
      BY <1>0, <3>1
    <3>3. \A a, b \in Nat : a <= b => 1..a \subseteq 1..b
      OBVIOUS
    <3>4. 1..arrived \subseteq 1..arrived'
      BY <1>0, <3>3
    <3> QED
      BY <1>1, <3>2, <3>4
  <2> QED
    BY <2>1 DEF OnePlace
<1>3. Unanswered'
  <2>1. ASSUME NEW m \in Msgs, m \in Waiting' \cup held' \/ m > arrived'
        PROVE  responds'[m] = 0
    <3>1. m \notin ids
      BY <1>0, <1>1, <2>1
    <3>2. responds[m] = 0
      BY <1>0, <1>1, <2>1 DEF AnswersInv, Unanswered
    <3> QED
      BY <3>1, <3>2
  <2>2. ASSUME NEW m \in Msgs PROVE responds'[m] <= 1
    <3>1. m \in ids => responds[m] = 0
      BY <1>1 DEF AnswersInv, Unanswered
    <3> QED
      BY <1>0, <3>1 DEF AnswersInv, Unanswered
  <2> QED
    BY <2>1, <2>2 DEF Unanswered
<1>4. HostBooks'
  <2>1. ASSUME NEW m \in Msgs
        PROVE  completed'[m] = IF m \in wants' \ hostPending' THEN 1 ELSE 0
    <3>1. completed[m] = IF m \in wants \ hostPending THEN 1 ELSE 0
      BY DEF AnswersInv, HostBooks
    <3>2. CASE m \in told
      <4>1. completed[m] = 0 /\ m \in wants' /\ m \notin hostPending'
        BY <1>0, <1>1, <1>t, <1>c, <3>1, <3>2
      <4> QED
        BY <1>c, <3>2, <4>1
    <3>3. CASE m \notin told
      <4>1. m \in wants \ hostPending <=> m \in wants' \ hostPending'
        BY <1>0, <1>1, <1>c, <3>3
      <4> QED
        BY <1>0, <1>c, <3>1, <3>3, <4>1
    <3> QED
      BY <3>2, <3>3
  <2>2. closed' => hostPending' = {}
    BY <1>c DEF AnswersInv, HostBooks
  <2> QED
    BY <2>1, <2>2 DEF HostBooks
<1>5. Due'
  <2> SUFFICES ASSUME ~closed
               PROVE  attached' /\ alive' /\ hostPending' = held' \cup (Waiting' \cap wants')
    BY DEF Due
  <2>1. attached /\ alive /\ hostPending = held \cup (Waiting \cap wants)
    BY DEF AnswersInv, Due
  <2>2. told = ids \cap (hostPending \cup (new \cap wants'))
    BY <1>t, <2>1
  <2>3. Waiting \cap wants = Waiting \cap wants'
    BY <1>1
  <2>4. hostPending' = held' \cup (Waiting' \cap wants')
    BY <1>c, <2>1, <2>2, <2>3
  <2> QED
    BY <2>1, <2>4
<1> QED
  BY <1>2, <1>3, <1>4, <1>5 DEF AnswersInv

\* A step that answers nothing and receives nothing, and may move what waits.
LEMMA QuietStep ==
  ASSUME TypeInv, TypeInv', AnswersInv, Apart(pending', stack'), Waiting' = Waiting,
         UNCHANGED <<held, arrived, wants, wireVars, attached, alive, closed>>
  PROVE  AnswersInv'
BY DEF AnswersInv, OnePlace, Unanswered, HostBooks, Due, wireVars

\* The books after Respond.
LEMMA RespondBooks ==
  ASSUME TypeInv, NEW ids, NEW waiting, Respond(ids, waiting, 1)
  PROVE  /\ \A m \in Msgs : responds'[m] = responds[m] + IF m \in ids THEN 1 ELSE 0
         /\ \A m \in Msgs : completed'[m] = completed[m] +
              IF m \in Told(ids, waiting) THEN 1 ELSE 0
         /\ hostPending' = waiting \ Told(ids, waiting)
BY DEF Respond, Told

\* The books after nothing.
LEMMA SilentBooks ==
  ASSUME TypeInv, UNCHANGED <<responds, completed>>, NEW waiting, hostPending' = waiting
  PROVE  /\ \A m \in Msgs : responds'[m] = responds[m] + IF m \in {} THEN 1 ELSE 0
         /\ \A m \in Msgs : completed'[m] = completed[m] +
              IF m \in Told({}, waiting) THEN 1 ELSE 0
         /\ hostPending' = waiting \ Told({}, waiting)
BY DEF TypeInv, TypeOK, Told

\* Nobody has called yet.
LEMMA InitAnswers == Init => AnswersInv
<1> SUFFICES ASSUME Init PROVE AnswersInv
  OBVIOUS
<1>1. TypeInv
  BY InitTypeInv
<1>2. AllIn(<<>>, <<>>) = {} /\ Apart(<<>>, <<>>)
  BY DEF AllIn, Apart, Once, ToSet
<1>3. Waiting = {}
  BY <1>1, <1>2, WaitingIs DEF Init
<1>4. OnePlace
  BY <1>2, <1>3 DEF Init, OnePlace
<1>5. Unanswered /\ HostBooks
  BY DEF Init, Unanswered, HostBooks
<1>6. attached /\ alive
  BY Zenon DEF Init
<1>7. Due
  BY <1>3, <1>6 DEF Init, Due
<1> QED
  BY <1>4, <1>5, <1>7 DEF AnswersInv


\* Where messages wait after a step.
LEMMA WaitingNext == TypeInv' => Waiting' = AllIn(pending', stack')
<1> SUFFICES ASSUME TypeInv' PROVE Waiting' = AllIn(pending', stack')
  OBVIOUS
<1>1. DOMAIN stack' = 1..Len(stack')
  BY DEF TypeInv
<1> QED
  BY <1>1 DEF Waiting, AllIn

\* Handing a message over: to a handler, whose Responder holds it from then on,
\* or to nobody, which answers it with nothing.
LEMMA DeliverAnswers ==
  ASSUME TypeInv, TypeInv', AnswersInv,
         NEW m \in Msgs, NEW new \in SUBSET {m}, NEW below \in Seq(Frames),
         new = {} \/ (new = {arrived + 1} /\ arrived' = arrived + 1 /\ ~closed),
         arrived <= arrived', wants \subseteq wants', wants' \subseteq wants \cup new,
         m \in Waiting \cup new,
         Apart(pending, below), AllIn(pending, below) = Waiting \ {m},
         Deliver(m, below, wants', hostPending \cup (new \cap wants')),
         UNCHANGED <<pending, attached, alive, closed>>
  PROVE  AnswersInv'
<1> DEFINE waiting == hostPending \cup (new \cap wants')
<1>0. Waiting' = AllIn(pending, stack') /\ Waiting \cap held = {} /\ m \notin held
  <2>0. held \subseteq 1..arrived /\ arrived + 1 \notin 1..arrived
    BY DEF TypeInv, TypeOK
  <2>1. m \in new => m \notin held
    BY <2>0
  <2> QED
    BY <2>1, WaitingNext DEF AnswersInv, OnePlace
<1>d. ~closed => attached
  BY DEF AnswersInv, Due
<1>1. CASE handler # None
  <2>1. /\ stack' = Append(below, Running(m, handler))
        /\ held' = held \cup ({m} \cap wants')
        /\ hostPending' = waiting
        /\ UNCHANGED <<responds, completed>>
    BY <1>1 DEF Deliver
  <2>2. Running(m, handler) \in Frames /\ Running(m, handler).queue = <<>>
    BY <1>1, FrameFacts DEF Running, TypeInv, TypeOK, None
  <2>3. Apart(pending, stack') /\ Waiting' = Waiting \ {m}
    BY <1>0, <2>1, <2>2, EmptyCall DEF TypeInv, TypeOK
  <2>4. /\ \A x \in Msgs : responds'[x] = responds[x] + IF x \in {} THEN 1 ELSE 0
        /\ \A x \in Msgs : completed'[x] = completed[x] +
                  IF x \in Told({}, waiting) THEN 1 ELSE 0
        /\ hostPending' = waiting \ Told({}, waiting)
    BY <2>1, SilentBooks
  <2>5. /\ Waiting' \cap held' = {}
        /\ Waiting' \cup held' \subseteq (Waiting \cup held \cup new) \ {}
        /\ held' \cup (Waiting' \cap wants') = (held \cup ((Waiting \cup new) \cap wants')) \ {}
    BY <1>0, <2>1, <2>3
  <2>6. {} \in SUBSET Msgs /\ new \in SUBSET Msgs
        /\ {} \subseteq (Waiting \cup held \cup new) \cap wants'
    OBVIOUS
  <2> QED
    BY <2>3, <2>4, <2>5, <2>6, BooksStep
<1>2. CASE handler = None
  <2> DEFINE ids == IF attached THEN {m} \cap wants' ELSE {}
  <2>1. stack' = below /\ held' = held /\ Respond(ids, waiting, 1)
    BY <1>2 DEF Deliver, Discard
  <2>2. /\ \A x \in Msgs : responds'[x] = responds[x] + IF x \in ids THEN 1 ELSE 0
        /\ \A x \in Msgs : completed'[x] = completed[x] +
                  IF x \in Told(ids, waiting) THEN 1 ELSE 0
        /\ hostPending' = waiting \ Told(ids, waiting)
    <3> HIDE DEF ids, waiting
    <3> QED
      BY <2>1, RespondBooks, Zenon
  <2>3. Apart(pending', stack') /\ Waiting' = Waiting \ {m}
    BY <1>0, <2>1
  <2>4. ids \subseteq {m} /\ ids \subseteq wants' /\ (~closed => ids = {m} \cap wants')
    BY <1>d
  <2> HIDE DEF ids
  <2>6. /\ ids \subseteq (Waiting \cup held \cup new) \cap wants'
        /\ Waiting' \cap held' = {}
        /\ Waiting' \cup held' \subseteq (Waiting \cup held \cup new) \ ids
        /\ ids \in SUBSET Msgs /\ new \in SUBSET Msgs
    BY <1>0, <2>1, <2>3, <2>4
  <2>7. ~closed => held' \cup (Waiting' \cap wants')
                     = (held \cup ((Waiting \cup new) \cap wants')) \ ids
    BY <1>0, <2>1, <2>3, <2>4
  <2> QED
    BY <2>2, <2>3, <2>6, <2>7, BooksStep
<1> QED
  BY <1>1, <1>2

\* Messages that overflow, the one that arrives among them, are answered with
\* nothing.
LEMMA DiscardAnswers ==
  ASSUME TypeInv, TypeInv', AnswersInv,
         NEW new \in SUBSET Msgs, NEW lost \in SUBSET Msgs,
         new = {} \/ (new = {arrived + 1} /\ arrived' = arrived + 1 /\ ~closed),
         arrived <= arrived', wants \subseteq wants', wants' \subseteq wants \cup new,
         lost \subseteq Waiting \cup new,
         Apart(pending', stack'), Waiting' = (Waiting \cup new) \ lost,
         Discard(lost, wants', hostPending \cup (new \cap wants')),
         UNCHANGED <<held, attached, alive, closed>>
  PROVE  AnswersInv'
<1> DEFINE waiting == hostPending \cup (new \cap wants')
           ids == IF attached THEN lost \cap wants' ELSE {}
<1>0. Waiting \cap held = {} /\ new \cap held = {} /\ (~closed => attached)
  <2>1. new \cap held = {}
    BY DEF TypeInv, TypeOK
  <2> QED
    BY <2>1 DEF AnswersInv, OnePlace, Due
<1>1. /\ \A x \in Msgs : responds'[x] = responds[x] + IF x \in ids THEN 1 ELSE 0
      /\ \A x \in Msgs : completed'[x] = completed[x] +
                  IF x \in Told(ids, waiting) THEN 1 ELSE 0
      /\ hostPending' = waiting \ Told(ids, waiting)
  <2>1. Respond(ids, waiting, 1)
    BY DEF Discard
  <2> HIDE DEF ids, waiting
  <2> QED
    BY <2>1, RespondBooks, Zenon
<1>2. ids \subseteq lost /\ ids \subseteq wants' /\ (~closed => ids = lost \cap wants')
  BY <1>0
<1> HIDE DEF ids
<1>4. /\ ids \subseteq (Waiting \cup held \cup new) \cap wants' /\ ids \in SUBSET Msgs
      /\ Waiting' \cap held' = {}
      /\ Waiting' \cup held' \subseteq (Waiting \cup held \cup new) \ ids
  BY <1>0, <1>2
<1>5. ~closed => held' \cup (Waiting' \cap wants')
                   = (held \cup ((Waiting \cup new) \cap wants')) \ ids
  BY <1>0, <1>2
<1> QED
  BY <1>1, <1>4, <1>5, BooksStep

\* What the buffer loses are its oldest messages.
LEMMA DroppedFacts ==
  ASSUME NEW q \in Seq(Msgs), NEW keep \in Nat
  PROVE  Dropped(q, keep) \in 0..Len(q)
BY LenProperties DEF Dropped


\* A call that ends with nothing in its queue takes nothing away.
LEMMA EmptyReturn ==
  ASSUME NEW p \in Seq(Msgs), NEW s \in Seq(Frames), s # <<>>, Last(s).queue = <<>>
  PROVE  /\ Front(s) \in Seq(Frames)
         /\ AllIn(p, Front(s)) = AllIn(p, s)
         /\ Apart(p, s) => Apart(p, Front(s))
<1>1. /\ Len(s) \in Nat \ {0} /\ Last(s) \in Frames /\ Last(s) = s[Len(s)]
      /\ Front(s) \in Seq(Frames) /\ Len(Front(s)) = Len(s) - 1
      /\ \A i \in 1..(Len(s) - 1) : Front(s)[i] = s[i]
  BY FrontFacts
<1>2. s = Append(Front(s), Last(s))
  <2> DEFINE t == Append(Front(s), Last(s))
  <2>1. /\ t \in Seq(Frames) /\ Len(t) = Len(s) /\ t[Len(s)] = s[Len(s)]
        /\ \A i \in 1..(Len(s) - 1) : t[i] = s[i]
    BY <1>1, PushFacts
  <2>2. \A i \in 1..Len(s) : t[i] = s[i]
    BY <1>1, <2>1
  <2> HIDE DEF t
  <2>3. t = s
    BY <2>1, <2>2, SeqEqual
  <2> QED
    BY <2>3 DEF t
<1> QED
  BY <1>1, <1>2, EmptyCall

\* Every step keeps the answers in order.
LEMMA NextAnswers == TypeInv /\ AnswersInv /\ [Next]_vars => AnswersInv'
<1> SUFFICES ASSUME TypeInv, AnswersInv, [Next]_vars PROVE AnswersInv'
  OBVIOUS
<1> USE DEF chanVars, hostVars
<1>a. TypeInv' /\ Waiting' = AllIn(pending', stack') /\ Waiting = AllIn(pending, stack)
  BY NextTypeInv, WaitingNext, WaitingIs
<1>b. pending \in Seq(Msgs) /\ stack \in Seq(Frames) /\ arrived \in Nat /\ capacity \in Nat
  BY DEF TypeInv, TypeOK
<1>c. /\ Apart(pending, stack) /\ Once(pending) /\ Waiting \subseteq 1..arrived
      /\ ToSet(pending) \subseteq Waiting
  BY <1>a DEF AnswersInv, OnePlace, Apart, AllIn
<1>q. ASSUME UNCHANGED <<pending, stack, held, arrived, wants, wireVars, attached, alive,
                         closed>>
      PROVE  AnswersInv'
  BY <1>a, <1>c, <1>q, QuietStep
<1>1. CASE Arrive
  <2>0. PICK wanting \in {wants, wants \cup {arrived'}} :
          LET m == arrived'
              waiting == hostPending \cup ({m} \cap wanting)
              queue == IF capacity = 0 THEN <<m>> ELSE Append(pending, m)
              out == IF capacity = 0 THEN 1 ELSE Dropped(queue, capacity)
              lost == {queue[i] : i \in 1..out}
          IN /\ wants' = wanting
             /\ \/ /\ handler # None
                   /\ Deliver(m, stack, wanting, waiting)
                   /\ UNCHANGED pending
                \/ /\ handler = None /\ loaned
                   /\ pending' = Append(pending, m)
                   /\ fate' = [fate EXCEPT ![m] = "waiting"]
                   /\ hostPending' = waiting
                   /\ UNCHANGED <<handler, loaned, stack, held, responds, completed>>
                \/ /\ ~Listening
                   /\ pending' = IF capacity = 0 THEN pending
                                                 ELSE SubSeq(queue, out + 1, Len(queue))
                   /\ fate' = [n \in Msgs |-> IF n \in lost THEN "dropped"
                                              ELSE IF n = m THEN "waiting"
                                              ELSE fate[n]]
                   /\ Discard(lost, wanting, waiting)
                   /\ UNCHANGED <<handler, loaned, stack, held>>
    BY <1>1, Zenon DEF Arrive
  <2> DEFINE m == arrived'
             waiting == hostPending \cup ({m} \cap wants')
             queue == IF capacity = 0 THEN <<m>> ELSE Append(pending, m)
             out == IF capacity = 0 THEN 1 ELSE Dropped(queue, capacity)
             lost == {queue[i] : i \in 1..out}
  <2>1. /\ m = arrived + 1 /\ ~closed /\ arrived <= arrived'
        /\ UNCHANGED <<attached, alive, closed>>
    BY <1>1, <1>b DEF Arrive
  <2>2. m \in Msgs /\ m \notin Waiting
    BY <1>1, <1>b, <1>c DEF Arrive, Msgs
  <2>3. wants \subseteq wants' /\ wants' \subseteq wants \cup {m}
    BY <2>0
  <2>4. CASE Deliver(m, stack, wants', waiting) /\ UNCHANGED pending
    <3>1. AllIn(pending, stack) = Waiting \ {m} /\ m \in Waiting \cup {m}
      BY <1>a, <2>2
    <3> HIDE DEF m
    <3>2. {m} \in SUBSET {m} /\ ({m} = {} \/ ({m} = {arrived + 1} /\ arrived' = arrived + 1 /\ ~closed))
      BY <2>1 DEF m
    <3> QED
      BY <1>a, <1>b, <1>c, <2>1, <2>2, <2>3, <2>4, <3>1, <3>2, DeliverAnswers
  <2>5. CASE /\ pending' = Append(pending, m) /\ hostPending' = waiting
             /\ UNCHANGED <<stack, held, responds, completed>>
    <3>1. /\ Append(pending, m) \in Seq(Msgs) /\ Once(Append(pending, m))
          /\ ToSet(Append(pending, m)) = (ToSet(pending) \cup {m}) \ {}
      BY <1>b, <1>c, <2>2, AppendOnce
    <3>2. Apart(pending', stack') /\ Waiting' = Waiting \cup {m}
      <4>1. {} \subseteq ToSet(pending) \cup {m} /\ {m} \cap AllIn(pending, stack) = {}
        BY <1>a, <2>2
      <4>2. /\ Apart(Append(pending, m), stack)
            /\ AllIn(Append(pending, m), stack) = (AllIn(pending, stack) \cup {m}) \ {}
        <5>1. Rewritten(pending, Append(pending, m), {m}, {})
          BY <3>1, <4>1 DEF Rewritten
        <5> DEFINE q == Append(pending, m)
                   none == {}
        <5>2. q \in Seq(Msgs) /\ Once(q) /\ Rewritten(pending, q, {m}, none)
              /\ {m} \cap AllIn(pending, stack) = {}
          BY <3>1, <4>1, <5>1
        <5> HIDE DEF m, q, none
        <5>3. Apart(q, stack) /\ AllIn(q, stack) = (AllIn(pending, stack) \cup {m}) \ none
          BY <1>b, <1>c, <5>2, BufferChanges
        <5> QED
          BY <5>3 DEF q, none
      <4> QED
        BY <1>a, <2>5, <4>2
    <3>3. /\ \A x \in Msgs : responds'[x] = responds[x] + IF x \in {} THEN 1 ELSE 0
          /\ \A x \in Msgs : completed'[x] = completed[x] +
                  IF x \in Told({}, waiting) THEN 1 ELSE 0
          /\ hostPending' = waiting \ Told({}, waiting)
      BY <2>5, SilentBooks
    <3>4. m \notin held
      BY <1>b, <2>1 DEF TypeInv, TypeOK
    <3>5. /\ Waiting' \cap held' = {}
          /\ Waiting' \cup held' \subseteq (Waiting \cup held \cup {m}) \ {}
          /\ held' \cup (Waiting' \cap wants') = (held \cup ((Waiting \cup {m}) \cap wants')) \ {}
      BY <2>2, <2>5, <3>2, <3>4 DEF AnswersInv, OnePlace
    <3>6. /\ {m} \in SUBSET Msgs /\ {} \in SUBSET Msgs
          /\ {m} = {} \/ ({m} = {arrived + 1} /\ arrived' = arrived + 1 /\ ~closed)
          /\ {} \subseteq (Waiting \cup held \cup {m}) \cap wants'
      BY <2>1, <2>2
    <3> HIDE DEF m
    <3> QED
      BY <1>a, <2>1, <2>3, <3>2, <3>3, <3>5, <3>6, BooksStep
  <2>6. CASE /\ pending' = IF capacity = 0 THEN pending
                                           ELSE SubSeq(queue, out + 1, Len(queue))
             /\ Discard(lost, wants', waiting)
             /\ UNCHANGED <<stack, held>>
    <3>1. /\ Apart(pending', stack') /\ Waiting' = (Waiting \cup {m}) \ lost
          /\ lost \subseteq Waiting \cup {m}
      <4>1. CASE capacity = 0
        <5>1. lost = {m}
          <6>1. lost = {<<m>>[i] : i \in 1..1}
            BY <4>1
          <6> HIDE DEF lost, m
          <6> QED
            BY <6>1
        <5> QED
          BY <1>a, <1>c, <2>2, <2>6, <4>1, <5>1
      <4>2. CASE capacity # 0
        <5>1. queue = Append(pending, m) /\ out = Dropped(queue, capacity)
          BY <4>2
        <5>2. queue \in Seq(Msgs) /\ Once(queue) /\ ToSet(queue) = ToSet(pending) \cup {m}
          BY <1>b, <1>c, <2>2, <5>1, AppendOnce
        <5> HIDE DEF queue
        <5>3. out \in 0..Len(queue)
          BY <1>b, <5>1, <5>2, DroppedFacts
        <5>4. pending' = SubSeq(queue, out + 1, Len(queue)) /\ UNCHANGED stack
          BY <2>6, <4>2
        <5> HIDE DEF out, m
        <5>5. /\ pending' \in Seq(Msgs) /\ Once(pending')
              /\ ToSet(pending') = (ToSet(pending) \cup {m}) \ lost
              /\ lost \subseteq ToSet(pending) \cup {m}
          BY <5>2, <5>3, <5>4, SubSeqOnce
        <5>6. {m} \cap AllIn(pending, stack) = {}
          BY <1>a, <2>2
        <5> HIDE DEF lost
        <5>7. Apart(pending', stack) /\ AllIn(pending', stack) = (AllIn(pending, stack) \cup {m}) \ lost
          <6>1. Rewritten(pending, pending', {m}, lost)
            BY <5>5 DEF Rewritten
          <6> QED
            BY <1>b, <1>c, <5>5, <5>6, <6>1, BufferChanges
        <5> QED
          BY <1>a, <1>c, <5>4, <5>5, <5>7
      <4> QED
        BY <4>1, <4>2
    <3> HIDE DEF lost, m
    <3>2. /\ {m} \in SUBSET Msgs /\ lost \in SUBSET Msgs
          /\ {m} = {} \/ ({m} = {arrived + 1} /\ arrived' = arrived + 1 /\ ~closed)
      BY <1>a, <2>1, <2>2, <3>1, WaitingIs DEF m
    <3> QED
      BY <1>a, <2>1, <2>3, <2>6, <3>1, <3>2, DiscardAnswers
  <2> QED
    BY <2>0, <2>4, <2>5, <2>6
<1>2. CASE HandlerReturns
  <2>1. ~Idle /\ Last(stack).kind = "running" /\ Last(stack) \in Frames
    BY <1>2, <1>b, FrontFacts DEF HandlerReturns, InHandler, Idle
  <2>2. Last(stack).queue = <<>>
    BY <2>1, FrameFacts
  <2>3. /\ Front(stack) \in Seq(Frames) /\ AllIn(pending, Front(stack)) = Waiting
        /\ Apart(pending, Front(stack))
    BY <1>a, <1>b, <1>c, <2>1, <2>2, EmptyReturn DEF Idle
  <2>4. UNCHANGED <<held, arrived, wants, wireVars, attached, alive, closed>>
    BY <1>2 DEF HandlerReturns
  <2>5. \/ stack' = Append(Front(stack), Draining(pending)) /\ pending' = <<>>
        \/ stack' = Front(stack) /\ pending' = pending
    BY <1>2, Zenon DEF HandlerReturns
  <2>6. Apart(pending', stack') /\ Waiting' = Waiting
    BY <1>a, <1>b, <2>3, <2>5, BufferMoves
  <2> QED
    BY <1>a, <2>4, <2>6, QuietStep
<1>3. CASE DeliverQueued
  <2> DEFINE queue == Last(stack).queue
             below == Append(Front(stack), Draining(Tail(queue)))
  <2>0. ~Idle /\ queue \in Seq(Msgs) /\ UNCHANGED <<pending, arrived, wants, attached, alive, closed>>
    BY <1>3, <1>b, FrontFacts, FrameFacts DEF DeliverQueued, Idle
  <2>1. CASE queue = <<>>
    <3>1. stack' = Front(stack) /\ UNCHANGED <<held, wireVars>>
      BY <1>3, <2>1 DEF DeliverQueued
    <3>2. AllIn(pending, Front(stack)) = Waiting /\ Apart(pending, Front(stack))
      BY <1>a, <1>b, <1>c, <2>0, <2>1, EmptyReturn DEF Idle
    <3> QED
      BY <1>a, <2>0, <3>1, <3>2, QuietStep
  <2>2. CASE queue # <<>>
    <3>1. /\ below \in Seq(Frames) /\ Head(queue) \in Waiting
          /\ Apart(pending, below) /\ AllIn(pending, below) = Waiting \ {Head(queue)}
      BY <1>a, <1>b, <1>c, <2>0, <2>2, LoopTakes DEF Idle
    <3>2. Deliver(Head(queue), below, wants, hostPending)
      BY <1>3, <2>2 DEF DeliverQueued
    <3>3. Head(queue) \in Msgs
      BY <3>1, WaitingIs
    <3> HIDE DEF below, queue
    <3>4. hostPending \cup ({} \cap wants') = hostPending /\ wants' = wants
      BY <2>0
    <3>5. Deliver(Head(queue), below, wants', hostPending \cup ({} \cap wants'))
      BY <3>2, <3>4
    <3>6. /\ {} \in SUBSET {Head(queue)} /\ arrived <= arrived' /\ wants \subseteq wants'
          /\ wants' \subseteq wants \cup {} /\ Head(queue) \in Waiting \cup {}
          /\ {} = {} \/ ({} = {arrived + 1} /\ arrived' = arrived + 1 /\ ~closed)
      BY <1>b, <2>0, <3>1
    <3> QED
      BY <1>a, <2>0, <3>1, <3>3, <3>5, <3>6, DeliverAnswers
  <2> QED
    BY <2>1, <2>2
<1>4. CASE SetHandler
  <2>1. /\ stack' = Append(stack, Draining(pending)) /\ pending' = <<>>
        /\ UNCHANGED <<held, arrived, wants, wireVars, attached, alive, closed>>
    BY <1>4 DEF SetHandler
  <2>2. Apart(pending', stack') /\ Waiting' = Waiting
    BY <1>a, <1>b, <1>c, <2>1, BufferMoves
  <2> QED
    BY <1>a, <2>1, <2>2, QuietStep
<1>5. CASE ClearHandler
  BY <1>5, <1>q DEF ClearHandler
<1>6. CASE Resize
  <2>1. PICK size \in Capacities \ {capacity} :
          LET out == Dropped(pending, size)
              lost == {pending[i] : i \in 1..out}
          IN /\ capacity' = size
             /\ pending' = SubSeq(pending, out + 1, Len(pending))
             /\ fate' = [m \in Msgs |-> IF m \in lost THEN "dropped" ELSE fate[m]]
             /\ Discard(lost, wants, hostPending)
    BY <1>6, Zenon DEF Resize
  <2> DEFINE out == Dropped(pending, size)
             lost == {pending[i] : i \in 1..out}
  <2>2. UNCHANGED <<stack, held, arrived, wants, attached, alive, closed>>
    BY <1>6 DEF Resize
  <2>3. out \in 0..Len(pending)
    BY <1>b, DroppedFacts
  <2> HIDE DEF out
  <2>4. pending' = SubSeq(pending, out + 1, Len(pending)) /\ Discard(lost, wants, hostPending)
    BY <2>1 DEF out
  <2>5. /\ pending' \in Seq(Msgs) /\ Once(pending')
        /\ ToSet(pending') = (ToSet(pending) \cup {}) \ lost
        /\ lost \subseteq ToSet(pending) \cup {}
    BY <1>b, <1>c, <2>3, <2>4, SubSeqOnce
  <2> HIDE DEF lost
  <2>6. {} \cap AllIn(pending, stack) = {}
    OBVIOUS
  <2>7. Apart(pending', stack) /\ AllIn(pending', stack) = (AllIn(pending, stack) \cup {}) \ lost
    <3>1. Rewritten(pending, pending', {}, lost)
      BY <2>5 DEF Rewritten
    <3> QED
      BY <1>b, <1>c, <2>5, <2>6, <3>1, BufferChanges
  <2>8. Apart(pending', stack') /\ Waiting' = (Waiting \cup {}) \ lost
    BY <1>a, <2>2, <2>7
  <2>9. hostPending \cup ({} \cap wants') = hostPending /\ wants' = wants
    BY <2>2
  <2>10. Discard(lost, wants', hostPending \cup ({} \cap wants'))
    BY <2>4, <2>9
  <2>11. /\ {} \in SUBSET Msgs /\ lost \in SUBSET Msgs /\ arrived <= arrived'
         /\ wants \subseteq wants' /\ wants' \subseteq wants \cup {}
         /\ lost \subseteq Waiting \cup {}
         /\ {} = {} \/ ({} = {arrived + 1} /\ arrived' = arrived + 1 /\ ~closed)
    <3>1. lost \subseteq Waiting /\ Waiting \subseteq Msgs
      BY <1>c, <2>5, WaitingIs
    <3>2. arrived <= arrived' /\ wants' = wants
      BY <1>b, <2>2
    <3> QED
      BY <3>1, <3>2
  <2> QED
    BY <1>a, <2>2, <2>8, <2>10, <2>11, DiscardAnswers
<1>7. CASE Answer
  <2>1. PICK m \in held : held' = held \ {m} /\ Respond({m}, hostPending, 1)
    BY <1>7 DEF Answer, GuardCalls
  <2>2. /\ UNCHANGED <<pending, stack, arrived, wants, attached, alive, closed>>
        /\ m \in wants /\ m \in Msgs /\ m \notin Waiting
    BY <1>7, <2>1 DEF Answer, TypeInv, TypeOK, Msgs, AnswersInv, OnePlace
  <2>3. Waiting' = Waiting /\ Apart(pending', stack')
    BY <1>a, <1>c, <2>2
  <2>4. hostPending \cup ({} \cap wants') = hostPending
    OBVIOUS
  <2>5. Respond({m}, hostPending \cup ({} \cap wants'), 1)
    BY <2>1, <2>4
  <2>6. /\ \A x \in Msgs : responds'[x] = responds[x] + IF x \in {m} THEN 1 ELSE 0
        /\ \A x \in Msgs : completed'[x] = completed[x] +
             IF x \in Told({m}, hostPending \cup ({} \cap wants')) THEN 1 ELSE 0
        /\ hostPending' = (hostPending \cup ({} \cap wants'))
                            \ Told({m}, hostPending \cup ({} \cap wants'))
    BY <2>5, RespondBooks, Zenon
  <2>7. /\ {} \in SUBSET Msgs /\ {m} \in SUBSET Msgs /\ arrived <= arrived'
        /\ wants \subseteq wants' /\ wants' \subseteq wants \cup {}
        /\ {m} \subseteq (Waiting \cup held \cup {}) \cap wants'
        /\ {} = {} \/ ({} = {arrived + 1} /\ arrived' = arrived + 1 /\ ~closed)
    BY <1>b, <2>2
  <2>8. /\ Waiting' \cap held' = {}
        /\ Waiting' \cup held' \subseteq (Waiting \cup held \cup {}) \ {m}
        /\ held' \cup (Waiting' \cap wants') = (held \cup ((Waiting \cup {}) \cap wants')) \ {m}
    BY <2>1, <2>2, <2>3 DEF AnswersInv, OnePlace
  <2> QED
    BY <1>a, <2>2, <2>3, <2>6, <2>7, <2>8, BooksStep
<1>8. CASE HostCloses
  <2>1. /\ closed' = TRUE /\ hostPending' = {}
        /\ completed' = [m \in Msgs |-> completed[m] + IF m \in hostPending THEN 1 ELSE 0]
        /\ UNCHANGED <<pending, stack, held, arrived, wants, responds, attached, alive>>
    BY <1>8 DEF HostCloses
  <2>2. Waiting' = Waiting
    BY <1>a, <2>1
  <2>3. OnePlace' /\ Unanswered'
    BY <2>1, <2>2 DEF AnswersInv, OnePlace, Unanswered
  <2>4. HostBooks'
    <3>1. \A m \in Msgs : completed[m] = IF m \in wants \ hostPending THEN 1 ELSE 0
      BY DEF AnswersInv, HostBooks
    <3>2. hostPending \subseteq wants
      BY DEF TypeInv, TypeOK
    <3>3. \A m \in Msgs : completed'[m] = IF m \in wants' \ hostPending' THEN 1 ELSE 0
      BY <2>1, <3>1, <3>2
    <3> QED
      BY <2>1, <3>3 DEF HostBooks
  <2>5. Due'
    BY <2>1 DEF Due
  <2> QED
    BY <2>3, <2>4, <2>5 DEF AnswersInv
<1>9. CASE Detach
  <2>1. /\ stack' = <<>> /\ pending' = <<>> /\ closed /\ closed' = closed
        /\ UNCHANGED <<held, arrived, wants, wireVars>>
    BY <1>9 DEF Detach, Idle
  <2>2. Waiting' = {} /\ Apart(pending', stack')
    BY <1>a, <2>1 DEF AllIn, Apart, Once, ToSet
  <2>3. OnePlace' /\ Unanswered'
    BY <2>1, <2>2 DEF AnswersInv, OnePlace, Unanswered, wireVars
  <2>4. HostBooks'
    BY <2>1 DEF AnswersInv, HostBooks, wireVars
  <2>5. Due'
    BY <2>1 DEF Due
  <2> QED
    BY <2>3, <2>4, <2>5 DEF AnswersInv
<1>10. CASE UNCHANGED vars
  BY <1>10, <1>q DEF vars
<1> QED
  BY <1>1, <1>2, <1>3, <1>4, <1>5, <1>6, <1>7, <1>8, <1>9, <1>10 DEF Next

(***************************************************************************)
(* The theorems.                                                           *)
(***************************************************************************)
MessengerIInv == TypeInv /\ LoanInv /\ AnswersInv

\* What every reachable state of the channel keeps.
THEOREM Inductive == Spec => []MessengerIInv
<1>1. Init => MessengerIInv
  BY InitTypeInv, InitLoan, InitAnswers DEF MessengerIInv
<1>2. MessengerIInv /\ [Next]_vars => MessengerIInv'
  BY NextTypeInv, NextLoan, NextAnswers DEF MessengerIInv
<1> QED
  BY <1>1, <1>2, PTL DEF Spec

\* The handler in the map is the last one installed, however deep the calls in
\* which handlers replaced and removed themselves (services/mod.rs, deliver).
THEOREM CurrentHandler == Spec => []HandlerIsCurrent
<1>1. MessengerIInv => HandlerIsCurrent
  BY DEF MessengerIInv, LoanInv
<1> QED
  BY <1>1, Inductive, PTL

\* Every response id comes back exactly once, by whichever way the message left,
\* and the embedder knows whether anybody listens.
THEOREM AnswersComeBack == Spec => []MessengerInv
<1>1. MessengerIInv => MessengerInv
  <2> SUFFICES ASSUME MessengerIInv PROVE MessengerInv
    OBVIOUS
  <2>1. TypeOK /\ EmbedderKnows
    BY DEF MessengerIInv, TypeInv, LoanInv
  <2>2. NothingStranded
    <3> SUFFICES ASSUME ~closed, NEW m \in Msgs
                 PROVE  (m \in hostPending) <=> (m \in held) # (m \in Waiting /\ m \in wants)
      BY DEF NothingStranded
    <3>1. /\ m \in hostPending <=> m \in held \/ (m \in Waiting /\ m \in wants)
          /\ ~(m \in held /\ m \in Waiting)
      BY DEF MessengerIInv, AnswersInv, Due, OnePlace
    <3>2. CASE m \in held
      <4>1. (m \in held) = TRUE /\ (m \in Waiting /\ m \in wants) = FALSE
        BY <3>1, <3>2
      <4> QED
        BY <3>1, <3>2, <4>1
    <3>3. CASE m \notin held
      <4>1. (m \in held) = FALSE
        BY <3>3
      <4>2. CASE m \in Waiting /\ m \in wants
        BY <3>1, <4>1, <4>2
      <4>3. CASE ~(m \in Waiting /\ m \in wants)
        BY <3>1, <4>1, <4>3
      <4> QED
        BY <4>2, <4>3
    <3> QED
      BY <3>2, <3>3
  <2>3. AnsweredOnce
    <3>1. \A m \in Msgs : responds[m] <= 1
      BY DEF MessengerIInv, AnswersInv, Unanswered
    <3>2. /\ \A m \in Msgs : completed[m] = IF m \in wants \ hostPending THEN 1 ELSE 0
          /\ closed => hostPending = {}
      BY DEF MessengerIInv, AnswersInv, HostBooks
    <3>3. \A m \in Msgs : completed[m] <= 1
      BY <3>2
    <3>4. wants \subseteq Msgs
      BY DEF MessengerIInv, TypeInv, TypeOK, Msgs
    <3>5. closed => \A m \in wants : completed[m] = 1
      BY <3>2, <3>4
    <3> QED
      BY <3>1, <3>3, <3>5 DEF AnsweredOnce
  <2> QED
    BY <2>1, <2>2, <2>3 DEF MessengerInv
<1> QED
  BY <1>1, Inductive, PTL

=============================================================================
